---------------------------- MODULE Notices_proofs ----------------------------
(***************************************************************************)
(* Proofs about the notifications, from a printer's status and a           *)
(* condition that is seen to an event that is sent: PrinterStatus, for     *)
(* any number of checks, restarts and settings of the backoff;             *)
(* Conditions, for any number of sessions, state rows, settle ticks and    *)
(* upsets; Delivery, for any number of channels, events, attempts, edits   *)
(* and deaths of the process.                                              *)
(***************************************************************************)
EXTENDS MCNotices, Sums

-----------------------------------------------------------------------------
(***************************************************************************)
(* Conditions. One event for each episode is not inductive by itself. It   *)
(* rests on the row being locked by the one transaction that has written   *)
(* it (OneWriter), on what a claim found still being so when it commits    *)
(* (ClaimStands), and on a first sight being raised only by a session      *)
(* that had read the kind as on (RaisedIsOn).                              *)
(***************************************************************************)

\* At most one session has written and not committed.
OneWriter ==
    \A o, p \in Observer :
        session[o].wrote # "nothing" /\ session[p].wrote # "nothing" => o = p

\* The row a session has claimed is there and was not claimed before.
ClaimStands ==
    \A o \in Observer :
        session[o].wrote = "raised" => state # NoState /\ ~state.notified

\* A row is raised at first sight only while its kind is on.
RaisedIsOn == \A o \in Observer : session[o].wrote = "firstRaised" => session[o].on

\* A row that was first seen while its kind was off counts as known.
MutedIsKnown == state # NoState /\ state.muted => state.notified

ConditionsInv ==
    /\ ConditionsTypeOK
    /\ OneEventPerEpisode /\ MutedIsKnown
    /\ OneWriter /\ ClaimStands /\ RaisedIsOn

-----------------------------------------------------------------------------
LEMMA IdleIsSession == IdleSession \in Session /\ IdleSession.wrote = "nothing"
  BY DEF IdleSession, Session

LEMMA RowIsThere ==
    ASSUME ConditionsTypeOK, NEW o \in Observer, session[o].read # NoState, StillThere(o)
    PROVE  state # NoState /\ state \in StateRow
  <1>1. session[o].read \in StateRow
    BY DEF ConditionsTypeOK, Session
  <1>2. state.id \in RowId
    BY <1>1 DEF StillThere, StateRow
  <1>3. NoState.id \notin RowId
    BY ConditionsAssumption DEF NoState
  <1> QED
    BY <1>2, <1>3 DEF ConditionsTypeOK

LEMMA ConditionsStart == ConditionsInit => ConditionsInv
  <1> SUFFICES ASSUME ConditionsInit PROVE ConditionsInv
    OBVIOUS
  <1>1. ConditionsTypeOK
    <2>1. session \in [Observer -> Session]
      BY IdleIsSession DEF ConditionsInit
    <2>2. upsets \in 0..MaxUpsets
      BY ConditionsAssumption DEF ConditionsInit
    <2> QED
      BY <2>1, <2>2 DEF ConditionsInit, ConditionsTypeOK
  <1>2. OneWriter /\ ClaimStands /\ RaisedIsOn
    BY IdleIsSession DEF ConditionsInit, OneWriter, ClaimStands, RaisedIsOn
  <1>3. OneEventPerEpisode /\ MutedIsKnown
    BY DEF ConditionsInit, OneEventPerEpisode, MutedIsKnown
  <1> QED
    BY <1>1, <1>2, <1>3 DEF ConditionsInv

\* A session may always drop what it holds, or hold what it has not written: the
\* row stays as it is.
LEMMA PauseKeeps ==
    ASSUME ConditionsInv, NEW o \in Observer, NEW s \in Session, s.wrote = "nothing",
           session' = [session EXCEPT ![o] = s], state' = state,
           UNCHANGED <<cond, immediate, enabled>>, upsets' \in 0..MaxUpsets
    PROVE  ConditionsInv'
  <1>1. /\ session'[o].wrote = "nothing"
        /\ \A p \in Observer \ {o} : session'[p] = session[p]
    BY DEF ConditionsInv, ConditionsTypeOK
  <1>2. ConditionsTypeOK'
    BY DEF ConditionsInv, ConditionsTypeOK
  <1>3. OneEventPerEpisode' /\ MutedIsKnown'
    BY DEF ConditionsInv, OneEventPerEpisode, MutedIsKnown
  <1>4. OneWriter'
    BY <1>1 DEF ConditionsInv, OneWriter
  <1>5. ClaimStands' /\ RaisedIsOn'
    BY <1>1 DEF ConditionsInv, ClaimStands, RaisedIsOn
  <1> QED
    BY <1>2, <1>3, <1>4, <1>5 DEF ConditionsInv

\* A session that may write the row, and says truly what it wrote.
LEMMA WroteKeeps ==
    ASSUME ConditionsInv, NEW o \in Observer, MayWrite(o),
           NEW what \in {"nothing", "first", "firstRaised", "seen", "raised", "deleted"},
           what = "raised" => state # NoState /\ ~state.notified,
           what = "firstRaised" => session[o].on,
           Wrote(o, what)
    PROVE  ConditionsInv'
  <1> DEFINE new == [session[o] EXCEPT !.pc = "commit", !.wrote = what, !.read = NoState]
  <1>1. session[o] \in Session
    BY DEF ConditionsInv, ConditionsTypeOK
  <1>2. /\ session' = [session EXCEPT ![o] = new]
        /\ UNCHANGED <<cond, immediate, enabled, state, upsets>>
    BY DEF Wrote, ConditionsInv, ConditionsTypeOK
  <1>3. new \in Session /\ new.wrote = what /\ new.on = session[o].on
    BY <1>1 DEF Session
  <1>4. session'[o] = new /\ \A p \in Observer \ {o} : session'[p] = session[p]
    BY <1>2 DEF ConditionsInv, ConditionsTypeOK
  <1> HIDE DEF new
  <1>5. ConditionsTypeOK'
    BY <1>2, <1>3 DEF ConditionsInv, ConditionsTypeOK
  <1>6. OneEventPerEpisode' /\ MutedIsKnown'
    BY <1>2 DEF ConditionsInv, OneEventPerEpisode, MutedIsKnown
  <1>7. OneWriter'
    BY <1>4 DEF MayWrite, OneWriter
  <1>8. ClaimStands'
    BY <1>2, <1>3, <1>4 DEF ConditionsInv, ClaimStands
  <1>9. RaisedIsOn'
    BY <1>3, <1>4 DEF ConditionsInv, RaisedIsOn
  <1> QED
    BY <1>5, <1>6, <1>7, <1>8, <1>9 DEF ConditionsInv

LEMMA AbortKeeps == ASSUME ConditionsInv, NEW o \in Observer, Aborts(o) PROVE ConditionsInv'
  BY PauseKeeps, IdleIsSession DEF Aborts, ConditionsInv, ConditionsTypeOK

LEMMA LookKeeps == ASSUME ConditionsInv, NEW o \in Observer, Look(o) PROVE ConditionsInv'
  <1> DEFINE new == [pc |-> IF cond THEN "observe" ELSE "clear",
                     read |-> state, on |-> enabled, wrote |-> "nothing"]
  <1>1. new \in Session /\ new.wrote = "nothing"
    BY DEF ConditionsInv, ConditionsTypeOK, Session
  <1>2. session' = [session EXCEPT ![o] = new]
    BY DEF Look
  <1>3. /\ state' = state /\ UNCHANGED <<cond, immediate, enabled>>
        /\ upsets' \in 0..MaxUpsets
    BY DEF Look, ConditionsInv, ConditionsTypeOK
  <1> HIDE DEF new
  <1> QED
    BY <1>1, <1>2, <1>3, PauseKeeps

LEMMA ObserveKeeps ==
    ASSUME ConditionsInv, NEW o \in Observer, FirstSight(o) \/ SeenAgain(o) \/ Claim(o)
    PROVE  ConditionsInv'
  <1>1. CASE FirstSight(o)
    <2>1. PICK what \in {"nothing", "first", "firstRaised"} :
              Wrote(o, what) /\ (what = "firstRaised" => session[o].on)
      BY <1>1 DEF FirstSight
    <2> QED
      BY <1>1, <2>1, WroteKeeps DEF FirstSight
  <1>2. CASE SeenAgain(o)
    BY <1>2, WroteKeeps, AbortKeeps DEF SeenAgain
  <1>3. CASE Claim(o)
    <2>1. CASE StillThere(o) /\ ~state.notified
      <3>1. state # NoState
        BY <1>3, <2>1, RowIsThere DEF Claim, ConditionsInv
      <3> QED
        BY <1>3, <2>1, <3>1, WroteKeeps DEF Claim
    <2>2. CASE StillThere(o) /\ state.notified
      BY <1>3, <2>2, WroteKeeps DEF Claim
    <2>3. CASE ~StillThere(o)
      BY <1>3, <2>3, AbortKeeps DEF Claim
    <2> QED
      BY <2>1, <2>2, <2>3
  <1> QED
    BY <1>1, <1>2, <1>3

LEMMA ClearKeeps ==
    ASSUME ConditionsInv, NEW o \in Observer, Clear(o) \/ ClearMissing(o) PROVE ConditionsInv'
  <1>1. CASE Clear(o)
    BY <1>1, WroteKeeps DEF Clear
  <1>2. CASE ClearMissing(o)
    BY <1>2, WroteKeeps DEF ClearMissing
  <1> QED
    BY <1>1, <1>2

\* A row as it is first committed keeps the promise about events.
LEMMA NewStateIsHonest ==
    ASSUME NEW id \in RowId, NEW kindOn \in BOOLEAN, NEW raised \in BOOLEAN, raised => kindOn
    PROVE  LET row == NewState(id, kindOn, raised)
           IN /\ row \in StateRow /\ row # NoState
              /\ row.events = IF row.notified /\ ~row.muted THEN 1 ELSE 0
              /\ row.muted => row.notified
  <1>1. NoState.id \notin RowId
    BY ConditionsAssumption DEF NoState
  <1>2. 0 \in 0..Settle
    BY ConditionsAssumption
  <1>3. NewState(id, kindOn, raised).id = id
    BY DEF NewState
  <1>4. NewState(id, kindOn, raised) \in StateRow
    BY <1>2 DEF NewState, StateRow
  <1> QED
    BY <1>1, <1>3, <1>4 DEF NewState

LEMMA CommitKeeps == ASSUME ConditionsInv, NEW o \in Observer, Commit(o) PROVE ConditionsInv'
  <1> DEFINE wrote == session[o].wrote
             Honest(row) ==
                 /\ row \in StateRow \cup {NoState}
                 /\ row # NoState =>
                        /\ row.events = IF row.notified /\ ~row.muted THEN 1 ELSE 0
                        /\ row.muted => row.notified
  <1>1. /\ session[o] \in Session
        /\ session' = [session EXCEPT ![o] = IdleSession]
        /\ state' \in Written(o)
        /\ UNCHANGED <<cond, immediate, enabled, upsets>>
    BY DEF Commit, ConditionsInv, ConditionsTypeOK
  <1>2. /\ session'[o].wrote = "nothing"
        /\ \A p \in Observer \ {o} : session'[p] = session[p]
    BY <1>1, IdleIsSession DEF ConditionsInv, ConditionsTypeOK
  <1>3. Honest(state)
    BY DEF ConditionsInv, ConditionsTypeOK, OneEventPerEpisode, MutedIsKnown
  <1>4. NewKeys \subseteq RowId
    BY DEF NewKeys
  <1>5. Honest(state')
    <2>1. CASE wrote = "first"
      <3>1. PICK id \in NewKeys : state' = NewState(id, session[o].on, FALSE)
        BY <1>1, <2>1 DEF Written
      <3> QED
        BY <1>1, <1>4, <3>1, NewStateIsHonest DEF Session
    <2>2. CASE wrote = "firstRaised"
      <3>1. PICK id \in NewKeys : state' = NewState(id, session[o].on, TRUE)
        BY <1>1, <2>2 DEF Written
      <3>2. session[o].on
        BY <2>2 DEF ConditionsInv, RaisedIsOn
      <3> QED
        BY <1>1, <1>4, <3>1, <3>2, NewStateIsHonest DEF Session
    <2>3. CASE wrote = "raised"
      <3>1. state' = [state EXCEPT !.notified = TRUE, !.events = @ + 1]
        BY <1>1, <2>3 DEF Written
      <3>2. state \in StateRow /\ ~state.notified /\ ~state.muted /\ state.events = 0
        BY <1>3, <2>3 DEF ConditionsInv, ClaimStands
      <3>3. /\ state' \in StateRow /\ state'.events = 1
            /\ state'.notified /\ ~state'.muted
        <4>1. /\ state.id \in RowId /\ state.age \in 0..Settle
              /\ state.muted \in BOOLEAN /\ state.events + 1 = 1
          BY <3>2 DEF StateRow
        <4>2. state' = [id |-> state.id, age |-> state.age, notified |-> TRUE,
                        muted |-> state.muted, events |-> 1]
          BY <3>1, <3>2, <4>1 DEF StateRow
        <4> QED
          BY <3>2, <4>1, <4>2 DEF StateRow
      <3> QED
        BY <3>3
    <2>4. CASE wrote = "deleted"
      BY <1>1, <2>4 DEF Written
    <2>5. CASE wrote \in {"nothing", "seen"}
      BY <1>1, <1>3, <2>5 DEF Written
    <2> QED
      BY <1>1, <2>1, <2>2, <2>3, <2>4, <2>5 DEF Session
  <1>6. ConditionsTypeOK'
    BY <1>1, <1>5, IdleIsSession DEF ConditionsInv, ConditionsTypeOK
  <1>7. OneEventPerEpisode' /\ MutedIsKnown'
    BY <1>5 DEF OneEventPerEpisode, MutedIsKnown
  <1>8. OneWriter' /\ RaisedIsOn'
    BY <1>2 DEF ConditionsInv, OneWriter, RaisedIsOn
  <1>9. ClaimStands'
    <2>1. CASE wrote = "nothing"
      <3>1. state' = state
        BY <1>1, <2>1 DEF Written
      <3> QED
        BY <1>2, <3>1 DEF ConditionsInv, ClaimStands
    <2>2. CASE wrote # "nothing"
      BY <1>2, <2>2 DEF ConditionsInv, OneWriter, ClaimStands
    <2> QED
      BY <2>1, <2>2
  <1> QED
    BY <1>6, <1>7, <1>8, <1>9 DEF ConditionsInv

LEMMA WorldKeeps ==
    ASSUME ConditionsInv, ConditionChanges \/ SettingChanges \/ SettleTick PROVE ConditionsInv'
  <1>1. CASE ConditionChanges
    BY <1>1 DEF ConditionChanges, ConditionsInv, ConditionsTypeOK, OneEventPerEpisode, MutedIsKnown,
                OneWriter, ClaimStands, RaisedIsOn
  <1>2. CASE SettingChanges
    <2>1. upsets' \in 0..MaxUpsets /\ enabled' \in BOOLEAN
      BY <1>2, ConditionsAssumption DEF SettingChanges, ConditionsInv, ConditionsTypeOK
    <2> QED
      BY <1>2, <2>1 DEF SettingChanges, ConditionsInv, ConditionsTypeOK, OneEventPerEpisode,
                        MutedIsKnown, OneWriter, ClaimStands, RaisedIsOn
  <1>3. CASE SettleTick
    <2>1. /\ state \in StateRow /\ state # NoState
          /\ state' = [state EXCEPT !.age = @ + 1] /\ state.age < Settle
          /\ UNCHANGED <<cond, immediate, enabled, session, upsets>>
      BY <1>3 DEF SettleTick, ConditionsInv, ConditionsTypeOK
    <2>2. /\ state' \in StateRow
          /\ state'.notified = state.notified /\ state'.muted = state.muted
          /\ state'.events = state.events
      BY <2>1, ConditionsAssumption DEF StateRow
    <2>3. state' # NoState
      BY <2>2, ConditionsAssumption DEF NoState, StateRow
    <2>4. ConditionsTypeOK'
      BY <2>1, <2>2 DEF ConditionsInv, ConditionsTypeOK
    <2>5. OneEventPerEpisode' /\ MutedIsKnown'
      BY <2>1, <2>2 DEF ConditionsInv, OneEventPerEpisode, MutedIsKnown
    <2>6. OneWriter' /\ ClaimStands' /\ RaisedIsOn'
      BY <2>1, <2>2, <2>3 DEF ConditionsInv, OneWriter, ClaimStands, RaisedIsOn
    <2> QED
      BY <2>4, <2>5, <2>6 DEF ConditionsInv
  <1> QED
    BY <1>1, <1>2, <1>3

LEMMA RollBackKeeps == ASSUME ConditionsInv, NEW o \in Observer, RollBack(o) PROVE ConditionsInv'
  <1>1. upsets' \in 0..MaxUpsets
    BY ConditionsAssumption DEF RollBack, ConditionsInv, ConditionsTypeOK
  <1> QED
    BY <1>1, PauseKeeps, IdleIsSession DEF RollBack

LEMMA ConditionsAreKept == ASSUME ConditionsInv, [ConditionsNext]_conditionVars PROVE ConditionsInv'
  <1>1. CASE \E o \in Observer : SessionStep(o)
    BY <1>1, LookKeeps, ObserveKeeps, ClearKeeps, CommitKeeps DEF SessionStep, SessionProceeds
  <1>2. CASE \E o \in Observer : RollBack(o)
    BY <1>2, RollBackKeeps
  <1>3. CASE ConditionChanges \/ SettingChanges \/ SettleTick
    BY <1>3, WorldKeeps
  <1>4. CASE UNCHANGED conditionVars
    BY <1>4 DEF conditionVars, ConditionsInv, ConditionsTypeOK, OneEventPerEpisode, MutedIsKnown,
                OneWriter, ClaimStands, RaisedIsOn
  <1> QED
    BY <1>1, <1>2, <1>3, <1>4 DEF ConditionsNext

-----------------------------------------------------------------------------
\* Every variable of Conditions keeps its type, and the invariant holds
\* (observe, clear).
THEOREM ConditionsInvHolds == ConditionsSpec => []ConditionsInv
  <1>1. ConditionsInit => ConditionsInv
    BY ConditionsStart
  <1>2. ConditionsInv /\ [ConditionsNext]_conditionVars => ConditionsInv'
    BY ConditionsAreKept
  <1> QED
    BY <1>1, <1>2, PTL DEF ConditionsSpec

\* One event for each episode, for any number of sessions that observe and clear
\* the condition, and whatever becomes of their transactions (observe).
THEOREM OneEvent == ConditionsSpec => []OneEventPerEpisode
  <1>1. ConditionsInv => OneEventPerEpisode
    BY DEF ConditionsInv
  <1> QED
    BY <1>1, ConditionsInvHolds, PTL

-----------------------------------------------------------------------------
(***************************************************************************)
(* Delivery. A row is never ahead of what the channels answered            *)
(* (RowsAreTrue). What has been answered and not yet written is in the     *)
(* flags of the pass (AnswersAreKept), and then in the row that is         *)
(* written and not committed (WrittenIsTrue).                              *)
(***************************************************************************)

Steady(c) == channels[c] = "steady"

\* A row is not ahead of what the channels answered: nothing is owed when it is
\* delivered, and every attempt it counts is one that a channel has failed.
TrueToAnswers(e, row) ==
    \A c \in Channel :
        Steady(c) =>
            /\ row.delivered => owed[e][c] = 0
            /\ owed[e][c] <= MaxAttempts - row.attempts \/ owed[e][c] = 0

RowsAreTrue == \A e \in Event : TrueToAnswers(e, events[e])

\* A pass goes to every channel that was enabled all the while, and works on
\* events that are raised and not given up, of which the first counts as tried.
PassIsWhole ==
    /\ pass.pc # "idle" => /\ pass.due # {} /\ tries[InHand] > 0
                           /\ \A c \in Channel : Steady(c) => c \in pass.channels
    /\ \A e \in pass.due : ~events[e].delivered /\ events[e].attempts < MaxAttempts
    /\ pass.pc # "commit" => pass.wrote = EmptyFun

\* A channel that has answered the event in hand: it took or refused it, or the
\* failure is held against the attempt, and the flags know.
AnswersAreKept ==
    pass.pc = "send" =>
        \A c \in Channel :
            Steady(c) /\ c \notin pass.left =>
                \/ owed[InHand][c] = 0
                \/ /\ pass.failed /\ pass.retryable
                   /\ owed[InHand][c] < MaxAttempts - events[InHand].attempts

\* What is written and not committed is the row of the event in hand, and true.
WrittenIsTrue ==
    pass.pc = "commit" =>
        /\ DOMAIN pass.wrote = {InHand}
        /\ TrueToAnswers(InHand, pass.wrote[InHand])

DeliveryInv ==
    /\ DeliveryTypeOK
    /\ RowsAreTrue /\ PassIsWhole /\ AnswersAreKept /\ WrittenIsTrue
-----------------------------------------------------------------------------
LEMMA FirstEvent ==
    ASSUME NEW S, S \subseteq Event, S # {} PROVE Min(S) \in S
  <1>0. S \subseteq Nat
    BY DeliveryAssumption DEF Event
  <1>1. PICK x \in S : \A y \in S : <<y, x>> \notin OpToRel(<, Nat)
    BY <1>0, NatLessThanWellFounded, WFMin
  <1>2. \A y \in S : ~(y < x)
    BY <1>0, <1>1 DEF OpToRel
  <1>3. \A y \in S : x <= y
    BY <1>0, <1>2
  <1> QED
    BY <1>1, <1>3 DEF Min

LEMMA PowersAreNumbers == \A k \in Nat : 2^k \in Int
  BY Z3

LEMMA NotBelowZero ==
    ASSUME NEW a \in Int PROVE Max({a, 0}) = IF a >= 0 THEN a ELSE 0
  <1> DEFINE m == IF a >= 0 THEN a ELSE 0
  <1>1. m \in {a, 0} /\ \A y \in {a, 0} : m >= y
    OBVIOUS
  <1>2. \A n \in {a, 0} : (\A y \in {a, 0} : n >= y) => n = m
    OBVIOUS
  <1> HIDE DEF m
  <1>3. Max({a, 0}) = m
    BY <1>1, <1>2 DEF Max
  <1> QED
    BY <1>3 DEF m

LEMMA LessOfTwo ==
    ASSUME NEW a \in Int, NEW b \in Int PROVE Min({a, b}) \in Int /\ Min({a, b}) <= b
  <1> DEFINE m == IF a <= b THEN a ELSE b
  <1>1. m \in {a, b} /\ \A y \in {a, b} : m <= y
    OBVIOUS
  <1>2. \A n \in {a, b} : (\A y \in {a, b} : n <= y) => n = m
    OBVIOUS
  <1> HIDE DEF m
  <1>3. Min({a, b}) = m
    BY <1>1, <1>2 DEF Min
  <1> QED
    BY <1>3 DEF m

LEMMA IdlePassIsPass ==
    /\ IdlePass \in Pass /\ IdlePass.pc = "idle" /\ IdlePass.due = {}
    /\ IdlePass.wrote = EmptyFun /\ EmptyFun \in UNION {[S -> EventRow] : S \in SUBSET Event}
  <1>1. EmptyFun \in [{} -> EventRow]
    BY DEF EmptyFun
  <1>2. {} \in SUBSET Event
    OBVIOUS
  <1>3. EmptyFun \in UNION {[S -> EventRow] : S \in SUBSET Event}
    BY <1>1, <1>2
  <1> HIDE DEF EmptyFun
  <1> QED
    BY <1>3 DEF IdlePass, Pass

LEMMA TakenIsPass ==
    ASSUME NEW p \in Pass, p.wrote = EmptyFun
    PROVE  /\ Take(p) \in Pass /\ Take(p).wrote = EmptyFun /\ Take(p).due = p.due
           /\ Take(p).pc \in {"idle", "send"}
           /\ Take(p).pc = "send" =>
                  p.due # {} /\ Take(p).channels = p.channels /\ Take(p).left = p.channels
  <1>1. CASE p.due = {}
    BY <1>1, IdlePassIsPass DEF Take
  <1>2. CASE p.due # {}
    <2> DEFINE W == UNION {[S -> EventRow] : S \in SUBSET Event}
    <2>1. Take(p) = [p EXCEPT !.pc = "send", !.left = p.channels, !.failed = FALSE,
                              !.retryable = FALSE]
      BY <1>2 DEF Take
    <2>2. p \in [pc: {"idle", "send", "commit"}, channels: SUBSET Channel, broken: SUBSET Channel,
                 due: SUBSET Event, left: SUBSET Channel,
                 failed: BOOLEAN, retryable: BOOLEAN, wrote: W]
      BY DEF Pass
    <2> HIDE DEF W
    <2>3. /\ Take(p) \in [pc: {"idle", "send", "commit"}, channels: SUBSET Channel, broken: SUBSET Channel,
                          due: SUBSET Event, left: SUBSET Channel,
                          failed: BOOLEAN, retryable: BOOLEAN, wrote: W]
          /\ Take(p).wrote = p.wrote /\ Take(p).due = p.due /\ Take(p).pc = "send"
          /\ Take(p).channels = p.channels /\ Take(p).left = p.channels
      BY <2>1, <2>2
    <2> QED
      BY <1>2, <2>3 DEF Pass, W
  <1> QED
    BY <1>1, <1>2

LEMMA TryIsCounted ==
    ASSUME DeliveryTypeOK, NEW p, p.due \subseteq Event, Tried(p)
    PROVE  tries' \in [Event -> Nat] /\ (p.due # {} => tries'[Min(p.due)] > 0)
  <1>1. tries \in [Event -> Nat]
    BY DEF DeliveryTypeOK
  <1>2. CASE p.due = {}
    BY <1>1, <1>2 DEF Tried
  <1>3. CASE p.due # {}
    <2>1. Min(p.due) \in Event
      BY <1>3, FirstEvent
    <2> QED
      BY <1>1, <1>3, <2>1 DEF Tried
  <1> QED
    BY <1>2, <1>3

LEMMA DeliveryStarts == DeliveryInit => DeliveryInv
  <1> SUFFICES ASSUME DeliveryInit PROVE DeliveryInv
    OBVIOUS
  <1>1. /\ MaxAttempts \in Nat /\ BackoffCap \in Nat /\ MaxEdits \in Nat
    BY DeliveryAssumption
  <1>2. NotRaised \in EventRow
    BY <1>1 DEF NotRaised, EventRow, Never
  <1>3. DeliveryTypeOK
    BY <1>1, <1>2, IdlePassIsPass DEF DeliveryInit, DeliveryTypeOK, ChannelState
  <1>4. RowsAreTrue
    BY <1>1 DEF DeliveryInit, RowsAreTrue, TrueToAnswers, NotRaised
  <1>5. PassIsWhole /\ AnswersAreKept /\ WrittenIsTrue
    BY IdlePassIsPass DEF DeliveryInit, PassIsWhole, AnswersAreKept, WrittenIsTrue
  <1> QED
    BY <1>3, <1>4, <1>5 DEF DeliveryInv

-----------------------------------------------------------------------------
(* A pass.                                                                 *)

\* A pass takes the next event in hand: no channel has answered it yet.
LEMMA TakeKeeps ==
    ASSUME DeliveryInv, NEW p \in Pass, p.wrote = EmptyFun, pass' = Take(p), Tried(p),
           UNCHANGED <<on, channels, edits, lost, owed>>,
           events' \in [Event -> EventRow], RowsAreTrue',
           \A e \in p.due : ~events'[e].delivered /\ events'[e].attempts < MaxAttempts,
           \A c \in Channel : Steady(c) => c \in p.channels
    PROVE  DeliveryInv'
  <1>1. p.due \subseteq Event
    BY DEF Pass
  <1>2. /\ pass' \in Pass /\ pass'.wrote = EmptyFun /\ pass'.due = p.due
        /\ pass'.pc \in {"idle", "send"}
        /\ pass'.pc = "send" =>
               p.due # {} /\ pass'.channels = p.channels /\ pass'.left = p.channels
    BY TakenIsPass
  <1>3. tries' \in [Event -> Nat] /\ (p.due # {} => tries'[Min(p.due)] > 0)
    BY <1>1, TryIsCounted DEF DeliveryInv
  <1>4. DeliveryTypeOK'
    BY <1>2, <1>3 DEF DeliveryInv, DeliveryTypeOK
  <1>5. PassIsWhole'
    BY <1>2, <1>3 DEF PassIsWhole, Steady, InHand
  <1>6. AnswersAreKept'
    BY <1>2 DEF AnswersAreKept, Steady
  <1>7. WrittenIsTrue'
    BY <1>2 DEF WrittenIsTrue
  <1> QED
    BY <1>4, <1>5, <1>6, <1>7 DEF DeliveryInv

LEMMA StartPassKeeps == DeliveryInv /\ StartPass => DeliveryInv'
  <1> SUFFICES ASSUME DeliveryInv, StartPass PROVE DeliveryInv'
    OBVIOUS
  <1> DEFINE p == [IdlePass EXCEPT !.channels = {c \in Channel : Enabled(c)},
                                   !.broken = {c \in Channel : channels[c] = "broken"},
                                   !.due = FirstOf(Due)]
  <1>1. /\ pass' = Take(p) /\ Tried(p) /\ UNCHANGED <<on, channels, events, edits, lost, owed>>
    BY DEF StartPass
  <1>2. FirstOf(Due) \subseteq Due /\ Due \subseteq Event
    BY DEF FirstOf, Due
  <1>3. /\ {c \in Channel : Enabled(c)} \subseteq Channel
        /\ {c \in Channel : channels[c] = "broken"} \subseteq Channel
    OBVIOUS
  <1>4. p \in Pass /\ p.wrote = EmptyFun
    BY <1>2, <1>3, IdlePassIsPass DEF Pass
  <1>5. p.due \subseteq Due /\ p.channels = {c \in Channel : Enabled(c)}
    BY <1>2, IdlePassIsPass DEF Pass
  <1> HIDE DEF p
  <1>6. \A e \in p.due : ~events[e].delivered /\ events[e].attempts < MaxAttempts
    BY <1>5 DEF Due
  <1>7. \A c \in Channel : Steady(c) => c \in p.channels
    BY <1>5 DEF Steady, Enabled
  <1>8. events' \in [Event -> EventRow] /\ RowsAreTrue'
    BY <1>1 DEF DeliveryInv, DeliveryTypeOK, RowsAreTrue, TrueToAnswers, Steady
  <1> QED
    BY <1>1, <1>4, <1>5, <1>6, <1>7, <1>8, TakeKeeps

LEMMA CommitPassKeeps == DeliveryInv /\ CommitPass => DeliveryInv'
  <1> SUFFICES ASSUME DeliveryInv, CommitPass PROVE DeliveryInv'
    OBVIOUS
  <1> USE DEF DeliveryInv
  <1> DEFINE p == [pass EXCEPT !.due = @ \ {InHand}, !.wrote = EmptyFun]
             W == UNION {[S -> EventRow] : S \in SUBSET Event}
  <1>1. /\ pass.pc = "commit" /\ events' = [e \in Event |-> Row(e)]
        /\ pass' = Take(p) /\ Tried(p) /\ UNCHANGED <<on, channels, edits, lost, owed>>
    BY DEF CommitPass
  <1>2. pass \in [pc: {"idle", "send", "commit"}, channels: SUBSET Channel, broken: SUBSET Channel,
                  due: SUBSET Event, left: SUBSET Channel,
                  failed: BOOLEAN, retryable: BOOLEAN, wrote: W]
    BY DEF DeliveryTypeOK, Pass
  <1>3. EmptyFun \in W
    BY IdlePassIsPass
  <1> HIDE DEF W
  <1>4. /\ p \in [pc: {"idle", "send", "commit"}, channels: SUBSET Channel, broken: SUBSET Channel,
                  due: SUBSET Event, left: SUBSET Channel,
                  failed: BOOLEAN, retryable: BOOLEAN, wrote: W]
        /\ p.wrote = EmptyFun /\ p.due = pass.due \ {InHand} /\ p.channels = pass.channels
    BY <1>2, <1>3
  <1>5. p \in Pass
    BY <1>4 DEF Pass, W
  <1> HIDE DEF p
  <1>6. InHand \in Event /\ pass.due \subseteq Event
    BY <1>1, <1>2, FirstEvent DEF PassIsWhole, InHand
  <1>7. \A e \in Event : events'[e] = IF e = InHand THEN pass.wrote[e] ELSE events[e]
    BY <1>1 DEF WrittenIsTrue, Row
  <1>8. pass.wrote[InHand] \in EventRow
    BY <1>1, <1>2 DEF WrittenIsTrue, W
  <1>9. events' \in [Event -> EventRow]
    BY <1>1, <1>7, <1>8 DEF DeliveryTypeOK
  <1>10. RowsAreTrue'
    <2>1. \A e \in Event : TrueToAnswers(e, events'[e])
      BY <1>1, <1>7 DEF RowsAreTrue, WrittenIsTrue
    <2> QED
      BY <1>1, <2>1 DEF RowsAreTrue, TrueToAnswers, Steady
  <1>11. \A e \in p.due : ~events'[e].delivered /\ events'[e].attempts < MaxAttempts
    BY <1>4, <1>6, <1>7 DEF PassIsWhole
  <1>12. \A c \in Channel : Steady(c) => c \in p.channels
    BY <1>1, <1>4 DEF PassIsWhole
  <1> QED
    BY <1>1, <1>4, <1>5, <1>9, <1>10, <1>11, <1>12, TakeKeeps

\* A channel answers: it is owed less, and a failure of it is remembered.
LEMMA AnswerKeeps ==
    ASSUME DeliveryInv, NEW c \in Channel, SendSucceeds(c) \/ SendFails(c) \/ SendRefused(c)
    PROVE  DeliveryInv'
  <1> USE DEF DeliveryInv
  <1>0. /\ pass.pc = "send" /\ c \in pass.left /\ MaxAttempts \in Nat
        /\ UNCHANGED <<on, channels, events, edits, lost, tries>>
    BY DeliveryAssumption DEF SendSucceeds, SendFails, SendRefused, Answered
  <1> DEFINE W == UNION {[S -> EventRow] : S \in SUBSET Event}
  <1>1. pass \in [pc: {"idle", "send", "commit"}, channels: SUBSET Channel, broken: SUBSET Channel,
                  due: SUBSET Event, left: SUBSET Channel,
                  failed: BOOLEAN, retryable: BOOLEAN, wrote: W]
    BY DEF DeliveryTypeOK, Pass
  <1> HIDE DEF W
  <1>2. InHand \in Event /\ InHand \in pass.due
    BY <1>0, <1>1, FirstEvent DEF PassIsWhole, InHand
  <1>3. owed \in [Event -> [Channel -> 0..MaxAttempts]] /\ events \in [Event -> EventRow]
    BY DEF DeliveryTypeOK
  <1>4. PICK owing \in 0..MaxAttempts, failed \in BOOLEAN, retryable \in BOOLEAN :
            /\ pass' = [pass EXCEPT !.left = @ \ {c}, !.failed = failed,
                                    !.retryable = retryable]
            /\ owed' = [owed EXCEPT ![InHand][c] = owing]
            /\ owing <= owed[InHand][c]
            /\ pass.failed => failed
            /\ pass.retryable => retryable
            /\ \/ owing = 0
               \/ owing = owed[InHand][c] - 1 /\ failed /\ retryable
    <2>0. 0 \in 0..MaxAttempts /\ 0 <= owed[InHand][c]
      BY <1>0, <1>2, <1>3
    <2>1. CASE SendSucceeds(c)
      <3>1. pass' = [pass EXCEPT !.left = @ \ {c}, !.failed = pass.failed,
                                 !.retryable = pass.retryable]
        BY <1>1, <2>1 DEF SendSucceeds
      <3>2. owed' = [owed EXCEPT ![InHand][c] = 0]
        BY <2>1 DEF SendSucceeds, Answered
      <3> QED
        BY <1>1, <2>0, <3>1, <3>2
    <2>2. CASE SendFails(c)
      <3> DEFINE owing == Max({owed[InHand][c] - 1, 0})
      <3>1. owing = IF owed[InHand][c] - 1 >= 0 THEN owed[InHand][c] - 1 ELSE 0
        <4>1. owed[InHand][c] - 1 \in Int
          BY <1>2, <1>3, <1>0
        <4> QED
          BY <4>1, NotBelowZero, Zenon
      <3>2. owed' = [owed EXCEPT ![InHand][c] = owing]
        BY <2>2 DEF SendFails, Answered
      <3> HIDE DEF owing
      <3>3. owing \in 0..MaxAttempts /\ owing <= owed[InHand][c]
        BY <1>0, <1>2, <1>3, <3>1
      <3> QED
        BY <2>2, <3>1, <3>2, <3>3 DEF SendFails
    <2>3. CASE SendRefused(c)
      <3>1. pass' = [pass EXCEPT !.left = @ \ {c}, !.failed = TRUE,
                                 !.retryable = pass.retryable]
        BY <1>1, <2>3 DEF SendRefused
      <3>2. owed' = [owed EXCEPT ![InHand][c] = 0]
        BY <2>3 DEF SendRefused, Answered
      <3> QED
        BY <1>1, <2>0, <3>1, <3>2
    <2> QED
      BY <2>1, <2>2, <2>3
  <1>5. /\ pass' \in [pc: {"idle", "send", "commit"}, channels: SUBSET Channel, broken: SUBSET Channel,
                      due: SUBSET Event, left: SUBSET Channel,
                      failed: BOOLEAN, retryable: BOOLEAN, wrote: W]
        /\ pass'.pc = "send" /\ pass'.channels = pass.channels /\ pass'.due = pass.due
        /\ pass'.left = pass.left \ {c} /\ pass'.failed = failed
        /\ pass'.retryable = retryable /\ pass'.wrote = pass.wrote
    BY <1>0, <1>1, <1>4
  <1>6. /\ owed' \in [Event -> [Channel -> 0..MaxAttempts]]
        /\ owed'[InHand][c] = owing
        /\ \A e \in Event, d \in Channel :
               \/ owed'[e][d] = owed[e][d]
               \/ e = InHand /\ d = c
        /\ \A e \in Event, d \in Channel : owed'[e][d] <= owed[e][d]
    BY <1>2, <1>3, <1>4, <1>0
  <1>7. DeliveryTypeOK'
    BY <1>0, <1>5, <1>6 DEF DeliveryTypeOK, Pass, W
  <1>8. RowsAreTrue'
    <2> SUFFICES ASSUME NEW e \in Event, NEW d \in Channel, Steady(d)
                 PROVE  /\ events[e].delivered => owed'[e][d] = 0
                        /\ owed'[e][d] <= MaxAttempts - events[e].attempts \/ owed'[e][d] = 0
      BY <1>0 DEF RowsAreTrue, TrueToAnswers, Steady
    <2>1. /\ events[e].delivered => owed[e][d] = 0
          /\ owed[e][d] <= MaxAttempts - events[e].attempts \/ owed[e][d] = 0
      BY DEF RowsAreTrue, TrueToAnswers
    <2>2. /\ owed'[e][d] \in Nat /\ owed[e][d] \in Nat /\ owed'[e][d] <= owed[e][d]
          /\ events[e].attempts \in Nat
      BY <1>3, <1>6, <1>0 DEF EventRow
    <2> QED
      BY <1>0, <2>1, <2>2
  <1>9. PassIsWhole'
    BY <1>0, <1>5 DEF PassIsWhole, Steady, InHand
  <1>10. AnswersAreKept'
    <2> SUFFICES ASSUME NEW d \in Channel, Steady(d), d \notin pass.left \ {c}
                 PROVE  \/ owed'[InHand][d] = 0
                        \/ /\ failed /\ retryable
                           /\ owed'[InHand][d] < MaxAttempts - events[InHand].attempts
      BY <1>0, <1>5 DEF AnswersAreKept, Steady, InHand
    <2>1. CASE d # c
      BY <1>0, <1>2, <1>4, <1>6, <2>1 DEF AnswersAreKept
    <2>2. CASE d = c
      <3>1. /\ owed[InHand][c] <= MaxAttempts - events[InHand].attempts
               \/ owed[InHand][c] = 0
            /\ owed[InHand][c] \in Nat /\ events[InHand].attempts \in Nat
        BY <1>0, <1>2, <1>3, <2>2 DEF RowsAreTrue, TrueToAnswers, EventRow
      <3> QED
        BY <1>0, <1>4, <1>6, <2>2, <3>1
    <2> QED
      BY <2>1, <2>2
  <1>11. WrittenIsTrue'
    BY <1>5 DEF WrittenIsTrue
  <1> QED
    BY <1>7, <1>8, <1>9, <1>10, <1>11

\* What is judged of the event in hand is true to what every channel answered.
LEMMA JudgeKeeps == DeliveryInv /\ Judge => DeliveryInv'
  <1> SUFFICES ASSUME DeliveryInv, Judge PROVE DeliveryInv'
    OBVIOUS
  <1> USE DEF DeliveryInv
  <1> DEFINE W == UNION {[S -> EventRow] : S \in SUBSET Event}
  <1>1. /\ pass \in [pc: {"idle", "send", "commit"}, channels: SUBSET Channel, broken: SUBSET Channel,
                     due: SUBSET Event, left: SUBSET Channel,
                     failed: BOOLEAN, retryable: BOOLEAN, wrote: W]
        /\ events \in [Event -> EventRow] /\ MaxAttempts \in Nat /\ BackoffCap \in Nat
        /\ owed \in [Event -> [Channel -> 0..MaxAttempts]]
    BY DeliveryAssumption DEF DeliveryTypeOK, Pass
  <1>2. /\ pass.pc = "send" /\ pass.left = {} /\ pass.wrote = EmptyFun
        /\ UNCHANGED <<on, channels, events, edits, lost, tries, owed>>
    BY DEF Judge, PassIsWhole
  <1>3. InHand \in Event /\ InHand \in pass.due
    BY <1>1, <1>2, FirstEvent DEF PassIsWhole, InHand
  <1>4. DOMAIN pass.wrote = {}
    BY <1>2 DEF EmptyFun
  <1>5. Row(InHand) = events[InHand]
    BY <1>4 DEF Row
  <1>6. PICK row \in Judged(events[InHand]) :
            pass' = [pass EXCEPT !.pc = "commit",
                                 !.wrote = [e \in DOMAIN @ \cup {InHand} |->
                                               IF e = InHand THEN row ELSE @[e]]]
    BY <1>5 DEF Judge
  <1>7. /\ events[InHand] \in EventRow /\ events[InHand].attempts \in 0..MaxAttempts
        /\ events[InHand].attempts < MaxAttempts /\ ~events[InHand].delivered
    BY <1>1, <1>3 DEF PassIsWhole, EventRow
  <1>8. row \in EventRow /\ TrueToAnswers(InHand, row)
    <2> DEFINE old == events[InHand]
               n == old.attempts + 1
    <2>1. n \in 0..MaxAttempts /\ n \in Nat
      BY <1>1, <1>7
    <2>2. \A c \in Channel :
              Steady(c) => \/ owed[InHand][c] = 0
                           \/ /\ pass.failed /\ pass.retryable
                              /\ owed[InHand][c] <= MaxAttempts - n
      BY <1>1, <1>2, <1>3, <1>7 DEF AnswersAreKept
    <2>3. CASE ~pass.failed
      <3>1. row = [old EXCEPT !.attempts = n, !.delivered = TRUE]
        BY <1>6, <2>3 DEF Judged
      <3>2. row \in EventRow
        BY <1>7, <2>1, <3>1 DEF EventRow
      <3> QED
        BY <2>2, <2>3, <3>2 DEF TrueToAnswers
    <2>4. CASE pass.failed /\ ~pass.retryable
      <3>1. row = [old EXCEPT !.attempts = MaxAttempts, !.wait = Never]
        BY <1>6, <2>4 DEF Judged
      <3>2. MaxAttempts \in 0..MaxAttempts /\ Never \in Never..BackoffCap
        BY <1>1 DEF Never
      <3>3. row \in EventRow /\ row.attempts = MaxAttempts /\ ~row.delivered
        BY <1>7, <3>1, <3>2 DEF EventRow
      <3> QED
        BY <2>2, <2>4, <3>3 DEF TrueToAnswers
    <2>5. CASE pass.failed /\ pass.retryable
      <3>1. PICK w \in 0..BackoffDelay(n) : row = [old EXCEPT !.attempts = n, !.wait = w]
        BY <1>6, <2>5 DEF Judged
      <3>2. w \in Never..BackoffCap
        <4>1. n - 1 \in Nat
          BY <1>7
        <4>2. 2^(n - 1) \in Int
          BY <4>1, PowersAreNumbers, Zenon
        <4>3. PICK k \in Int : BackoffDelay(n) = Min({k, BackoffCap})
          BY <4>2 DEF BackoffDelay
        <4>4. BackoffDelay(n) \in Int /\ BackoffDelay(n) <= BackoffCap
          <5>1. BackoffCap \in Int
            BY <1>1
          <5>2. Min({k, BackoffCap}) \in Int /\ Min({k, BackoffCap}) <= BackoffCap
            BY <5>1, LessOfTwo, Zenon
          <5> QED
            BY <4>3, <5>2
        <4> QED
          BY <1>1, <4>4 DEF Never
      <3>3. row \in EventRow /\ row.attempts = n /\ ~row.delivered
        BY <1>7, <2>1, <3>1, <3>2 DEF EventRow
      <3> QED
        BY <2>2, <3>3 DEF TrueToAnswers
    <2> QED
      BY <2>3, <2>4, <2>5
  <1> DEFINE wrote == [e \in {InHand} |-> row]
  <1>9. pass' = [pass EXCEPT !.pc = "commit", !.wrote = wrote]
    <2>1. [e \in DOMAIN pass.wrote \cup {InHand} |->
               IF e = InHand THEN row ELSE pass.wrote[e]] = wrote
      BY <1>4
    <2> QED
      BY <1>1, <1>6, <2>1
  <1>10. wrote \in W /\ DOMAIN wrote = {InHand} /\ wrote[InHand] = row
    <2>1. wrote \in [{InHand} -> EventRow] /\ {InHand} \in SUBSET Event
      BY <1>3, <1>8
    <2> QED
      BY <2>1
  <1> HIDE DEF wrote, W
  <1>11. /\ pass' \in [pc: {"idle", "send", "commit"}, channels: SUBSET Channel, broken: SUBSET Channel,
                       due: SUBSET Event, left: SUBSET Channel,
                       failed: BOOLEAN, retryable: BOOLEAN, wrote: W]
         /\ pass'.pc = "commit" /\ pass'.channels = pass.channels /\ pass'.due = pass.due
         /\ pass'.wrote = wrote
    BY <1>1, <1>9, <1>10
  <1>12. DeliveryTypeOK'
    BY <1>2, <1>11 DEF DeliveryTypeOK, Pass, W
  <1>13. RowsAreTrue'
    BY <1>2 DEF RowsAreTrue, TrueToAnswers, Steady
  <1>14. PassIsWhole' /\ AnswersAreKept'
    BY <1>2, <1>11 DEF PassIsWhole, AnswersAreKept, Steady, InHand
  <1>15. WrittenIsTrue'
    BY <1>2, <1>8, <1>10, <1>11 DEF WrittenIsTrue, TrueToAnswers, Steady, InHand
  <1> QED
    BY <1>12, <1>13, <1>14, <1>15

\* A pass that is lost leaves the rows as they are.
LEMMA LossKeeps == DeliveryInv /\ (CommitFails \/ ProcessDies) => DeliveryInv'
  <1> SUFFICES ASSUME DeliveryInv, CommitFails \/ ProcessDies PROVE DeliveryInv'
    OBVIOUS
  <1>1. /\ pass' = IdlePass /\ lost' = lost + 1
        /\ UNCHANGED <<on, channels, events, edits, tries, owed>>
    BY DEF CommitFails, ProcessDies
  <1>2. DeliveryTypeOK'
    BY <1>1, IdlePassIsPass DEF DeliveryInv, DeliveryTypeOK
  <1> QED
    BY <1>1, <1>2, IdlePassIsPass
    DEF DeliveryInv, RowsAreTrue, TrueToAnswers, Steady, PassIsWhole, AnswersAreKept,
        WrittenIsTrue

\* A send that raises: the history counts the pass as lost or the try as none.
LEMMA RaiseKeeps == ASSUME DeliveryInv, NEW c \in Channel, SendRaises(c) PROVE DeliveryInv'
  <1>1. /\ pass' = IdlePass /\ pass.pc = "send"
        /\ UNCHANGED <<on, channels, events, edits, owed>>
    BY DEF SendRaises
  <1>2. lost' \in Nat /\ tries' \in [Event -> Nat]
    <2>1. lost \in Nat /\ tries \in [Event -> Nat]
      BY DEF DeliveryInv, DeliveryTypeOK
    <2>2. CASE lost < MaxLost
      BY <2>1, <2>2 DEF SendRaises
    <2>3. CASE ~(lost < MaxLost)
      <3>1. lost' = lost /\ tries' = [tries EXCEPT ![InHand] = @ - 1]
        BY <2>3 DEF SendRaises
      <3>2. InHand \in Event /\ tries[InHand] > 0
        BY <1>1, FirstEvent DEF DeliveryInv, DeliveryTypeOK, Pass, PassIsWhole, InHand
      <3>3. tries[InHand] - 1 \in Nat
        BY <2>1, <3>2
      <3> QED
        BY <2>1, <3>1, <3>2, <3>3
    <2> QED
      BY <2>2, <2>3
  <1>3. DeliveryTypeOK'
    BY <1>1, <1>2, IdlePassIsPass DEF DeliveryInv, DeliveryTypeOK
  <1> QED
    BY <1>1, <1>3, IdlePassIsPass
    DEF DeliveryInv, RowsAreTrue, TrueToAnswers, Steady, PassIsWhole, AnswersAreKept,
        WrittenIsTrue

-----------------------------------------------------------------------------
(* Everything else.                                                        *)

\* Being raised and waiting changes nothing that a row says of the answers.
LEMMA EventsKeep ==
    ASSUME DeliveryInv, RetryTick \/ \E e \in Event : RaiseEvent(e)
    PROVE  DeliveryInv'
  <1>0. /\ events \in [Event -> EventRow] /\ BackoffCap \in Nat
        /\ UNCHANGED <<on, channels, pass, edits, lost, tries, owed>>
    BY DeliveryAssumption DEF DeliveryInv, DeliveryTypeOK, RetryTick, RaiseEvent
  <1>1. /\ events' \in [Event -> EventRow]
        /\ \A e \in Event : /\ events'[e].delivered = events[e].delivered
                            /\ events'[e].attempts = events[e].attempts
    <2>1. CASE RetryTick
      <3>1. \A e \in Event :
                events'[e] = IF events[e].wait > 0 THEN [events[e] EXCEPT !.wait = @ - 1]
                             ELSE events[e]
        BY <2>1 DEF RetryTick
      <3>2. ASSUME NEW e \in Event
            PROVE  /\ events'[e] \in EventRow
                   /\ events'[e].delivered = events[e].delivered
                   /\ events'[e].attempts = events[e].attempts
        <4>1. events[e] \in EventRow
          BY <1>0
        <4>2. CASE events[e].wait > 0
          <5>1. events[e].wait - 1 \in Never..BackoffCap
            BY <1>0, <4>1, <4>2 DEF EventRow, Never
          <5> QED
            BY <3>1, <4>1, <4>2, <5>1 DEF EventRow
        <4>3. CASE ~(events[e].wait > 0)
          BY <3>1, <4>1, <4>3
        <4> QED
          BY <4>2, <4>3
      <3>3. events' = [e \in Event |-> events'[e]]
        BY <2>1 DEF RetryTick
      <3> QED
        BY <3>2, <3>3
    <2>2. CASE \E e \in Event : RaiseEvent(e)
      <3>1. PICK e \in Event :
                events' = [events EXCEPT ![e].raised = TRUE, ![e].wait = 0]
        BY <2>2 DEF RaiseEvent
      <3> DEFINE row == [events[e] EXCEPT !.raised = TRUE, !.wait = 0]
      <3>2. events' = [events EXCEPT ![e] = row]
        BY <1>0, <3>1
      <3>3. row \in EventRow /\ row.delivered = events[e].delivered
            /\ row.attempts = events[e].attempts
        <4>1. 0 \in Never..BackoffCap
          BY <1>0 DEF Never
        <4> QED
          BY <1>0, <4>1 DEF EventRow
      <3> HIDE DEF row
      <3> QED
        BY <1>0, <3>2, <3>3
    <2> QED
      BY <2>1, <2>2
  <1>2. DeliveryTypeOK'
    BY <1>0, <1>1 DEF DeliveryInv, DeliveryTypeOK
  <1>3. RowsAreTrue'
    BY <1>0, <1>1 DEF DeliveryInv, RowsAreTrue, TrueToAnswers, Steady
  <1>4. pass.due \subseteq Event
    BY DEF DeliveryInv, DeliveryTypeOK, Pass
  <1>5. PassIsWhole'
    BY <1>0, <1>1, <1>4 DEF DeliveryInv, PassIsWhole, Steady, InHand
  <1>6. pass.pc = "send" => InHand \in Event
    BY <1>4, FirstEvent DEF DeliveryInv, PassIsWhole, InHand
  <1>7. AnswersAreKept'
    BY <1>0, <1>1, <1>6 DEF DeliveryInv, AnswersAreKept, Steady, InHand
  <1>8. WrittenIsTrue'
    BY <1>0 DEF DeliveryInv, WrittenIsTrue, TrueToAnswers, Steady, InHand
  <1> QED
    BY <1>2, <1>3, <1>5, <1>7, <1>8 DEF DeliveryInv

\* A channel that was edited is not owed every event any more.
LEMMA EditsKeep ==
    ASSUME DeliveryInv,
           \/ UpdateNotificationSettings
           \/ \E c \in Channel : UpdateChannel(c) \/ DeleteChannel(c)
    PROVE  DeliveryInv'
  <1>0. /\ UNCHANGED <<events, pass, lost, tries, owed>>
        /\ edits < MaxEdits /\ edits' = edits + 1
    BY DEF UpdateNotificationSettings, UpdateChannel, DeleteChannel
  <1>1. edits' \in 0..MaxEdits
    BY <1>0, DeliveryAssumption DEF DeliveryInv, DeliveryTypeOK
  <1>2. /\ on' \in BOOLEAN /\ channels' \in [Channel -> ChannelState]
        /\ \A c \in Channel : Steady(c)' => Steady(c)
    <2>1. on \in BOOLEAN /\ channels \in [Channel -> ChannelState]
      BY DEF DeliveryInv, DeliveryTypeOK
    <2>2. CASE UpdateNotificationSettings
      BY <2>1, <2>2 DEF UpdateNotificationSettings, Steady
    <2>3. CASE \E c \in Channel : UpdateChannel(c) \/ DeleteChannel(c)
      <3>1. PICK c \in Channel, to \in {"on", "broken", "off", "deleted"} :
                channels' = [channels EXCEPT ![c] = to] /\ on' = on
        BY <2>3 DEF UpdateChannel, DeleteChannel
      <3> QED
        BY <2>1, <3>1 DEF Steady, ChannelState
    <2> QED
      BY <2>2, <2>3
  <1>3. DeliveryTypeOK'
    BY <1>0, <1>1, <1>2 DEF DeliveryInv, DeliveryTypeOK
  <1>4. \A e, row : TrueToAnswers(e, row) => TrueToAnswers(e, row)'
    BY <1>0, <1>2 DEF TrueToAnswers
  <1>5. RowsAreTrue' /\ WrittenIsTrue'
    BY <1>0, <1>2 DEF DeliveryInv, RowsAreTrue, WrittenIsTrue, TrueToAnswers, InHand
  <1>6. PassIsWhole' /\ AnswersAreKept'
    BY <1>0, <1>2 DEF DeliveryInv, PassIsWhole, AnswersAreKept, InHand
  <1> QED
    BY <1>3, <1>5, <1>6 DEF DeliveryInv

LEMMA DeliveryIsKept == DeliveryInv /\ [DeliveryNext]_deliveryVars => DeliveryInv'
  <1> SUFFICES ASSUME DeliveryInv, [DeliveryNext]_deliveryVars PROVE DeliveryInv'
    OBVIOUS
  <1>1. CASE UNCHANGED deliveryVars
    BY <1>1
    DEF deliveryVars, DeliveryInv, DeliveryTypeOK, RowsAreTrue, PassIsWhole, AnswersAreKept,
        WrittenIsTrue, TrueToAnswers, Steady, InHand
  <1>2. CASE DeliveryNext
    BY <1>2, StartPassKeeps, CommitPassKeeps, AnswerKeeps, RaiseKeeps, JudgeKeeps, LossKeeps,
       EventsKeep, EditsKeep
    DEF DeliveryNext, PassStep
  <1> QED
    BY <1>1, <1>2

\* No row is ahead of what the channels answered, also while it is written and
\* not committed, whenever a pass is lost (deliver_pending).
THEOREM DeliveryInvHolds == DeliverySpec => []DeliveryInv
  BY DeliveryStarts, DeliveryIsKept, PTL DEF DeliverySpec

\* An event that is done with has reached every channel that was enabled all the
\* while, or that channel refused it or failed MaxAttempts times: for any number
\* of channels, events, attempts, edits and deaths of the process (deliver_pending,
\* the retryable flag).
THEOREM EveryChannelIsTried == DeliverySpec => []NoChannelIsSkipped
  <1>1. ASSUME DeliveryInv, NEW e \in Event, NEW c \in Channel, Settled(e), Steady(c)
        PROVE  owed[e][c] = 0
    <2>1. /\ owed[e][c] \in 0..MaxAttempts /\ MaxAttempts \in Nat
          /\ events[e].delivered => owed[e][c] = 0
          /\ owed[e][c] <= MaxAttempts - events[e].attempts \/ owed[e][c] = 0
      BY <1>1, DeliveryAssumption DEF DeliveryInv, DeliveryTypeOK, RowsAreTrue, TrueToAnswers
    <2> QED
      BY <1>1, <2>1 DEF Settled
  <1>2. DeliveryInv => NoChannelIsSkipped
    BY <1>1 DEF NoChannelIsSkipped, Steady
  <1> QED
    BY <1>2, DeliveryInvHolds, PTL

-----------------------------------------------------------------------------
(***************************************************************************)
(* Tries that no row counts. A row counts every try of its event but the   *)
(* one in hand and those that were lost with the process, a transaction    *)
(* or an edit: the sum of what the rows do not count is at most the        *)
(* number of losses, and one more while a pass has an event in hand        *)
(* (UncountedAreLost).                                                     *)
(***************************************************************************)

\* How many tries of each event its row does not count.
Behind == [e \in Event |-> IF tries[e] > events[e].attempts
                           THEN tries[e] - events[e].attempts ELSE 0]

\* A row that is not given up counts no more than was tried.
RowsCountTries ==
    /\ \A e \in Event :
           events[e].attempts < MaxAttempts => events[e].attempts <= tries[e]
    /\ pass.pc = "commit" /\ pass.wrote[InHand].attempts < MaxAttempts =>
           pass.wrote[InHand].attempts <= tries[InHand]

\* The event in hand has a try that its row does not count, until it is written.
TryInHand ==
    /\ pass.pc # "idle" => events[InHand].attempts < tries[InHand]
    /\ pass.pc = "commit" => events[InHand].attempts < pass.wrote[InHand].attempts

UncountedAreLost ==
    Total(Behind, Event) <= lost + IF pass.pc = "idle" THEN 0 ELSE 1

CrashInv == RowsCountTries /\ TryInHand /\ UncountedAreLost
-----------------------------------------------------------------------------
LEMMA EventsAreFinite == IsFiniteSet(Event)
  BY DeliveryAssumption, FS_Interval DEF Event

LEMMA RowTypes ==
    ASSUME DeliveryInv
    PROVE  /\ events \in [Event -> EventRow] /\ tries \in [Event -> Nat] /\ lost \in Nat
           /\ MaxAttempts \in Nat /\ \A e \in Event : events[e].attempts \in Nat
           /\ pass.due \subseteq Event /\ pass.pc \in {"idle", "send", "commit"}
           /\ pass.pc # "idle" => InHand \in Event /\ InHand \in pass.due
           /\ pass.pc = "commit" => /\ DOMAIN pass.wrote = {InHand}
                                    /\ pass.wrote[InHand] \in EventRow
                                    /\ pass.wrote[InHand].attempts \in Nat
           /\ pass.pc # "commit" => DOMAIN pass.wrote = {}
  <1> USE DEF DeliveryInv
  <1> DEFINE W == UNION {[S -> EventRow] : S \in SUBSET Event}
  <1>1. /\ pass \in [pc: {"idle", "send", "commit"}, channels: SUBSET Channel, broken: SUBSET Channel,
                     due: SUBSET Event, left: SUBSET Channel,
                     failed: BOOLEAN, retryable: BOOLEAN, wrote: W]
        /\ events \in [Event -> EventRow] /\ MaxAttempts \in Nat
        /\ tries \in [Event -> Nat] /\ lost \in Nat
    BY DeliveryAssumption DEF DeliveryTypeOK, Pass
  <1>2. \A row \in EventRow : row.attempts \in Nat
    BY <1>1 DEF EventRow
  <1>3. pass.pc # "idle" => InHand \in Event /\ InHand \in pass.due
    BY <1>1, FirstEvent DEF PassIsWhole, InHand
  <1>4. pass.pc = "commit" => DOMAIN pass.wrote = {InHand} /\ pass.wrote[InHand] \in EventRow
    BY <1>1 DEF WrittenIsTrue
  <1>5. pass.pc # "commit" => DOMAIN pass.wrote = {}
    BY DEF PassIsWhole, EmptyFun
  <1> HIDE DEF W
  <1> QED
    BY <1>1, <1>2, <1>3, <1>4, <1>5

\* The sum does not change with what a row says besides its attempts.
LEMMA BehindIsNat ==
    ASSUME DeliveryInv
    PROVE  /\ \A e \in Event : Behind[e] \in Nat
           /\ Total(Behind, Event) \in Nat
  <1>1. \A e \in Event : Behind[e] \in Nat
    BY RowTypes DEF Behind
  <1> QED
    BY <1>1, EventsAreFinite, SumIsNat

LEMMA CrashStarts == DeliveryInit => CrashInv
  <1> SUFFICES ASSUME DeliveryInit PROVE CrashInv
    OBVIOUS
  <1>1. DeliveryInv
    BY DeliveryStarts
  <1>2. pass.pc = "idle" /\ lost = 0
    BY IdlePassIsPass DEF DeliveryInit
  <1>3. RowsCountTries /\ TryInHand
    BY <1>2, DeliveryAssumption DEF DeliveryInit, RowsCountTries, TryInHand, NotRaised
  <1>4. \A e \in Event : Behind[e] \in Int /\ Behind[e] <= 0
    BY DEF DeliveryInit, Behind, NotRaised
  <1>5. Total(Behind, Event) <= 0 * Cardinality(Event)
    BY <1>4, EventsAreFinite, SumIsBounded
  <1>6. Cardinality(Event) \in Nat
    BY EventsAreFinite, FS_CardinalityType
  <1>7. UncountedAreLost
    BY <1>1, <1>2, <1>5, <1>6, BehindIsNat DEF UncountedAreLost
  <1> QED
    BY <1>3, <1>7 DEF CrashInv

\* Nothing but the waits and the answers change.
LEMMA NothingCounted ==
    ASSUME DeliveryInv, DeliveryInv', CrashInv, UNCHANGED <<tries, lost>>,
           \A e \in Event : events'[e].attempts = events[e].attempts,
           pass'.pc = pass.pc, pass'.due = pass.due,
           pass.pc = "commit" => pass'.wrote = pass.wrote
    PROVE  CrashInv'
  <1>1. InHand' = InHand
    BY DEF InHand
  <1>2. RowsCountTries' /\ TryInHand'
    BY <1>1, RowTypes DEF CrashInv, RowsCountTries, TryInHand
  <1>3. \A e \in Event : Behind'[e] = Behind[e] /\ Behind[e] \in Int
    BY BehindIsNat DEF Behind
  <1>4. Total(Behind', Event) = Total(Behind, Event)
    BY <1>3, EventsAreFinite, SumsAgree
  <1>5. UncountedAreLost'
    BY <1>4 DEF CrashInv, UncountedAreLost
  <1> QED
    BY <1>2, <1>5 DEF CrashInv

\* The next event is taken in hand, when all that were tried before are counted
\* but for the passes that were lost.
LEMMA TakeCounts ==
    ASSUME DeliveryInv, DeliveryInv', NEW p \in Pass, p.wrote = EmptyFun,
           pass' = Take(p), Tried(p), lost' = lost,
           \A e \in Event : events'[e].attempts < MaxAttempts => events'[e].attempts <= tries[e],
           \A e \in p.due : events'[e].attempts < MaxAttempts,
           NEW left, \A e \in Event :
               left[e] = IF tries[e] > events'[e].attempts
                         THEN tries[e] - events'[e].attempts ELSE 0,
           Total(left, Event) <= lost
    PROVE  CrashInv'
  <1>1. /\ pass'.due = p.due /\ pass'.pc \in {"idle", "send"}
        /\ p.due \subseteq Event /\ (pass'.pc = "send" => p.due # {})
    BY TakenIsPass DEF Pass
  <1>2. pass'.pc = IF p.due = {} THEN "idle" ELSE "send"
    BY <1>1 DEF Take, IdlePass
  <1>3. /\ tries \in [Event -> Nat] /\ lost \in Nat
        /\ tries' \in [Event -> Nat] /\ \A e \in Event : events'[e].attempts \in Nat
    <2>1. events' \in [Event -> EventRow] /\ tries' \in [Event -> Nat]
      BY DEF DeliveryInv, DeliveryTypeOK
    <2> QED
      BY <2>1, RowTypes, DeliveryAssumption DEF EventRow
  <1>4. \A e \in Event : left[e] \in Int /\ Behind'[e] \in Nat
    BY <1>3 DEF Behind
  <1>5. Total(left, Event) \in Int
    BY <1>4, EventsAreFinite, SumIsInt
  <1>6. CASE p.due = {}
    <2>1. tries' = tries
      BY <1>6 DEF Tried
    <2>2. RowsCountTries' /\ TryInHand'
      BY <1>2, <1>6, <2>1 DEF RowsCountTries, TryInHand
    <2>3. \A e \in Event : Behind'[e] = left[e]
      BY <2>1 DEF Behind
    <2>4. Total(Behind', Event) = Total(left, Event)
      BY <1>4, <2>3, EventsAreFinite, SumsAgree
    <2>5. UncountedAreLost'
      BY <1>2, <1>3, <1>5, <1>6, <2>4 DEF UncountedAreLost
    <2> QED
      BY <2>2, <2>5 DEF CrashInv
  <1>7. CASE p.due # {}
    <2> DEFINE i == Min(p.due)
    <2>1. i \in p.due /\ i \in Event /\ InHand' = i
      BY <1>1, <1>7, FirstEvent DEF InHand
    <2>2. tries' = [tries EXCEPT ![i] = @ + 1]
      BY <1>7 DEF Tried
    <2> HIDE DEF i
    <2>3. /\ \A e \in Event : e # i => tries'[e] = tries[e]
          /\ tries'[i] = tries[i] + 1 /\ tries[i] \in Nat
          /\ events'[i].attempts \in Nat /\ events'[i].attempts <= tries[i]
      BY <1>3, <2>1, <2>2
    <2>4. RowsCountTries' /\ TryInHand'
      BY <1>2, <1>3, <1>7, <2>1, <2>3 DEF RowsCountTries, TryInHand
    <2>5. /\ \A e \in Event : e # i => Behind'[e] = left[e]
          /\ Behind'[i] = left[i] + 1
      BY <2>1, <2>3 DEF Behind
    <2>6. DifferAt(i, left, Behind', Event)
      BY <1>4, <2>1, <2>5 DEF DifferAt
    <2>7. Total(Behind', Event) - Behind'[i] = Total(left, Event) - left[i]
      BY <2>6, EventsAreFinite, SumChanges
    <2> Total(Behind', Event) \in Int
      BY <1>4, EventsAreFinite, SumIsInt
    <2>8. Total(Behind', Event) = Total(left, Event) + 1
      BY <1>4, <1>5, <2>1, <2>5, <2>7
    <2>9. UncountedAreLost'
      BY <1>2, <1>3, <1>5, <1>7, <2>8 DEF UncountedAreLost
    <2> QED
      BY <2>4, <2>9 DEF CrashInv
  <1> QED
    BY <1>6, <1>7

LEMMA StartCounts == DeliveryInv /\ CrashInv /\ StartPass => CrashInv'
  <1> SUFFICES ASSUME DeliveryInv, CrashInv, StartPass PROVE CrashInv'
    OBVIOUS
  <1> DEFINE p == [IdlePass EXCEPT !.channels = {c \in Channel : Enabled(c)},
                                   !.broken = {c \in Channel : channels[c] = "broken"},
                                   !.due = FirstOf(Due)]
  <1>1. /\ pass' = Take(p) /\ Tried(p) /\ pass.pc = "idle"
        /\ UNCHANGED <<on, channels, events, edits, lost, owed>>
    BY DEF StartPass
  <1>2. FirstOf(Due) \subseteq Due /\ Due \subseteq Event
    BY DEF FirstOf, Due
  <1>3. /\ {c \in Channel : Enabled(c)} \subseteq Channel
        /\ {c \in Channel : channels[c] = "broken"} \subseteq Channel
    OBVIOUS
  <1>4. p \in Pass /\ p.wrote = EmptyFun
    BY <1>2, <1>3, IdlePassIsPass DEF Pass
  <1>5. p.due \subseteq Due
    BY <1>2, IdlePassIsPass DEF Pass
  <1> HIDE DEF p
  <1>6. \A e \in p.due : events'[e].attempts < MaxAttempts
    BY <1>1, <1>5 DEF Due
  <1>7. \A e \in Event : events'[e].attempts < MaxAttempts => events'[e].attempts <= tries[e]
    BY <1>1 DEF CrashInv, RowsCountTries
  <1>8. Total(Behind, Event) <= lost
    BY <1>1, RowTypes, BehindIsNat DEF CrashInv, UncountedAreLost
  <1>9. \A e \in Event : Behind[e] = IF tries[e] > events'[e].attempts
                                     THEN tries[e] - events'[e].attempts ELSE 0
    BY <1>1 DEF Behind
  <1>10. DeliveryInv'
    BY StartPassKeeps
  <1> QED
    BY <1>1, <1>4, <1>6, <1>7, <1>8, <1>9, <1>10, TakeCounts

LEMMA CommitCounts == DeliveryInv /\ CrashInv /\ CommitPass => CrashInv'
  <1> SUFFICES ASSUME DeliveryInv, CrashInv, CommitPass PROVE CrashInv'
    OBVIOUS
  <1> DEFINE p == [pass EXCEPT !.due = @ \ {InHand}, !.wrote = EmptyFun]
             W == UNION {[S -> EventRow] : S \in SUBSET Event}
             left == [e \in Event |-> IF tries[e] > events'[e].attempts
                                      THEN tries[e] - events'[e].attempts ELSE 0]
  <1>1. /\ pass.pc = "commit" /\ events' = [e \in Event |-> Row(e)]
        /\ pass' = Take(p) /\ Tried(p) /\ UNCHANGED <<on, channels, edits, lost, owed>>
    BY DEF CommitPass
  <1>2. pass \in [pc: {"idle", "send", "commit"}, channels: SUBSET Channel, broken: SUBSET Channel,
                  due: SUBSET Event, left: SUBSET Channel,
                  failed: BOOLEAN, retryable: BOOLEAN, wrote: W]
    BY DEF DeliveryInv, DeliveryTypeOK, Pass
  <1>3. EmptyFun \in W
    BY IdlePassIsPass
  <1> HIDE DEF W
  <1>4. /\ p \in [pc: {"idle", "send", "commit"}, channels: SUBSET Channel, broken: SUBSET Channel,
                  due: SUBSET Event, left: SUBSET Channel,
                  failed: BOOLEAN, retryable: BOOLEAN, wrote: W]
        /\ p.wrote = EmptyFun /\ p.due = pass.due \ {InHand}
    BY <1>2, <1>3
  <1>5. p \in Pass
    BY <1>4 DEF Pass, W
  <1> HIDE DEF p
  <1>6. InHand \in Event /\ pass.due \subseteq Event /\ DOMAIN pass.wrote = {InHand}
        /\ pass.wrote[InHand].attempts \in Nat /\ events[InHand].attempts \in Nat
        /\ tries \in [Event -> Nat] /\ lost \in Nat
    BY <1>1, RowTypes
  <1>7. \A e \in Event : events'[e] = IF e = InHand THEN pass.wrote[e] ELSE events[e]
    BY <1>1, <1>6 DEF Row
  <1>8. \A e \in Event : events'[e].attempts < MaxAttempts => events'[e].attempts <= tries[e]
    BY <1>1, <1>7 DEF CrashInv, RowsCountTries
  <1>9. \A e \in p.due : events'[e].attempts < MaxAttempts
    BY <1>4, <1>6, <1>7 DEF DeliveryInv, PassIsWhole
  <1>10. DeliveryInv'
    BY CommitPassKeeps
  <1>11. Total(left, Event) <= lost
    <2>1. /\ events[InHand].attempts < tries[InHand] /\ tries[InHand] \in Nat
          /\ events[InHand].attempts < pass.wrote[InHand].attempts
      BY <1>1, <1>6 DEF CrashInv, TryInHand
    <2>2. /\ \A e \in Event : e # InHand => left[e] = Behind[e]
          /\ left[InHand] \in Nat /\ Behind[InHand] \in Nat /\ left[InHand] <= Behind[InHand] - 1
      BY <1>6, <1>7, <2>1 DEF Behind
    <2> HIDE DEF left
    <2>3. DifferAt(InHand, Behind, left, Event)
      BY <1>6, <2>2, BehindIsNat DEF DifferAt
    <2>4. Total(left, Event) - left[InHand] = Total(Behind, Event) - Behind[InHand]
      BY <2>3, EventsAreFinite, SumChanges
    <2> Total(left, Event) \in Int
      BY <2>3, EventsAreFinite, SumIsInt DEF DifferAt
    <2>5. Total(Behind, Event) <= lost + 1 /\ Total(Behind, Event) \in Nat
      BY <1>1, BehindIsNat DEF CrashInv, UncountedAreLost
    <2> QED
      BY <1>6, <2>2, <2>4, <2>5
  <1>12. \A e \in Event : left[e] = IF tries[e] > events'[e].attempts
                                    THEN tries[e] - events'[e].attempts ELSE 0
    OBVIOUS
  <1> HIDE DEF left
  <1> QED
    BY <1>1, <1>4, <1>5, <1>8, <1>9, <1>10, <1>11, <1>12, TakeCounts

LEMMA JudgeCounts == DeliveryInv /\ CrashInv /\ Judge => CrashInv'
  <1> SUFFICES ASSUME DeliveryInv, CrashInv, Judge PROVE CrashInv'
    OBVIOUS
  <1>1. /\ pass.pc = "send" /\ pass.left = {}
        /\ UNCHANGED <<on, channels, events, edits, lost, tries, owed>>
    BY DEF Judge
  <1>2. /\ InHand \in Event /\ InHand \in pass.due /\ DOMAIN pass.wrote = {}
        /\ events[InHand] \in EventRow /\ events[InHand].attempts \in Nat /\ MaxAttempts \in Nat
        /\ tries \in [Event -> Nat] /\ lost \in Nat
    BY <1>1, RowTypes
  <1>3. Row(InHand) = events[InHand]
    BY <1>2 DEF Row
  <1>4. PICK row \in Judged(events[InHand]) :
            pass' = [pass EXCEPT !.pc = "commit",
                                 !.wrote = [e \in DOMAIN @ \cup {InHand} |->
                                               IF e = InHand THEN row ELSE @[e]]]
    BY <1>3 DEF Judge
  <1>5. events[InHand].attempts < MaxAttempts
    BY <1>2 DEF DeliveryInv, PassIsWhole
  <1>6. \/ row.attempts = events[InHand].attempts + 1
        \/ row.attempts = MaxAttempts
    <2>1. events[InHand] \in [raised: BOOLEAN, delivered: BOOLEAN, attempts: 0..MaxAttempts,
                              wait: Never..BackoffCap]
      BY <1>2 DEF EventRow
    <2> QED
      BY <1>4, <2>1 DEF Judged
  <1>7. /\ pass'.pc = "commit" /\ pass'.due = pass.due /\ pass'.wrote[InHand] = row
    BY <1>2, <1>4 DEF DeliveryInv, DeliveryTypeOK, Pass
  <1>8. InHand' = InHand
    BY <1>7 DEF InHand
  <1>9. events[InHand].attempts < tries[InHand] /\ tries[InHand] \in Nat
    BY <1>1, <1>2 DEF CrashInv, TryInHand
  <1>10. RowsCountTries' /\ TryInHand'
    BY <1>1, <1>2, <1>5, <1>6, <1>7, <1>8, <1>9 DEF CrashInv, RowsCountTries, TryInHand
  <1>11. \A e \in Event : Behind'[e] = Behind[e] /\ Behind[e] \in Int
    BY <1>1, BehindIsNat DEF Behind
  <1>12. Total(Behind', Event) = Total(Behind, Event)
    BY <1>11, EventsAreFinite, SumsAgree
  <1>13. UncountedAreLost'
    BY <1>1, <1>7, <1>12 DEF CrashInv, UncountedAreLost
  <1> QED
    BY <1>10, <1>13 DEF CrashInv

LEMMA LossCounts == DeliveryInv /\ CrashInv /\ (CommitFails \/ ProcessDies) => CrashInv'
  <1> SUFFICES ASSUME DeliveryInv, CrashInv, CommitFails \/ ProcessDies PROVE CrashInv'
    OBVIOUS
  <1>1. /\ pass' = IdlePass /\ lost' = lost + 1 /\ pass.pc # "idle"
        /\ UNCHANGED <<on, channels, events, edits, tries, owed>>
    BY DEF CommitFails, ProcessDies
  <1>2. pass'.pc = "idle"
    BY <1>1, IdlePassIsPass
  <1>3. RowsCountTries' /\ TryInHand'
    BY <1>1, <1>2 DEF CrashInv, RowsCountTries, TryInHand
  <1>4. \A e \in Event : Behind'[e] = Behind[e] /\ Behind[e] \in Int
    BY <1>1, BehindIsNat DEF Behind
  <1>5. Total(Behind', Event) = Total(Behind, Event)
    BY <1>4, EventsAreFinite, SumsAgree
  <1>6. UncountedAreLost'
    BY <1>1, <1>2, <1>5, RowTypes DEF CrashInv, UncountedAreLost
  <1> QED
    BY <1>3, <1>6 DEF CrashInv

\* A send that raised has cost a lost pass, or its try is taken back.
LEMMA RaiseCounts ==
    ASSUME DeliveryInv, CrashInv, NEW c \in Channel, SendRaises(c) PROVE CrashInv'
  <1>1. /\ pass' = IdlePass /\ pass.pc = "send"
        /\ UNCHANGED <<on, channels, events, edits, owed>>
    BY DEF SendRaises
  <1>2. /\ pass'.pc = "idle" /\ InHand \in Event
        /\ events[InHand].attempts < tries[InHand]
        /\ tries \in [Event -> Nat] /\ lost \in Nat
        /\ \A e \in Event : events[e].attempts \in Nat /\ Behind[e] \in Nat
        /\ Total(Behind, Event) \in Nat /\ Total(Behind, Event) <= lost + 1
    BY <1>1, IdlePassIsPass, RowTypes, BehindIsNat DEF CrashInv, TryInHand, UncountedAreLost
  <1>3. CASE lost < MaxLost
    <2>1. lost' = lost + 1 /\ tries' = tries
      BY <1>3 DEF SendRaises
    <2>2. RowsCountTries' /\ TryInHand'
      BY <1>1, <1>2, <2>1 DEF CrashInv, RowsCountTries, TryInHand
    <2>3. Behind' = Behind
      BY <1>1, <2>1 DEF Behind
    <2>4. UncountedAreLost'
      BY <1>2, <2>1, <2>3 DEF UncountedAreLost
    <2> QED
      BY <2>2, <2>4 DEF CrashInv
  <1>4. CASE ~(lost < MaxLost)
    <2>1. lost' = lost /\ tries' = [tries EXCEPT ![InHand] = @ - 1]
      BY <1>4 DEF SendRaises
    <2>2. /\ \A e \in Event : e # InHand => tries'[e] = tries[e]
          /\ tries'[InHand] = tries[InHand] - 1
      BY <1>2, <2>1
    <2>3. RowsCountTries' /\ TryInHand'
      BY <1>1, <1>2, <2>2 DEF CrashInv, RowsCountTries, TryInHand
    <2>4. /\ \A e \in Event : e # InHand => Behind'[e] = Behind[e]
          /\ Behind'[InHand] = Behind[InHand] - 1
      BY <1>1, <1>2, <2>2 DEF Behind
    <2>5. DifferAt(InHand, Behind, Behind', Event)
      BY <1>2, <2>4 DEF DifferAt
    <2>6. /\ Total(Behind', Event) - Behind'[InHand] = Total(Behind, Event) - Behind[InHand]
          /\ Total(Behind', Event) \in Int
      BY <2>5, EventsAreFinite, SumChanges, SumIsInt DEF DifferAt
    <2>7. UncountedAreLost'
      BY <1>2, <2>1, <2>4, <2>6 DEF UncountedAreLost
    <2> QED
      BY <2>3, <2>7 DEF CrashInv
  <1> QED
    BY <1>3, <1>4

LEMMA CrashIsKept == DeliveryInv /\ CrashInv /\ [DeliveryNext]_deliveryVars => CrashInv'
  <1> SUFFICES ASSUME DeliveryInv, CrashInv, [DeliveryNext]_deliveryVars PROVE CrashInv'
    OBVIOUS
  <1>0. DeliveryInv'
    BY DeliveryIsKept
  <1>1. CASE UNCHANGED deliveryVars
    <2>1. /\ UNCHANGED <<tries, lost, events, pass>>
      BY <1>1 DEF deliveryVars
    <2> QED
      BY <1>0, <2>1, NothingCounted
  <1>2. CASE \E c \in Channel : SendSucceeds(c) \/ SendFails(c) \/ SendRefused(c)
    <2>1. UNCHANGED <<tries, lost, events>> /\ pass.pc = "send"
      BY <1>2 DEF SendSucceeds, SendFails, SendRefused, Answered
    <2>2. pass'.pc = pass.pc /\ pass'.due = pass.due
      BY <1>2 DEF SendSucceeds, SendFails, SendRefused, DeliveryInv, DeliveryTypeOK, Pass
    <2> QED
      BY <1>0, <2>1, <2>2, NothingCounted
  <1>3. CASE \/ UpdateNotificationSettings
             \/ \E c \in Channel : UpdateChannel(c) \/ DeleteChannel(c)
    <2>1. UNCHANGED <<tries, lost, events, pass>>
      BY <1>3 DEF UpdateNotificationSettings, UpdateChannel, DeleteChannel
    <2> QED
      BY <1>0, <2>1, NothingCounted
  <1>4. CASE RetryTick
    <2>1. /\ UNCHANGED <<tries, lost, pass>>
          /\ \A e \in Event : events'[e] = IF events[e].wait > 0
                                           THEN [events[e] EXCEPT !.wait = @ - 1] ELSE events[e]
      BY <1>4 DEF RetryTick
    <2>2. \A e \in Event : events'[e].attempts = events[e].attempts
      BY <2>1, RowTypes DEF EventRow
    <2> QED
      BY <1>0, <2>1, <2>2, NothingCounted
  <1>5. CASE \E e \in Event : RaiseEvent(e)
    <2>1. PICK e \in Event : events' = [events EXCEPT ![e].raised = TRUE, ![e].wait = 0]
      BY <1>5 DEF RaiseEvent
    <2>2. UNCHANGED <<tries, lost, pass>>
      BY <1>5 DEF RaiseEvent
    <2>3. \A f \in Event : events'[f].attempts = events[f].attempts
      BY <2>1, RowTypes DEF EventRow
    <2> QED
      BY <1>0, <2>2, <2>3, NothingCounted
  <1> QED
    BY <1>1, <1>2, <1>3, <1>4, <1>5, StartCounts, CommitCounts, JudgeCounts, LossCounts, RaiseCounts
    DEF DeliveryNext, PassStep

LEMMA CrashInvHolds == DeliverySpec => [](DeliveryInv /\ CrashInv)
  <1>1. DeliveryInit => DeliveryInv /\ CrashInv
    BY DeliveryStarts, CrashStarts
  <1>2. DeliveryInv /\ CrashInv /\ [DeliveryNext]_deliveryVars => (DeliveryInv /\ CrashInv)'
    BY DeliveryIsKept, CrashIsKept
  <1> QED
    BY <1>1, <1>2, PTL DEF DeliverySpec

LEMMA CrashInvBounds == DeliveryInv /\ CrashInv => CrashRepeatsOne
  <1> SUFFICES ASSUME DeliveryInv, CrashInv PROVE CrashRepeatsOne
    OBVIOUS
  <1> DEFINE f == [e \in Event |-> tries[e] - Row(e).attempts]
             U == {e \in Event : tries[e] > Row(e).attempts}
             g == [e \in Event |-> IF tries[e] > Row(e).attempts
                                   THEN tries[e] - Row(e).attempts ELSE 0]
             sum == MapThenSumSet(LAMBDA e : tries[e] - Row(e).attempts, U)
  <1>1. /\ tries \in [Event -> Nat] /\ lost \in Nat /\ \A e \in Event : Row(e).attempts \in Nat
        /\ pass.pc \in {"idle", "send", "commit"}
    BY RowTypes DEF Row
  <1>2. IsFiniteSet(U) /\ U \in SUBSET Event
    BY EventsAreFinite, FS_Subset
  <1>3. \A e \in Event : f[e] \in Int /\ g[e] \in Nat
    BY <1>1
  <1>4. sum = Total(f, U)
    <2> DEFINE Adds(iter) == iter = [s \in SUBSET U |->
                   IF s = {} THEN 0
                   ELSE (tries[Pick(s)] - Row(Pick(s)).attempts) + iter[s \ {Pick(s)}]]
    <2>1. \A iter : AddsUp(iter, f, U) <=> Adds(iter)
      <3>1. \A s \in SUBSET U : s # {} => f[Pick(s)] = tries[Pick(s)] - Row(Pick(s)).attempts
        BY Picked
      <3> HIDE DEF f, U
      <3> QED BY <3>1 DEF AddsUp
    <2>2. sum = (CHOOSE iter : Adds(iter))[U]
      BY DEF MapThenSumSet, MapThenFoldSet, Pick
    <2> HIDE DEF Adds, f, U, sum
    <2>3. Adds(CHOOSE iter : Adds(iter))
      BY <1>2, <2>1, SumExists
    <2> QED BY <1>2, <2>1, <2>2, <2>3, SumIs
  <1>5. Total(f, U) = Total(g, U)
    BY <1>2, <1>3, SumsAgree
  <1>6. Total(g, U) <= Total(g, Event)
    BY <1>2, <1>3, EventsAreFinite, SumOfPart
  <1>7. ASSUME pass.pc # "commit"
        PROVE  Total(g, Event) <= lost + IF pass.pc = "send" THEN 1 ELSE 0
    <2>1. \A e \in Event : g[e] = Behind[e]
      BY <1>7, RowTypes DEF Behind, Row
    <2> HIDE DEF g
    <2>2. Total(g, Event) = Total(Behind, Event)
      BY <1>3, <2>1, EventsAreFinite, SumsAgree
    <2>3. Total(Behind, Event) <= lost + IF pass.pc = "send" THEN 1 ELSE 0
      BY <1>1, <1>7 DEF CrashInv, UncountedAreLost
    <2> QED
      BY <1>7, <2>2, <2>3
  <1>8. ASSUME pass.pc = "commit"
        PROVE  Total(g, Event) <= lost + IF pass.pc = "send" THEN 1 ELSE 0
    <2>1. /\ InHand \in Event /\ DOMAIN pass.wrote = {InHand}
          /\ pass.wrote[InHand].attempts \in Nat /\ events[InHand].attempts \in Nat
      BY <1>8, RowTypes
    <2>2. /\ events[InHand].attempts < tries[InHand]
          /\ events[InHand].attempts < pass.wrote[InHand].attempts
      BY <1>8 DEF CrashInv, TryInHand
    <2>3. /\ \A e \in Event \ {InHand} : Behind[e] = g[e]
          /\ Behind[InHand] \in Nat /\ g[InHand] <= Behind[InHand] - 1
      BY <1>1, <2>1, <2>2 DEF Behind, Row
    <2> HIDE DEF g
    <2>4. DifferAt(InHand, Behind, g, Event)
      BY <1>3, <2>1, <2>3, BehindIsNat DEF DifferAt
    <2>5. Total(g, Event) - g[InHand] = Total(Behind, Event) - Behind[InHand]
      BY <2>4, EventsAreFinite, SumChanges
    <2>6. Total(Behind, Event) <= lost + 1
      BY <1>8 DEF CrashInv, UncountedAreLost
    <2>7. Total(g, Event) \in Int /\ Total(Behind, Event) \in Int /\ g[InHand] \in Int
      BY <1>3, <2>1, <2>4, EventsAreFinite, SumIsInt DEF DifferAt
    <2>8. Total(g, Event) <= lost
      BY <1>1, <2>3, <2>5, <2>6, <2>7
    <2> QED
      BY <1>1, <1>8, <2>8
  <1>9. Total(g, Event) <= lost + IF pass.pc = "send" THEN 1 ELSE 0
    BY <1>1, <1>7, <1>8
  <1>10. IsFiniteSet(U) /\ Total(g, U) \in Int /\ Total(g, Event) \in Int
    <2> HIDE DEF g, U
    <2> QED BY <1>2, <1>3, EventsAreFinite, SumIsInt
  <1>11. sum <= lost + IF pass.pc = "send" THEN 1 ELSE 0
    <2> HIDE DEF g, U, f, sum
    <2> QED BY <1>1, <1>4, <1>5, <1>6, <1>9, <1>10
  <1> QED
    BY <1>11 DEF CrashRepeatsOne

\* However often the process dies or a transaction fails, the tries that no row
\* counts are no more than the passes that were lost, and one more while an event
\* is being sent: for any length of the backlog (deliver_pending).
THEOREM CrashesRepeatOne == DeliverySpec => []CrashRepeatsOne
  BY CrashInvHolds, CrashInvBounds, PTL

-----------------------------------------------------------------------------
(***************************************************************************)
(* PrinterStatus keeps its types, which are inductive as they stand.       *)
(***************************************************************************)

LEMMA SmallerOfTwo ==
    ASSUME NEW a \in Int, NEW b \in Int
    PROVE  Min({a, b}) = IF a <= b THEN a ELSE b
  <1> DEFINE m == IF a <= b THEN a ELSE b
  <1>1. m \in {a, b} /\ \A y \in {a, b} : m <= y
    OBVIOUS
  <1>2. \A n \in {a, b} : (\A y \in {a, b} : n <= y) => n = m
    OBVIOUS
  <1> HIDE DEF m
  <1>3. Min({a, b}) = m
    BY <1>1, <1>2 DEF Min
  <1> QED
    BY <1>3 DEF m

LEMMA StatusConstants ==
    /\ MaxBackoff \in Nat /\ MaxDoublings \in Nat /\ HealthyPeriod \in Nat /\ MaxRestarts \in Nat
    /\ MaxBackoff > 0 /\ MaxDoublings > 0 /\ HealthyPeriod > 0
  BY PrinterStatusAssumption

\* What is noted of an attempt is an attempt.
LEMMA NotesAreAttempts ==
    ASSUME NEW a \in Attempt
    PROVE  /\ NoAttempt \in Attempt
           /\ NoteStillStopped(a) \in Attempt /\ NoteDeviceAway(a) \in Attempt
           /\ NoteDeviceBack(a) \in Attempt /\ Attempted(a) \in Attempt
  <1>1. /\ a.age \in 0..MaxBackoff /\ a.failures \in 0..MaxDoublings /\ a.awaiting \in BOOLEAN
        /\ a.away \in BOOLEAN /\ a.online \in -1..HealthyPeriod
    BY DEF Attempt
  <1>2. NoAttempt \in Attempt
    BY StatusConstants DEF NoAttempt, Attempt
  <1>3. NoteStillStopped(a) \in Attempt
    <2>1. Min({a.failures + 1, MaxDoublings}) \in 0..MaxDoublings
      BY <1>1, StatusConstants, SmallerOfTwo
    <2> HIDE DEF Min
    <2> QED
      BY <2>1 DEF NoteStillStopped, Attempt
  <1>4. NoteDeviceAway(a) \in Attempt
    <2>1. -1 \in -1..HealthyPeriod
      BY StatusConstants
    <2>2. [a EXCEPT !.away = TRUE, !.online = -1] \in Attempt
      BY <2>1 DEF Attempt
    <2> QED
      BY <2>2 DEF NoteDeviceAway
  <1>5. NoteDeviceBack(a) \in Attempt
    BY <1>2, StatusConstants DEF NoteDeviceBack, Attempt
  <1>6. Attempted(a) \in Attempt
    <2>1. (IF a = NoAttempt THEN 0 ELSE a.failures) \in 0..MaxDoublings
      BY <1>1, StatusConstants
    <2>2. 0 \in 0..MaxBackoff /\ -1 \in -1..HealthyPeriod
      BY StatusConstants
    <2> QED
      BY <2>1, <2>2 DEF Attempted, Attempt
  <1> QED
    BY <1>2, <1>3, <1>4, <1>5, <1>6

LEMMA RowsAreTyped ==
    ASSUME NEW status \in PrinterStatusValue, NEW misses \in 0..MissesBeforeOffline
    PROVE  /\ [status |-> status, misses |-> misses] \in PrinterRow
           /\ NewRow \in PrinterRow /\ IdleCheck \in Check
  <1>1. NewRow \in PrinterRow
    BY DEF NewRow, PrinterRow, PrinterStatusValue, MissesBeforeOffline
  <1>2. IdleCheck \in Check
    BY <1>1 DEF IdleCheck, Check
  <1> QED
    BY <1>1, <1>2 DEF PrinterRow

LEMMA StatusStarts == StatusInit => StatusTypeOK
  <1> SUFFICES ASSUME StatusInit PROVE StatusTypeOK
    OBVIOUS
  <1>1. "unknown" \in PrinterStatusValue /\ 0 \in 0..MissesBeforeOffline
    BY DEF PrinterStatusValue, MissesBeforeOffline
  <1>2. NewRow \in PrinterRow /\ IdleCheck \in Check
    BY <1>1, RowsAreTyped
  <1>3. NoAttempt \in Attempt
    BY StatusConstants DEF NoAttempt, Attempt
  <1>4. 0 \in 0..MaxRestarts
    BY StatusConstants
  <1> QED
    BY <1>2, <1>3, <1>4 DEF StatusInit, StatusTypeOK

LEMMA GoesIsTyped ==
    ASSUME check \in [Checker -> Check], NEW c \in Checker, NEW pc \in {"resume", "commit"},
           NEW status \in PrinterStatusValue, Goes(c, pc, status)
    PROVE  check' \in [Checker -> Check]
  <1>1. check[c] \in Check /\ check[c].row \in PrinterRow
    BY DEF Check
  <1>2. [check[c].row EXCEPT !.status = status] \in PrinterRow
    BY <1>1 DEF PrinterRow
  <1> DEFINE new == [check[c] EXCEPT !.pc = pc, !.row.status = status, !.manual = FALSE,
                                     !.answered = FALSE, !.told = FALSE]
  <1>3. new \in Check
    <2>1. new = [check[c] EXCEPT !.pc = pc, !.row = [check[c].row EXCEPT !.status = status],
                                 !.manual = FALSE, !.answered = FALSE, !.told = FALSE]
      BY <1>1 DEF Check
    <2>2. /\ pc \in {"idle", "ask", "act", "resume", "commit"}
      OBVIOUS
    <2> DEFINE row == [check[c].row EXCEPT !.status = status]
    <2> HIDE DEF row
    <2>3. [check[c] EXCEPT !.pc = pc, !.row = row, !.manual = FALSE,
                           !.answered = FALSE, !.told = FALSE] \in Check
      BY <1>1, <1>2, <2>2 DEF Check, row
    <2> HIDE DEF new
    <2> QED
      BY <2>1, <2>3 DEF row
  <1>4. check' = [check EXCEPT ![c] = new]
    BY DEF Goes
  <1> QED
    BY <1>3, <1>4

LEMMA CheckTypes ==
    ASSUME StatusTypeOK, NEW c \in Checker, CheckStep(c) PROVE StatusTypeOK'
  <1> USE DEF StatusTypeOK
  <1>1. /\ check[c] \in Check /\ check[c].row \in PrinterRow /\ check[c].loaded \in PrinterRow
        /\ check[c].row.status \in PrinterStatusValue
        /\ printer.status \in PrinterStatusValue /\ printer.misses \in 0..MissesBeforeOffline
    BY DEF Check, PrinterRow
  <1>2. {"online", "error", "offline"} \subseteq PrinterStatusValue
    BY DEF PrinterStatusValue
  <1>3. ASSUME NEW answered \in BOOLEAN, NEW row \in PrinterRow, Probed(c, answered, row)
        PROVE  StatusTypeOK'
    <2>1. PICK manual \in BOOLEAN :
              check' = [check EXCEPT ![c] =
                           [pc |-> "ask", loaded |-> printer, row |-> row,
                            manual |-> manual, answered |-> answered, told |-> FALSE]]
      BY <1>3 DEF Probed
    <2>2. [pc |-> "ask", loaded |-> printer, row |-> row, manual |-> manual,
           answered |-> answered, told |-> FALSE] \in Check
      BY <1>3 DEF Check
    <2>3. check' \in [Checker -> Check]
      BY <2>1, <2>2
    <2>4. UNCHANGED <<device, stopped, printer, attempt, restarts>>
      BY <1>3 DEF Probed
    <2> QED
      BY <2>3, <2>4
  <1>4. ASSUME ProbeAnswered(c) PROVE StatusTypeOK'
    <2>1. DeriveStatus \in PrinterStatusValue /\ 0 \in 0..MissesBeforeOffline
      BY <1>2 DEF DeriveStatus, MissesBeforeOffline
    <2>2. [status |-> DeriveStatus, misses |-> 0] \in PrinterRow
      BY <2>1, RowsAreTyped
    <2> QED
      BY <1>3, <1>4, <2>2 DEF ProbeAnswered
  <1>5. ASSUME ProbeMissed(c) PROVE StatusTypeOK'
    <2> DEFINE misses == Min({printer.misses + 1, MissesBeforeOffline})
               status == IF misses = MissesBeforeOffline THEN "offline" ELSE printer.status
    <2>1. misses \in 0..MissesBeforeOffline
      <3>1. printer.misses + 1 \in Int /\ MissesBeforeOffline \in Int
        BY <1>1 DEF MissesBeforeOffline
      <3>2. misses = IF printer.misses + 1 <= MissesBeforeOffline
                     THEN printer.misses + 1 ELSE MissesBeforeOffline
        BY <3>1, SmallerOfTwo, Zenon
      <3> HIDE DEF misses
      <3> QED
        BY <1>1, <3>2 DEF MissesBeforeOffline
    <2>2. status \in PrinterStatusValue
      BY <1>1, <1>2
    <2>3. [status |-> status, misses |-> misses] \in PrinterRow
      BY <2>1, <2>2, RowsAreTyped
    <2>4. Probed(c, FALSE, [status |-> status, misses |-> misses])
      BY <1>5 DEF ProbeMissed
    <2> QED
      BY <1>3, <2>3, <2>4
  <1>6. ASSUME AskQueue(c) PROVE StatusTypeOK'
    <2>1. PICK told \in {stopped, FALSE} :
              check' = [check EXCEPT ![c].pc = "act", ![c].told = told]
      BY <1>6 DEF AskQueue
    <2>2. [check[c] EXCEPT !.pc = "act", !.told = told] \in Check
      BY <1>1, <2>1 DEF Check
    <2>3. check' = [check EXCEPT ![c] = [check[c] EXCEPT !.pc = "act", !.told = told]]
      BY <2>1
    <2>4. check' \in [Checker -> Check]
      BY <2>2, <2>3
    <2>5. UNCHANGED <<device, stopped, printer, attempt, restarts>>
      BY <1>6 DEF AskQueue
    <2> QED
      BY <2>4, <2>5
  <1>7. ASSUME CommitCheck(c) PROVE StatusTypeOK'
    <2> DEFINE written(f) == IF check[c].row[f] # check[c].loaded[f]
                             THEN check[c].row[f] ELSE printer[f]
    <2>1. /\ printer' = [f \in {"status", "misses"} |-> written(f)]
          /\ check' = [check EXCEPT ![c] = IdleCheck]
          /\ UNCHANGED <<device, stopped, attempt, restarts>>
      BY <1>7 DEF CommitCheck
    <2>2. written("status") \in PrinterStatusValue /\ written("misses") \in 0..MissesBeforeOffline
      BY <1>1 DEF PrinterRow
    <2>3. printer' = [status |-> written("status"), misses |-> written("misses")]
      BY <2>1
    <2>4. printer' \in PrinterRow /\ IdleCheck \in Check
      BY <2>2, <2>3, RowsAreTyped
    <2>5. check' \in [Checker -> Check]
      BY <2>1, <2>4
    <2> QED
      BY <2>1, <2>4, <2>5
  <1>8. ASSUME \/ SkipRecovery(c) \/ NothingStopped(c) \/ DeviceNotReady(c) \/ NotDueYet(c)
               \/ StartResume(c) \/ ResumeSucceeds(c) \/ ResumeFails(c)
        PROVE  StatusTypeOK'
    <2>1. \E pc \in {"resume", "commit"}, status \in PrinterStatusValue : Goes(c, pc, status)
      <3>1. Diagnosed(c) \subseteq PrinterStatusValue
        BY <1>1, <1>2 DEF Diagnosed
      <3>2. ASSUME NothingStopped(c) PROVE <2>1
        BY <3>1, <3>2 DEF NothingStopped
      <3>3. ASSUME SkipRecovery(c) \/ DeviceNotReady(c) \/ ResumeSucceeds(c) PROVE <2>1
        BY <1>1, <3>3 DEF SkipRecovery, DeviceNotReady, ResumeSucceeds
      <3>4. ASSUME NotDueYet(c) \/ ResumeFails(c) PROVE <2>1
        BY <1>2, <3>4 DEF NotDueYet, ResumeFails, MarkPaused
      <3>5. ASSUME StartResume(c) PROVE <2>1
        BY <1>2, <3>5 DEF StartResume
      <3> QED
        BY <1>8, <3>2, <3>3, <3>4, <3>5
    <2>2. check' \in [Checker -> Check]
      BY <2>1, GoesIsTyped
    <2>3. attempt' \in Attempt
      <3>1. NoteDeviceBack(attempt) \in Attempt /\ NoteDeviceAway(attempt) \in Attempt
        BY NotesAreAttempts
      <3>2. /\ NoteStillStopped(NoteDeviceBack(attempt)) \in Attempt
            /\ NoteStillStopped(NoteDeviceAway(attempt)) \in Attempt
            /\ Attempted(NoteDeviceBack(attempt)) \in Attempt /\ NoAttempt \in Attempt
        BY <3>1, NotesAreAttempts
      <3> QED
        BY <1>8, <3>2
        DEF SkipRecovery, NothingStopped, DeviceNotReady, NotDueYet, StartResume,
            ResumeSucceeds, ResumeFails
    <2>4. stopped' \in BOOLEAN /\ UNCHANGED <<device, printer, restarts>>
      BY <1>8
      DEF SkipRecovery, NothingStopped, DeviceNotReady, NotDueYet, StartResume,
          ResumeSucceeds, ResumeFails
    <2> QED
      BY <2>2, <2>3, <2>4
  <1> QED
    BY <1>4, <1>5, <1>6, <1>7, <1>8 DEF CheckStep

LEMMA SurroundingsTypes ==
    ASSUME StatusTypeOK, DeviceChanges \/ QueueStops \/ Tick \/ ApiRestarts
    PROVE  StatusTypeOK'
  <1> USE DEF StatusTypeOK
  <1>1. CASE DeviceChanges \/ QueueStops
    BY <1>1 DEF DeviceChanges, QueueStops
  <1>2. CASE Tick
    <2>1. /\ attempt' = [attempt EXCEPT !.age = Min({@ + 1, MaxBackoff}),
                 !.online = IF @ = -1 THEN @ ELSE Min({@ + 1, HealthyPeriod})]
          /\ UNCHANGED <<device, stopped, printer, check, restarts>>
      BY <1>2 DEF Tick
    <2>2. attempt.age \in 0..MaxBackoff /\ attempt.online \in -1..HealthyPeriod
      BY DEF Attempt
    <2>3. Min({attempt.age + 1, MaxBackoff}) \in 0..MaxBackoff
      BY <2>2, StatusConstants, SmallerOfTwo
    <2>4. (IF attempt.online = -1 THEN attempt.online
           ELSE Min({attempt.online + 1, HealthyPeriod})) \in -1..HealthyPeriod
      BY <2>2, StatusConstants, SmallerOfTwo
    <2>5. attempt' \in Attempt
      BY <2>1, <2>3, <2>4 DEF Attempt
    <2> QED
      BY <2>1, <2>5
  <1>3. CASE ApiRestarts
    <2>1. /\ attempt' = NoAttempt /\ check' = [c \in Checker |-> IdleCheck]
          /\ restarts < MaxRestarts /\ restarts' = restarts + 1
          /\ UNCHANGED <<device, stopped, printer>>
      BY <1>3 DEF ApiRestarts
    <2>2. "unknown" \in PrinterStatusValue /\ 0 \in 0..MissesBeforeOffline
      BY DEF PrinterStatusValue, MissesBeforeOffline
    <2>3. NoAttempt \in Attempt /\ IdleCheck \in Check
      BY <2>2, NotesAreAttempts, RowsAreTyped
    <2>4. restarts + 1 \in 0..MaxRestarts
      BY <2>1, StatusConstants
    <2> QED
      BY <2>1, <2>3, <2>4
  <1> QED
    BY <1>1, <1>2, <1>3

LEMMA StatusIsKept == StatusTypeOK /\ [StatusNext]_statusVars => StatusTypeOK'
  <1> SUFFICES ASSUME StatusTypeOK, [StatusNext]_statusVars PROVE StatusTypeOK'
    OBVIOUS
  <1>1. CASE UNCHANGED statusVars
    BY <1>1 DEF statusVars, StatusTypeOK
  <1>2. CASE \E c \in Checker : CheckStep(c)
    BY <1>2, CheckTypes
  <1>3. CASE DeviceChanges \/ QueueStops \/ Tick \/ ApiRestarts
    BY <1>3, SurroundingsTypes
  <1> QED
    BY <1>1, <1>2, <1>3 DEF StatusNext

\* The memory of a resume, the row and what a check carries keep their ranges,
\* whatever interleaving of checks, restarts and changes of the device: no backoff
\* grows beyond its cap (resume_due, note_attempt).
THEOREM StatusTyped == StatusSpec => []StatusTypeOK
  BY StatusStarts, StatusIsKept, PTL DEF StatusSpec

-----------------------------------------------------------------------------
(***************************************************************************)
(* All three, as they are checked: each runs alone, by its own             *)
(* specification.                                                          *)
(***************************************************************************)

\* A run of the three is a run of each: none writes what is another's.
LEMMA NoticesRunAlone == Spec => StatusSpec /\ ConditionsSpec /\ DeliverySpec
  <1>1. Init => StatusInit /\ ConditionsInit /\ DeliveryInit
    BY DEF Init
  <1>2. [Next]_vars => /\ [StatusNext]_statusVars /\ [ConditionsNext]_conditionVars
                       /\ [DeliveryNext]_deliveryVars
    <2> SUFFICES ASSUME [Next]_vars
                 PROVE  /\ [StatusNext]_statusVars /\ [ConditionsNext]_conditionVars
                        /\ [DeliveryNext]_deliveryVars
      OBVIOUS
    <2>1. CASE UNCHANGED vars
      BY <2>1 DEF vars
    <2>2. CASE PrinterStatusStep
      BY <2>2 DEF PrinterStatusStep
    <2>3. CASE ConditionsStep
      BY <2>3 DEF ConditionsStep
    <2>4. CASE DeliveryStep
      BY <2>4 DEF DeliveryStep
    <2> QED
      BY <2>1, <2>2, <2>3, <2>4 DEF Next
  <1>3. Spec => Init /\ [][Next]_vars
    BY DEF Spec
  <1> QED
    BY <1>1, <1>2, <1>3, PTL DEF StatusSpec, ConditionsSpec, DeliverySpec

\* The variables of all three keep their types, in whichever of them runs
\* (printers/status.py, notifications/conditions.py, notifications/delivery.py).
THEOREM NoticesTyped == Spec => []TypeOK
  <1>1. ConditionsInv => ConditionsTypeOK
    BY DEF ConditionsInv
  <1>2. DeliveryInv => DeliveryTypeOK
    BY DEF DeliveryInv
  <1> QED
    BY <1>1, <1>2, NoticesRunAlone, StatusTyped, ConditionsInvHolds, DeliveryInvHolds, PTL
    DEF TypeOK
===============================================================================
