------------------------------ MODULE Delivery ------------------------------
(***************************************************************************)
(* Sending raised notifications to their channels                          *)
(* (notifications/delivery.py, the delivery loop of main.py), while        *)
(* channels are edited and the API process dies.                           *)
(*                                                                         *)
(* A pass loads the channels and the events that are due, works through    *)
(* them in order of creation, and commits after each.  A channel it loaded *)
(* may be gone by then, and the commit fails with it.  A send that raises  *)
(* anything but DeliveryError ends the pass with nothing counted.          *)
(***************************************************************************)
EXTENDS Integers, FiniteSetsExt, Functions

CONSTANTS
    Channel,          \* notification channels
    NumEvents,        \* bound: how many events are raised
    MaxAttempts,      \* MAX_DELIVERY_ATTEMPTS
    BackoffCap,       \* BACKOFF_CAP_SECONDS, in ticks
    BatchLimit,       \* BATCH_LIMIT
    MaxLost,          \* bound: lost passes that the history counts, deaths among them
    MaxEdits          \* bound: how often a channel or the switch is edited

ASSUME DeliveryAssumption ==
    /\ {NumEvents, MaxAttempts, BackoffCap, BatchLimit} \subseteq Nat \ {0}
    /\ {MaxLost, MaxEdits} \subseteq Nat

VARIABLES
    on,          \* notification_settings.enabled
    channels,    \* what is configured for each channel
    events,      \* the rows of the events
    pass,        \* the pass in progress
    edits,       \* of channels and of the switch so far
    lost,        \* history: passes that did not get to their commit
    tries,       \* history: how often each event was taken in hand, but for passes
                 \* that raised when MaxLost were counted
    owed         \* history: failures each channel may still answer an event with

deliveryVars == <<on, channels, events, pass, edits, lost, tries, owed>>

Event == 1..NumEvents    \* in order of created_at

\* wait: ticks until next_attempt_at, Never when it is null.
Never == -1

EventRow == [raised: BOOLEAN, delivered: BOOLEAN, attempts: 0..MaxAttempts,
             wait: Never..BackoffCap]

NotRaised == [raised |-> FALSE, delivered |-> FALSE, attempts |-> 0, wait |-> Never]

\* broken: those of its channels that were so when it loaded them; left: the
\* channels the event in hand has still to go to; wrote: the rows this session
\* has changed and not committed.
Pass == [pc: {"idle", "send", "commit"}, channels: SUBSET Channel, broken: SUBSET Channel,
         due: SUBSET Event, left: SUBSET Channel,
         failed: BOOLEAN, retryable: BOOLEAN,
         wrote: UNION {[S -> EventRow] : S \in SUBSET Event}]

EmptyFun == [e \in {} |-> NotRaised]

IdlePass == [pc |-> "idle", channels |-> {}, broken |-> {}, due |-> {}, left |-> {},
             failed |-> FALSE, retryable |-> FALSE, wrote |-> EmptyFun]

\* steady: enabled all along, so that it is owed every event.  broken: enabled,
\* with a target no request can be sent to, or behind a relay password that no
\* longer decrypts: a send may raise what is no DeliveryError.
ChannelState == {"steady", "on", "broken", "off", "deleted"}

Enabled(c) == channels[c] \in {"steady", "on", "broken"}

DeliveryTypeOK ==
    /\ on \in BOOLEAN
    /\ channels \in [Channel -> ChannelState]
    /\ events \in [Event -> EventRow]
    /\ pass \in Pass
    /\ edits \in 0..MaxEdits
    /\ lost \in Nat /\ tries \in [Event -> Nat]
    /\ owed \in [Event -> [Channel -> 0..MaxAttempts]]

DeliveryInit ==
    /\ on \in BOOLEAN
    /\ channels \in [Channel -> {"steady", "broken"}]
    /\ events = [e \in Event |-> NotRaised]
    /\ pass = IdlePass
    /\ edits = 0 /\ lost = 0
    /\ tries = [e \in Event |-> 0]
    /\ owed = [e \in Event |-> [c \in Channel |-> MaxAttempts]]

-----------------------------------------------------------------------------
(* A pass (deliver_pending).                                               *)

BackoffDelay(attempts) == Min({2^(attempts - 1), BackoffCap})

\* The row of e as this session sees it.
Row(e) == IF e \in DOMAIN pass.wrote THEN pass.wrote[e] ELSE events[e]

\* Fault: an event given up is taken up again.
DueForever ==
    {e \in Event : events[e].raised /\ ~events[e].delivered /\ events[e].wait \in {0, Never}}

Due == {e \in Event : /\ events[e].raised /\ ~events[e].delivered
                      /\ events[e].attempts < MaxAttempts
                      /\ events[e].wait = 0}

FirstOf(S) == {e \in S : Cardinality({f \in S : f < e}) < BatchLimit}

\* The first event of those due is taken in hand, if there is one.
Take(p) ==
    IF p.due = {} THEN IdlePass
    ELSE [p EXCEPT !.pc = "send", !.left = p.channels, !.failed = FALSE, !.retryable = FALSE]

Tried(p) ==
    tries' = IF p.due = {} THEN tries ELSE [tries EXCEPT ![Min(p.due)] = @ + 1]

StartPass ==
    LET p == [IdlePass EXCEPT !.channels = {c \in Channel : Enabled(c)},
                              !.broken = {c \in Channel : channels[c] = "broken"},
                              !.due = FirstOf(Due)]
    IN /\ pass.pc = "idle" /\ on /\ p.channels # {} /\ p.due # {}
       /\ pass' = Take(p)
       /\ Tried(p)
       /\ UNCHANGED <<on, channels, events, edits, lost, owed>>

InHand == Min(pass.due)

\* Once it has accepted or refused an event a channel is owed nothing more.
Answered(c, owing) ==
    /\ owed' = [owed EXCEPT ![InHand][c] = owing]
    /\ UNCHANGED <<on, channels, events, edits, lost, tries>>

SendSucceeds(c) ==
    /\ pass.pc = "send" /\ c \in pass.left
    /\ pass' = [pass EXCEPT !.left = @ \ {c}]
    /\ Answered(c, 0)

\* The network, a 5xx, or a 429.
SendFails(c) ==
    /\ pass.pc = "send" /\ c \in pass.left
    /\ pass' = [pass EXCEPT !.left = @ \ {c}, !.failed = TRUE, !.retryable = TRUE]
    /\ Answered(c, Max({owed[InHand][c] - 1, 0}))

\* Fault: the last answer decides whether to try again.
RefusedForAll(c) ==
    /\ pass.pc = "send" /\ c \in pass.left
    /\ pass' = [pass EXCEPT !.left = @ \ {c}, !.failed = TRUE, !.retryable = FALSE]
    /\ Answered(c, 0)

\* Any other 4xx, or a channel of an unknown kind.
SendRefused(c) ==
    /\ pass.pc = "send" /\ c \in pass.left
    /\ pass' = [pass EXCEPT !.left = @ \ {c}, !.failed = TRUE]
    /\ Answered(c, 0)

\* httpx.InvalidURL, a password that does not decrypt, a header that cannot be
\* made: past every handler of deliver_pending to the loop's, with the session.
SendRaises(c) ==
    /\ pass.pc = "send" /\ c \in pass.left /\ c \in pass.broken
    /\ pass' = IdlePass
    /\ IF lost < MaxLost
       THEN lost' = lost + 1 /\ UNCHANGED tries
       ELSE tries' = [tries EXCEPT ![InHand] = @ - 1] /\ UNCHANGED lost
    /\ UNCHANGED <<on, channels, events, edits, owed>>

\* Fault: a hopeless event is put off and not counted out.
JudgedOpen(row) ==
    IF ~pass.failed
    THEN {[row EXCEPT !.attempts = @ + 1, !.delivered = TRUE]}
    ELSE {[row EXCEPT !.attempts = @ + 1, !.wait = IF pass.retryable THEN 1 ELSE Never]}

\* The delay counts from the start of the pass, of which some may have gone by.
Judged(row) ==
    LET attempts == row.attempts + 1
    IN IF ~pass.failed THEN {[row EXCEPT !.attempts = attempts, !.delivered = TRUE]}
       ELSE IF ~pass.retryable
            THEN {[row EXCEPT !.attempts = MaxAttempts, !.wait = Never]}
            ELSE {[row EXCEPT !.attempts = attempts, !.wait = w] : w \in 0..BackoffDelay(attempts)}

Judge ==
    /\ pass.pc = "send" /\ pass.left = {}
    /\ \E row \in Judged(Row(InHand)) :
           pass' = [pass EXCEPT !.pc = "commit",
                                !.wrote = [e \in DOMAIN @ \cup {InHand} |->
                                              IF e = InHand THEN row ELSE @[e]]]
    /\ UNCHANGED <<on, channels, events, edits, lost, tries, owed>>

ChannelGone == \E c \in pass.channels : channels[c] = "deleted"

\* Fault: one commit for the whole batch.
CommitBatch ==
    LET due == pass.due \ {InHand}
        p == [pass EXCEPT !.due = due]
    IN /\ pass.pc = "commit"
       /\ events' = IF due = {} THEN [e \in Event |-> Row(e)] ELSE events
       /\ pass' = Take(p)
       /\ Tried(p)
       /\ UNCHANGED <<on, channels, edits, lost, owed>>

CommitPass ==
    LET p == [pass EXCEPT !.due = @ \ {InHand}, !.wrote = EmptyFun]
    IN /\ pass.pc = "commit"
       /\ events' = [e \in Event |-> Row(e)]
       /\ pass' = Take(p)
       /\ Tried(p)
       /\ UNCHANGED <<on, channels, edits, lost, owed>>

\* The UPDATE of a channel that was deleted matches no row: the session is
\* rolled back and the pass is over.
CommitFails ==
    /\ pass.pc = "commit" /\ ChannelGone
    /\ pass' = IdlePass
    /\ lost' = lost + 1
    /\ UNCHANGED <<on, channels, events, edits, tries, owed>>

PassStep ==
    \/ StartPass \/ Judge \/ CommitPass \/ CommitFails
    \/ \E c \in Channel : SendSucceeds(c) \/ SendFails(c) \/ SendRefused(c) \/ SendRaises(c)

-----------------------------------------------------------------------------
(* Everything else.                                                        *)

ProcessDies ==
    /\ pass.pc # "idle" /\ lost < MaxLost
    /\ pass' = IdlePass
    /\ lost' = lost + 1
    /\ UNCHANGED <<on, channels, events, edits, tries, owed>>

RaiseEvent(e) ==
    /\ ~events[e].raised /\ \A f \in 1..(e - 1) : events[f].raised
    /\ events' = [events EXCEPT ![e].raised = TRUE, ![e].wait = 0]
    /\ UNCHANGED <<on, channels, pass, edits, lost, tries, owed>>

RetryTick ==
    /\ \E e \in Event : events[e].wait > 0
    /\ events' = [e \in Event |-> IF events[e].wait > 0
                                  THEN [events[e] EXCEPT !.wait = @ - 1] ELSE events[e]]
    /\ UNCHANGED <<on, channels, pass, edits, lost, tries, owed>>

UpdateChannel(c) ==
    /\ channels[c] # "deleted"
    /\ edits < MaxEdits /\ edits' = edits + 1
    /\ \E s \in {"on", "broken", "off"} \ {channels[c]} : channels' = [channels EXCEPT ![c] = s]
    /\ UNCHANGED <<on, events, pass, lost, tries, owed>>

DeleteChannel(c) ==
    /\ channels[c] # "deleted"
    /\ edits < MaxEdits /\ edits' = edits + 1
    /\ channels' = [channels EXCEPT ![c] = "deleted"]
    /\ UNCHANGED <<on, events, pass, lost, tries, owed>>

UpdateNotificationSettings ==
    /\ edits < MaxEdits /\ edits' = edits + 1
    /\ on' = ~on
    /\ UNCHANGED <<channels, events, pass, lost, tries, owed>>

DeliveryNext ==
    \/ PassStep \/ ProcessDies \/ RetryTick \/ UpdateNotificationSettings
    \/ \E e \in Event : RaiseEvent(e)
    \/ \E c \in Channel : UpdateChannel(c) \/ DeleteChannel(c)

DeliverySpec == DeliveryInit /\ [][DeliveryNext]_deliveryVars

\* The loop comes round, every send ends within its timeout, time passes.
DeliveryFairness ==
    /\ WF_deliveryVars(PassStep)
    /\ WF_deliveryVars(RetryTick)

DeliveryFairSpec == DeliverySpec /\ DeliveryFairness

-----------------------------------------------------------------------------
(* Properties.                                                             *)

Settled(e) == events[e].delivered \/ events[e].attempts = MaxAttempts

\* "A crash halfway through a backlog should not re-send everything that
\* already arrived": each pass that is lost, to a death, a failed commit or a
\* send that raised, costs at most one event a try that is not counted, whatever
\* the length of the backlog.
CrashRepeatsOne ==
    LET uncounted == {e \in Event : tries[e] > Row(e).attempts}
        excess(e) == tries[e] - Row(e).attempts
    IN MapThenSumSet(excess, uncounted)
           <= lost + IF pass.pc = "send" THEN 1 ELSE 0

\* An event that is done with has reached every channel that was enabled all
\* the while, but for one that refused it or that failed MaxAttempts times: what
\* another channel answered does not come into it (the retryable flag).
NoChannelIsSkipped ==
    \A e \in Event, c \in Channel :
        events[e].raised /\ Settled(e) /\ channels[c] = "steady" =>
            owed[e][c] = 0

\* Sending stays on, and there is a channel to send to.
SendingStaysOn == <>[](on /\ \E c \in Channel : Enabled(c))

\* Every event is delivered or given up in the end, as long as sending is on,
\* there is a channel, and none that raises stays enabled: no backoff, lost pass
\* or full batch keeps one waiting for ever.  ("Attempts are capped", but not those
\* of a send that raises: nothing of its pass is committed, and the next one starts
\* with the same event.)
EventIsSettled ==
    SendingStaysOn /\ <>[](\A c \in Channel : channels[c] # "broken") =>
        \A e \in Event : []<>(events[e].raised => Settled(e))
=============================================================================
