--------------------------- MODULE MCJobDelivery ---------------------------
(***************************************************************************)
(* JobDelivery on small instances.                                         *)
(***************************************************************************)
EXTENDS JobDelivery

CONSTANTS p1, c1, c2

OnePrinter == [c \in CupsJob |-> p1]
Distinct == [c \in CupsJob |-> IF c = c1 THEN 1 ELSE 2]

NobodyAsks == \A a \in Admin : admin[a] = IdleAdmin

\* One print job meets a restart or a kill, and an administrator before the API
\* dies, which leaves nothing in memory.
OneJob ==
    /\ cups[c2] = "unsent" /\ bounds.clears = 0
    /\ bounds.restarts + bounds.kills < 2
    /\ bounds.crashes > 0 => NobodyAsks

\* Two share a queue and a spool that is cleared.
TwoJobs ==
    /\ bounds = [bounds EXCEPT !.restarts = 0, !.kills = 0, !.crashes = 0]
    /\ NobodyAsks

Small == OneJob \/ TwoJobs
=============================================================================
