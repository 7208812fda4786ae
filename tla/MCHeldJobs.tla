----------------------------- MODULE MCHeldJobs -----------------------------
(***************************************************************************)
(* HeldJobs on small instances.                                            *)
(***************************************************************************)
EXTENDS HeldCustody

CONSTANTS p1, c1, r1, r2

OnePrinter == [c \in CupsJob |-> p1]

HeldFor(j, reasons) == jobs[j].reason \in reasons \cup {"none"}

\* One attempt at a print job meets every handler: before a crash two requests, of
\* which one may be a cancel, and one after it, which leaves nothing in memory.
OneAttempt ==
    /\ jobs[2] = NoRow /\ task[r2].pc # "cancel"
    /\ crashes > 0 => task[r2] = IdleTask

\* A second attempt meets one request and the loops, with the printer in service.
TwoAttempts ==
    /\ task[r2] = IdleTask /\ \A s \in Check : sweep[s] = IdleSweep
    /\ fleet[p1] = "active" /\ crashes = 0

\* A hold by PIN or for follow-me meets no step that one over a quota does not: an
\* admin may release any of them.  The first attempt is held for an offline printer
\* or over a quota, the second by PIN.  Nothing that is fair is left out, only what
\* arrives, begins or befalls.
Small ==
    /\ HeldFor(1, {"printer_offline", "quota"}) /\ HeldFor(2, {"pin_release"})
    /\ OneAttempt \/ TwoAttempts
=============================================================================
