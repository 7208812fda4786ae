-------------------------- MODULE DocumentCustody --------------------------
(***************************************************************************)
(* What PrintOps promises about a document it keeps for a held job,        *)
(* whatever the handlers that release, discard, expire and purge it do to  *)
(* each other:                                                             *)
(*                                                                         *)
(*   - a document is destroyed only after it was handed to CUPS, or after  *)
(*     custody of it was given up, or once it has fallen due;              *)
(*   - a document that is destroyed is never handed to CUPS again, and is  *)
(*     never kept again;                                                   *)
(*   - custody once given up is not taken back.                            *)
(*                                                                         *)
(* "Due" is a deadline that has passed: the hold's expiry, or the time a   *)
(* failed job is kept.  A later outcome starts a new one.                  *)
(***************************************************************************)
EXTENDS Naturals

CONSTANTS Document, MaxHanded

VARIABLES
    kept,     \* documents in the spool
    lost,     \* documents that were in the spool and are not any more
    handed,   \* how often each was handed to CUPS, up to MaxHanded
    waived,   \* documents nobody keeps a record of the place of any more
    due       \* documents whose deadline has passed

vars == <<kept, lost, handed, waived, due>>

Init ==
    /\ kept = {} /\ lost = {}
    /\ handed = [d \in Document |-> 0]
    /\ waived = {} /\ due = {}

\* A new document is taken into custody; it can end the time of others.
TakeIn(d) ==
    /\ d \notin kept \cup lost \cup waived
    /\ kept' = kept \cup {d}
    /\ due' \subseteq due
    /\ UNCHANGED <<lost, handed, waived>>

\* A kept document is handed to CUPS; it stays in the spool.
HandOver(d) ==
    /\ d \in kept
    /\ handed' = [handed EXCEPT ![d] = IF @ < MaxHanded THEN @ + 1 ELSE @]
    /\ UNCHANGED <<kept, lost, waived, due>>

\* Somebody decides about some of the documents, or their time passes.
Decide ==
    /\ waived \subseteq waived' /\ waived' \subseteq Document
    /\ due' \subseteq Document
    /\ UNCHANGED <<kept, lost, handed>>

MayDestroy(d) == handed[d] > 0 \/ d \in waived \/ d \in due

\* Some documents are removed from the spool, each for a reason, and what is
\* decided about them can be recorded in the same step.
Destroy ==
    \E S \in SUBSET kept :
        /\ \A d \in S : MayDestroy(d)
        /\ kept' = kept \ S
        /\ lost' = lost \cup S
        /\ waived \subseteq waived' /\ waived' \subseteq Document
        /\ due' \subseteq Document
        /\ UNCHANGED handed

Next ==
    \/ \E d \in Document : TakeIn(d) \/ HandOver(d)
    \/ Decide
    \/ Destroy

Spec == Init /\ [][Next]_vars
=============================================================================
