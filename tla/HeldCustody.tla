---------------------------- MODULE HeldCustody ----------------------------
(***************************************************************************)
(* HeldJobs implements DocumentCustody.  The spool is what is kept; a row  *)
(* that was held, and so has a hold reason, and whose document is not in   *)
(* the spool has lost it; custody is given up when held_file_path is       *)
(* cleared.                                                                *)
(***************************************************************************)
EXTENDS HeldJobs

Taken == {j \in Job : jobs[j].reason # "none"}
Lost == Taken \ spool
Waived == {j \in Taken : ~jobs[j].path}
Due == {j \in Job : jobs[j].age > 0}

Custody == INSTANCE DocumentCustody
    WITH Document <- Job, MaxHanded <- MaxSent,
         kept <- spool, lost <- Lost, handed <- sent,
         waived <- Waived, due <- Due

\* Every step of every handler is a step the promise allows.
CustodySpec == Custody!Spec
=============================================================================
