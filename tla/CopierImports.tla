--------------------------- MODULE CopierImports ---------------------------
(***************************************************************************)
(* Usage that an administrator imports from a copier's own log             *)
(* (routers/copier_imports.py): a file is uploaded, previewed, as often as *)
(* it takes to map its columns, and committed, all in requests of their    *)
(* own.  Logs overlap, and the same file may be uploaded again.            *)
(*                                                                         *)
(* A request loads the batch, reads the file and the records there are,    *)
(* and commits what it changed; nothing is locked until then.              *)
(*                                                                         *)
(* A line stands for its copier, identity and time, which tell a duplicate *)
(* from a new one.  A file has no line twice: the code would record both.  *)
(* Lines that cannot be read are left out.                                 *)
(***************************************************************************)
EXTENDS Integers, FiniteSetsExt

CONSTANTS
    Line,          \* what a log may say
    Batch,         \* batches
    ImportSession, \* requests in progress at one time
    MaxForced      \* bound: imports that are told to take duplicates too

ASSUME CopierImportsAssumption == MaxForced \in Nat

VARIABLES
    batches,     \* the rows
    spooled,     \* batches whose file is there
    importing,   \* what each request has read
    usage,       \* records there are of each line, beyond 2 all the same
    forced,      \* how many imports have taken duplicates
    repeated      \* history: lines taken although there was a record, and lines
                 \* that two commits looked for at one time

copierImportsVars == <<batches, spooled, importing, usage, forced, repeated>>

BatchRow == [status: {"none", "uploaded", "previewed", "committed", "deleted"},
             lines: SUBSET Line]

NoBatch == [status |-> "none", lines |-> {}]

\* loaded: the status as the request read it; new: the lines it will record.
ImportState ==
    [pc: {"idle", "parse", "write"}, op: {"preview", "commit", "delete"},
     batch: Batch, loaded: {"uploaded", "previewed"},
     new: SUBSET Line, force: BOOLEAN]

IdleImport == [pc |-> "idle", op |-> "preview", batch |-> CHOOSE b \in Batch : TRUE,
               loaded |-> "uploaded", new |-> {}, force |-> FALSE]

CopierImportsTypeOK ==
    /\ batches \in [Batch -> BatchRow]
    /\ spooled \subseteq Batch
    /\ importing \in [ImportSession -> ImportState]
    /\ usage \in [Line -> 0..2]
    /\ forced \in 0..MaxForced
    /\ repeated \subseteq Line

CopierImportsInit ==
    /\ batches = [b \in Batch |-> NoBatch]
    /\ spooled = {}
    /\ importing = [s \in ImportSession |-> IdleImport]
    /\ usage = [l \in Line |-> 0]
    /\ forced = 0 /\ repeated = {}

-----------------------------------------------------------------------------

\* upload_import_file: the file, and then the row.
UploadImportFile(b) ==
    /\ batches[b] = NoBatch
    /\ \E lines \in SUBSET Line : batches' = [batches EXCEPT ![b] =
                                      [status |-> "uploaded", lines |-> lines]]
    /\ spooled' = spooled \cup {b}
    /\ UNCHANGED <<importing, usage, forced, repeated>>

\* 404 for a batch that is gone, 400 for one that is committed; a commit needs
\* the mapping that a preview saves.
OpenBatch(s, b, op) ==
    /\ importing[s].pc = "idle"
    /\ batches[b].status \in IF op = "commit" THEN {"previewed"} ELSE {"uploaded", "previewed"}
    /\ \E force \in BOOLEAN :
           /\ force => op = "commit" /\ forced < MaxForced
           /\ forced' = forced + (IF force THEN 1 ELSE 0)
           /\ importing' = [importing EXCEPT ![s] =
                  [pc |-> IF op = "delete" THEN "write" ELSE "parse", op |-> op, batch |-> b,
                   loaded |-> batches[b].status, new |-> {}, force |-> force]]
    \* delete_import_batch unlinks the file before it deletes the row.
    /\ spooled' = IF op = "delete" THEN spooled \ {b} ELSE spooled
    /\ UNCHANGED <<batches, usage, repeated>>

Recorded == {l \in Line : usage[l] > 0}

\* Fault: the duplicates are those that the preview has shown.
NewAtPreview(s) ==
    LET t == importing[s]
    IN IF t.op = "preview" THEN {} ELSE batches[t.batch].lines

\* "Never trust client-echoed preview numbers."
NewLines(s) ==
    LET t == importing[s]
    IN IF t.op = "preview" THEN {}
       ELSE batches[t.batch].lines \ (IF t.force THEN {} ELSE Recorded)

CommitsOf(others) == {t \in others : importing[t].op = "commit" /\ importing[t].pc = "write"}

ParseBatch(s) ==
    LET b == importing[s].batch
        rivals == CommitsOf(ImportSession \ {s})
    IN /\ importing[s].pc = "parse" /\ b \in spooled
       /\ importing' = [importing EXCEPT ![s].pc = "write", ![s].new = NewLines(s)]
       /\ repeated' = repeated \cup (NewLines(s) \cap UNION {importing[t].new : t \in rivals})
                             \cup (IF importing[s].force THEN NewLines(s) \cap Recorded ELSE {})
       /\ UNCHANGED <<batches, spooled, usage, forced>>

Done(s) == importing' = [importing EXCEPT ![s] = IdleImport]

\* The status is written if it is another one than was loaded.
PreviewImportBatch(s) ==
    LET b == importing[s].batch
    IN /\ importing[s].pc = "write" /\ importing[s].op = "preview"
       /\ batches[b].status # "deleted"
       /\ batches' = IF importing[s].loaded = "previewed" THEN batches
                     ELSE [batches EXCEPT ![b].status = "previewed"]
       /\ Done(s)
       /\ UNCHANGED <<spooled, usage, forced, repeated>>

CommitImportBatch(s) ==
    LET b == importing[s].batch
    IN /\ importing[s].pc = "write" /\ importing[s].op = "commit"
       /\ batches[b].status # "deleted"
       /\ batches' = [batches EXCEPT ![b].status = "committed"]
       /\ usage' = [l \in Line |-> IF l \in importing[s].new THEN Min({usage[l] + 1, 2})
                                   ELSE usage[l]]
       /\ Done(s)
       /\ UNCHANGED <<spooled, forced, repeated>>

\* Records of a commit that came in between stay, without their batch.
DeleteImportBatch(s) ==
    LET b == importing[s].batch
    IN /\ importing[s].pc = "write" /\ importing[s].op = "delete"
       /\ batches' = [batches EXCEPT ![b] = [status |-> "deleted", lines |-> {}]]
       /\ Done(s)
       /\ UNCHANGED <<spooled, usage, forced, repeated>>

\* The row or the file is gone, the database fails, or the process dies.
ImportFails(s) ==
    /\ importing[s].pc # "idle"
    /\ Done(s)
    /\ UNCHANGED <<batches, spooled, usage, forced, repeated>>

CopierImportsNext ==
    \/ \E b \in Batch : UploadImportFile(b)
    \/ \E s \in ImportSession :
           \/ \E b \in Batch, op \in {"preview", "commit", "delete"} : OpenBatch(s, b, op)
           \/ ParseBatch(s)
           \/ PreviewImportBatch(s) \/ CommitImportBatch(s) \/ DeleteImportBatch(s)
           \/ ImportFails(s)

CopierImportsSpec == CopierImportsInit /\ [][CopierImportsNext]_copierImportsVars

-----------------------------------------------------------------------------
(* Properties.                                                             *)

\* What a copier logged is counted once, in however many files it is, however
\* often a batch is committed and whatever a late preview or a delete did to its
\* status in the meantime; two commits that look for the same line at one time,
\* and a duplicate that an administrator asks for, are the only exceptions
\* (_is_duplicate, commit_import_batch).
CountedOncePerLine == \A l \in Line \ repeated : usage[l] <= 1
=============================================================================
