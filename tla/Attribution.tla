---------------------------- MODULE Attribution ----------------------------
(***************************************************************************)
(* Whose job it is (attribution/resolve.py): jobs that arrive under some   *)
(* name, the aliases and device overrides that say who is meant            *)
(* (routers/attribution_aliases.py, routers/device_overrides.py), and the  *)
(* directory sync that replaces all aliases that came from Google          *)
(* (integrations/google_workspace.py).                                     *)
(*                                                                         *)
(* Each of them reads and writes in one transaction.  What it has written  *)
(* is seen by the others when it commits, and who wants to write the same  *)
(* rows waits until then.  Jobs that are logged already are corrected by   *)
(* the transaction that brings a new alias or override, and by no other.   *)
(*                                                                         *)
(* One device has a MAC address that is known; names are lower case.       *)
(***************************************************************************)
EXTENDS Naturals, FiniteSets

CONSTANTS
    Address,         \* e-mail addresses
    Username,        \* names without an @
    NoName,
    Writer,          \* syncs and requests in progress at one time
    PrintJob,        \* jobs
    MaxDirectories,  \* bound: changes of the directory
    MaxEdits         \* bound: requests by administrators

ASSUME AttributionAssumption ==
    /\ Address \cap Username = {} /\ NoName \notin Address \cup Username
    /\ {MaxDirectories, MaxEdits} \subseteq Nat

VARIABLES
    directory,    \* Google: primary addresses, and who has which alias
    directories,  \* how often it has changed
    roster,       \* google_workspace_users
    aliases,      \* attribution_aliases
    override,     \* the device's override, NoName for none
    logged,       \* the jobs
    writer,       \* what each transaction has read and written
    edits

attributionVars == <<directory, directories, roster, aliases, override, logged, writer, edits>>

Name == Address \cup Username

Directory == [roster: SUBSET Address, claims: SUBSET (Name \X Address)]

\* by: source.
AliasRow == [email: Address, by: {"manual", "sync"}]

NoAlias == [email |-> NoName, by |-> "none"]

\* user: submitted_by; mac: sent from the device, whose address was looked up.
\* late: history, it came while aliases or overrides were being written.
Attributed == [pc: {"none", "resolved", "logged"}, user: Name \cup {NoName},
              method: {"cups", "alias", "override", "device", "unresolved"},
              mac: BOOLEAN, late: BOOLEAN]

NotLogged == [pc |-> "none", user |-> NoName, method |-> "unresolved",
              mac |-> FALSE, late |-> FALSE]

\* roster, rows: what a sync is to write; known: the aliases of the last sync.
\* puts, drops, moves: written, and not committed: rows of alias and e-mail,
\* keys, jobs and their new users.
WriterState ==
    [pc: {"idle", "listed", "read", "commit"},
     roster: SUBSET Address, rows: SUBSET (Name \X Address), known: SUBSET (Name \X Address),
     by: {"manual", "sync", "override"}, puts: SUBSET (Name \X Address), drops: SUBSET Name,
     moves: SUBSET (PrintJob \X Address)]

IdleWriter == [pc |-> "idle", roster |-> {}, rows |-> {}, known |-> {}, by |-> "manual",
               puts |-> {}, drops |-> {}, moves |-> {}]

AttributionTypeOK ==
    /\ directory \in Directory
    /\ directories \in 0..MaxDirectories
    /\ roster \subseteq Address
    /\ aliases \in [Name -> AliasRow \cup {NoAlias}]
    /\ override \in Address \cup {NoName}
    /\ logged \in [PrintJob -> Attributed]
    /\ writer \in [Writer -> WriterState]
    /\ edits \in 0..MaxEdits

AttributionInit ==
    /\ \E a \in Address : directory = [roster |-> {a}, claims |-> {}] /\ roster = {a}
    /\ directories = 0
    /\ aliases = [n \in Name |-> NoAlias]
    /\ override \in roster \cup {NoName}
    /\ logged = [j \in PrintJob |-> NotLogged]
    /\ writer = [w \in Writer |-> IdleWriter]
    /\ edits = 0

-----------------------------------------------------------------------------
(* A job (resolve_user, create_job).                                       *)

Writing == \E w \in Writer : writer[w].pc \in {"read", "commit"}

Resolved(user, method, mac) ==
    [pc |-> "resolved", user |-> user, method |-> method, mac |-> mac, late |-> Writing]

ByAlias(n, mac) ==
    IF aliases[n] # NoAlias THEN Resolved(aliases[n].email, "alias", mac)
    ELSE Resolved(n, "cups", mac)

\* An address is taken at its word; a bare name only if its device says nothing.
\* reported: whom the device lists of Mosyle or Google name, after the roster.
ResolveUser(j, n) ==
    /\ logged[j] = NotLogged
    /\ \/ n \in Address /\ logged' = [logged EXCEPT ![j] = ByAlias(n, FALSE)]
       \/ /\ n \notin Address
          /\ \E mac \in BOOLEAN, reported \in Address \cup {NoName} :
                 logged' = [logged EXCEPT ![j] =
                     IF mac /\ override # NoName THEN Resolved(override, "override", TRUE)
                     ELSE IF mac /\ reported # NoName THEN Resolved(reported, "device", TRUE)
                     ELSE IF n = NoName THEN Resolved(NoName, "unresolved", mac)
                     ELSE ByAlias(n, mac)]
    /\ UNCHANGED <<directory, directories, roster, aliases, override, writer, edits>>

LogJob(j) ==
    /\ logged[j].pc = "resolved"
    /\ logged' = [logged EXCEPT ![j].pc = "logged", ![j].late = @ \/ Writing]
    /\ UNCHANGED <<directory, directories, roster, aliases, override, writer, edits>>

-----------------------------------------------------------------------------
(* Transactions.                                                           *)

Keys(rows) == {r[1] : r \in rows}

Under(n) == {j \in PrintJob : logged[j].pc = "logged" /\ logged[j].user = n}

\* The UPDATE of the jobs that are logged under one of these aliases.
Moves(rows) == UNION {Under(r[1]) \X {r[2]} : r \in rows}

Locks(t) == [keys |-> Keys(t.puts) \cup t.drops, jobs |-> Keys(t.moves),
             device |-> t.by = "override"]

\* Nobody else has written one of these rows.
MayWrite(w, t) ==
    \A v \in Writer \ {w} : writer[v].pc = "commit" =>
        /\ Locks(writer[v]).keys \cap Locks(t).keys = {}
        /\ Locks(writer[v]).jobs \cap Locks(t).jobs = {}
        /\ ~(Locks(writer[v]).device /\ Locks(t).device)
        /\ ~(writer[v].by = "sync" /\ t.by = "sync")

Opens(w, t) ==
    /\ MayWrite(w, t)
    /\ writer' = [writer EXCEPT ![w] =
           IF \A k \in Keys(t.puts) \ t.drops : aliases[k] = NoAlias
           THEN [t EXCEPT !.pc = "commit"]
           ELSE IdleWriter]          \* the unique key of the alias

\* The moves that were written, and what the transaction put and dropped.
CommitWriter(w) ==
    LET t == writer[w]
    IN /\ t.pc = "commit"
       /\ aliases' = [n \in Name |->
              IF n \in Keys(t.puts)
              THEN [email |-> (CHOOSE r \in t.puts : r[1] = n)[2], by |-> t.by]
              ELSE IF n \in t.drops THEN NoAlias ELSE aliases[n]]
       /\ logged' = [j \in PrintJob |->
              IF j \in Keys(t.moves)
              THEN [logged[j] EXCEPT !.user = (CHOOSE m \in t.moves : m[1] = j)[2],
                                     !.method = IF t.by = "override" THEN "override" ELSE "alias"]
              ELSE [logged[j] EXCEPT !.late = @ \/ logged[j].pc = "resolved"]]
       /\ roster' = IF t.by = "sync" THEN t.roster ELSE roster
       /\ override' = IF t.by = "override"
                      THEN IF t.rows = {} THEN NoName ELSE (CHOOSE r \in t.rows : TRUE)[2]
                      ELSE override
       /\ writer' = [writer EXCEPT ![w] = IdleWriter]
       /\ UNCHANGED <<directory, directories, edits>>

\* The database fails, or the process dies.
WriterFails(w) ==
    /\ writer[w].pc # "idle"
    /\ writer' = [writer EXCEPT ![w] = IdleWriter]
    /\ UNCHANGED <<directory, directories, roster, aliases, override, logged, edits>>

-----------------------------------------------------------------------------
(* The sync (sync_users).                                                  *)

SyncedAliases == {<<n, aliases[n].email>> : n \in {m \in Name : aliases[m].by = "sync"}}

\* An alias that two accounts claim is nobody's.
Unambiguous(claims) == {c \in claims : \A d \in claims : d[1] = c[1] => d = c}

ListUsers(w) ==
    /\ writer[w] = IdleWriter
    /\ writer' = [writer EXCEPT ![w] =
                     [IdleWriter EXCEPT !.pc = "listed", !.by = "sync",
                                        !.roster = directory.roster,
                                        !.rows = Unambiguous(directory.claims)]]
    /\ UNCHANGED <<directory, directories, roster, aliases, override, logged, edits>>

ReadAliases(w) ==
    /\ writer[w].pc = "listed"
    /\ writer' = [writer EXCEPT
           ![w].pc = "read", ![w].known = SyncedAliases,
           ![w].rows = {r \in @ : aliases[r[1]].by # "manual"}]
    /\ UNCHANGED <<directory, directories, roster, aliases, override, logged, edits>>

\* Fault: a new alias is not taken for a change.
Remapped(t) == {r \in t.rows : r \notin t.known /\ r[1] \in Keys(t.known)}

Changed(t) == t.rows \ t.known

\* All rows of the last sync go, also those that stay the same; jobs are only
\* touched for an alias that is new or has another owner.
ReplaceAliases(w) ==
    LET t == [writer[w] EXCEPT !.rows = {}, !.known = {}, !.puts = writer[w].rows,
                               !.drops = {k \in Keys(writer[w].known) : aliases[k].by = "sync"},
                               !.moves = Moves(Changed(writer[w]))]
    IN /\ writer[w].pc = "read"
       /\ Opens(w, t)
       /\ UNCHANGED <<directory, directories, roster, aliases, override, logged, edits>>

-----------------------------------------------------------------------------
(* Administrators.                                                         *)

EditBegins(w) ==
    /\ writer[w] = IdleWriter
    /\ edits < MaxEdits /\ edits' = edits + 1
    /\ UNCHANGED <<directory, directories, roster, aliases, override, logged>>

\* 409 for an alias that there is.
CreateAttributionAlias(w, n, email) ==
    LET rows == {<<n, email>>}
    IN /\ email \in roster /\ n # email /\ aliases[n] = NoAlias
       /\ EditBegins(w)
       /\ Opens(w, [IdleWriter EXCEPT !.puts = rows, !.moves = Moves(rows)])

\* A synced one too: it comes back with the next sync.
DeleteAttributionAlias(w, n) ==
    /\ aliases[n] # NoAlias
    /\ EditBegins(w)
    /\ Opens(w, [IdleWriter EXCEPT !.drops = {n}])

\* All jobs of the device.
SetDeviceOverride(w, email) ==
    LET jobs == {j \in PrintJob : logged[j].pc = "logged" /\ logged[j].mac}
    IN /\ email \in roster
       /\ EditBegins(w)
       /\ Opens(w, [IdleWriter EXCEPT !.by = "override", !.rows = {<<email, email>>},
                                       !.moves = jobs \X {email}])

DeleteDeviceOverride(w) ==
    /\ override # NoName
    /\ EditBegins(w)
    /\ Opens(w, [IdleWriter EXCEPT !.by = "override"])

-----------------------------------------------------------------------------

\* People come, go and are renamed; an address that is somebody's primary one
\* is nobody's alias.
DirectoryChanges ==
    /\ directories < MaxDirectories /\ directories' = directories + 1
    /\ \E people \in SUBSET Address, claims \in SUBSET (Name \X Address) :
           /\ \A c \in claims : c[1] \notin people /\ c[2] \in people
           /\ directory' = [roster |-> people, claims |-> claims]
    /\ UNCHANGED <<roster, aliases, override, logged, writer, edits>>

AttributionNext ==
    \/ \E j \in PrintJob : LogJob(j) \/ \E n \in Name \cup {NoName} : ResolveUser(j, n)
    \/ \E w \in Writer :
           \/ ListUsers(w) \/ ReadAliases(w) \/ ReplaceAliases(w)
           \/ CommitWriter(w) \/ WriterFails(w)
           \/ DeleteDeviceOverride(w)
           \/ \E email \in Address : \/ SetDeviceOverride(w, email)
                                     \/ \E n \in Name : CreateAttributionAlias(w, n, email)
           \/ \E n \in Name : DeleteAttributionAlias(w, n)
    \/ DirectoryChanges

AttributionSpec == AttributionInit /\ [][AttributionNext]_attributionVars

-----------------------------------------------------------------------------
(* Properties.                                                             *)

\* No job is left behind: while nobody writes, none that came in while nobody
\* wrote keeps a name that is known as somebody's alias, nor is a job of the
\* device left under a name that its override has since corrected.  The aliases
\* are replaced as a whole with every sync, but only the new ones look for jobs
\* (_refresh_google_sourced_aliases, create_attribution_alias,
\* set_device_override).
NoJobLeftBehind ==
    ~Writing =>
        \A j \in PrintJob : logged[j].pc = "logged" /\ ~logged[j].late =>
            /\ logged[j].method = "cups" => aliases[logged[j].user] = NoAlias
            /\ logged[j].mac /\ override # NoName => logged[j].method \in {"override", "alias"}
=============================================================================
