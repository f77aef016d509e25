------------------------------ MODULE Database ------------------------------
(***************************************************************************)
(* The SQLite file under the registry: the schema that every process sets  *)
(* up when it opens it (init_db), with the migration of an events table of *)
(* the earlier release, and the tokens that registry-auth issues and       *)
(* require_auth looks up.                                                  *)
(*                                                                         *)
(* The registry and any number of registry-auth commands run at once, each *)
(* with a connection of its own.  SQLite lets one connection write at a    *)
(* time; a SELECT takes no part in that, and Python opens a transaction    *)
(* for INSERT, UPDATE and DELETE but not for CREATE TABLE, which commits   *)
(* by itself.  A transaction that is open across two steps is the          *)
(* migration's; the other ones are one step, as nobody sees inside them.   *)
(***************************************************************************)
EXTENDS Naturals, FiniteSets

CONSTANTS
    Proc,         \* processes
    User,         \* usernames
    Role, Rank,   \* the roles and ROLE_HIERARCHY
    Schemas,      \* the events tables there may be at first
    MaxStarts,    \* bound: processes started
    MaxFaults,    \* bound: kills and failing statements
    MaxSeq,       \* bound: events
    Nobody        \* "no process holds the lock", "no row"

ASSUME RoleAssumption == Role # {} /\ Rank \in [Role -> Nat]
ASSUME SchemaAssumption == Schemas \subseteq {"absent", "old", "current"}
ASSUME DatabaseBoundAssumption ==
    MaxStarts \in Nat /\ MaxFaults \in Nat /\ MaxSeq \in Nat \ {0} /\ Nobody \notin Proc

Commands ==
    {[name |-> n] : n \in {"registry", "list-users"}}
    \cup [name : {"revoke-user", "rotate-token"}, username : User]
    \cup [name : {"add-user"}, username : User, role : Role]

VARIABLES
    events,    \* the events table: "absent", "old", "current" or "migrated"
    log,       \* the sequence numbers of its rows
    leftover,  \* there is a table events_new
    tokens,    \* the rows of the tokens table
    lock,      \* the process whose transaction is open, or Nobody
    pc,        \* pc[p]: the next statement of p
    command,   \* command[p]: what p was started for
    seen,      \* seen[p]: the row of its user p has read, then the one it
               \* has written
    copied,    \* copied[p]: the events p has copied to events_new
    issued, starts, faults,  \* how many so far
    written,   \* history: the events committed
    origin,    \* history: the events table at first
    interrupted,  \* history: a migration was cut short
    told,      \* history: the row whose token the user was given last
    muddled    \* history: the users two of whose commands have overlapped, or
               \* one of whose commands was killed before it reported

schemaVars == <<events, log, leftover>>
histVars   == <<written, origin, interrupted, told, muddled>>
procVars   == <<command, seen, copied>>
vars == <<schemaVars, tokens, lock, pc, procVars, issued, starts, faults, histVars>>

Init ==
    /\ events \in Schemas
    /\ log \in {{}, {1}} /\ (events = "absent" => log = {})
    /\ leftover = FALSE /\ tokens = {} /\ lock = Nobody
    /\ pc = [p \in Proc |-> "idle"]
    /\ command = [p \in Proc |-> [name |-> "registry"]]
    /\ seen = [p \in Proc |-> {}] /\ copied = [p \in Proc |-> {}]
    /\ issued = 0 /\ starts = 0 /\ faults = 0
    /\ written = log /\ origin = events /\ interrupted = FALSE
    /\ told = [u \in User |-> {}] /\ muddled = {}

At(p, statement) == pc[p] = statement
Goto(p, statement) == pc' = [pc EXCEPT ![p] = statement]
Unlocked == lock = Nobody

-----------------------------------------------------------------------------
(* init_db                                                                 *)

Start(p, c) ==
    /\ At(p, "idle") /\ starts < MaxStarts /\ starts' = starts + 1
    /\ command' = [command EXCEPT ![p] = c]
    /\ Goto(p, "tables")
    /\ UNCHANGED <<schemaVars, tokens, lock, seen, copied, issued, faults, histVars>>

\* CREATE TABLE IF NOT EXISTS
CreateTables(p) ==
    /\ At(p, "tables")
    /\ IF events = "absent" THEN Unlocked /\ events' = "current" ELSE UNCHANGED events
    /\ Goto(p, "inspect")
    /\ UNCHANGED <<log, leftover, tokens, lock, procVars, issued, starts, faults, histVars>>

\* What the process goes on to once the schema is there.
Opened(p) == CASE command[p].name = "registry" -> "up"
               [] command[p].name = "list-users" -> "idle"
               [] OTHER -> "look"

\* Mutant of Outdated: the test for a migration already applied is dropped.
OutdatedAlways == TRUE

\* The SQL of an outdated table does not name "conversion.completed".
Outdated == events = "old"

Inspect(p) ==
    /\ At(p, "inspect")
    /\ Goto(p, IF Outdated THEN "create" ELSE Opened(p))
    /\ UNCHANGED <<schemaVars, tokens, lock, procVars, issued, starts, faults, histVars>>

\* CREATE TABLE events_new, which commits by itself and fails when the table
\* is there.
CreateNew(p) ==
    /\ At(p, "create") /\ Unlocked
    /\ leftover' = TRUE
    /\ Goto(p, IF leftover THEN "idle" ELSE "copy")
    /\ UNCHANGED <<events, log, tokens, lock, procVars, issued, starts, faults, histVars>>

\* Mutant of CopyEvents: the rows are read without a transaction.
CopyUnlocked(p) ==
    /\ At(p, "copy") /\ Unlocked
    /\ copied' = [copied EXCEPT ![p] = log]
    /\ Goto(p, "swap")
    /\ UNCHANGED <<schemaVars, tokens, lock, command, seen, issued, starts, faults, histVars>>

\* INSERT INTO events_new SELECT ... FROM events
CopyEvents(p) ==
    /\ At(p, "copy") /\ Unlocked /\ lock' = p
    /\ copied' = [copied EXCEPT ![p] = log]
    /\ Goto(p, "swap")
    /\ UNCHANGED <<schemaVars, tokens, command, seen, issued, starts, faults, histVars>>

\* Mutant of SwapTables: the rows are copied back, events_new is not dropped.
SwapByCopy(p) ==
    /\ At(p, "swap") /\ lock' = Nobody
    /\ events' = "migrated" /\ log' = copied[p]
    /\ Goto(p, Opened(p))
    /\ UNCHANGED <<leftover, tokens, procVars, issued, starts, faults, histVars>>

\* Mutant of SwapTables: no commit, so the transaction stays open.
SwapUncommitted(p) ==
    /\ At(p, "swap") /\ Goto(p, Opened(p))
    /\ UNCHANGED <<schemaVars, tokens, lock, procVars, issued, starts, faults, histVars>>

\* DROP TABLE events, ALTER TABLE events_new RENAME TO events, and commit.
SwapTables(p) ==
    /\ At(p, "swap") /\ lock' = Nobody
    /\ events' = "migrated" /\ log' = copied[p] /\ leftover' = FALSE
    /\ Goto(p, Opened(p))
    /\ UNCHANGED <<tokens, procVars, issued, starts, faults, histVars>>

-----------------------------------------------------------------------------
(* Ending early                                                            *)

Released(p) == lock' = IF lock = p THEN Nobody ELSE lock
Fault == faults < MaxFaults /\ faults' = faults + 1

\* The process is killed, or a statement fails (disk full, or the lock not
\* had in time) and the exception ends it: what is not committed is undone.
End(p) ==
    /\ ~At(p, "idle") /\ ~At(p, "up") /\ Fault
    /\ Goto(p, "idle") /\ Released(p)
    /\ interrupted' = (interrupted \/ pc[p] \in {"copy", "swap"})
    /\ muddled' = muddled \cup IF At(p, "print") THEN {command[p].username} ELSE {}
    /\ UNCHANGED <<schemaVars, tokens, procVars, issued, starts, written, origin, told>>

\* The registry stops or dies between two of its transactions.
Stop(p) ==
    /\ At(p, "up") /\ Goto(p, "idle")
    /\ UNCHANGED <<schemaVars, tokens, lock, procVars, issued, starts, faults, histVars>>

-----------------------------------------------------------------------------
(* Events                                                                  *)

\* SQLite numbers a row one above the largest there is.
Append ==
    /\ Unlocked
    /\ \E seq \in 1..MaxSeq :
          /\ \A s \in log : s < seq
          /\ seq = 1 \/ seq - 1 \in log
          /\ log' = log \cup {seq} /\ written' = written \cup {seq}
    /\ UNCHANGED <<events, leftover, tokens, lock, pc, procVars, issued, starts, faults,
                   origin, interrupted, told, muddled>>

\* insert_event names the column username, which a migrated table does not
\* have: there the statement fails.
InsertEvent(p) == At(p, "up") /\ events = "current" /\ Append

\* The registry of the earlier release, still running: its INSERT names no
\* username.
EarlierRelease == events \in {"old", "migrated"} /\ Append

-----------------------------------------------------------------------------
(* registry-auth                                                           *)

RowsOf(u) == {r \in tokens : r.username = u}
Active(rows) == \E r \in rows : ~r.revoked
UserOf(p) == command[p].username

\* A command that has read its user's row and not yet reported.
Underway(u) == {p \in Proc : pc[p] \in {"write", "print"} /\ UserOf(p) = u}

\* Mutant of NothingToDo: add-user does not look for an active token.
NothingToDoUnchecked(c, rows) ==
    CASE c.name = "add-user" -> FALSE
      [] c.name = "revoke-user" -> ~Active(rows)
      [] c.name = "rotate-token" -> rows = {}

\* The row already lets the command end, with an error or with nothing to do.
NothingToDo(c, rows) ==
    CASE c.name = "add-user" -> Active(rows)
      [] c.name = "revoke-user" -> ~Active(rows)
      [] c.name = "rotate-token" -> rows = {}

Look(p) ==
    /\ At(p, "look")
    /\ seen' = [seen EXCEPT ![p] = RowsOf(UserOf(p))]
    /\ Goto(p, IF NothingToDo(command[p], RowsOf(UserOf(p))) THEN "idle" ELSE "write")
    /\ muddled' = muddled \cup IF Underway(UserOf(p)) # {} THEN {UserOf(p)} ELSE {}
    /\ UNCHANGED <<schemaVars, tokens, lock, command, copied, issued, starts, faults,
                   written, origin, interrupted, told>>

NewRow(p, role) ==
    [hash |-> issued + 1, username |-> UserOf(p), role |-> role, revoked |-> FALSE]

\* cmd_add_user and cmd_rotate_token: DELETE if a row was read, INSERT, and
\* commit.  username is UNIQUE: a row that is there all the same makes the
\* INSERT fail.
Issue(p, role) ==
    LET kept == IF seen[p] = {} THEN tokens ELSE tokens \ RowsOf(UserOf(p))
    IN  IF \E r \in kept : r.username = UserOf(p)
          THEN Goto(p, "idle") /\ UNCHANGED <<tokens, issued, seen>>
          ELSE /\ tokens' = kept \cup {NewRow(p, role)}
               /\ seen' = [seen EXCEPT ![p] = {NewRow(p, role)}]
               /\ issued' = issued + 1 /\ Goto(p, "print")

\* Mutant of Revoke: the update is not committed.
RevokeUncommitted(p) ==
    /\ seen' = [seen EXCEPT ![p] = {}]
    /\ Goto(p, "print") /\ UNCHANGED <<tokens, issued>>

\* cmd_revoke_user: UPDATE and commit.
Revoke(p) ==
    /\ tokens' = (tokens \ RowsOf(UserOf(p)))
                    \cup {[r EXCEPT !.revoked = TRUE] : r \in RowsOf(UserOf(p))}
    /\ seen' = [seen EXCEPT ![p] = {}]
    /\ Goto(p, "print") /\ UNCHANGED issued

Write(p) ==
    /\ At(p, "write") /\ Unlocked
    /\ \/ command[p].name = "add-user" /\ Issue(p, command[p].role)
       \/ command[p].name = "rotate-token" /\ \E r \in seen[p] : Issue(p, r.role)
       \/ command[p].name = "revoke-user" /\ Revoke(p)
    /\ UNCHANGED <<schemaVars, lock, command, copied, starts, faults, histVars>>

\* The new token, or that the user is revoked, is printed.
Report(p) ==
    /\ At(p, "print") /\ Goto(p, "idle")
    /\ told' = [told EXCEPT ![UserOf(p)] = seen[p]]
    /\ UNCHANGED <<schemaVars, tokens, lock, procVars, issued, starts, faults,
                   written, origin, interrupted, muddled>>

\* require_auth and require_role: the answer to a request with the token h.
Answer(h, minimum) ==
    LET row == {r \in tokens : r.hash = h} IN
    IF ~Active(row) THEN 401
    ELSE IF \E r \in row : Rank[r.role] < Rank[minimum] THEN 403
    ELSE 200

-----------------------------------------------------------------------------
OpenStep(p)    == CreateTables(p) \/ Inspect(p) \/ CreateNew(p) \/ CopyEvents(p) \/ SwapTables(p)
CommandStep(p) == Look(p) \/ Write(p) \/ Report(p)

Next == \/ \E p \in Proc : \/ \E c \in Commands : Start(p, c)
                           \/ OpenStep(p) \/ CommandStep(p)
                           \/ End(p) \/ Stop(p) \/ InsertEvent(p)
        \/ EarlierRelease

Spec == Init /\ [][Next]_vars

-----------------------------------------------------------------------------
(* Properties                                                              *)

Rows == [hash : Nat, username : User, role : Role, revoked : BOOLEAN]

\* The variables keep their types, and the lock is held by the migration.
TypeOK ==
    /\ events \in {"absent", "old", "current", "migrated"}
    /\ log \subseteq 1..MaxSeq /\ leftover \in BOOLEAN
    /\ tokens \subseteq Rows /\ issued \in Nat
    /\ starts \in 0..MaxStarts /\ faults \in 0..MaxFaults
    /\ lock \in Proc \cup {Nobody} /\ (lock \in Proc => At(lock, "swap"))
    /\ pc \in [Proc -> {"idle", "tables", "inspect", "create", "copy", "swap",
                        "look", "write", "print", "up"}]
    /\ command \in [Proc -> Commands]
    /\ seen \in [Proc -> SUBSET Rows] /\ copied \in [Proc -> SUBSET (1..MaxSeq)]
    /\ written \subseteq 1..MaxSeq /\ origin \in {"absent", "old", "current"}
    /\ interrupted \in BOOLEAN
    /\ told \in [User -> SUBSET Rows] /\ muddled \subseteq User

\* No event that was committed is lost: not by a migration, whoever else
\* writes meanwhile, and not by one that is cut short
\* (_migrate_events_check_constraint).
EventsKept == log = written

\* Whatever processes open the database at once, a table events_new that
\* would make every later start fail is left behind only by a migration that
\* was cut short.
LeftoverOnlyIfInterrupted ==
    leftover => interrupted \/ \E p \in Proc : pc[p] \in {"copy", "swap"}

\* A registry that is up can write events, unless the database came from the
\* earlier release: only an old table is ever rebuilt without the column
\* username.
FreshIsWritable ==
    (\E p \in Proc : At(p, "up")) /\ origin # "old" => events = "current"

\* The API accepts of a user exactly the token that registry-auth printed
\* last, for the role it was granted with, and none once it has reported the
\* user revoked; unless two commands for the user overlapped or one of them
\* was killed before it printed.
AsReported ==
    \A u \in User \ muddled : (\A p \in Underway(u) : ~At(p, "print")) =>
        \A m \in Role :
            {h \in 1..issued : Answer(h, m) = 200 /\ \E r \in RowsOf(u) : r.hash = h}
                = {r.hash : r \in {t \in told[u] : Rank[t.role] >= Rank[m]}}

\* An active token is displaced or revoked only by rotate-token and
\* revoke-user, never by add-user, unless commands of its user overlapped or
\* one of them was killed before it printed.
AddDisplacesNobody ==
    [][\A p \in Proc : \A u \in User \ muddled :
          At(p, "write") /\ ~At(p, "write")' /\ command[p].name = "add-user"
            => \A r \in RowsOf(u) : ~r.revoked => r \in tokens']_vars
=============================================================================
