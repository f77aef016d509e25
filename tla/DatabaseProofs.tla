--------------------------- MODULE DatabaseProofs ---------------------------
(* Theorems about Database, for every value of its constants: any number of *)
(* processes, users, roles, events, faults.                                 *)
EXTENDS Database, TLAPS

USE RoleAssumption, SchemaAssumption, DatabaseBoundAssumption

OnUser == {"look", "write", "print"}

\* What a command has beside its name.
LEMMA CommandFields ==
    ASSUME NEW c \in Commands, c.name \notin {"registry", "list-users"}
    PROVE  /\ c.name \in {"add-user", "revoke-user", "rotate-token"}
           /\ c.username \in User
           /\ c.name = "add-user" => c.role \in Role
  <1>1. CASE c \in {[name |-> n] : n \in {"registry", "list-users"}}
    BY <1>1
  <1>2. CASE c \in [name : {"revoke-user", "rotate-token"}, username : User]
    BY <1>2
  <1>3. CASE c \in [name : {"add-user"}, username : User, role : Role]
    BY <1>3
  <1> QED BY <1>1, <1>2, <1>3 DEF Commands

-----------------------------------------------------------------------------
(* TypeOK.  A process that acts on a user was started for one.              *)

CommandsFit ==
    \A p \in Proc : pc[p] \in OnUser => command[p].name \notin {"registry", "list-users"}

Typed == TypeOK /\ CommandsFit

LEMMA UserOfType ==
    ASSUME Typed, NEW p \in Proc, pc[p] \in OnUser
    PROVE  /\ command[p].name \in {"add-user", "revoke-user", "rotate-token"}
           /\ UserOf(p) \in User
           /\ command[p].name = "add-user" => command[p].role \in Role
  BY CommandFields DEF Typed, TypeOK, CommandsFit, UserOf

\* The steps that set up the schema.
LEMMA OpenKeepsTyped ==
    ASSUME Typed, NEW p \in Proc, OpenStep(p)
    PROVE  Typed'
  <1> USE DEF At, Goto, Unlocked, schemaVars, procVars, histVars
  <1>1. CASE CreateTables(p)
    BY <1>1 DEF CreateTables, Typed, TypeOK, CommandsFit, OnUser
  <1>2. CASE Inspect(p)
    BY <1>2 DEF Inspect, Opened, Typed, TypeOK, CommandsFit, OnUser
  <1>3. CASE CreateNew(p)
    BY <1>3 DEF CreateNew, Typed, TypeOK, CommandsFit, OnUser
  <1>4. CASE CopyEvents(p)
    BY <1>4 DEF CopyEvents, Typed, TypeOK, CommandsFit, OnUser
  <1>5. CASE SwapTables(p)
    BY <1>5 DEF SwapTables, Opened, Typed, TypeOK, CommandsFit, OnUser
  <1> QED BY <1>1, <1>2, <1>3, <1>4, <1>5 DEF OpenStep

\* What Issue leaves behind has the right types.
LEMMA IssueTyped ==
    ASSUME Typed, NEW p \in Proc, NEW role \in Role, pc[p] = "write", Issue(p, role)
    PROVE  /\ tokens' \subseteq Rows /\ issued' \in Nat
           /\ seen' \in [Proc -> SUBSET Rows]
           /\ \/ pc' = [pc EXCEPT ![p] = "idle"]
              \/ pc' = [pc EXCEPT ![p] = "print"]
  <1>1. UserOf(p) \in User
    BY UserOfType DEF OnUser
  <1>2. NewRow(p, role) \in Rows
    BY <1>1 DEF NewRow, Rows, Typed, TypeOK
  <1> QED BY <1>2 DEF Issue, Goto, Typed, TypeOK

LEMMA WriteKeepsTyped ==
    ASSUME Typed, NEW p \in Proc, Write(p)
    PROVE  Typed'
  <1>1. /\ tokens' \subseteq Rows /\ issued' \in Nat
        /\ seen' \in [Proc -> SUBSET Rows]
        /\ \/ pc' = [pc EXCEPT ![p] = "idle"]
           \/ pc' = [pc EXCEPT ![p] = "print"]
    <2> pc[p] = "write"
      BY DEF Write, At
    <2>1. CASE command[p].name = "add-user" /\ Issue(p, command[p].role)
      BY <2>1, UserOfType, IssueTyped DEF OnUser
    <2>2. CASE command[p].name = "rotate-token" /\ \E r \in seen[p] : Issue(p, r.role)
      <3>1. PICK r \in seen[p] : Issue(p, r.role)
        BY <2>2
      <3>2. r.role \in Role
        BY <3>1 DEF Typed, TypeOK, Rows
      <3> QED BY <3>1, <3>2, IssueTyped
    <2>3. CASE Revoke(p)
      <3>1. \A r \in Rows : [r EXCEPT !.revoked = TRUE] \in Rows
        BY DEF Rows
      <3>2. tokens' \subseteq Rows
        BY <2>3, <3>1 DEF Revoke, RowsOf, Typed, TypeOK
      <3> QED BY <2>3, <3>2 DEF Revoke, Goto, Typed, TypeOK
    <2> QED BY <2>1, <2>2, <2>3 DEF Write
  <1>2. /\ lock' = lock /\ lock = Nobody
        /\ pc[p] = "write" /\ command' = command
        /\ UNCHANGED <<schemaVars, copied, starts, faults, histVars>>
    BY DEF Write, Unlocked, At
  <1>3. TypeOK'
    BY <1>1, <1>2 DEF Typed, TypeOK, At, schemaVars, histVars
  <1>4. CommandsFit'
    BY <1>1, <1>2 DEF Typed, TypeOK, CommandsFit, OnUser
  <1> QED BY <1>3, <1>4 DEF Typed

LEMMA CommandKeepsTyped ==
    ASSUME Typed, NEW p \in Proc, CommandStep(p)
    PROVE  Typed'
  <1> USE DEF At, Goto, Unlocked, schemaVars, procVars, histVars
  <1>1. CASE Look(p)
    <2>1. UserOf(p) \in User /\ RowsOf(UserOf(p)) \subseteq Rows
      BY <1>1, UserOfType DEF Look, OnUser, RowsOf, Typed, TypeOK
    <2> QED BY <1>1, <2>1 DEF Look, Typed, TypeOK, CommandsFit, OnUser
  <1>2. CASE Write(p)
    BY <1>2, WriteKeepsTyped
  <1>3. CASE Report(p)
    BY <1>3 DEF Report, Typed, TypeOK, CommandsFit, OnUser
  <1> QED BY <1>1, <1>2, <1>3 DEF CommandStep

\* The appending of an event.
LEMMA AppendKeepsTyped ==
    ASSUME Typed, Append
    PROVE  Typed'
  BY DEF Append, Typed, TypeOK, CommandsFit, OnUser, At, procVars

\* Everything else.
LEMMA OthersKeepTyped ==
    ASSUME Typed, NEW p \in Proc,
           (\E c \in Commands : Start(p, c)) \/ End(p) \/ Stop(p)
    PROVE  Typed'
  <1> USE DEF At, Goto, Unlocked, schemaVars, procVars, histVars
  <1>1. CASE \E c \in Commands : Start(p, c)
    BY <1>1 DEF Start, Typed, TypeOK, CommandsFit, OnUser
  <1>2. CASE End(p)
    <2>1. (IF pc[p] = "print" THEN {command[p].username} ELSE {}) \subseteq User
      BY UserOfType DEF OnUser, UserOf
    <2>2. (interrupted \/ pc[p] \in {"copy", "swap"}) \in BOOLEAN
      BY Zenon
    <2> QED BY <1>2, <2>1, <2>2 DEF End, Fault, Released, Typed, TypeOK, CommandsFit, OnUser
  <1>3. CASE Stop(p)
    BY <1>3 DEF Stop, Typed, TypeOK, CommandsFit, OnUser
  <1> QED BY <1>1, <1>2, <1>3

\* Typed is an invariant.
THEOREM TypedAlways == Spec => []Typed
  <1>1. Init => Typed
    <2>1. [name |-> "registry"] \in Commands
      BY DEF Commands
    <2>2. {} \subseteq 1..MaxSeq /\ {1} \subseteq 1..MaxSeq
      OBVIOUS
    <2> SUFFICES ASSUME Init PROVE TypeOK /\ CommandsFit
      BY DEF Typed
    <2>3. log \subseteq 1..MaxSeq /\ written \subseteq 1..MaxSeq
      BY <2>2 DEF Init
    <2>4. CommandsFit
      BY DEF Init, CommandsFit, OnUser
    <2>5. TypeOK
      <3>1. events \in {"absent", "old", "current"} /\ origin = events
        BY DEF Init
      <3>2. tokens \subseteq Rows /\ seen \in [Proc -> SUBSET Rows]
            /\ told \in [User -> SUBSET Rows] /\ muddled \subseteq User
        BY DEF Init
      <3>3. command \in [Proc -> Commands] /\ copied \in [Proc -> SUBSET (1..MaxSeq)]
        BY <2>1 DEF Init
      <3>4. starts \in 0..MaxStarts /\ faults \in 0..MaxFaults /\ issued \in Nat
        BY DEF Init
      <3>5. lock = Nobody /\ lock \notin Proc
        BY DEF Init
      <3> QED BY <2>3, <3>1, <3>2, <3>3, <3>4, <3>5 DEF Init, TypeOK, At
    <2> QED BY <2>4, <2>5
  <1>2. Typed /\ [Next]_vars => Typed'
    <2> SUFFICES ASSUME Typed, [Next]_vars PROVE Typed'
      OBVIOUS
    <2>1. CASE UNCHANGED vars
      BY <2>1 DEF vars, schemaVars, procVars, histVars, Typed, TypeOK, CommandsFit, At
    <2>2. CASE EarlierRelease
      BY <2>2, AppendKeepsTyped DEF EarlierRelease
    <2>3. ASSUME NEW p \in Proc,
                 \/ \E c \in Commands : Start(p, c)
                 \/ OpenStep(p) \/ CommandStep(p) \/ End(p) \/ Stop(p) \/ InsertEvent(p)
          PROVE  Typed'
      BY <2>3, OpenKeepsTyped, CommandKeepsTyped, AppendKeepsTyped, OthersKeepTyped
         DEF InsertEvent
    <2> QED BY <2>1, <2>2, <2>3 DEF Next
  <1> QED BY <1>1, <1>2, PTL DEF Spec

\* Whatever processes run and wherever they are cut short, the file and what
\* the processes remember keep their types, and the write lock is held by
\* nobody but a migration between its copy and its commit.
THEOREM TypeCorrect == Spec => []TypeOK
  <1>1. Typed => TypeOK
    BY DEF Typed
  <1> QED BY <1>1, TypedAlways, PTL

-----------------------------------------------------------------------------
(* The migration.  Between its copy and its commit a process holds the      *)
(* write lock and what it has copied is still all there is.                 *)

LogInv ==
    /\ EventsKept
    /\ \A p \in Proc : At(p, "swap") => lock = p /\ copied[p] = log

\* No committed event is lost, whatever processes open, migrate and write the
\* file at once and wherever they are cut short.
THEOREM NoEventLost == Spec => []EventsKept
  <1>1. Init => LogInv
    BY DEF Init, LogInv, EventsKept, At
  <1>2. Typed /\ LogInv /\ [Next]_vars => LogInv'
    <2> SUFFICES ASSUME Typed, LogInv, [Next]_vars PROVE LogInv'
      OBVIOUS
    <2> USE DEF Typed, TypeOK, LogInv, EventsKept, At, Goto, Unlocked,
                schemaVars, procVars, histVars
    <2>1. CASE UNCHANGED vars
      BY <2>1 DEF vars
    <2>2. CASE Append
      BY <2>2 DEF Append
    <2>3. ASSUME NEW p \in Proc, OpenStep(p) PROVE LogInv'
      <3>1. CASE CreateTables(p)
        BY <3>1 DEF CreateTables
      <3>2. CASE Inspect(p)
        BY <3>2 DEF Inspect, Opened
      <3>3. CASE CreateNew(p)
        BY <3>3 DEF CreateNew
      <3>4. CASE CopyEvents(p)
        BY <3>4 DEF CopyEvents
      <3>5. CASE SwapTables(p)
        BY <3>5 DEF SwapTables, Opened
      <3> QED BY <2>3, <3>1, <3>2, <3>3, <3>4, <3>5 DEF OpenStep
    <2>4. ASSUME NEW p \in Proc, Look(p) \/ Report(p) PROVE LogInv'
      BY <2>4 DEF Look, Report
    <2>5. ASSUME NEW p \in Proc, Write(p) PROVE LogInv'
      <3>1. \A q \in Proc : pc'[q] = "swap" => pc[q] = "swap"
        BY <2>5 DEF Write, Issue, Revoke
      <3> QED BY <2>5, <3>1 DEF Write
    <2>6. ASSUME NEW p \in Proc, (\E c \in Commands : Start(p, c)) \/ End(p) \/ Stop(p)
          PROVE  LogInv'
      BY <2>6 DEF Start, End, Fault, Released, Stop
    <2> QED BY <2>1, <2>2, <2>3, <2>4, <2>5, <2>6
            DEF Next, EarlierRelease, InsertEvent, CommandStep
  <1> QED BY <1>1, <1>2, TypedAlways, PTL DEF Spec, LogInv

\* A table events_new is left behind only by a migration that was cut short.
THEOREM LeftoverExplained == Spec => []LeftoverOnlyIfInterrupted
  <1>1. Init => LeftoverOnlyIfInterrupted
    BY DEF Init, LeftoverOnlyIfInterrupted
  <1>2. Typed /\ LeftoverOnlyIfInterrupted /\ [Next]_vars => LeftoverOnlyIfInterrupted'
    <2> SUFFICES ASSUME Typed, LeftoverOnlyIfInterrupted, [Next]_vars
                 PROVE  LeftoverOnlyIfInterrupted'
      OBVIOUS
    <2> USE DEF Typed, TypeOK, LeftoverOnlyIfInterrupted, At, Goto, Unlocked,
                schemaVars, procVars, histVars
    <2>1. CASE UNCHANGED vars
      BY <2>1 DEF vars
    <2>2. CASE Append
      BY <2>2 DEF Append
    <2>3. ASSUME NEW p \in Proc, OpenStep(p) PROVE LeftoverOnlyIfInterrupted'
      <3>1. CASE CreateTables(p)
        BY <3>1 DEF CreateTables
      <3>2. CASE Inspect(p)
        BY <3>2 DEF Inspect, Opened
      <3>3. CASE CreateNew(p)
        BY <3>3 DEF CreateNew
      <3>4. CASE CopyEvents(p)
        BY <3>4 DEF CopyEvents
      <3>5. CASE SwapTables(p)
        BY <3>5 DEF SwapTables
      <3> QED BY <2>3, <3>1, <3>2, <3>3, <3>4, <3>5 DEF OpenStep
    <2>4. ASSUME NEW p \in Proc, Look(p) \/ Report(p)
          PROVE  LeftoverOnlyIfInterrupted'
      BY <2>4 DEF Look, Report
    <2>5. ASSUME NEW p \in Proc, Write(p) PROVE LeftoverOnlyIfInterrupted'
      <3>1. \A q \in Proc : pc[q] \in {"copy", "swap"} => pc'[q] = pc[q]
        BY <2>5 DEF Write, Issue, Revoke
      <3> QED BY <2>5, <3>1 DEF Write
    <2>6. ASSUME NEW p \in Proc, End(p) PROVE LeftoverOnlyIfInterrupted'
      BY <2>6 DEF End, Fault, Released
    <2>7. ASSUME NEW p \in Proc, (\E c \in Commands : Start(p, c)) \/ Stop(p)
          PROVE  LeftoverOnlyIfInterrupted'
      BY <2>7 DEF Start, Stop
    <2> QED BY <2>1, <2>2, <2>3, <2>4, <2>5, <2>6, <2>7
            DEF Next, EarlierRelease, InsertEvent, CommandStep
  <1> QED BY <1>1, <1>2, TypedAlways, PTL DEF Spec

\* A process past CREATE TABLE has an events table, and only an old one sends
\* a process into the migration.
SchemaInv ==
    /\ events = "absent" => \A p \in Proc : pc[p] \in {"idle", "tables"}
    /\ origin # "old" => /\ events \in {"absent", "current"}
                         /\ \A p \in Proc : pc[p] \notin {"create", "copy", "swap"}

\* A registry that is up on a database of this release can write events.
THEOREM FreshStaysWritable == Spec => []FreshIsWritable
  <1>1. Init => SchemaInv
    BY DEF Init, SchemaInv
  <1>2. Typed /\ SchemaInv /\ [Next]_vars => SchemaInv'
    <2> SUFFICES ASSUME Typed, SchemaInv, [Next]_vars PROVE SchemaInv'
      OBVIOUS
    <2> USE DEF Typed, TypeOK, SchemaInv, At, Goto, Unlocked,
                schemaVars, procVars, histVars
    <2>1. CASE UNCHANGED vars
      BY <2>1 DEF vars
    <2>2. CASE Append
      BY <2>2 DEF Append
    <2>3. ASSUME NEW p \in Proc, OpenStep(p) PROVE SchemaInv'
      <3>1. CASE CreateTables(p)
        BY <3>1 DEF CreateTables
      <3>2. CASE Inspect(p)
        BY <3>2 DEF Inspect, Outdated, Opened
      <3>3. CASE CreateNew(p)
        BY <3>3 DEF CreateNew
      <3>4. CASE CopyEvents(p)
        BY <3>4 DEF CopyEvents
      <3>5. CASE SwapTables(p)
        BY <3>5 DEF SwapTables, Opened
      <3> QED BY <2>3, <3>1, <3>2, <3>3, <3>4, <3>5 DEF OpenStep
    <2>4. ASSUME NEW p \in Proc, Look(p) \/ Report(p) PROVE SchemaInv'
      BY <2>4 DEF Look, Report
    <2>5. ASSUME NEW p \in Proc, Write(p) PROVE SchemaInv'
      <3>1. \/ pc' = [pc EXCEPT ![p] = "idle"]
            \/ pc' = [pc EXCEPT ![p] = "print"]
        BY <2>5 DEF Write, Issue, Revoke
      <3>2. pc[p] = "write" /\ \A q \in Proc : q # p => pc'[q] = pc[q]
        BY <2>5, <3>1 DEF Write
      <3>3. pc'[p] \in {"idle", "print"}
        BY <3>1
      <3> QED BY <2>5, <3>2, <3>3 DEF Write
    <2>6. ASSUME NEW p \in Proc, (\E c \in Commands : Start(p, c)) \/ End(p) \/ Stop(p)
          PROVE  SchemaInv'
      BY <2>6 DEF Start, End, Fault, Released, Stop
    <2> QED BY <2>1, <2>2, <2>3, <2>4, <2>5, <2>6
            DEF Next, EarlierRelease, InsertEvent, CommandStep
  <1>3. Typed /\ SchemaInv => FreshIsWritable
    BY DEF Typed, SchemaInv, FreshIsWritable, At
  <1> QED BY <1>1, <1>2, <1>3, TypedAlways, PTL DEF Spec

-----------------------------------------------------------------------------
(* The tokens.  A user nobody has muddled has at most one command underway: *)
(* what it has read is still the user's row until it writes, and what it    *)
(* will report is the user's live row until it reports.                     *)

Live(u) == {r \in RowsOf(u) : ~r.revoked}

HashInv ==
    /\ \A r \in tokens : r.hash \in 1..issued
    /\ \A r, s \in tokens : r.hash = s.hash => r = s

UserInv(u) ==
    /\ \A p, q \in Underway(u) : p = q
    /\ \A p \in Underway(u) :
          /\ At(p, "write") => /\ seen[p] = RowsOf(u)
                               /\ ~NothingToDo(command[p], seen[p])
          /\ At(p, "print") => seen[p] = Live(u)
    /\ (\A p \in Underway(u) : ~At(p, "print")) => told[u] = Live(u)

TokenInv == HashInv /\ \A u \in User \ muddled : UserInv(u)

\* A process that is not underway for a user, before or after its step, leaves
\* what holds of that user alone if it leaves the user's rows alone.
LEMMA UserFrame ==
    ASSUME NEW u \in User, UserInv(u), NEW p \in Proc,
           p \notin Underway(u), p \notin Underway(u)',
           \A q \in Proc : q # p => /\ pc'[q] = pc[q] /\ command'[q] = command[q]
                                    /\ seen'[q] = seen[q],
           RowsOf(u)' = RowsOf(u), told'[u] = told[u]
    PROVE  UserInv(u)'
  <1>1. \A q \in Proc : q \in Underway(u)' <=> q \in Underway(u)
    BY DEF Underway, UserOf
  <1>2. Underway(u)' = Underway(u) /\ Underway(u) \subseteq Proc \ {p}
    BY <1>1 DEF Underway
  <1>3. Live(u)' = Live(u)
    BY DEF Live
  <1>4. \A q \in Underway(u) : /\ pc'[q] = pc[q] /\ command'[q] = command[q]
                               /\ seen'[q] = seen[q]
    BY <1>2
  <1>5. \A q \in Underway(u) : NothingToDo(command[q], seen[q])' = NothingToDo(command[q], seen[q])
    BY <1>4 DEF NothingToDo, Active
  <1> QED BY <1>2, <1>3, <1>4, <1>5 DEF UserInv, At

\* Steps that touch no token, of a process that stays out of read-and-write.
LEMMA OutsideKeepsTokens ==
    ASSUME Typed, TokenInv, NEW p \in Proc,
           pc[p] \notin {"write", "print"}, pc'[p] \notin {"write", "print"},
           \A q \in Proc : q # p => pc'[q] = pc[q] /\ command'[q] = command[q],
           UNCHANGED <<tokens, seen, issued, told>>, muddled \subseteq muddled'
    PROVE  TokenInv'
  <1>1. HashInv'
    BY DEF TokenInv, HashInv
  <1>2. ASSUME NEW u \in User \ muddled' PROVE UserInv(u)'
    <2>1. UserInv(u) /\ RowsOf(u)' = RowsOf(u) /\ told'[u] = told[u]
      BY DEF TokenInv, RowsOf
    <2>2. p \notin Underway(u) /\ p \notin Underway(u)'
      BY DEF Underway
    <2> QED BY <2>1, <2>2, UserFrame
  <1> QED BY <1>1, <1>2 DEF TokenInv

LEMMA LookKeepsTokens ==
    ASSUME Typed, TokenInv, NEW p \in Proc, Look(p)
    PROVE  TokenInv'
  <1> DEFINE v == UserOf(p)
  <1>1. /\ pc[p] = "look" /\ v \in User
        /\ UNCHANGED <<tokens, issued, told, command>>
        /\ seen'[p] = RowsOf(v)
        /\ pc'[p] = IF NothingToDo(command[p], RowsOf(v)) THEN "idle" ELSE "write"
        /\ \A q \in Proc : q # p => pc'[q] = pc[q] /\ seen'[q] = seen[q]
    BY UserOfType DEF Look, At, Goto, OnUser, Typed, TypeOK
  <1>2. muddled' = muddled \cup IF Underway(v) # {} THEN {v} ELSE {}
    BY DEF Look
  <1>3. HashInv'
    BY <1>1 DEF TokenInv, HashInv
  <1>4. ASSUME NEW u \in User \ muddled' PROVE UserInv(u)'
    <2>1. UserInv(u) /\ RowsOf(u)' = RowsOf(u) /\ told'[u] = told[u] /\ v' = v
      BY <1>1, <1>2 DEF TokenInv, RowsOf, UserOf
    <2>2. p \notin Underway(u)
      BY <1>1 DEF Underway
    <2>3. CASE u # v
      <3>1. p \notin Underway(u)'
        BY <2>1, <2>3 DEF Underway
      <3> QED BY <1>1, <2>1, <2>2, <3>1, UserFrame
    <2>4. CASE u = v
      <3>1. Underway(u) = {}
        BY <1>2, <2>4
      <3>2. Underway(u)' \subseteq {p}
        BY <1>1, <3>1 DEF Underway, UserOf
      <3>3. Live(u)' = Live(u) /\ told[u] = Live(u)
        BY <2>1, <3>1 DEF Live, UserInv
      <3>4. ~At(p, "print")'
        BY <1>1 DEF At
      <3>5. At(p, "write")' => ~NothingToDo(command[p], seen[p])'
        BY <1>1 DEF At, NothingToDo, Active
      <3>6. seen'[p] = RowsOf(u)'
        BY <1>1, <2>1, <2>4
      <3> QED BY <2>1, <3>2, <3>3, <3>4, <3>5, <3>6 DEF UserInv
    <2> QED BY <2>3, <2>4
  <1> QED BY <1>3, <1>4 DEF TokenInv

LEMMA ReportKeepsTokens ==
    ASSUME Typed, TokenInv, NEW p \in Proc, Report(p)
    PROVE  TokenInv'
  <1> DEFINE v == UserOf(p)
  <1>1. /\ pc[p] = "print" /\ v \in User
        /\ UNCHANGED <<tokens, issued, seen, command, muddled>>
        /\ told'[v] = seen[p] /\ pc'[p] = "idle"
        /\ \A q \in Proc : q # p => pc'[q] = pc[q]
        /\ \A u \in User : u # v => told'[u] = told[u]
    BY UserOfType DEF Report, At, Goto, OnUser, Typed, TypeOK, procVars
  <1>2. HashInv'
    BY <1>1 DEF TokenInv, HashInv
  <1>3. ASSUME NEW u \in User \ muddled' PROVE UserInv(u)'
    <2>1. UserInv(u) /\ RowsOf(u)' = RowsOf(u) /\ p \notin Underway(u)'
      BY <1>1 DEF TokenInv, RowsOf, Underway
    <2>2. CASE u # v
      <3>1. p \notin Underway(u)
        BY <2>2 DEF Underway
      <3> QED BY <1>1, <2>1, <2>2, <3>1, UserFrame
    <2>3. CASE u = v
      <3>1. p \in Underway(u) /\ At(p, "print")
        BY <1>1, <2>3 DEF Underway, At
      <3>2. Underway(u) = {p} /\ seen[p] = Live(u)
        BY <2>1, <3>1 DEF UserInv
      <3>3. \A q \in Proc : q \in Underway(u)' => q \in Underway(u)
        BY <1>1, <2>1 DEF Underway, UserOf
      <3>4. Underway(u)' = {}
        BY <2>1, <3>2, <3>3 DEF Underway
      <3>5. told'[u] = Live(u)'
        BY <1>1, <2>1, <2>3, <3>2 DEF Live
      <3> QED BY <3>4, <3>5 DEF UserInv
    <2> QED BY <2>2, <2>3
  <1> QED BY <1>2, <1>3 DEF TokenInv

\* A process that is killed before it wrote leaves no trace, and after it
\* wrote it muddles its user.
LEMMA EndKeepsTokens ==
    ASSUME Typed, TokenInv, NEW p \in Proc, End(p)
    PROVE  TokenInv'
  <1>1. /\ UNCHANGED <<tokens, issued, seen, command, told>>
        /\ pc'[p] = "idle" /\ \A q \in Proc : q # p => pc'[q] = pc[q]
    BY DEF End, Goto, Typed, TypeOK, procVars
  <1>2. muddled \subseteq muddled' /\ (pc[p] = "print" => UserOf(p) \in muddled')
    BY DEF End, At, UserOf
  <1>3. HashInv'
    BY <1>1 DEF TokenInv, HashInv
  <1>4. ASSUME NEW u \in User \ muddled' PROVE UserInv(u)'
    <2>1. UserInv(u) /\ RowsOf(u)' = RowsOf(u) /\ p \notin Underway(u)'
      BY <1>1, <1>2 DEF TokenInv, RowsOf, Underway
    <2>2. CASE p \notin Underway(u)
      BY <1>1, <2>1, <2>2, UserFrame
    <2>3. CASE p \in Underway(u)
      <3>1. At(p, "write")
        BY <1>2, <2>3 DEF Underway, At
      <3>2. Underway(u) = {p} /\ told[u] = Live(u)
        BY <2>1, <2>3, <3>1 DEF UserInv, At
      <3>3. \A q \in Proc : q \in Underway(u)' => q \in Underway(u)
        BY <1>1, <2>1 DEF Underway, UserOf
      <3>4. Underway(u)' = {}
        BY <2>1, <3>2, <3>3 DEF Underway
      <3>5. told'[u] = Live(u)'
        BY <1>1, <2>1, <3>2 DEF Live
      <3> QED BY <3>4, <3>5 DEF UserInv
    <2> QED BY <2>2, <2>3
  <1> QED BY <1>3, <1>4 DEF TokenInv

\* Issuing a token: the hash is a new one, the rows of others stay, and a user
\* whose row the process knows has the new row for its only one.
LEMMA IssueEffect ==
    ASSUME Typed, TokenInv, NEW p \in Proc, NEW role \in Role,
           pc[p] = "write", Issue(p, role), command' = command
    PROVE  /\ HashInv'
           /\ \A u \in User : u # UserOf(p) => RowsOf(u)' = RowsOf(u)
           /\ \A u \in User : u = UserOf(p) /\ seen[p] = RowsOf(u) =>
                 pc'[p] = "print" /\ seen'[p] = Live(u)'
  <1> DEFINE v == UserOf(p)
             kept == IF seen[p] = {} THEN tokens ELSE tokens \ RowsOf(v)
             row == NewRow(p, role)
  <1>1. /\ row.hash = issued + 1 /\ row.username = v /\ ~row.revoked
        /\ issued \in Nat /\ \A r \in tokens : r.hash \in Nat
    BY DEF NewRow, Typed, TypeOK, Rows
  <1>2. kept \subseteq tokens /\ v' = v
    BY DEF UserOf
  <1>3. CASE \E r \in kept : r.username = v
    <2>1. UNCHANGED <<tokens, issued>>
      BY <1>3 DEF Issue
    <2>2. seen[p] # RowsOf(v)
      BY <1>3 DEF RowsOf
    <2> QED BY <2>1, <2>2 DEF TokenInv, HashInv, RowsOf
  <1>4. CASE ~ \E r \in kept : r.username = v
    <2>1. /\ tokens' = kept \cup {row} /\ issued' = issued + 1
          /\ seen' = [seen EXCEPT ![p] = {row}]
          /\ pc' = [pc EXCEPT ![p] = "print"]
      BY <1>4 DEF Issue, Goto
    <2> HIDE DEF row
    <2>2. HashInv'
      BY <1>1, <1>2, <2>1 DEF TokenInv, HashInv
    <2>3. ASSUME NEW u \in User, u # v PROVE RowsOf(u)' = RowsOf(u)
      BY <1>1, <2>1, <2>3 DEF RowsOf
    <2>4. RowsOf(v)' = {row}
      <3>1. \A r \in kept : r.username # v
        BY <1>4
      <3>2. \A r \in tokens' : r.username = v <=> r = row
        BY <1>1, <2>1, <3>1
      <3> HIDE DEF kept, v
      <3> QED BY <1>2, <2>1, <3>2 DEF RowsOf
    <2>5. pc'[p] = "print" /\ seen'[p] = {row}
      BY <2>1 DEF Typed, TypeOK
    <2>6. Live(v)' = {row}
      BY <1>1, <1>2, <2>4 DEF Live
    <2> QED BY <1>2, <2>2, <2>3, <2>5, <2>6
  <1> QED BY <1>3, <1>4

\* Revoking a user: the hashes stay, and the user has no live row.
LEMMA RevokeEffect ==
    ASSUME Typed, TokenInv, NEW p \in Proc, Revoke(p), command' = command
    PROVE  /\ HashInv'
           /\ \A u \in User : u # UserOf(p) => RowsOf(u)' = RowsOf(u)
           /\ \A u \in User : u = UserOf(p) => pc'[p] = "print" /\ seen'[p] = Live(u)'
  <1> DEFINE v == UserOf(p)
             dead(r) == [r EXCEPT !.revoked = TRUE]
  <1>1. \A r \in Rows : /\ dead(r).hash = r.hash /\ dead(r).username = r.username
                        /\ dead(r).revoked /\ dead(r) \in Rows
    BY DEF Rows
  <1>2. /\ tokens' = (tokens \ RowsOf(v)) \cup {dead(r) : r \in RowsOf(v)}
        /\ issued' = issued /\ v' = v /\ tokens \subseteq Rows
    BY DEF Revoke, UserOf, Typed, TypeOK
  <1> HIDE DEF dead
  <1>3. \A r \in tokens' : \/ r \in tokens /\ r.username # v
                           \/ \E s \in tokens : s.username = v /\ r = dead(s)
    BY <1>2 DEF RowsOf
  <1>4. HashInv'
    BY <1>1, <1>2, <1>3 DEF TokenInv, HashInv
  <1>5. ASSUME NEW u \in User, u # v PROVE RowsOf(u)' = RowsOf(u)
    BY <1>1, <1>2, <1>5 DEF RowsOf
  <1>6. \A r \in tokens' : r.username = v => r.revoked
    BY <1>1, <1>2, <1>3
  <1>7. Live(v)' = {}
    BY <1>2, <1>6 DEF Live, RowsOf
  <1>8. pc'[p] = "print" /\ seen'[p] = {}
    BY DEF Revoke, Goto, Typed, TypeOK
  <1> QED BY <1>2, <1>4, <1>5, <1>7, <1>8

LEMMA WriteEffect ==
    ASSUME Typed, TokenInv, NEW p \in Proc, Write(p)
    PROVE  /\ HashInv'
           /\ \A u \in User : u # UserOf(p) => RowsOf(u)' = RowsOf(u)
           /\ \A u \in User : u = UserOf(p) /\ seen[p] = RowsOf(u) =>
                 pc'[p] = "print" /\ seen'[p] = Live(u)'
  <1>1. pc[p] = "write" /\ command' = command
    BY DEF Write, At
  <1>2. CASE command[p].name = "add-user" /\ Issue(p, command[p].role)
    BY <1>1, <1>2, UserOfType, IssueEffect DEF OnUser
  <1>3. CASE command[p].name = "rotate-token" /\ \E r \in seen[p] : Issue(p, r.role)
    <2>1. PICK r \in seen[p] : Issue(p, r.role)
      BY <1>3
    <2>2. r.role \in Role
      BY <2>1 DEF Typed, TypeOK, Rows
    <2> QED BY <1>1, <2>1, <2>2, IssueEffect
  <1>4. CASE Revoke(p)
    BY <1>1, <1>4, RevokeEffect
  <1> QED BY <1>2, <1>3, <1>4 DEF Write

LEMMA WriteKeepsTokens ==
    ASSUME Typed, TokenInv, NEW p \in Proc, Write(p)
    PROVE  TokenInv'
  <1> DEFINE v == UserOf(p)
  <1>1. /\ pc[p] = "write" /\ v \in User /\ UNCHANGED <<command, told, muddled>>
        /\ pc'[p] \in {"idle", "print"}
        /\ \A q \in Proc : q # p => pc'[q] = pc[q] /\ seen'[q] = seen[q]
    BY UserOfType DEF Write, Issue, Revoke, At, Goto, OnUser, Typed, TypeOK, histVars
  <1>2. p \in Underway(v) /\ v' = v
    BY <1>1 DEF Underway, UserOf
  <1>3. ASSUME NEW u \in User \ muddled' PROVE UserInv(u)'
    <2>1. UserInv(u) /\ told'[u] = told[u]
      BY <1>1 DEF TokenInv
    <2>2. CASE u # v
      <3>1. p \notin Underway(u) /\ p \notin Underway(u)'
        BY <1>2, <2>2 DEF Underway
      <3>2. RowsOf(u)' = RowsOf(u)
        BY <2>2, WriteEffect
      <3> QED BY <1>1, <2>1, <3>1, <3>2, UserFrame
    <2>3. CASE u = v
      <3>1. Underway(u) = {p} /\ seen[p] = RowsOf(u)
        BY <1>1, <1>2, <2>1, <2>3 DEF UserInv, At
      <3>2. pc'[p] = "print" /\ seen'[p] = Live(u)'
        BY <2>3, <3>1, WriteEffect
      <3>3. \A q \in Proc : q \in Underway(u)' <=> q = p
        BY <1>1, <1>2, <2>3, <3>1, <3>2 DEF Underway, UserOf
      <3>4. Underway(u)' = {p}
        BY <3>3 DEF Underway
      <3>5. \A q \in Underway(u)' : At(q, "print")' /\ ~At(q, "write")'
        BY <3>2, <3>4 DEF At
      <3>6. p \in Underway(u)'
        BY <3>4
      <3>7. \A q \in Underway(u)' : seen'[q] = Live(u)'
        BY <3>2, <3>4
      <3> HIDE DEF v
      <3> QED BY <3>4, <3>5, <3>6, <3>7 DEF UserInv
    <2> QED BY <2>2, <2>3
  <1> QED BY <1>3, WriteEffect DEF TokenInv

LEMMA TokensKept == Typed /\ TokenInv /\ [Next]_vars => TokenInv'
  <1> SUFFICES ASSUME Typed, TokenInv, [Next]_vars PROVE TokenInv'
    OBVIOUS
  <1>1. CASE UNCHANGED <<tokens, pc, command, seen, issued, told, muddled>>
    <2>1. HashInv'
      BY <1>1 DEF TokenInv, HashInv
    <2>2. ASSUME NEW u \in User \ muddled' PROVE UserInv(u)'
      <3>1. Underway(u)' = Underway(u) /\ RowsOf(u)' = RowsOf(u) /\ Live(u)' = Live(u)
        BY <1>1 DEF Underway, UserOf, RowsOf, Live
      <3>2. \A q \in Proc : NothingToDo(command[q], seen[q])' = NothingToDo(command[q], seen[q])
        BY <1>1 DEF NothingToDo, Active
      <3>3. UserInv(u) /\ Underway(u) \subseteq Proc
        BY <1>1, <2>2 DEF TokenInv, Underway
      <3> QED BY <1>1, <3>1, <3>2, <3>3 DEF UserInv, At
    <2> QED BY <2>1, <2>2 DEF TokenInv
  <1>2. CASE UNCHANGED vars \/ Append
    BY <1>1, <1>2 DEF Append, vars, procVars, histVars
  <1>3. ASSUME NEW p \in Proc, OpenStep(p) PROVE TokenInv'
    <2>1. /\ pc[p] \notin {"write", "print"} /\ pc'[p] \notin {"write", "print"}
          /\ \A q \in Proc : q # p => pc'[q] = pc[q]
          /\ UNCHANGED <<tokens, command, seen, issued, told, muddled>>
      BY <1>3 DEF OpenStep, CreateTables, Inspect, CreateNew, CopyEvents, SwapTables,
                  Opened, At, Goto, Typed, TypeOK, procVars, histVars
    <2> QED BY <2>1, OutsideKeepsTokens
  <1>4. ASSUME NEW p \in Proc, (\E c \in Commands : Start(p, c)) \/ Stop(p)
        PROVE  TokenInv'
    <2>1. /\ pc[p] \notin {"write", "print"} /\ pc'[p] \notin {"write", "print"}
          /\ \A q \in Proc : q # p => pc'[q] = pc[q] /\ command'[q] = command[q]
          /\ UNCHANGED <<tokens, seen, issued, told, muddled>>
      BY <1>4 DEF Start, Stop, At, Goto, Typed, TypeOK, procVars, histVars
    <2> QED BY <2>1, OutsideKeepsTokens
  <1> QED BY <1>2, <1>3, <1>4, LookKeepsTokens, WriteKeepsTokens, ReportKeepsTokens,
             EndKeepsTokens DEF Next, CommandStep, InsertEvent, EarlierRelease

\* A token hash is one row's only, and what a command has read of a user
\* still holds when it writes, unless commands for that user overlapped or one
\* of them was killed before it printed.
THEOREM TokensOnce == Spec => [](Typed /\ TokenInv)
  <1>1. Init => TokenInv
    BY DEF Init, TokenInv, HashInv, UserInv, Underway, RowsOf, Live
  <1> QED BY <1>1, TokensKept, TypedAlways, PTL DEF Spec

\* What the API answers to a token that is in the table.
LEMMA AnswerOfRow ==
    ASSUME Typed, HashInv, NEW r \in tokens, NEW m \in Role
    PROVE  Answer(r.hash, m) = 200 <=> ~r.revoked /\ Rank[r.role] >= Rank[m]
  <1>1. {s \in tokens : s.hash = r.hash} = {r}
    BY DEF HashInv
  <1>2. Rank[r.role] \in Nat /\ Rank[m] \in Nat
    BY DEF Typed, TypeOK, Rows
  <1> QED BY <1>1, <1>2 DEF Answer, Active

\* However many registry-auth commands run at once, the API accepts of a user
\* exactly the token reported last, unless commands for that user overlapped or
\* one of them was killed before it printed.
THEOREM AcceptedAsReported == Spec => []AsReported
  <1>1. ASSUME Typed, TokenInv PROVE AsReported
    <2> SUFFICES ASSUME NEW u \in User \ muddled,
                        \A p \in Underway(u) : ~At(p, "print"),
                        NEW m \in Role
                 PROVE  {h \in 1..issued : Answer(h, m) = 200
                                           /\ \E r \in RowsOf(u) : r.hash = h}
                          = {r.hash : r \in {t \in told[u] : Rank[t.role] >= Rank[m]}}
      BY DEF AsReported
    <2>1. HashInv /\ told[u] = Live(u)
      BY <1>1 DEF TokenInv, UserInv
    <2>2. \A r \in RowsOf(u) : /\ r.hash \in 1..issued
                               /\ Answer(r.hash, m) = 200
                                    <=> r \in Live(u) /\ Rank[r.role] >= Rank[m]
      BY <1>1, <2>1, AnswerOfRow DEF HashInv, RowsOf, Live
    <2>3. Live(u) \subseteq RowsOf(u)
      BY DEF Live
    <2> QED BY <2>1, <2>2, <2>3
  <1> QED BY <1>1, TokensOnce, PTL

\* However many registry-auth commands run at once, add-user displaces no
\* active token, unless commands for that user overlapped or one of them was
\* killed before it printed.
THEOREM AddUserIsSafe == Spec => AddDisplacesNobody
  <1>1. ASSUME Typed, TokenInv, [Next]_vars,
               NEW p \in Proc, NEW u \in User \ muddled,
               At(p, "write"), ~At(p, "write")', command[p].name = "add-user",
               NEW r \in RowsOf(u), ~r.revoked
        PROVE  r \in tokens'
    <2>1. r \in tokens /\ r.username = u
      BY DEF RowsOf
    <2>2. CASE UNCHANGED tokens
      BY <2>1, <2>2
    <2>3. ASSUME NEW q \in Proc, Write(q), q # p PROVE FALSE
      <3>1. pc'[p] = pc[p]
        BY <1>1, <2>3 DEF Write, Issue, Revoke, Goto, Typed, TypeOK
      <3> QED BY <1>1, <3>1 DEF At
    <2>4. CASE Write(p)
      <3>1. u # UserOf(p)
        <4> SUFFICES ASSUME u = UserOf(p) PROVE FALSE
          OBVIOUS
        <4>1. UserInv(u) /\ p \in Underway(u)
          BY <1>1 DEF TokenInv, Underway, At
        <4>2. seen[p] = RowsOf(u) /\ ~NothingToDo(command[p], seen[p])
          BY <1>1, <4>1 DEF UserInv
        <4> QED BY <1>1, <4>2 DEF NothingToDo, Active
      <3>2. RowsOf(u)' = RowsOf(u)
        BY <1>1, <2>4, <3>1, WriteEffect
      <3> QED BY <3>2 DEF RowsOf
    <2>5. CASE ~(\E q \in Proc : Write(q))
      <3>1. UNCHANGED tokens
        BY <1>1, <2>5
           DEF Next, OpenStep, CommandStep, Start, CreateTables, Inspect, CreateNew,
               CopyEvents, SwapTables, Look, Report, End, Stop, InsertEvent,
               EarlierRelease, Append, vars
      <3> QED BY <2>2, <3>1
    <2> QED BY <2>3, <2>4, <2>5
  <1>2. Typed /\ TokenInv /\ [Next]_vars
          => [\A p \in Proc : \A u \in User \ muddled :
                 At(p, "write") /\ ~At(p, "write")' /\ command[p].name = "add-user"
                   => \A r \in RowsOf(u) : ~r.revoked => r \in tokens']_vars
    BY <1>1
  <1> QED BY <1>2, TokensOnce, PTL DEF Spec, AddDisplacesNobody
=============================================================================
