----------------------------- MODULE Conversion -----------------------------
(***************************************************************************)
(* The converters and the rows they share with the crawler: the engine     *)
(* (convert_one), the daemon that calls it for delivery.created events and *)
(* keeps its place in the stream on disk, and the backfill command that    *)
(* walks through the unconverted deliveries page by page.                  *)
(*                                                                         *)
(* A handler of the registry is atomic; between the requests of a call of  *)
(* convert_one anything may happen.  What is in the files is reduced to    *)
(* the version of the delivery they come from, the metadata of a row to    *)
(* its conversion_error.  The daemon gets every event: which ones a        *)
(* consumer may miss is the subject of EventStream.                        *)
(***************************************************************************)
EXTENDS Integers, Sequences, FiniteSets

CONSTANTS
    Delivery,       \* delivery ids, ordered as the registry orders them
    Cli,            \* backfill commands
    Daemon,         \* the converter daemon
    ShardI, ShardN, \* --shard I/N of a command; 0/1 is no shard
    IncludeFailed,  \* the commands run with --include-failed
    Excluded,       \* deliveries of an excluded data partner
    PageSize,       \* converter_cli_batch_size (200 in the code)
    MaxAttempts,    \* attempts of a request (4 in the code)
    MaxVersion,     \* bound: versions of a delivery's files
    MaxLog,         \* bound: rows of the events table
    MaxStops        \* bound: signals and deaths of the daemon

Worker == Cli \cup {Daemon}

ASSUME DeliveryAssumption == Delivery \subseteq Nat \ {0} /\ IsFiniteSet(Delivery)
ASSUME WorkerAssumption == Daemon \notin Cli
ASSUME ShardAssumption ==
    ShardN \in [Cli -> Nat \ {0}] /\ ShardI \in [Cli -> Nat]
ASSUME ConversionBoundAssumption ==
    /\ PageSize \in Nat \ {0} /\ MaxAttempts \in Nat \ {0}
    /\ MaxVersion \in Nat \ {0} /\ MaxLog \in Nat /\ MaxStops \in Nat

VARIABLES
    version,  \* version[d]: the version of d's SAS files on the share
    row,      \* row[d]: d's row, or NoRow
    parquet,  \* parquet[d]: the version d's Parquet files come from, or 0
    log,      \* the events table
    job,      \* job[w]: w's call of convert_one
    mode,     \* where the daemon is
    asked,    \* _stopping
    saved,    \* last_seq in the state file; _last_seq while the daemon runs
    cur,      \* the event whose on_event waits for convert_one, or 0
    stops,    \* signals and deaths so far
    walk,     \* walk[w]: whether command w runs, or how it ended
    page,     \* page[w]: what is left of the page it works on
    failed,   \* failed[w]: those listed with a conversion_error
    cursor,   \* cursor[w]: the last delivery listed, or 0
    basis,    \* history: the version the last converter to PATCH d had read
    raced,    \* history: deliveries last crawled during a conversion
    ended,    \* history: events for which convert_one returned or raised
    cut,      \* history: events persisted when their on_event was cancelled
    todo,     \* history: what w's walk had to do when it began, and that
              \* no converter has marked as converted since
    visited   \* history: what w's walk has taken up

tables     == <<version, row, parquet, log>>
daemonVars == <<mode, asked, saved, cur, stops, cut>>
cliVars    == <<walk, page, failed, cursor, todo, visited>>
vars == <<tables, job, daemonVars, cliVars, basis, raced, ended>>

NoRow == [none |-> TRUE]
Call(d, pc) == [pc |-> pc, delivery |-> d, read |-> 0, ok |-> FALSE, tries |-> 0]
NoJob == Call(0, "idle")

Known(d) == row[d] # NoRow

Init ==
    /\ version = [d \in Delivery |-> 1]
    /\ row = [d \in Delivery |-> NoRow]
    /\ parquet = [d \in Delivery |-> 0]
    /\ log = <<>>
    /\ job = [w \in Worker |-> NoJob]
    /\ mode = "down" /\ asked = FALSE /\ saved = 0 /\ cur = 0 /\ stops = 0
    /\ walk = [w \in Cli |-> "off"]
    /\ page = [w \in Cli |-> {}]
    /\ failed = [w \in Cli |-> {}]
    /\ cursor = [w \in Cli |-> 0]
    /\ basis = [d \in Delivery |-> 0]
    /\ raced = {} /\ ended = {} /\ cut = {}
    /\ todo = [w \in Cli |-> {}]
    /\ visited = [w \in Cli |-> {}]

-----------------------------------------------------------------------------
(* The share and the crawler                                               *)

\* New files replace those of d.
Redeliver(d) ==
    /\ version[d] < MaxVersion
    /\ version' = [version EXCEPT ![d] = @ + 1]
    /\ UNCHANGED <<row, parquet, log, job, daemonVars, cliVars, basis, raced, ended>>

InFlight(d) == \E w \in Worker : /\ job[w].delivery = d
                                 /\ job[w].pc \in {"convert", "patch", "emit"}

\* Mutant of Crawl: the upsert of a known delivery keeps its conversion.
CrawlKeepsMarks(d) ==
    /\ row' = [row EXCEPT ![d] =
                 IF Known(d) THEN [@ EXCEPT !.fp = version[d]]
                 ELSE [fp |-> version[d], converted |-> FALSE, error |-> FALSE]]
    /\ \/ UNCHANGED log
       \/ /\ ~Known(d) /\ Len(log) < MaxLog
          /\ log' = Append(log, [type |-> "created", delivery |-> d])
    /\ raced' = IF InFlight(d) THEN raced \cup {d} ELSE raced \ {d}
    /\ UNCHANGED <<version, parquet, job, daemonVars, cliVars, basis, ended>>

\* create_delivery: a known delivery is reset and not announced; the event
\* of a new one may fail to be inserted.
Crawl(d) ==
    /\ row' = [row EXCEPT ![d] =
                 [fp |-> version[d], converted |-> FALSE, error |-> FALSE]]
    /\ \/ UNCHANGED log
       \/ /\ ~Known(d) /\ Len(log) < MaxLog
          /\ log' = Append(log, [type |-> "created", delivery |-> d])
    /\ raced' = IF InFlight(d) THEN raced \cup {d} ELSE raced \ {d}
    /\ UNCHANGED <<version, parquet, job, daemonVars, cliVars, basis, ended>>

-----------------------------------------------------------------------------
(* convert_one                                                             *)

Begin(w, d, pc) == job' = [job EXCEPT ![w] = Call(d, pc)]

Goto(w, pc) ==
    /\ job' = [job EXCEPT ![w].pc = pc, ![w].tries = 0]
    /\ UNCHANGED <<walk, ended>>

\* The call is over.  An exception ends the backfill command; the daemon's
\* on_event logs it and goes on.
Over(w, how) ==
    /\ job' = [job EXCEPT ![w] = NoJob]
    /\ walk' = IF w \in Cli /\ how # "returned"
                 THEN [walk EXCEPT ![w] = how] ELSE walk
    /\ ended' = IF w = Daemon THEN ended \cup {cur} ELSE ended

\* The requests of the failure path: their exceptions are only logged.
Swallowed(w) == job[w].pc \in {"patch", "emit"} /\ ~job[w].ok

\* A request raises.
GivesUp(w) ==
    \/ ~Swallowed(w) /\ Over(w, "registry")
    \/ Swallowed(w) /\ job[w].pc = "patch" /\ Goto(w, "emit")
    \/ Swallowed(w) /\ job[w].pc = "emit" /\ Over(w, "returned")

\* Mutant of NoAnswer: one attempt too many.
RetriesOnceMore(w) ==
    \/ /\ job[w].tries < MaxAttempts
       /\ job' = [job EXCEPT ![w].tries = @ + 1]
       /\ UNCHANGED <<walk, ended>>
    \/ job[w].tries = MaxAttempts /\ GivesUp(w)

\* Mutant of NoAnswer: the attempts of a request are not counted.
RetriesForever(w) ==
    UNCHANGED <<job, walk, ended>>

\* An attempt is not answered, or with a 5xx: it is repeated until the
\* attempts are used up.
NoAnswer(w) ==
    \/ /\ job[w].tries + 1 < MaxAttempts
       /\ job' = [job EXCEPT ![w].tries = @ + 1]
       /\ UNCHANGED <<walk, ended>>
    \/ job[w].tries + 1 = MaxAttempts /\ GivesUp(w)

Requesting(w) == job[w].pc \in {"clear", "fetch", "patch", "emit"}

\* An attempt fails before it changes anything, or is refused with a 4xx.
AttemptFails(w) ==
    /\ Requesting(w)
    /\ NoAnswer(w) \/ GivesUp(w)
    /\ UNCHANGED <<tables, basis, todo>>

\* --include-failed clears the error before the engine looks at the row.
ClearError(w) ==
    /\ job[w].pc = "clear"
    /\ row' = [row EXCEPT ![job[w].delivery].error = FALSE]
    /\ Goto(w, "fetch") \/ NoAnswer(w)
    /\ UNCHANGED <<version, parquet, log, basis, todo>>

\* The skip guards.
Skips(d) == d \in Excluded \/ row[d].converted \/ row[d].error

GetDelivery(w) ==
    /\ job[w].pc = "fetch"
    /\ IF Skips(job[w].delivery) THEN Over(w, "returned") ELSE Goto(w, "open")
    /\ UNCHANGED <<tables, basis, todo>>

\* _find_sas_files lists the directory: no SAS file is there, or it cannot
\* be listed, which raises, or the files are about to be read.
FindSasFiles(w) ==
    /\ job[w].pc = "open"
    /\ \/ Over(w, "returned")
       \/ Over(w, "raised")
       \/ /\ job' = [job EXCEPT ![w].pc = "convert",
                                ![w].read = version[job[w].delivery]]
          /\ UNCHANGED <<walk, ended>>
    /\ UNCHANGED <<tables, basis, todo>>

\* At least one of the files is converted, or none.
ConvertFiles(w) ==
    /\ job[w].pc = "convert"
    /\ \E ok \in BOOLEAN :
          /\ job' = [job EXCEPT ![w].pc = "patch", ![w].ok = ok]
          /\ parquet' = IF ok THEN [parquet EXCEPT ![job[w].delivery] = job[w].read]
                              ELSE parquet
    /\ UNCHANGED <<version, row, log, walk, ended, basis, todo>>

\* The row gets parquet_converted_at, or a conversion_error.
PatchDelivery(w) ==
    /\ job[w].pc = "patch"
    /\ LET d == job[w].delivery
       IN  /\ row' = IF job[w].ok THEN [row EXCEPT ![d].converted = TRUE]
                                  ELSE [row EXCEPT ![d].error = TRUE]
           /\ basis' = [basis EXCEPT ![d] = job[w].read]
           /\ todo' = IF job[w].ok THEN [v \in Cli |-> todo[v] \ {d}] ELSE todo
    /\ Goto(w, "emit") \/ NoAnswer(w)
    /\ UNCHANGED <<version, parquet, log>>

Report(w) == [type     |-> IF job[w].ok THEN "completed" ELSE "failed",
              delivery |-> job[w].delivery]

\* Mutant of EmitEvent: a conversion is reported before its row is marked.
EmitEarly(w) ==
    /\ job[w].pc \in {"patch", "emit"}
    /\ Len(log) < MaxLog
    /\ log' = Append(log, Report(w))
    /\ Over(w, "returned") \/ NoAnswer(w)
    /\ UNCHANGED <<version, row, parquet, basis, todo>>

EmitEvent(w) ==
    /\ job[w].pc = "emit"
    /\ Len(log) < MaxLog
    /\ log' = Append(log, Report(w))
    /\ Over(w, "returned") \/ NoAnswer(w)
    /\ UNCHANGED <<version, row, parquet, basis, todo>>

EngineStep(w) ==
    /\ \/ AttemptFails(w) \/ ClearError(w) \/ GetDelivery(w) \/ FindSasFiles(w)
       \/ ConvertFiles(w) \/ PatchDelivery(w) \/ EmitEvent(w)
    /\ UNCHANGED <<daemonVars, page, failed, cursor, visited, raced>>

-----------------------------------------------------------------------------
(* The daemon                                                              *)

Running == mode \in {"catchup", "handover", "listen"}

\* The watchdog starts it; load_last_seq is the place it goes on from.
Start ==
    /\ mode = "down"
    /\ mode' = "catchup" /\ asked' = FALSE
    /\ UNCHANGED <<tables, job, saved, cur, stops, cut, cliVars, basis, raced, ended>>

\* Between the cancellation of the buffer task and the end of the wait for
\* it, a cancellation of the consumer's task is taken for the buffer's.
CaughtUp ==
    /\ mode = "catchup" /\ cur = 0 /\ saved = Len(log)
    /\ mode' = "handover"
    /\ UNCHANGED <<tables, job, asked, saved, cur, stops, cut, cliVars,
                   basis, raced, ended>>

Listen ==
    /\ mode = "handover"
    /\ mode' = "listen"
    /\ UNCHANGED <<tables, job, asked, saved, cur, stops, cut, cliVars,
                   basis, raced, ended>>

Reconnect ==
    /\ mode = "listen" /\ cur = 0
    /\ mode' = "catchup"
    /\ UNCHANGED <<tables, job, asked, saved, cur, stops, cut, cliVars,
                   basis, raced, ended>>

\* Mutant of OnEvent: the sequence number is persisted on arrival.
OnEventPersistsFirst ==
    /\ mode \in {"catchup", "listen"} /\ cur = 0 /\ saved < Len(log)
    /\ saved' = saved + 1
    /\ IF log[saved + 1].type = "created"
         THEN /\ cur' = saved + 1
              /\ Begin(Daemon, log[saved + 1].delivery, "fetch")
         ELSE UNCHANGED <<cur, job>>
    /\ UNCHANGED <<tables, mode, asked, stops, cut, cliVars, basis, raced, ended>>

\* _on_event: convert_one runs in a thread for a created event, and the
\* sequence number of any other event is persisted at once.
OnEvent ==
    /\ mode \in {"catchup", "listen"} /\ cur = 0 /\ saved < Len(log)
    /\ IF log[saved + 1].type = "created"
         THEN /\ cur' = saved + 1
              /\ Begin(Daemon, log[saved + 1].delivery, "fetch")
              /\ UNCHANGED saved
         ELSE saved' = saved + 1 /\ UNCHANGED <<cur, job>>
    /\ UNCHANGED <<tables, mode, asked, stops, cut, cliVars, basis, raced, ended>>

\* persist_last_seq after convert_one, whether it returned or raised.
PersistLastSeq ==
    /\ mode \in {"catchup", "listen"} /\ cur # 0 /\ job[Daemon].pc = "idle"
    /\ saved' = cur /\ cur' = 0
    /\ UNCHANGED <<tables, job, mode, asked, stops, cut, cliVars, basis, raced, ended>>

\* _request_shutdown cancels the consumer's task.  on_event persists the
\* event it waits for, while the thread goes on; the process ends when the
\* thread does.  Without a thread it ends at once, and in the handover
\* nothing comes of it.
RequestShutdown ==
    /\ Running /\ ~asked /\ stops < MaxStops
    /\ asked' = TRUE /\ stops' = stops + 1
    /\ IF cur # 0
         THEN saved' = cur /\ cut' = cut \cup {cur} /\ mode' = "draining"
         ELSE /\ mode' = IF mode = "handover" THEN mode ELSE "down"
              /\ UNCHANGED <<saved, cut>>
    /\ UNCHANGED <<tables, job, cur, cliVars, basis, raced, ended>>

Exit ==
    /\ mode = "draining" /\ job[Daemon].pc = "idle"
    /\ mode' = "down" /\ cur' = 0
    /\ UNCHANGED <<tables, job, asked, saved, stops, cut, cliVars, basis, raced, ended>>

\* The process dies: it is killed, or the consumer raises.
Die ==
    /\ mode # "down" /\ stops < MaxStops
    /\ mode' = "down" /\ cur' = 0 /\ stops' = stops + 1
    /\ job' = [job EXCEPT ![Daemon] = NoJob]
    /\ UNCHANGED <<tables, asked, saved, cut, cliVars, basis, raced, ended>>

DaemonStep == OnEvent \/ PersistLastSeq \/ CaughtUp \/ Listen \/ Exit

-----------------------------------------------------------------------------
(* The backfill command                                                    *)

InShard(w, d) == d % ShardN[w] = ShardI[w]

Unconverted == {d \in Delivery : Known(d) /\ ~row[d].converted}

CliStart(w) ==
    /\ walk[w] # "on"
    /\ walk' = [walk EXCEPT ![w] = "on"]
    /\ page' = [page EXCEPT ![w] = {}]
    /\ cursor' = [cursor EXCEPT ![w] = 0]
    /\ todo' = [todo EXCEPT ![w] = {d \in Unconverted : InShard(w, d)}]
    /\ visited' = [visited EXCEPT ![w] = {}]
    /\ UNCHANGED <<tables, job, daemonVars, failed, basis, raced, ended>>

\* The command is between two deliveries.
Ready(w) == walk[w] = "on" /\ job[w].pc = "idle"

\* Mutant of Listed: pagination by offset over what is unconverted now.
ListedByOffset(w) ==
    LET done == Cardinality({d \in Delivery : d <= cursor[w]})
    IN  {d \in Unconverted :
           Cardinality({e \in Unconverted : e <= d}) \in (done + 1)..(done + PageSize)}

\* GET /deliveries?converted=false&after=cursor&limit=PageSize.
Listed(w) ==
    LET after == {d \in Unconverted : d > cursor[w]}
    IN  {d \in after : Cardinality({e \in after : e <= d}) <= PageSize}

ListUnconverted(w) ==
    /\ Ready(w) /\ page[w] = {}
    /\ page' = [page EXCEPT ![w] = Listed(w)]
    /\ failed' = [failed EXCEPT ![w] = {d \in Listed(w) : row[d].error}]
    /\ \E last \in Listed(w) :
          /\ \A d \in Listed(w) : d <= last
          /\ cursor' = [cursor EXCEPT ![w] = last]
    /\ UNCHANGED <<tables, job, daemonVars, walk, todo, visited, basis, raced, ended>>

\* An empty page: the backfill is complete.
CliEnd(w) ==
    /\ Ready(w) /\ page[w] = {} /\ Listed(w) = {}
    /\ walk' = [walk EXCEPT ![w] = "done"]
    /\ UNCHANGED <<tables, job, daemonVars, page, failed, cursor, todo, visited,
                   basis, raced, ended>>

\* The next delivery of the page.
CliNext(w) ==
    /\ Ready(w)
    /\ \E d \in page[w] :
          /\ \A e \in page[w] : d <= e
          /\ page' = [page EXCEPT ![w] = @ \ {d}]
          /\ visited' = [visited EXCEPT ![w] = @ \cup {d}]
          /\ IF ~InShard(w, d)
               THEN UNCHANGED job
               ELSE Begin(w, d, IF w \in IncludeFailed /\ d \in failed[w]
                                  THEN "clear" ELSE "fetch")
    /\ UNCHANGED <<tables, daemonVars, walk, failed, cursor, todo, basis, raced, ended>>

\* The limit is reached, a page cannot be had, or the command is killed.
CliStops(w) ==
    /\ walk[w] = "on"
    /\ walk' = [walk EXCEPT ![w] = "stopped"]
    /\ job' = [job EXCEPT ![w] = NoJob]
    /\ UNCHANGED <<tables, daemonVars, page, failed, cursor, todo, visited,
                   basis, raced, ended>>

CliStep(w) ==
    CliStart(w) \/ ListUnconverted(w) \/ CliEnd(w) \/ CliNext(w) \/ CliStops(w)

-----------------------------------------------------------------------------
Next ==
    \/ \E d \in Delivery : Redeliver(d) \/ Crawl(d)
    \/ \E w \in Worker : EngineStep(w)
    \/ Start \/ DaemonStep \/ Reconnect \/ RequestShutdown \/ Die
    \/ \E w \in Cli : CliStep(w)

Spec == Init /\ [][Next]_vars

\* The watchdog runs from cron, a thread runs, an event loop runs its tasks.
Fairness ==
    /\ WF_vars(Start)
    /\ WF_vars(DaemonStep)
    /\ WF_vars(EngineStep(Daemon))

FairSpec == Spec /\ Fairness

-----------------------------------------------------------------------------
(* Properties                                                              *)

Row == [fp : 1..MaxVersion, converted : BOOLEAN, error : BOOLEAN]

Event == [type : {"created", "completed", "failed"}, delivery : Delivery]

BusyJob == [pc : {"clear", "fetch", "open", "convert", "patch", "emit"},
            delivery : Delivery, read : 0..MaxVersion, ok : BOOLEAN,
            tries : 0..(MaxAttempts - 1)]

\* No event is about a delivery that has no row.
TablesOK ==
    /\ version \in [Delivery -> 1..MaxVersion]
    /\ row \in [Delivery -> Row \cup {NoRow}]
    /\ parquet \in [Delivery -> 0..MaxVersion]
    /\ log \in Seq(Event) /\ Len(log) <= MaxLog
    /\ \A i \in 1..Len(log) : Known(log[i].delivery)
    /\ basis \in [Delivery -> 0..MaxVersion]
    /\ raced \subseteq Delivery

\* No converter has a delivery without a row.
JobsOK ==
    /\ job \in [Worker -> BusyJob \cup {NoJob}]
    /\ \A w \in Worker : job[w].pc # "idle" => Known(job[w].delivery)

\* The daemon is never ahead of the events table.
DaemonOK ==
    /\ mode \in {"down", "catchup", "handover", "listen", "draining"}
    /\ asked \in BOOLEAN /\ stops \in 0..MaxStops
    /\ saved \in 0..Len(log) /\ cur \in 0..Len(log)
    /\ ended \subseteq 1..Len(log) /\ cut \subseteq 1..Len(log)

WalksOK ==
    /\ walk \in [Cli -> {"off", "on", "done", "registry", "raised", "stopped"}]
    /\ page \in [Cli -> SUBSET Delivery] /\ failed \in [Cli -> SUBSET Delivery]
    /\ \A w \in Cli : \A d \in page[w] : Known(d)
    /\ cursor \in [Cli -> Delivery \cup {0}]
    /\ todo \in [Cli -> SUBSET Delivery] /\ visited \in [Cli -> SUBSET Delivery]

\* The type invariant.
TypeOK == TablesOK /\ JobsOK /\ DaemonOK /\ WalksOK

\* Whatever dies and whenever, the state file is never ahead of the work:
\* convert_one has come to an end for every created event up to last_seq,
\* but for those whose on_event was cancelled.
SeqMeansAttempted ==
    \A s \in 1..saved : log[s].type = "created" => s \in ended \cup cut

\* What a row says of a conversion is true of the files it was last crawled
\* with (or of later ones), unless that crawl came during a conversion.
MarksAreCurrent ==
    \A d \in Delivery \ raced : Known(d) =>
        /\ row[d].converted => parquet[d] >= row[d].fp
        /\ row[d].error => basis[d] >= row[d].fp

\* What the documentation promises: a crawl of new files clears what was
\* said of the old ones, and the next pass picks the delivery up.
MarksAreAlwaysCurrent ==
    \A d \in Delivery : Known(d) =>
        /\ row[d].converted => parquet[d] >= row[d].fp
        /\ row[d].error => basis[d] >= row[d].fp

\* A consumer that hears of a completed conversion finds the row converted,
\* unless the delivery was crawled meanwhile.
CompletedIsInRow ==
    [][\A i \in (Len(log) + 1)..Len(log') :
         log'[i].type = "completed" =>
           row[log'[i].delivery].converted \/ log'[i].delivery \in raced]_vars

\* A backfill that comes to its end has taken up every delivery of its
\* shard that was unconverted all the time, whatever other converters and
\* crawls did to the table under its cursor.
WalkMissesNothing ==
    \A w \in Cli : walk[w] = "done" => todo[w] \subseteq visited[w]

\* A daemon that drains comes to its end.
DrainEnds == mode = "draining" ~> mode = "down"

\* The daemon gets past every event, however its conversions fail.
EventuallyPassed == \A s \in 1..MaxLog : Len(log) >= s ~> saved >= s

=============================================================================
