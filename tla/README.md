# Verification of the data delivery pipeline

TLA+ models of the program under `src/`, the TLC runs that check them and the
theorems TLAPS proves about them. Paths below are relative to the repository
unless they name a module.

| to                         | run                                              |
|----------------------------|--------------------------------------------------|
| model-check a run          | `tlc -config Registry.cfg RegistryMC.tla`        |
| check the proofs           | `tlapm M.tla` for M in `EventStreamProofs`, `EventStreamGapProofs`, `RegistryProofs`, `ConversionProofs`, `ConvertFileProofs`, `CrawlerProofs`, `LexiconsProofs`, `DatabaseProofs` |

`PROJECT.json` lists the runs, the source lines behind every definition, the
hazards, the findings and, for each property, a mutated definition that makes
it fail.

## 1. The system

Files arrive in directories of a network share. A **crawler** walks them and
posts what it sees to a **registry** (FastAPI, one asyncio loop, SQLite in WAL
mode). The registry keeps one row per delivery and an append-only table of
events, and broadcasts each event over WebSockets. A **converter** (a daemon
that consumes the events, and a backfill command) turns the SAS files of a
delivery into Parquet and reports to the registry. **Lexicons** (JSON files)
say which statuses exist, which may follow which, what a status sets and which
ask for conversion. Watchdog scripts run from cron and restart the registry and
the daemon.

| component | state | operations | hard behaviour | correct when |
|---|---|---|---|---|
| event stream (`registry_api/events.py`, `main.py`, `db.py` events) | events table, `active_connections`, one suspended `broadcast` per request | commit, broadcast, connect, disconnect, catch-up query | a broadcast waits in the middle of its loop; connections change meanwhile; broken connections are noticed late | every open session is served, every broadcast ends, no event is lost to a session |
| consumer (`events/consumer.py`) | `_last_seq`, `_ws_buffer`, phase of the session | connect, catch up, buffer, replay, listen, reconnect | three sources of the same event; loss and reconnection | each event once, in order, eventually |
| registry handlers (`registry_api/routes.py`, `db.py`) | deliveries, events, loaded lexicons | create/upsert, update, emit, actionable | two commits per request, retried requests, crawls against verdicts, restarts with other lexicons | the events tell the rows, transitions are legal |
| converter daemon (`converter/daemon.py`, `http.py`, `engine.py`) | last_seq on disk, conversion under way | on_event, convert_one, retry, SIGTERM | waits for a registry that may wait for it; concurrent converters; stale reads | each delivery converted and reported |
| backfill CLI (`converter/cli.py`) | cursor, shard | page, convert | the table changes under the cursor | every unconverted delivery is visited |
| file conversion (`converter/convert.py`, loop of `engine.py`) | tmp files, output files, locked schema | stream chunks, close, rename, clean up | a kill or a failing call at any chunk; two conversions of one file; a source replaced while it is read | a reader sees whole files only, a reported file is there |
| crawler (`crawler/`, `lexicons/soc/qa.py`) | what it has found in this run; manifests | walk, parse, inventory, derive, post | unreadable and vanishing directories, overlapping crawls, aborted posts, string versions | statuses follow from the share, in the end, and move backwards only over a reviewer's verdict |
| lexicons (`lexicons/`, `config.py`) | none after loading | read, order, merge, validate, build, nest | cycles, depth, overriding, order of resolution | what is loaded is well formed, what is refused has a fault |
| authentication (`auth.py`, `auth_cli.py`) | tokens table | check, add, revoke, rotate | a row read before the transaction, racing commands, kills before the token is printed | what was printed last is what is accepted |
| schema set-up and migration (`db.py`) | events table, events_new | create, rebuild events | every process does it at its start; statements that commit by themselves; kills | no event lost, nothing left behind, the registry can write |
| watchdogs (`pipeline/scripts`) | pid files | check and start | check-then-act | one process each |
| configuration, logging | none | check of the scan roots | | a root's lexicon exists |

How they interact: HTTP requests (crawler, converter and reviewers to the
registry), WebSocket messages (registry to consumers), one callback (the
consumer awaits `on_event`, which in the daemon runs the engine in a thread and
posts back to the registry), two shared stores (the database, the state file of
the daemon), and the share.

The hazards are listed with their lines in `PROJECT.json`. The three that shape
the rest are the await in the middle of `broadcast`, the fact that a row and
its event are separate commits, and the time that passes between a converter's
look at a row and its PATCH.

## 2. Modules

| module | role |
|---|---|
| `EventStream` | the event log, `ConnectionManager`, connections and `EventConsumer`s, with the converter daemon as a consumer that posts from its callback |
| `EventStreamMC` | constants for TLC |
| `EventStreamProofs` | theorems about `EventStream`: types, order, sessions |
| `EventStreamGapProofs` | that it skips nothing, and implements `OrderedStream` |
| `Registry` | the two tables and the handlers that write them |
| `RegistryMC` | constants for TLC: the lexicons `soc.qar` and `soc.scdm`, the PATCH bodies clients send |
| `RegistryProofs` | theorems about `Registry` |
| `OrderedStream` | abstract: what the stream promises its consumers; `EventStream` implements it |
| `Conversion` | the engine, the daemon, the backfill command and the rows they share with the crawler |
| `ConversionMC` | constants for TLC, and the behaviours without the daemon |
| `ConversionProofs` | theorems about `Conversion` |
| `ConvertFile` | the files of one delivery converted chunk by chunk |
| `ConvertFileMC` | constants for TLC |
| `AtomicOutputs` | abstract: what a reader of the Parquet files is promised; `ConvertFile` implements it |
| `ConvertFileProofs` | theorems about `ConvertFile`, that refinement among them |
| `Crawler` | the walk, the derivation and the posts, with the share and the registry's answers |
| `CrawlerMC` | constants for TLC: the lexicon `soc.qar` and one without a hook |
| `CrawlerProofs` | theorems about `Crawler`, the comparison of versions included |
| `Lexicons` | the loader, stage by stage |
| `LexiconsMC` | the directories of lexicon files for TLC |
| `LexiconsProofs` | theorems about `Lexicons`, its recursion over lines of inheritance included |
| `Database` | `init_db` with its migration, and the tokens |
| `DatabaseMC` | constants for TLC |
| `DatabaseProofs` | theorems about `Database` |

`EventStream`, `Registry`, `Conversion` and `Crawler` look at the same tables
from four sides: `EventStream` keeps of an event only its number and what it
follows, `Registry` what it tells of a status, `Conversion` what it tells of a
conversion, `Crawler` the rows as an image of the share. Each abstracts the part
another one details: `EventStream` says which events a consumer may miss, so the
daemon of `Conversion` gets all of them; `Registry` has PATCHes and events and
takes crawls as they come, `Crawler` has the crawls, and of a PATCH the status it
writes; `Conversion`
converts the files of a delivery in one step, `ConvertFile` chunk by chunk; the
lexicons that `Registry` and `Crawler` have as constants are the ones `Lexicons`
loads; `Database` is the file under the registry, below any transaction the
others speak of.

### EventStream

| variable | code |
|---|---|
| `log` | events table; an entry is 0 for an event of a delivery, else the number of the event that the conversion report follows |
| `bcast[s]` | the suspended call of `broadcast` for event s: its `dead` list and the size the set iterator remembers; and, for a report, whether the call was aborted |
| `drain[c]` | who waits inside `send_json` on c, oldest first (websockets sends under a lock) |
| `active` | `active_connections` |
| `stat[c]` | what the server knows of the connection: `open`, `cut` (broken, not noticed), `lost` (noticed; `receive_text` will raise), `none` (handler over) |
| `chan[c]` | messages sent and not read |
| `phase`, `link`, `buf`, `page` | where the consumer is in `run` and `_session` (`caughtup`: the empty last page is on its way), its connection, `_ws_buffer`, the end of the catch-up page it works on |
| `busy`, `posted` | the event `on_event` is handling, and the attempts it made to post its report |
| `last` | `_last_seq`, equal to the daemon's state file whenever `on_event` is not running |
| `handled`, `disturbed` | history: completed events; events whose broadcast was suspended when the connections changed |

The registry is one loop, so between two awaits nothing else runs. `Post` and
`Emit` commit an event and run its broadcast up to the first `send_json` that
waits; `Resume` takes it to the next such place. `Deliver` is that stretch of
the loop. A send on a healthy connection does not wait; on one whose transport
holds more than `Cap` messages, or on which another broadcast waits, it does;
on one that the server knows to be closed it raises and the connection is put
into `dead`. When the set's size is no longer the one the iterator started
with, `Resume` ends the call with the `RuntimeError` CPython raises, the dead
connections are not discarded, and the request is answered with 500.

The page that ends a catch-up is empty when the registry answers; until the
consumer has it and cancels the buffer task, events are still committed and
buffered (`CatchUpEmpty`, `CatchUpEnd`). A daemon posts its report again when
the broadcast was aborted (500), and also when the report was committed and
only the answer was lost (`Retry`).

`CatchUpFails` is the one exception `run` does not catch: the process ends and
the watchdog brings it back with the sequence number it kept.

What the module abstracts:

- The order in which a set is iterated is a fixed `Slot` per connection. That a
  set may be rebuilt when it grows (which shuffles the order) is left out.
- `accept` and `add` in `connect` are one step.
- A connection object may be used again as soon as nothing refers to it, as
  with objects of CPython.
- `RegistryRestart` ends all broadcasts and connections at once, and the process
  is back in the same step.
- The consumer sends no token (`consumer.py:47,123`) while the registry asks for
  one (`main.py:51`, `auth.py:41`), so at this commit an unmodified consumer is
  refused. The module describes sessions that have been admitted.

`OrderedStream` sees of this module the number of events published, the events
each consumer handled, and which events are `lost`, namely `disturbed`. A step of
`EventStream` is an event published or disturbed, or one event handled by one
consumer in order and without a gap that is not excused, or nothing.

### Registry

A row keeps its lexicon, status, fingerprint, whether it is converted and which
metadata keys have a value. A `delivery_id` is the hash of the path and stands
for it. The timestamps and descriptive columns are copied through and decide
nothing in these handlers. `TellStatus` is `insert_event` after the row has been
committed: it may fail, which leaves the row and puts the delivery into the
history variable `untold`. A crawler's retry is another `CreateDelivery` with
the same observation, so it needs no action of its own. A PATCH that repeats
the present status takes the branch without a change, as in the code. A restart
may load any subset of the lexicons, so rows of an unknown lexicon occur.

### Conversion

| variable | code |
|---|---|
| `version[d]` | which SAS files of d are on the share |
| `row[d]` | d's row: the version its last crawl saw (`fp`), `parquet_converted_at`, `metadata.conversion_error` |
| `parquet[d]` | the version d's Parquet files were made from |
| `log` | the events table: created, completed, failed |
| `job[w]` | worker w's call of `convert_one`: the request or stretch it is at (`pc`), the version it read, whether a file was converted, the attempts made at the request |
| `mode`, `asked` | where the daemon's consumer is; `_stopping`. `handover` is the wait for the cancelled buffer task, `draining` the time between the end of the consumer's task and that of the thread |
| `saved`, `cur` | `last_seq` in the state file; the event whose `on_event` waits for the thread |
| `walk`, `page`, `failed`, `cursor` | the generator of a backfill command: whether it runs or how it ended, the rest of its page, which of the listed had a conversion_error, the last id listed |
| `basis`, `raced`, `ended`, `cut`, `todo`, `visited` | histories the properties speak of |

One action per request of `convert_one`, because a registry handler is atomic
and anything may happen between two of them: `ClearError` (the command's PATCH
before the call), `GetDelivery` with the three skip guards, `FindSasFiles`,
`ConvertFiles`, `PatchDelivery`, `EmitEvent`. A request that changes something
may do so and lose its answer: then it is attempted again (`NoAnswer`), and
after `MaxAttempts` it raises. `AttemptFails` is an attempt that changes
nothing, or a 4xx, which raises at once. What an exception does depends on where
it is (`GivesUp`): the failure path swallows it, elsewhere it leaves
`convert_one`, ends the backfill command and is logged by the daemon.

`RequestShutdown` is a SIGTERM or SIGINT. With a thread at work it persists the
event and leaves the thread running (`draining`), since cancelling the task ends
the `await` but not the thread; the interpreter waits for the thread before it
exits (`Exit`). `Die` is a kill, or an exception of the consumer.

What the module abstracts:

- A crawl reads the share and posts in one step. A crawl that posts what it saw
  earlier only makes `fp` older, which weakens no property.
- The page is a set; the code takes its deliveries in the order of their ids
  and so does `CliNext`. A delivery is a number in the order of the ids, and
  `d % N` stands for the shard of its first eight digits.
- `--limit`, an interrupt and a kill of the command are one action, `CliStops`.
- All files of a delivery are converted in one step. That they are written one
  by one, and how, is in `ConvertFile`.
- A response that breaks off in the middle of its body (`IncompleteRead`, which
  `_request_with_retry` does not catch) is not told apart from a lost answer.

### ConvertFile

| variable | code |
|---|---|
| `source[f]` | which version of SAS file f is on the share |
| `disk` | the Parquet directory: paths to row groups and whether the footer is written; path `<<o, 0>>` is output o, the others its tmp files |
| `pc[j]`, `todo`, `file`, `tmp`, `locked` | where conversion j is, the files left, the one it is at, `tmp_path`, `locked_schema` |
| `successes`, `failures` | the two lists `convert_one` builds |
| `replaced`, `littered` | histories: files replaced while they were read; tmp files of killed processes and failed unlinks |

`FirstChunk`, `LaterChunk`, `Close` and `Replace` are the stretches of
`convert_sas_to_parquet` between which another process may act; `CallFails` is
any exception in one of them, `CleanUp` the `except BaseException` branch (whose
`unlink` may fail in turn) with what the loop in `engine.py` does with the
exception, `Kill` the end of the process. pyreadstat opens the file by its path
for every chunk, so a chunk is of the version that is there then. The `stat`
after `os.replace` (`convert.py:215`) is outside the `try`: when it raises, the
output is in place and the file counts as failed (`Replace`).

Row groups are named by the version they come from; of their data the columns and
the types of each chunk are kept (`Schema`), as the schema lock depends on them.
`Fits` is what `Table.from_pandas(df, schema=locked_schema)` asks of a later chunk:
every column of the first is there and its type can be converted (`Castable`).
Columns that the first chunk does not have are dropped in silence. Labels and
encodings are left out. Which of the files comes first is left open. `Kill` and
a fault that is a `KeyboardInterrupt` forget both lists, as the call is gone.

### Crawler

| variable | code |
|---|---|
| `tree` | the directories on the share |
| `phase[c]`, `todo`, `found` | whether crawl c walks, parses or posts; the directories it still has to list, then the candidates it has to look at; the result of `walk_roots` |
| `taken[c]` | `ParsedDelivery` and lexicon of what it has inventoried; from pass 2 on, what is left to post |
| `current`, `tries` | the delivery whose POST is attempted again, and the failed attempts |
| `manifests`, `errors` | the directories with a manifest or an error manifest |
| `loaded`, `rows` | the lexicons of the registry's process, and its deliveries |
| `patched` | history: the deliveries whose status a reviewer wrote after a crawl wrote it last |
| `clean`, `disturbed` | histories the properties speak of |

Every `scandir` is an action (`Scan`, `ScanFails`), every candidate is another
(`Rejects`, `Takes`, `TakesSub`, `NoSub`, `TakeRaises`), every POST another
(`PostAnswered`, `PostFails`, `PostRefused`), because the share may change and
other crawls may post between any two. `Derived` is the hook `soc.qa:derive`
with the comparison of version strings as Python makes it (`Below`). The status of
a delivery has two writers: the upsert of a POST (`Upsert`), which checks no
transition, and a reviewer's PATCH (`Patch`), which does.

What the module abstracts:

- The order of siblings in a walk, of the candidates and of the posts is left
  open; manifests and error manifests are sets of directories.
- Giving up after the last attempt is the same as being killed there: nothing of
  a crawl is left in memory.
- A delivery's row is its lexicon and status. The other columns, the metadata a
  PATCH may bring, and the events are in `Registry`. The registry answers each POST
  as its `Accepts` says. A PATCH that is refused or that repeats the status the row
  has changes nothing here and is no step.

### Lexicons

| variable | code |
|---|---|
| `directory` | what is in `lexicons_dir`: files with their content, or unreadable |
| `stage` | how far `load_all_lexicons` is: `read`, `order`, `resolve`, `build`, `sub_dirs`, then `loaded` until `load_config` has checked the scan roots; or how it ended |
| `raw`, `resolved`, `lexicons` | the dictionaries of the same names |
| `errors` | the errors of a `LexiconLoadError`, each as the lexicon and what is wrong with it |

The content of a file is a function from key paths to values, so that
`_deep_merge` of nested objects is an override of functions (`DeepMerge`). One
action per stage, and one `Resolve` per lexicon, enabled when its base has been
resolved (which of several comes first is left open). A stage that finds errors
ends with its own only, as in the code; depth and validation share a batch. A
file id that two files share goes to the one read last.

`load_lexicon` is a look-up in the result of `load_all_lexicons` and not
modelled apart.

### Database

| variable | code |
|---|---|
| `events`, `log`, `leftover` | which `events` table there is (`migrated` lacks the column username), its rows, whether `events_new` exists |
| `tokens` | the tokens table; the hash of the n-th token issued is n |
| `lock` | whose transaction is open between two steps: only the migration's |
| `pc`, `command` | the next statement of a process, and what it was started as |
| `seen` | the row of its user a command has read, then the one it has written |
| `copied` | the events the migration has copied |
| `written`, `origin`, `interrupted`, `told`, `muddled` | histories the properties speak of |

One action per statement of `init_db` and `_migrate_events_check_constraint`.
`CREATE TABLE` outside a transaction commits by itself in Python's `sqlite3`;
the transaction opens with `INSERT INTO events_new`. `End` is a kill or a failing
statement (a full disk, a lock not obtained in time) at any of them. The
commands of `registry-auth` read their user's row (`Look`), write in one
transaction (`Write`) and print (`Report`). `EarlierRelease` is a registry of
the release before, still running while the new one migrates.

Hashing, timestamps and the columns nothing decides on are left out.

## 3. Properties and runs

| property | says |
|---|---|
| `HandledInOrder` | no consumer completes an event twice or out of order |
| `NoGapUnlessDisturbed` | an event a consumer has passed was handled, unless its broadcast was suspended while connections changed |
| `LiveSessionRegistered` | clean-up never takes a live session out of `active_connections` |
| `BroadcastEnds` | every suspended broadcast ends, also when it waits for the daemon that waits for it |
| `EventuallyPassed` | every consumer gets past every event |
| `CreatedOnceAndFirst` | `delivery.created` comes once per delivery and before its other events |
| `EventsTellStatus` | the latest event of a delivery tells the status in its row, unless that status was written without an event |
| `EventsCarryStamps` | a status_changed event carries the metadata its lexicon sets on the new status |
| `ToldTransitionsLegal` | a reader of the events sees legal transitions only, from the status told last to the one told now |
| `MarksAreCurrent` | what a row says of a conversion is true of the files it was last crawled with, unless that crawl came during a conversion |
| `CompletedIsInRow` | who hears of a completed conversion finds the row converted, also when two converters and repeated requests interleave, unless a crawl came in between |
| `SeqMeansAttempted` | `last_seq` is never ahead of the conversions the daemon has been through, but for cancelled ones |
| `WalkMissesNothing` | a backfill that ends has taken up everything in its shard that stayed unconverted while it ran |
| `DrainEnds` | a shutdown that waits for the converting thread ends |
| `EventuallyPassed` (of `Conversion`) | the daemon gets past every event, however its conversions fail |
| `DeliversInOrder` | `EventStream` implements `OrderedStream` |
| `CleanCrawlAgrees` | a crawl that ends, of a share that stood still and could be read, leaves registry and manifests in agreement with that share, versions compared by number; only statuses that reviewers have written since may differ |
| `CrawlsMoveForward` | crawls and PATCHes move a delivery along the transitions of its lexicon, unless a directory vanished or was not listed, crawls with different views overlapped, or a crawl overwrites what a reviewer has written |
| `EventuallyAgrees` | when share and registry have come to rest, the registry agrees with the share in the end, whatever overlapped, failed, was killed or was written by reviewers before |
| `LoadedIsSound` | a lexicon that is served names statuses of its own only, its hook was imported, its subsidiaries are served and have none |
| `InheritsNearest` | a resolved lexicon has for every key the value of the nearest lexicon in its line of inheritance |
| `RejectedForCause` | the loader accepts the files exactly when a reference that looks at all of them at once finds nothing wrong, blames no lexicon without a fault, and names all lexicons with one kind of fault |
| `EventsKept` | no committed event is lost by a migration |
| `LeftoverOnlyIfInterrupted` | `events_new` is left behind only by a migration that was cut short |
| `FreshIsWritable` | a registry that is up can write events, unless the database came from the earlier release |
| `AsReported` | the API accepts of a user exactly the token printed last, unless commands for the user overlapped or one was killed before it printed |
| `AddDisplacesNobody` | add-user never puts an active token out of use, with the same exceptions |
| `ReadersSeeWholeFiles` | `ConvertFile` implements `AtomicOutputs`: an output changes in one step from whole file to whole file. Whole means that it is closed and that every row group was made of a chunk that had all columns of the first, of types that can be converted |
| `TmpOnlyIfKilled` | a tmp file nobody writes was left by a kill or a failed unlink |
| `OneVersionUnlessReplaced` | an output is all of one version of its SAS file, unless the file was replaced while it was read |
| `ReportedIsThere` | a file reported as converted has a whole output, in the same sense, whoever else converts it and fails |

Passing runs (times with two workers on a small machine):

| run | instance | states | shows |
|---|---|---|---|
| `EventStream` | 2 connections, 1 daemon with 2 attempts, 3 events, page of 1 | 1.1 million, 50 s | types, order, gaps with reports posted from `on_event` and posted again, live sessions, the refinement |
| `EventStreamLive` | 2 connections, 1 daemon with 2 attempts, 2 events | 75 thousand, 60 s | both liveness properties |
| `Registry` | 1 delivery, 2 lexicons, 7 PATCH bodies, 3 events | 1.2 million, 75 s | the registry's properties |
| `Conversion` | 1 delivery in 2 versions, daemon and 1 command with `--include-failed`, 2 attempts, 2 events, 1 signal or death | 2.0 million, 80 s | types, marks and reports under two converters |
| `ConversionWalk` | 3 deliveries, 2 excluded, pages of 2, 2 commands with shards 0/2 and 1/2 | 1.5 million, 60 s | two walks over one table |
| `ConversionLive` | 2 deliveries, the daemon, 3 events, 2 signals or deaths | 290 thousand, 95 s | the state file, and both liveness properties |
| `Crawler` | 2 crawls, 1 delivery at first and 6 directories that may come, 1 change, 1 fault, 1 PATCH, 2 attempts, 2 sets of lexicons | 321 thousand, 150 s | the crawler's properties, liveness among them |
| `Lexicons` | up to 5 files: every inheritance among 4, every content of 14 in lines and forks of 3, sub_dirs with and without other faults, damage | 57 thousand, 15 s | the loader against its references |
| `Database` | 2 processes, 1 user, 2 roles, 4 starts, 1 fault, 2 events | 1.0 million, 35 s | the schema's and the tokens' properties |
| `ConvertFile` | 2 conversions, 2 files, versions of 2, 2 and 0 chunks, one with a column more than the other, 1 fault, 1 change | 760 thousand, 45 s | whole files, the refinement |

Why these bounds are enough to be interesting:

- *EventStream.* `Cap = 0` makes every unread message fill its transport, so
  that two events already give suspended, queued and overtaking broadcasts. With
  two connections the daemon keeps a stale one, which the registry takes for a
  second client, while it uses a new one: a broadcast waits for the one and is
  cut short, or overtaken, for the other. Two live clients at once are in
  `EventStreamGap`; what a consumer does depends on its own connection only. A
  page of one event makes catch-up take several requests, with the final empty
  one, while broadcasts go on; the third event is a report repeated after an
  abort.
- *Registry.* Three events of one delivery are enough for created, status change
  and report, in any order with crawls; no handler looks at the rows of two.
- *Conversion.* Two versions of a delivery's files give every order of crawl,
  conversion and PATCH of old and new; two attempts give a request that is
  repeated after it took effect, and one that is given up; pages shorter than
  the list give walks that list again while earlier pages have been converted.
  `ConversionWalk` leaves the daemon out (`BackfillSpec`): a command's own
  conversions, those of earlier runs and the second command already change the
  table under the cursor.
- *Crawler.* One change gives a later version of the delivery, its passing (a new
  directory or a renamed one), its end, a sub-delivery of another lexicon, an
  excluded data partner or a terminal of the other root's lexicon, before, during
  or after the crawls. With one fault at any point and two crawls that are started
  again and again there is every overlap of an older with a newer view. Two
  attempts give a POST repeated after it took effect; a registry started with
  older lexicons may restart with the present ones, or the other way round. One
  PATCH gives a verdict before, between and during crawls of the delivery; a second
  one would find it in a status that nothing may follow, unless a crawl came
  between, which brings back the situation of the first.
- *Lexicons.* Chains of four exceed the depth of 2 given to the run by one;
  three lexicons in a line or a fork give a child that overrides, an inheritance
  that skips a level and a base that is only right together with its child.
- *Database.* Two processes meet at every pair of statements; with four starts
  each can open the database twice, so that what the first pass left is met
  again; a token is added, rotated and revoked in any order.
- *ConvertFile.* Two chunks give a file that is replaced between them by one with
  no more chunks, with all the columns and more (which passes the schema lock), or
  without a column (which does not); version 2 fails the lock by itself; two jobs give every order of their
  renames and clean-ups.

Runs that TLC refutes, each a claim of the documentation or of a docstring that
the code does not keep:

| run | property | what happens |
|---|---|---|
| `EventStreamGap` | `NoGap` | a consumer skips an event for ever though it may have been connected throughout |
| `ConversionStale` | `MarksAreAlwaysCurrent` | a PATCH marks files as converted that a crawl has brought in meanwhile |

The models have these behaviours too, each at odds with what is written about
the program; they follow from a line or two, so no run is spent on them:

- `broadcast` iterates the live set and waits in the loop (`events.py:34`). A
  client that leaves meanwhile makes the iteration raise: the clients that come
  later do not get the event, and the request that committed it is answered
  with 500. (`Resume`; the design of the event stream, AC3.2 and AC3.3, says
  that a disconnect does not affect the others.)
- The row and its `delivery.created` are two commits (`db.py:358`, `db.py:626`):
  when the second fails, no later crawl announces the delivery, as it is known
  by then (`routes.py:117`). (`CreateDelivery`; the comment at
  `routes.py:88-89`.)
- `POST /deliveries` overwrites the status of a known delivery whatever the
  lexicon's transitions (`db.py:322`): after a PATCH from `pending` to `passed`,
  the next crawl of the unchanged directory makes the delivery `pending` again;
  it resets `parquet_converted_at` of a
  delivery whose files are the same (`db.py:325`), which is then converted again
  (`docs/design-plans/2026-04-09-crawler.md:105` and `README.md:231` speak of new
  fingerprints only); and it emits no event for a known delivery, so no reader
  hears of it. (`CreateDelivery`; `Upsert`, the exception `Overrules` of
  `CrawlsMoveForward`. `docs/loading-dock-overview.md:15` says that "status
  transitions are validated against the lexicon rules, so invalid state changes
  are rejected at the system level".)
- The schema lock takes a later chunk that has all columns of the first, of types
  pyarrow converts (`convert.py:162`): columns the first does not have are dropped,
  and a file replaced while it is read by one with more columns is reported as
  converted, with row groups made of two schemas. (`Fits`, `Provides`. `convert.py:100`
  says "mismatches raise SchemaDriftError", `convert.py:117` "a chunk's schema
  differs from the first chunk". `ReadersSeeWholeFiles` and `ReportedIsThere` promise
  no more than the columns of the first chunk.)
- The loader raises stage by stage (`loader.py:214-271`): for files it cannot read,
  for an unknown base, for a cycle, then for what depth, validation and hooks have
  collected, and for `sub_dirs` only when there was nothing else. An exception of
  an imported hook's module other than `ImportError` and `AttributeError` leaves
  with all errors collected so far (`loader.py:254`). (`ReadFiles`, `Order`,
  `Validate`, `Build`, `CheckSubDirs`. `loader.py:211` says "All errors are collected
  and reported in a single batch", `docs/creating-lexicons.md:348` "the loader
  collects all errors and raises a single `LexiconLoadError` listing every problem".
  `RejectedForCause` promises completeness for one kind of fault only.)
- The hook of a lexicon is imported, and whether it can be called is not looked at
  (`loader.py:115-127`). (`Imports`; `docs/creating-lexicons.md:346`.)
- A SIGTERM persists the number of an event whose conversion still runs in its
  thread (`daemon.py:216`); a kill before the thread ends loses that conversion.
  (`RequestShutdown`, then `Die`; the comment at `daemon.py:211` says that the
  thread ran to completion. `SeqMeansAttempted` excludes just these events.)
- A signal that arrives while the consumer waits for its cancelled buffer task
  is taken for that task's own cancellation (`consumer.py:77`); the daemon goes
  on listening and ignores later signals (`daemon.py:77-78`). (`RequestShutdown`
  in the handover.)
- The PATCH that marks a delivery and the POST of its `conversion.completed` are
  two requests. When the second is given up (`engine.py:284`), the skip guard
  keeps every later call from reporting. (`EmitEvent`, `AttemptFails`.)
- A directory that cannot be listed raises outside any `try`
  (`engine.py:130`), and `cli.py:175` catches only registry errors: the
  backfill ends at that delivery, on every run. (`FindSasFiles`;
  `docs/setup-guide.md:359` says that it converts one by one until none remain.)
- Versions are compared as text (`qa.py:42`): `v9` supersedes `v10`, and `v1`
  supersedes `v01`. (`Below`; the docstring speaks of the highest version, and
  the crawler's AC1.4 accepts `v01`, `v1` and `v10` alike. `CleanCrawlAgrees`
  and `EventuallyAgrees` speak of versions of one width: `SameWidth`.)
- A terminal directory that is gone or unreadable when its inventory is taken
  raises out of `inventory_files`, and the crawl ends before its first POST
  (`TakeRaises`); a delivery the registry refuses ends it too, with all later
  deliveries unposted (`PostRefused`).
- A migrated table has no column `username`, which every INSERT and SELECT of
  this release names (`db.py:626`): a registry on a migrated database cannot
  write or read events. (`InsertEvent`; the migration's test, AC6.1, looks at
  the rows and the constraint. `FreshIsWritable` excepts these databases.)
- A migration cut short after its first statement leaves `events_new`
  (`db.py:54`), and every later `init_db` fails at it. (`CreateNew`; the phase
  plan `2026-04-16-sas-to-parquet-converter/phase_01.md:66` says that the recreation runs inside a transaction.)
- `rotate-token` replaces the row of a revoked user by one that is active
  (`auth_cli.py:141`), and with the role it read before its transaction, which
  the comment at `auth_cli.py:150` calls atomic. Two commands for one user may
  print a token that the other has already replaced. (`Look`, `Issue`; `AsReported`
  excepts overlapping commands, and commands killed before they printed.)
- A file that fails keeps the Parquet file of an earlier version while its
  delivery is marked as converted when another file succeeded; an older
  conversion may rename over a newer one; two SAS files whose names differ only
  in the case of the suffix share one output. (`CleanUp`, `Replace`, `OutputOf`.)

### Fairness

`FairSpec` of `EventStream` is used by `EventStreamLive` only. Weak fairness on `Resume`,
`Disconnect` and the consumer's own steps says that asyncio runs a task that
can run and that `on_event` returns. Weak fairness on `ServerNotices` is
uvicorn's keepalive (`uvicorn.run` in `main.py:80` keeps its default ping
interval and timeout): a connection whose client does not answer, because it is
gone or because it reads nothing, is closed in the end. Strong fairness on the
catch-up says that requests, which may fail any number of times, do not fail
for ever. Nothing is assumed of clients that post, of the network or of
restarts. Without the keepalive the daemon and the registry do wait for each
other for ever (that is the mutant of `BroadcastEnds`).

`FairSpec` of `Conversion` is used by `ConversionLive` only.
Weak fairness on `EngineStep(Daemon)`: the thread runs, and `urlopen` and the
conversion of a file return. On `DaemonStep`: the consumer's task runs. On
`Start`: cron runs the watchdog. Nothing is assumed of the registry, which may
leave every request unanswered, nor of crawls and signals; signals and deaths
are bounded by `MaxStops`, as a daemon that is killed again and again before it
can write its state gets nowhere.

`FairSpec` of `Crawler` is used by its run. Weak fairness on the starts and steps
of all crawls together says that cron starts crawls for ever and that not all of
them come to a stand; one that hangs on the share may do so for good. Changes of the share, PATCHes and
faults are bounded, as the property is about a share and a registry at rest; a
registry that stays with older lexicons makes the hypothesis of `EventuallyAgrees` false.
`ConvertFile`, `Lexicons`, `Database` and `Registry` have no fairness: nothing
there waits for another.

## 4. Theorems

All hold for every value of the constants that satisfies the modules'
assumptions: any number of connections, consumers, deliveries and backfill
commands, any lexicons, page sizes, shards and numbers of attempts.

| theorem | module | argument |
|---|---|---|
| `TypeCorrect` | `EventStreamProofs` | one step per action; `DeliverType` for the stretch of the broadcast loop, used by every action that runs it |
| `HandledInOrderHolds` | `EventStreamProofs` | inductive with: what is handled is at most `last`, and an event being handled is above `last`. The dedup test establishes the latter for the buffer and the live loop, the page for catch-up |
| `LiveSessionRegisteredHolds` | `EventStreamProofs` | inductive with: every connection in a `dead` list is closed, because only a failed send puts it there and a connection that a list still refers to is not used for a new session |
| `NoGapUnlessDisturbedHolds` | `EventStreamGapProofs` | inductive with `StreamInv`, see below |
| `StreamImplementsOrderedStream` | `EventStreamGapProofs` | the refinement: of the steps of `EventStream` those that end `on_event` map to `OrderedStream!Handle`, in order by `HandledInOrderHolds` and without a gap by `NoGapUnlessDisturbedHolds`; those that commit, to `Publish`; every other step disturbs broadcasts or is not seen |
| `TypeCorrect` | `RegistryProofs` | one step per handler |
| `CreatedOnceAndFirstHolds` | `RegistryProofs` | inductive with: every event is about a delivery in the table; no handler removes a row |
| `EventsTellStatusHolds` | `RegistryProofs` | inductive as it stands: a write of a status appends the event that tells it or makes the delivery untold |
| `EventsCarryStampsHolds` | `RegistryProofs` | `PatchedStamps`: the lexicon's fields are merged last |
| `ToldTransitionsLegalHolds` | `RegistryProofs` | an action property: a PATCH is checked against the status in the row, which by `EventsTellStatusHolds` is the one told last |
| `TypeCorrect` | `ConversionProofs` | inductive with: a daemon's thread works for an event. `JobStep` and `TablesStep` say once what any step of `convert_one` may do; the other actions are one lemma per actor |
| `SeqMeansAttemptedHolds` | `ConversionProofs` | inductive with `WaitsForNext`: until its `on_event` is cancelled, the event the daemon waits for is the first that is not persisted, and it has ended when no thread works for it |
| `WalkMissesNothingHolds` | `ConversionProofs` | inductive with `WalkProgress`: while a walk is on, what it has to do is still listed and is taken up, on the page, or behind the cursor. `ListedIsPrefix` says that a page leaves out nothing before its last delivery, `EmptyPageIsLast` that only the page after the last delivery is empty |
| `MarksAreCurrentHolds` | `ConversionProofs` | inductive with `MarkInv`: no row is ahead of the share (`RowsNotAhead`), and as long as no crawl came during its conversion a call has read the files of the row or later ones, has left them converted once it patches, and has marked the row once it reports (`CallsCurrent`) |
| `CompletedIsInRowHolds` | `ConversionProofs` | an action property from `MarkInv`: who reports has marked |
| `TypeCorrect` | `DatabaseProofs` | inductive with `CommandsFit`: a process is at a statement of its own command. One step per statement |
| `NoEventLost` | `DatabaseProofs` | inductive with `LogInv`: from its copy to its swap a migration holds the lock, so that what it has copied is all there is |
| `LeftoverExplained` | `DatabaseProofs` | inductive as it stands, given the types: a migration that ends drops its table, and ends early only by being cut short |
| `FreshStaysWritable` | `DatabaseProofs` | inductive with `SchemaInv`: a table that was not old at first is never taken for outdated, so no process comes to migrate it |
| `AcceptedAsReported` | `DatabaseProofs` | inductive with `TokenInv`: every hash was issued and names one row (`HashInv`), and a user who is not muddled has at most one command underway, which has read the user's row, or written the live one, or else what the user was told is the live row (`UserInv`) |
| `AddUserIsSafe` | `DatabaseProofs` | an action property from the same invariant: the row add-user has read is still the user's row when it writes |
| `TypeCorrect` | `ConvertFileProofs` | inductive with the disjointness of tmp files; `FreshPath` shows by counting that there is an unused name among the first `Cardinality(DOMAIN disk) + 1` |
| `WhatIsReportedIsThere` | `ConvertFileProofs` | outputs are whole, and no step removes one |
| `ConversionIsAtomic` | `ConvertFileProofs` | the refinement: `Replace` maps to `AtomicOutputs!Replace` with a whole file, because the file that is moved is closed and the lock has let in only chunks with all columns of the first (`JobInv`); every other step leaves the outputs alone (`SameOutputs`) |
| `LitterExplained` | `ConvertFileProofs` | inductive as it stands, given the types |
| `OutputsAreOneVersion` | `ConvertFileProofs` | inductive with `ReadInv`: what a job has written of a file that was not replaced is the beginning of the version on the share, and all of a version once it is closed |
| `TypeOKHolds` | `CrawlerProofs` | inductive with `CrawlInv`: the share is closed under parents, and what a crawl has in hand fits its phase (`InHand`) |
| `CleanCrawlAgreesHolds` | `CrawlerProofs` | inductive with `ViewInv`, see below |
| `CrawlsMoveForwardHolds` | `CrawlerProofs` | inductive with `ForwardInv`, see below; an action property over crawls and PATCHes. Its hypothesis is that a lexicon with the soc hook allows `pending` to become `failed`, as the shipped ones do |
| `BelowComparesNumbers` | `CrawlerProofs` | Python's comparison of two version strings of one width is that of their numbers; by induction on the width, from `NumberUnfolds` |
| `TypeCorrect` | `LexiconsProofs` | inductive with `LoadInv` |
| `OnlySoundIsLoaded` | `LexiconsProofs` | `LoadInv` says what each stage has established: from `build` on the batch of errors is empty and no import has raised, once loaded so are the errors of `sub_dirs`; `Built` keeps what was validated |
| `InheritsNearestHolds` | `LexiconsProofs` | inductive with `InheritInv`: once the order is found no base is unknown and no line circular. `NearestOfTop` and `NearestOfChild` say what `Nearest` is without its recursion, `MergedIsNearest` that merging a lexicon into its resolved base is that |
| `RejectedForCauseHolds` | `LexiconsProofs` | inductive with `CauseInv`, see below |
| `DepthIsAbove`, `CircularIsCycle` | `LexiconsProofs` | the loader's count of steps and its search for cycles mean what the reference says with sets only |

The arguments that take more than a line:

- *No gap.* `BroadcastInv`: a call of `broadcast` waits at one place; one that is
  undisturbed waits at a connection that is served and unchanged in number, and
  no later call has got past it. So undisturbed events reach every connection in
  the order of their numbers. `SessionInv` says for each session what this makes
  of buffer and channel together: from the empty catch-up page on, every
  undisturbed event that is not handled is in them or in a call that has the
  connection still ahead, and before all later events. `LastIsHandled` ties
  `_last_seq` to the history. The strongest case is the replay of the buffer: an
  event handled out of it can have nothing undisturbed before it that is not in
  the buffer too. What `Deliver`, the stretch of the loop between two waits,
  does is stated once (`Stretch`) and used for every action that runs it.
- *Clean crawls.* While a crawl is clean, every delivery on the share is below a
  directory that it has still to list, or among its candidates, or in hand with
  the status derived from all versions there are, or in the rows, and nothing
  else is (`View`). A PATCH may change such a row and is then in `patched`, until a
  crawl writes the row again (`Settled`). Clean crawls that overlap have the same view
  (`CleanTogether`). The step that matters is the hook's: the highest version of
  a request that a crawl has taken is the highest on the share, because
  `Below` orders versions of one width by number.
- *Crawls move forward.* Until something is `disturbed`, a delivery whose row has
  the derived status is superseded by one on the share, and every crawl under
  way has still to come across that one, or has derived the status too (`Calm`).
  Hence no crawl posts `pending` over a derived `failed`. `StatusInv` says that
  posts, and rows that no reviewer has written since, have one of the two statuses
  a path can have; a post over any other row takes it out of `patched`, which is
  the exception the property makes.
- *Rejected for cause.* The proof shows more than the property: which kind of fault
  the report is of (`EndsAsStaged`), by the order of the loader's stages. `CauseInv` says what each stage of the loader has found not
  to be wrong and what the errors collected so far name. Three facts join the
  loader to its reference: a line of inheritance that has not ended after as many
  steps as there are lexicons is a cycle (`CircularIsCycle`, by the pigeonhole
  principle), the steps of one that ends are the lexicons above
  (`DepthIsAbove`, as it never comes twice to one lexicon), and the checks of
  `_validate_lexicon` on what was resolved are those on the inherited content
  (`ClosedIsValid` with `InheritsNearestHolds`).

What the proofs assume beside the types of the constants:

- `FileAssumption`, `DirectoryAssumption` (Lexicons): of any files one sorts last;
  hooks that files name have an outcome when imported; a value lies as deep in
  its file as the loader looks for it (`Shaped`).
- `PathAssumption`, `NameAssumption`, `CrawlBoundAssumption` (Crawler): shares are
  finite and have with a directory its parents, parts of paths are strings, the
  versions that the pattern of version directories admits are strings of digits,
  there are finitely many crawls.
- `Absent`, `Nobody`, `NoDelivery` are not values of anything else.

Recursion is proved about where it runs over numbers: `Number` (of a digit
string) and `Line` (of inheritance) are recursive functions, and their values
follow by induction on sets of naturals, which `LeastElement` and `UpTo` get from
the library's `NatLessThanWellFounded`. The prefix operators `UNION` and `SUBSET`
are in parentheses wherever a set operator follows: the prover takes the
operator into their argument, the model checker does not.

Only model-checked: the liveness properties `BroadcastEnds`, `EventuallyPassed` (of
`EventStream` and of `Conversion`), `DrainEnds` and `EventuallyAgrees`, as fairness
and ENABLED are beyond the prover, and the two claims that are refuted. All other
properties of the runs are theorems.

## 5. Plan

What is left, in this order:

1. The safety halves of the liveness properties, as invariants with theorems: that
   a suspended broadcast always has someone who can let it go on, and that a
   daemon that has not passed every event has a step to take.
2. `Watchdog`: pid file, start and reuse of a pid.
3. `Listing`: the other filters of `GET /deliveries`, pagination by offset and
   the latest version.

## 6. Not modelled

The watchdog scripts appear by their effect only: a dead process comes back, and
more than one may run. That two of their runs do not meet between the test of
the pid file and its write rests on cron's minutes between them, and a model has
no clock. Sessions of the event stream are those that were admitted: the tokens
a consumer would have to send are not sent by the code (section 2).

Logging has no behaviour of its own, and of the configuration only the check of
the scan roots has. The contents of SAS and Parquet files, manifests and
fingerprints are data that no decision of the modelled handlers depends on
beyond equality. Validation of request bodies that only rejects (metadata size,
scan root) leaves no state. The classification of a conversion's exception only
chooses the words of an error. The listing filters that are not in `Conversion`
are queries that keep nothing.

Points about the code that the models leave aside: the crawler counts only files
whose suffix is `.sas7bdat` as written (`main.py:42`) while the engine converts
any case (`engine.py:63`); the crawler reads the lexicon files twice, for its
configuration and for its work (`main.py:185-189`), and they might change in
between; the loader does not check that a subsidiary lexicon knows its parent's
statuses, nor that a lexicon with the soc hook has `pending` and `failed`.
