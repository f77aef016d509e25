-------------------------- MODULE ConversionProofs --------------------------
(* Theorems about Conversion, for every value of its constants.            *)
EXTENDS Conversion, FiniteSetTheorems, SequenceTheorems, WellFoundedInduction, TLAPS

USE DEF TypeOK

\* A row is told apart from NoRow by its fields.
LEMMA RowIsNotNoRow == NoRow \notin Row
  <1> SUFFICES ASSUME NoRow \in Row PROVE FALSE
    OBVIOUS
  <1>1. "fp" \in DOMAIN NoRow
    BY DEF Row
  <1> QED BY <1>1 DEF NoRow

LEMMA NewRow ==
    ASSUME TypeOK, NEW d \in Delivery
    PROVE  [fp |-> version[d], converted |-> FALSE, error |-> FALSE] \in Row
  BY DEF TablesOK, Row

\* What a converter writes into a row leaves a row.
LEMMA MarkedRow ==
    ASSUME TypeOK, NEW d \in Delivery, Known(d), NEW b \in BOOLEAN
    PROVE  /\ row[d] \in Row
           /\ [row[d] EXCEPT !.converted = b] \in Row
           /\ [row[d] EXCEPT !.error = b] \in Row
  <1>1. row[d] \in Row
    BY DEF TablesOK, Known
  <1> QED BY <1>1 DEF Row

-----------------------------------------------------------------------------
(* The events table and the rows                                            *)

\* The table grows, if at all, by an event of a known delivery, and no row
\* is ever deleted.
LogStep ==
    /\ log' \in Seq(Event)
    /\ Len(log) \in Nat /\ Len(log') \in Len(log)..MaxLog
    /\ \A i \in 1..Len(log) : log'[i] = log[i]
    /\ \A i \in 1..Len(log') : row'[log'[i].delivery] # NoRow

KeepsRows == \A d \in Delivery : Known(d) => Known(d)'

LEMMA LogAppend ==
    ASSUME TypeOK, NEW type \in {"created", "completed", "failed"},
           NEW d \in Delivery, Len(log) < MaxLog,
           log' = Append(log, [type |-> type, delivery |-> d]),
           KeepsRows, Known(d)'
    PROVE  LogStep
  <1> DEFINE e == [type |-> type, delivery |-> d]
  <1>1. log \in Seq(Event) /\ Len(log) \in Nat /\ e \in Event
    BY LenProperties DEF TablesOK, Event
  <1> HIDE DEF e
  <1>2. log' = Append(log, e)
    BY DEF e
  <1>3. /\ log' \in Seq(Event) /\ Len(log') = Len(log) + 1
        /\ \A i \in 1..Len(log) : log'[i] = log[i]
        /\ log'[Len(log) + 1] = e
    BY <1>1, <1>2, AppendProperties
  <1>4. ASSUME NEW i \in 1..Len(log') PROVE row'[log'[i].delivery] # NoRow
    <2>1. CASE i = Len(log) + 1
      <3>1. log'[i].delivery = d
        BY <1>3, <2>1 DEF e
      <3> QED BY <3>1 DEF Known
    <2>2. CASE i # Len(log) + 1
      <3>1. i \in 1..Len(log) /\ log'[i] = log[i]
        BY <1>1, <1>3, <2>2
      <3>2. PICK f \in Delivery : f = log[i].delivery
        <4>1. log[i] \in Event
          BY <1>1, <3>1, ElementOfSeq
        <4> QED BY <4>1 DEF Event
      <3>3. Known(f)
        BY <3>1, <3>2 DEF TablesOK
      <3>4. Known(f)'
        BY <3>3 DEF KeepsRows
      <3> QED BY <3>1, <3>2, <3>4 DEF Known
    <2> QED BY <2>1, <2>2
  <1>5. Len(log') \in Len(log)..MaxLog
    BY <1>1, <1>3, ConversionBoundAssumption
  <1> QED BY <1>1, <1>3, <1>4, <1>5 DEF LogStep

LEMMA LogSame ==
    ASSUME TypeOK, UNCHANGED log, KeepsRows
    PROVE  LogStep
  <1>1. log \in Seq(Event) /\ Len(log) \in Nat /\ Len(log) <= MaxLog
    BY LenProperties DEF TablesOK, Event
  <1>2. ASSUME NEW i \in 1..Len(log) PROVE row'[log'[i].delivery] # NoRow
    <2>1. PICK f \in Delivery : f = log[i].delivery
      <3>1. log[i] \in Event
        BY <1>1, ElementOfSeq
      <3> QED BY <3>1 DEF Event
    <2>2. Known(f)
      BY <2>1 DEF TablesOK
    <2>3. Known(f)'
      BY <2>2 DEF KeepsRows
    <2> QED BY <2>1, <2>3 DEF Known
  <1> QED BY <1>1, <1>2, ConversionBoundAssumption DEF LogStep

\* Writing a row into d's place keeps the others.
LEMMA RowWritten ==
    ASSUME TypeOK, NEW d \in Delivery, NEW r \in Row,
           row' = [row EXCEPT ![d] = r]
    PROVE  /\ row' \in [Delivery -> Row \cup {NoRow}]
           /\ KeepsRows /\ Known(d)'
  <1>1. \A e \in Delivery : row'[e] = IF e = d THEN r ELSE row[e]
    BY DEF TablesOK
  <1>2. r # NoRow
    BY RowIsNotNoRow
  <1> QED BY <1>1, <1>2 DEF TablesOK, KeepsRows, Known

-----------------------------------------------------------------------------
(* Calls of convert_one                                                     *)

\* The daemon's thread works for an event.
ThreadHasEvent == job[Daemon].pc # "idle" => cur # 0

TypeInv == TypeOK /\ ThreadHasEvent

\* A step of a call keeps the call's delivery or ends the call, and a walk
\* ends in a step of a call only by an exception.
JobStep(w) ==
    /\ job' \in [Worker -> BusyJob \cup {NoJob}]
    /\ \A v \in Worker : job'[v].pc # "idle" =>
          /\ job[v].pc # "idle"
          /\ job'[v].delivery = job[v].delivery
    /\ walk' \in [Cli -> {"off", "on", "done", "registry", "raised", "stopped"}]
    /\ \A v \in Cli : walk'[v] \in {walk[v], "registry", "raised"}
    /\ ended' \subseteq 1..Len(log)
    /\ ended \subseteq ended'
    /\ job[Daemon].pc # "idle" /\ job'[Daemon].pc = "idle" => cur \in ended'

LEMMA BusyCall ==
    ASSUME TypeOK, NEW w \in Worker, job[w].pc # "idle"
    PROVE  /\ job[w] \in BusyJob
           /\ job[w].delivery \in Delivery
           /\ Known(job[w].delivery)
  <1>1. job[w] # NoJob
    BY DEF NoJob, Call
  <1> QED BY <1>1 DEF JobsOK, BusyJob

\* A call that gets another record with the same delivery has made a JobStep.
LEMMA JobChanged ==
    ASSUME TypeOK, NEW w \in Worker, job[w].pc # "idle", NEW j \in BusyJob,
           j.delivery = job[w].delivery,
           job' = [job EXCEPT ![w] = j],
           UNCHANGED <<walk, ended>>
    PROVE  JobStep(w)
  <1>1. job' \in [Worker -> BusyJob \cup {NoJob}]
    BY DEF JobsOK
  <1>2. \A v \in Worker : job'[v] = IF v = w THEN j ELSE job[v]
    BY DEF JobsOK
  <1>3. j.pc # "idle" /\ Daemon \in Worker
    BY DEF BusyJob, Worker
  <1>4. job'[Daemon].pc # "idle" \/ job'[Daemon] = job[Daemon]
    BY <1>2, <1>3
  <1> QED BY <1>1, <1>2, <1>4 DEF JobStep, DaemonOK, WalksOK

LEMMA GotoStep ==
    ASSUME TypeOK, NEW w \in Worker, job[w].pc # "idle",
           NEW pc \in {"fetch", "open", "emit"}, Goto(w, pc)
    PROVE  JobStep(w)
  <1> DEFINE j == [job[w] EXCEPT !.pc = pc, !.tries = 0]
  <1>1. job[w] \in BusyJob
    BY BusyCall
  <1>2. 0 \in 0..(MaxAttempts - 1)
    BY ConversionBoundAssumption
  <1>3. j \in BusyJob /\ j.delivery = job[w].delivery
    BY <1>1, <1>2 DEF BusyJob
  <1>4. job' = [job EXCEPT ![w] = j]
    BY DEF Goto
  <1>5. UNCHANGED <<walk, ended>>
    BY DEF Goto
  <1> HIDE DEF j
  <1> QED BY <1>3, <1>4, <1>5, JobChanged

LEMMA OverStep ==
    ASSUME TypeInv, NEW w \in Worker, job[w].pc # "idle",
           NEW how \in {"returned", "registry", "raised"}, Over(w, how)
    PROVE  JobStep(w)
  <1> USE DEF TypeInv
  <1>1. job' \in [Worker -> BusyJob \cup {NoJob}]
    BY DEF Over, JobsOK
  <1>2. \A v \in Worker : job'[v] = IF v = w THEN NoJob ELSE job[v]
    BY DEF Over, JobsOK
  <1>3. /\ walk' \in [Cli -> {"off", "on", "done", "registry", "raised", "stopped"}]
        /\ \A v \in Cli : walk'[v] \in {walk[v], "registry", "raised"}
    BY DEF Over, WalksOK
  <1>4. ended' \subseteq 1..Len(log) /\ ended \subseteq ended'
    BY DEF Over, DaemonOK, ThreadHasEvent
  <1>5. NoJob.pc = "idle"
    BY DEF NoJob, Call
  <1>6. job[Daemon].pc # "idle" /\ job'[Daemon].pc = "idle" => cur \in ended'
    <2>1. CASE w = Daemon
      BY <2>1 DEF Over
    <2>2. CASE w # Daemon
      BY <1>2, <2>2 DEF Worker
    <2> QED BY <2>1, <2>2
  <1> QED BY <1>1, <1>2, <1>3, <1>4, <1>5, <1>6 DEF JobStep

LEMMA GivesUpStep ==
    ASSUME TypeInv, NEW w \in Worker, job[w].pc # "idle", GivesUp(w)
    PROVE  JobStep(w)
  BY OverStep, GotoStep DEF GivesUp, TypeInv

LEMMA NoAnswerStep ==
    ASSUME TypeInv, NEW w \in Worker, job[w].pc # "idle", NoAnswer(w)
    PROVE  JobStep(w)
  <1>1. CASE job[w].tries + 1 < MaxAttempts
             /\ job' = [job EXCEPT ![w].tries = @ + 1]
             /\ UNCHANGED <<walk, ended>>
    <2> DEFINE j == [job[w] EXCEPT !.tries = @ + 1]
    <2>1. job[w] \in BusyJob
      BY BusyCall DEF TypeInv
    <2>2. job[w].tries + 1 \in 0..(MaxAttempts - 1)
      BY <1>1, <2>1, ConversionBoundAssumption DEF BusyJob
    <2>3. j \in BusyJob /\ j.delivery = job[w].delivery
      BY <2>1, <2>2 DEF BusyJob
    <2>4. job' = [job EXCEPT ![w] = j]
      BY <1>1
    <2> HIDE DEF j
    <2> QED BY <1>1, <2>3, <2>4, JobChanged DEF TypeInv
  <1>2. CASE GivesUp(w)
    BY <1>2, GivesUpStep
  <1> QED BY <1>1, <1>2 DEF NoAnswer

\* What a step of convert_one does to the tables.
TablesStep ==
    /\ version' = version
    /\ row' \in [Delivery -> Row \cup {NoRow}] /\ KeepsRows
    /\ parquet' \in [Delivery -> 0..MaxVersion]
    /\ LogStep
    /\ basis' \in [Delivery -> 0..MaxVersion]
    /\ todo' \in [Cli -> SUBSET Delivery]

LEMMA TablesSame ==
    ASSUME TypeOK, UNCHANGED <<tables, basis, todo>>
    PROVE  TablesStep
  <1>1. KeepsRows
    BY DEF KeepsRows, Known, tables
  <1>2. LogStep
    BY <1>1, LogSame DEF tables
  <1> QED BY <1>1, <1>2 DEF TablesStep, TablesOK, WalksOK, tables

LEMMA EngineStepTypes ==
    ASSUME TypeInv, NEW w \in Worker, EngineStep(w)
    PROVE  job[w].pc # "idle" /\ JobStep(w) /\ TablesStep
  <1> USE DEF TypeInv
  <1>1. CASE AttemptFails(w)
    BY <1>1, NoAnswerStep, GivesUpStep, TablesSame DEF AttemptFails, Requesting
  <1>2. CASE ClearError(w)
    <2>1. job[w].pc # "idle"
      BY <1>2 DEF ClearError
    <2>2. JobStep(w)
      BY <1>2, <2>1, GotoStep, NoAnswerStep DEF ClearError
    <2>3. PICK d \in Delivery : d = job[w].delivery /\ Known(d)
      BY <2>1, BusyCall
    <2>4. [row[d] EXCEPT !.error = FALSE] \in Row
      BY <2>3, MarkedRow
    <2>5. row' = [row EXCEPT ![d] = [row[d] EXCEPT !.error = FALSE]]
      BY <1>2, <2>3 DEF ClearError
    <2>6. row' \in [Delivery -> Row \cup {NoRow}] /\ KeepsRows
      BY <2>4, <2>5, RowWritten
    <2>7. UNCHANGED <<version, parquet, log, basis, todo>>
      BY <1>2 DEF ClearError
    <2>8. LogStep
      BY <2>6, <2>7, LogSame
    <2> QED BY <2>1, <2>2, <2>6, <2>7, <2>8 DEF TablesStep, TablesOK, WalksOK
  <1>3. CASE GetDelivery(w)
    BY <1>3, OverStep, GotoStep, TablesSame DEF GetDelivery
  <1>4. CASE FindSasFiles(w)
    <2>1. job[w].pc # "idle"
      BY <1>4 DEF FindSasFiles
    <2>2. TablesStep
      BY <1>4, TablesSame DEF FindSasFiles
    <2>3. CASE Over(w, "returned") \/ Over(w, "raised")
      BY <2>1, <2>2, <2>3, OverStep
    <2>4. CASE /\ job' = [job EXCEPT ![w].pc = "convert",
                                    ![w].read = version[job[w].delivery]]
               /\ UNCHANGED <<walk, ended>>
      <3> DEFINE j == [job[w] EXCEPT !.pc = "convert",
                                     !.read = version[job[w].delivery]]
      <3>1. job[w] \in BusyJob /\ job[w].delivery \in Delivery
        BY <2>1, BusyCall
      <3>2. version[job[w].delivery] \in 0..MaxVersion
        BY <3>1 DEF TablesOK
      <3>3. j \in BusyJob /\ j.delivery = job[w].delivery
        BY <3>1, <3>2 DEF BusyJob
      <3>4. job' = [job EXCEPT ![w] = j]
        BY <2>4
      <3> HIDE DEF j
      <3>5. JobStep(w)
        BY <2>1, <2>4, <3>3, <3>4, JobChanged
      <3> QED BY <2>1, <2>2, <3>5
    <2> QED BY <1>4, <2>3, <2>4 DEF FindSasFiles
  <1>5. CASE ConvertFiles(w)
    <2>1. job[w].pc # "idle" /\ UNCHANGED <<version, row, log, walk, ended, basis, todo>>
      BY <1>5 DEF ConvertFiles
    <2>2. PICK ok \in BOOLEAN :
             /\ job' = [job EXCEPT ![w].pc = "patch", ![w].ok = ok]
             /\ parquet' = IF ok THEN [parquet EXCEPT ![job[w].delivery] = job[w].read]
                                 ELSE parquet
      BY <1>5 DEF ConvertFiles
    <2> DEFINE j == [job[w] EXCEPT !.pc = "patch", !.ok = ok]
    <2>3. job[w] \in BusyJob
      BY <2>1, BusyCall
    <2>4. j \in BusyJob /\ j.delivery = job[w].delivery
      BY <2>3 DEF BusyJob
    <2>5. job' = [job EXCEPT ![w] = j]
      BY <2>2
    <2>6. parquet' \in [Delivery -> 0..MaxVersion]
      BY <2>2, <2>3 DEF TablesOK, BusyJob
    <2>7. KeepsRows
      BY <2>1 DEF KeepsRows, Known
    <2>8. LogStep
      BY <2>1, <2>7, LogSame
    <2>9. TablesStep
      BY <2>1, <2>6, <2>7, <2>8 DEF TablesStep, TablesOK, WalksOK
    <2> HIDE DEF j
    <2> QED BY <2>1, <2>4, <2>5, <2>9, JobChanged
  <1>6. CASE PatchDelivery(w)
    <2>1. job[w].pc # "idle"
      BY <1>6 DEF PatchDelivery
    <2>2. JobStep(w)
      BY <1>6, <2>1, GotoStep, NoAnswerStep DEF PatchDelivery
    <2>3. PICK d \in Delivery : d = job[w].delivery /\ Known(d)
      BY <2>1, BusyCall
    <2>4. /\ [row[d] EXCEPT !.error = TRUE] \in Row
          /\ [row[d] EXCEPT !.converted = TRUE] \in Row
      BY <2>3, MarkedRow
    <2>5. PICK r \in Row : row' = [row EXCEPT ![d] = r]
      <3>1. CASE job[w].ok
        <4>1. row' = [row EXCEPT ![d] = [row[d] EXCEPT !.converted = TRUE]]
          BY <1>6, <2>3, <3>1 DEF PatchDelivery
        <4> QED BY <2>4, <4>1
      <3>2. CASE ~job[w].ok
        <4>1. row' = [row EXCEPT ![d] = [row[d] EXCEPT !.error = TRUE]]
          BY <1>6, <2>3, <3>2 DEF PatchDelivery
        <4> QED BY <2>4, <4>1
      <3> QED BY <3>1, <3>2
    <2>6. row' \in [Delivery -> Row \cup {NoRow}] /\ KeepsRows
      BY <2>5, RowWritten
    <2>7. UNCHANGED <<version, parquet, log>>
      BY <1>6 DEF PatchDelivery
    <2>8. LogStep
      BY <2>6, <2>7, LogSame
    <2>9. job[w].read \in 0..MaxVersion
      BY <2>1, BusyCall DEF BusyJob
    <2>10. basis' = [basis EXCEPT ![d] = job[w].read]
      BY <1>6, <2>3 DEF PatchDelivery
    <2>11. basis' \in [Delivery -> 0..MaxVersion]
      BY <2>9, <2>10 DEF TablesOK
    <2>12. todo' = [v \in Cli |-> todo[v] \ {d}] \/ todo' = todo
      BY <1>6, <2>3 DEF PatchDelivery
    <2>13. todo' \in [Cli -> SUBSET Delivery]
      BY <2>12 DEF WalksOK
    <2> QED BY <2>1, <2>2, <2>6, <2>7, <2>8, <2>11, <2>13 DEF TablesStep, TablesOK
  <1>7. CASE EmitEvent(w)
    <2>1. /\ job[w].pc # "idle" /\ Len(log) < MaxLog
          /\ log' = Append(log, Report(w))
          /\ UNCHANGED <<version, row, parquet, basis, todo>>
      BY <1>7 DEF EmitEvent
    <2>2. JobStep(w)
      BY <1>7, <2>1, OverStep, NoAnswerStep DEF EmitEvent
    <2>3. PICK d \in Delivery : d = job[w].delivery /\ Known(d)
      BY <2>1, BusyCall
    <2>4. PICK type \in {"created", "completed", "failed"} :
             Report(w) = [type |-> type, delivery |-> d]
      BY <2>3 DEF Report
    <2>5. KeepsRows /\ Known(d)'
      BY <2>1, <2>3 DEF KeepsRows, Known
    <2>6. LogStep
      BY <2>1, <2>4, <2>5, LogAppend
    <2> QED BY <2>1, <2>2, <2>5, <2>6 DEF TablesStep, TablesOK, WalksOK
  <1> QED BY <1>1, <1>2, <1>3, <1>4, <1>5, <1>6, <1>7 DEF EngineStep

-----------------------------------------------------------------------------
(* Type correctness                                                         *)

LEMMA EngineKeepsTypes ==
    ASSUME TypeInv, NEW w \in Worker, EngineStep(w)
    PROVE  TypeInv'
  <1> USE DEF TypeInv
  <1>1. JobStep(w) /\ TablesStep
    BY EngineStepTypes
  <1>2. UNCHANGED <<mode, asked, saved, cur, stops, cut, page, failed, cursor,
                    visited, raced>>
    BY DEF EngineStep, daemonVars
  <1>3. ThreadHasEvent'
    BY <1>1, <1>2 DEF JobStep, ThreadHasEvent, Worker
  <1>4. TablesOK'
    BY <1>1, <1>2 DEF TablesStep, LogStep, TablesOK, Known
  <1>5. JobsOK'
    <2>1. ASSUME NEW v \in Worker, job'[v].pc # "idle"
          PROVE  row'[job'[v].delivery] # NoRow
      <3>1. job[v].pc # "idle" /\ job'[v].delivery = job[v].delivery
        BY <1>1, <2>1 DEF JobStep
      <3>2. PICK d \in Delivery : d = job[v].delivery /\ Known(d)
        BY <3>1, BusyCall
      <3>3. Known(d)'
        BY <1>1, <3>2 DEF TablesStep, KeepsRows
      <3> QED BY <3>1, <3>2, <3>3 DEF Known
    <2> QED BY <1>1, <2>1 DEF JobStep, JobsOK, Known
  <1>6. DaemonOK'
    BY <1>1, <1>2 DEF TablesStep, LogStep, JobStep, DaemonOK
  <1>7. WalksOK'
    <2>1. \A v \in Cli : \A d \in page'[v] : row'[d] # NoRow
      BY <1>1, <1>2 DEF TablesStep, KeepsRows, WalksOK, Known
    <2> QED BY <1>1, <1>2, <2>1 DEF TablesStep, JobStep, WalksOK, Known
  <1> QED BY <1>3, <1>4, <1>5, <1>6, <1>7

\* The share and the crawler: only the tables change, and no row goes.
LEMMA TablesGrow ==
    ASSUME TypeInv, KeepsRows, LogStep,
           version' \in [Delivery -> 1..MaxVersion],
           row' \in [Delivery -> Row \cup {NoRow}],
           raced' \subseteq Delivery,
           UNCHANGED <<parquet, job, daemonVars, cliVars, basis, ended>>
    PROVE  TypeInv'
  <1> USE DEF TypeInv
  <1>1. ThreadHasEvent'
    BY DEF ThreadHasEvent, daemonVars
  <1>2. TablesOK'
    BY DEF LogStep, TablesOK, Known
  <1>3. JobsOK'
    <2>1. ASSUME NEW v \in Worker, job[v].pc # "idle"
          PROVE  row'[job[v].delivery] # NoRow
      <3>1. PICK d \in Delivery : d = job[v].delivery /\ Known(d)
        BY <2>1, BusyCall
      <3>2. Known(d)'
        BY <3>1 DEF KeepsRows
      <3> QED BY <3>1, <3>2 DEF Known
    <2> QED BY <2>1 DEF JobsOK, Known
  <1>4. DaemonOK'
    BY DEF LogStep, DaemonOK, daemonVars
  <1>5. WalksOK'
    <2>1. \A v \in Cli : \A d \in page[v] : row'[d] # NoRow
      BY DEF KeepsRows, WalksOK, Known
    <2> QED BY <2>1 DEF WalksOK, cliVars, Known
  <1> QED BY <1>1, <1>2, <1>3, <1>4, <1>5

LEMMA RedeliverKeepsTypes ==
    ASSUME TypeInv, NEW d \in Delivery, Redeliver(d)
    PROVE  TypeInv'
  <1> USE DEF TypeInv
  <1>1. KeepsRows
    BY DEF Redeliver, KeepsRows, Known
  <1>2. LogStep
    BY <1>1, LogSame DEF Redeliver
  <1>3. version' \in [Delivery -> 1..MaxVersion]
    BY ConversionBoundAssumption DEF Redeliver, TablesOK
  <1> QED BY <1>1, <1>2, <1>3, TablesGrow DEF Redeliver, TablesOK

LEMMA CrawlKeepsTypes ==
    ASSUME TypeInv, NEW d \in Delivery, Crawl(d)
    PROVE  TypeInv'
  <1> USE DEF TypeInv
  <1>1. PICK r \in Row : row' = [row EXCEPT ![d] = r]
    BY NewRow DEF Crawl
  <1>2. row' \in [Delivery -> Row \cup {NoRow}] /\ KeepsRows /\ Known(d)'
    BY <1>1, RowWritten
  <1>3. LogStep
    <2>1. CASE UNCHANGED log
      BY <1>2, <2>1, LogSame
    <2>2. CASE Len(log) < MaxLog
               /\ log' = Append(log, [type |-> "created", delivery |-> d])
      BY <1>2, <2>2, LogAppend
    <2> QED BY <2>1, <2>2 DEF Crawl
  <1> QED BY <1>2, <1>3, TablesGrow DEF Crawl, TablesOK

\* A step that leaves the tables alone keeps their types.
LEMMA TablesAlone ==
    ASSUME TypeInv, UNCHANGED <<tables, basis, raced>>
    PROVE  TablesOK'
  BY DEF TypeInv, TablesOK, tables, Known

\* A call begins for a known delivery, or is forgotten.
LEMMA JobReplaced ==
    ASSUME TypeInv, UNCHANGED row, NEW w \in Worker,
           NEW j \in BusyJob \cup {NoJob},
           j # NoJob => Known(j.delivery),
           job' = [job EXCEPT ![w] = j]
    PROVE  JobsOK'
  <1>1. job' \in [Worker -> BusyJob \cup {NoJob}]
    BY DEF TypeInv, JobsOK
  <1>2. \A v \in Worker : job'[v] = IF v = w THEN j ELSE job[v]
    BY DEF TypeInv, JobsOK
  <1>3. NoJob.pc = "idle"
    BY DEF NoJob, Call
  <1>4. \A v \in Worker : job'[v].pc # "idle" => row[job'[v].delivery] # NoRow
    BY <1>2, <1>3 DEF TypeInv, JobsOK, Known
  <1> QED BY <1>1, <1>4 DEF JobsOK, Known

LEMMA BegunCall ==
    ASSUME NEW d \in Delivery, NEW pc \in {"clear", "fetch"}
    PROVE  Call(d, pc) \in BusyJob /\ Call(d, pc).delivery = d
  <1>1. 0 \in 0..(MaxAttempts - 1) /\ 0 \in 0..MaxVersion
    BY ConversionBoundAssumption
  <1> QED BY <1>1 DEF Call, BusyJob

LEMMA DaemonKeepsTypes ==
    ASSUME TypeInv,
           Start \/ DaemonStep \/ Reconnect \/ RequestShutdown \/ Die
    PROVE  TypeInv'
  <1> USE DEF TypeInv
  <1>1. TablesOK'
    BY TablesAlone DEF Start, DaemonStep, OnEvent, PersistLastSeq, CaughtUp, Listen,
       Exit, Reconnect, RequestShutdown, Die
  <1>2. UNCHANGED <<row, log, cliVars, ended>>
    BY DEF Start, DaemonStep, OnEvent, PersistLastSeq, CaughtUp, Listen, Exit,
       Reconnect, RequestShutdown, Die, tables
  <1>3. WalksOK'
    BY <1>2 DEF WalksOK, cliVars, Known
  <1>4. Daemon \in Worker /\ Len(log) \in Nat
    BY LenProperties DEF Worker, TablesOK
  <1>5. CASE OnEvent
    <2>1. saved + 1 \in 1..Len(log)
      BY <1>4, <1>5 DEF OnEvent, DaemonOK
    <2>2. CASE log[saved + 1].type = "created"
      <3>1. /\ cur' = saved + 1 /\ Begin(Daemon, log[saved + 1].delivery, "fetch")
            /\ UNCHANGED <<saved, mode, asked, stops, cut>>
        BY <1>5, <2>2 DEF OnEvent
      <3>2. PICK d \in Delivery : d = log[saved + 1].delivery /\ Known(d)
        <4>1. log[saved + 1] \in Event
          BY <2>1, ElementOfSeq DEF TablesOK
        <4> QED BY <2>1, <4>1 DEF Event, TablesOK
      <3>3. Call(d, "fetch") \in BusyJob /\ Call(d, "fetch").delivery = d
        BY BegunCall
      <3>4. job' = [job EXCEPT ![Daemon] = Call(d, "fetch")]
        BY <3>1, <3>2 DEF Begin
      <3>5. JobsOK'
        BY <1>2, <1>4, <3>2, <3>3, <3>4, JobReplaced
      <3>6. DaemonOK'
        BY <1>2, <2>1, <3>1 DEF DaemonOK
      <3>7. ThreadHasEvent'
        BY <2>1, <3>1 DEF ThreadHasEvent
      <3> QED BY <1>1, <1>3, <3>5, <3>6, <3>7
    <2>3. CASE log[saved + 1].type # "created"
      <3>1. saved' = saved + 1 /\ UNCHANGED <<cur, job, mode, asked, stops, cut>>
        BY <1>5, <2>3 DEF OnEvent
      <3>2. JobsOK'
        BY <1>2, <3>1 DEF JobsOK, Known
      <3>3. DaemonOK'
        BY <1>2, <2>1, <3>1 DEF DaemonOK
      <3> QED BY <1>1, <1>3, <3>1, <3>2, <3>3 DEF ThreadHasEvent
    <2> QED BY <2>2, <2>3
  <1>6. CASE Start \/ PersistLastSeq \/ CaughtUp \/ Listen \/ Exit \/ Reconnect
             \/ RequestShutdown
    <2>1. UNCHANGED job
      BY <1>6 DEF Start, PersistLastSeq, CaughtUp, Listen, Exit, Reconnect,
         RequestShutdown
    <2>2. JobsOK'
      BY <1>2, <2>1 DEF JobsOK, Known
    <2>3. DaemonOK'
      <3>1. CASE RequestShutdown
        <4>1. stops + 1 \in 0..MaxStops
          BY <3>1, ConversionBoundAssumption DEF RequestShutdown, DaemonOK
        <4>2. CASE cur # 0
          <5>1. /\ cur \in 1..Len(log) /\ asked' = TRUE /\ stops' = stops + 1
                /\ saved' = cur /\ cut' = cut \cup {cur} /\ mode' = "draining"
                /\ cur' = cur
            BY <1>4, <3>1, <4>2 DEF RequestShutdown, DaemonOK
          <5> QED BY <1>2, <4>1, <5>1 DEF DaemonOK
        <4>3. CASE cur = 0
          <5>1. /\ asked' = TRUE /\ stops' = stops + 1
                /\ mode' \in {mode, "down"} /\ UNCHANGED <<cur, saved, cut>>
            BY <3>1, <4>3 DEF RequestShutdown
          <5> QED BY <1>2, <4>1, <5>1 DEF DaemonOK
        <4> QED BY <4>2, <4>3
      <3>2. CASE PersistLastSeq
        BY <1>2, <1>4, <3>2 DEF PersistLastSeq, DaemonOK
      <3>3. CASE Start \/ CaughtUp \/ Listen \/ Exit \/ Reconnect
        <4>1. asked' \in BOOLEAN
          BY <3>3, Zenon DEF Start, CaughtUp, Listen, Exit, Reconnect, DaemonOK
        <4>2. /\ mode' \in {"down", "catchup", "handover", "listen"}
              /\ cur' \in {cur, 0} /\ UNCHANGED <<saved, stops, cut>>
          BY <3>3 DEF Start, CaughtUp, Listen, Exit, Reconnect
        <4> QED BY <1>2, <1>4, <4>1, <4>2 DEF DaemonOK
      <3> QED BY <1>6, <3>1, <3>2, <3>3
    <2>4. ThreadHasEvent'
      BY <1>6, <2>1 DEF Start, PersistLastSeq, CaughtUp, Listen, Exit, Reconnect,
         RequestShutdown, ThreadHasEvent
    <2> QED BY <1>1, <1>3, <2>2, <2>3, <2>4
  <1>7. CASE Die
    <2>1. job' = [job EXCEPT ![Daemon] = NoJob]
      BY <1>7 DEF Die
    <2>2. JobsOK'
      BY <1>2, <1>4, <2>1, JobReplaced
    <2>3. DaemonOK'
      BY <1>2, <1>4, <1>7, ConversionBoundAssumption DEF Die, DaemonOK
    <2>4. job'[Daemon].pc = "idle"
      BY <1>4, <2>1 DEF JobsOK, NoJob, Call
    <2> QED BY <1>1, <1>3, <2>2, <2>3, <2>4 DEF ThreadHasEvent
  <1> QED BY <1>5, <1>6, <1>7 DEF DaemonStep

LEMMA CliKeepsTypes ==
    ASSUME TypeInv, NEW w \in Cli, CliStep(w)
    PROVE  TypeInv'
  <1> USE DEF TypeInv
  <1>1. /\ UNCHANGED <<row, log, ended, mode, asked, saved, cur, stops, cut>>
        /\ UNCHANGED <<tables, basis, raced>>
    BY DEF CliStep, CliStart, ListUnconverted, CliEnd, CliNext, CliStops, tables,
       daemonVars
  <1>2. TablesOK' /\ DaemonOK'
    BY <1>1, TablesAlone DEF DaemonOK
  <1>3. w \in Worker /\ w # Daemon
    BY WorkerAssumption DEF Worker
  <1>4. CASE CliStart(w)
    <2>1. UNCHANGED <<job, failed>>
          /\ walk' = [walk EXCEPT ![w] = "on"]
          /\ page' = [page EXCEPT ![w] = {}]
          /\ cursor' = [cursor EXCEPT ![w] = 0]
          /\ visited' = [visited EXCEPT ![w] = {}]
      BY <1>4 DEF CliStart
    <2>2. todo' \in [Cli -> SUBSET Delivery]
      BY <1>4 DEF CliStart, Unconverted, WalksOK
    <2>3. WalksOK'
      BY <1>1, <2>1, <2>2 DEF WalksOK, Known
    <2>4. JobsOK' /\ ThreadHasEvent'
      BY <1>1, <2>1 DEF JobsOK, ThreadHasEvent, Known
    <2> QED BY <1>2, <2>3, <2>4
  <1>5. CASE ListUnconverted(w)
    <2>1. PICK last \in Listed(w) : cursor' = [cursor EXCEPT ![w] = last]
      BY <1>5 DEF ListUnconverted
    <2>2. /\ page' = [page EXCEPT ![w] = Listed(w)]
          /\ failed' = [failed EXCEPT ![w] = {d \in Listed(w) : row[d].error}]
          /\ UNCHANGED <<job, walk, todo, visited>>
      BY <1>5 DEF ListUnconverted
    <2>3. Listed(w) \subseteq Delivery /\ \A d \in Listed(w) : Known(d)
      BY DEF Listed, Unconverted
    <2>4. WalksOK'
      BY <1>1, <2>1, <2>2, <2>3 DEF WalksOK, Known
    <2>5. JobsOK' /\ ThreadHasEvent'
      BY <1>1, <2>2 DEF JobsOK, ThreadHasEvent, Known
    <2> QED BY <1>2, <2>4, <2>5
  <1>6. CASE CliEnd(w)
    <2>1. walk' = [walk EXCEPT ![w] = "done"]
          /\ UNCHANGED <<job, page, failed, cursor, todo, visited>>
      BY <1>6 DEF CliEnd
    <2>2. WalksOK'
      BY <1>1, <2>1 DEF WalksOK, Known
    <2>3. JobsOK' /\ ThreadHasEvent'
      BY <1>1, <2>1 DEF JobsOK, ThreadHasEvent, Known
    <2> QED BY <1>2, <2>2, <2>3
  <1>7. CASE CliNext(w)
    <2>1. UNCHANGED <<walk, failed, cursor, todo>>
      BY <1>7 DEF CliNext
    <2>2. PICK d \in page[w] :
             /\ page' = [page EXCEPT ![w] = @ \ {d}]
             /\ visited' = [visited EXCEPT ![w] = @ \cup {d}]
             /\ \/ UNCHANGED job
                \/ Begin(w, d, "clear") \/ Begin(w, d, "fetch")
      BY <1>7 DEF CliNext
    <2>3. d \in Delivery /\ Known(d)
      BY DEF WalksOK
    <2>4. WalksOK'
      BY <1>1, <2>1, <2>2, <2>3 DEF WalksOK, Known
    <2>5. CASE UNCHANGED job
      BY <1>1, <1>2, <2>4, <2>5 DEF JobsOK, ThreadHasEvent, Known
    <2>6. ASSUME NEW pc \in {"clear", "fetch"}, Begin(w, d, pc)
          PROVE  TypeInv'
      <3>1. Call(d, pc) \in BusyJob /\ Call(d, pc).delivery = d
        BY <2>3, BegunCall
      <3>2. job' = [job EXCEPT ![w] = Call(d, pc)]
        BY <2>6 DEF Begin
      <3>3. JobsOK'
        BY <1>1, <1>3, <2>3, <3>1, <3>2, JobReplaced
      <3>4. job'[Daemon] = job[Daemon]
        BY <1>3, <3>2 DEF JobsOK, Worker
      <3> QED BY <1>1, <1>2, <2>4, <3>3, <3>4 DEF ThreadHasEvent
    <2> QED BY <2>2, <2>5, <2>6
  <1>8. CASE CliStops(w)
    <2>1. /\ walk' = [walk EXCEPT ![w] = "stopped"]
          /\ job' = [job EXCEPT ![w] = NoJob]
          /\ UNCHANGED <<page, failed, cursor, todo, visited>>
      BY <1>8 DEF CliStops
    <2>2. WalksOK'
      BY <1>1, <2>1 DEF WalksOK, Known
    <2>3. JobsOK'
      BY <1>1, <1>3, <2>1, JobReplaced
    <2>4. job'[Daemon] = job[Daemon]
      BY <1>3, <2>1 DEF JobsOK, Worker
    <2> QED BY <1>1, <1>2, <2>2, <2>3, <2>4 DEF ThreadHasEvent
  <1> QED BY <1>4, <1>5, <1>6, <1>7, <1>8 DEF CliStep

LEMMA TypeInvInit == Init => TypeInv
  <1> SUFFICES ASSUME Init PROVE TypeInv
    OBVIOUS
  <1> USE DEF TypeInv
  <1>1. <<>> \in Seq(Event) /\ Len(<<>>) = 0
    BY EmptySeq
  <1>2. TablesOK
    BY <1>1, ConversionBoundAssumption DEF Init, TablesOK
  <1>3. JobsOK
    BY DEF Init, JobsOK, NoJob, Call
  <1>4. DaemonOK
    <2>1. Len(log) = 0 /\ 0 \in 0..MaxStops
      BY <1>1, ConversionBoundAssumption DEF Init
    <2>2. asked \in BOOLEAN
      BY Zenon DEF Init
    <2> QED BY <2>1, <2>2 DEF Init, DaemonOK
  <1>5. WalksOK
    BY DEF Init, WalksOK
  <1>6. ThreadHasEvent
    BY DEF Init, ThreadHasEvent, NoJob, Call, Worker
  <1> QED BY <1>2, <1>3, <1>4, <1>5, <1>6

LEMMA TypeInvNext == TypeInv /\ [Next]_vars => TypeInv'
  <1> SUFFICES ASSUME TypeInv, [Next]_vars PROVE TypeInv'
    OBVIOUS
  <1>1. CASE UNCHANGED vars
    BY <1>1 DEF vars, tables, daemonVars, cliVars, TypeInv, ThreadHasEvent, TablesOK,
       JobsOK, DaemonOK, WalksOK, Known
  <1>2. CASE Next
    BY <1>2, RedeliverKeepsTypes, CrawlKeepsTypes, EngineKeepsTypes, DaemonKeepsTypes,
       CliKeepsTypes DEF Next
  <1> QED BY <1>1, <1>2

\* Whatever is delivered, crawled, converted, refused, killed and restarted,
\* every variable keeps its type, and no converter and no event is ever about
\* a delivery that the registry does not have.
THEOREM TypeCorrect == Spec => []TypeOK
  <1>1. TypeInv => TypeOK
    BY DEF TypeInv
  <1> QED BY <1>1, TypeInvInit, TypeInvNext, PTL DEF Spec

-----------------------------------------------------------------------------
(* SeqMeansAttempted.  What makes it inductive: until its on_event is       *)
(* cancelled, the event that the daemon waits for is the first one that is  *)
(* not persisted, and it has ended when no thread works for it.             *)

WaitsForNext ==
    cur # 0 /\ mode # "draining" =>
        /\ cur = saved + 1
        /\ job[Daemon].pc = "idle" => cur \in ended

SeqInv == TypeInv /\ SeqMeansAttempted /\ WaitsForNext

\* The table grows at its end, and what has ended stays ended.
LEMMA AttemptedStays ==
    ASSUME TypeInv, SeqMeansAttempted,
           saved' = saved, cut' = cut, ended \subseteq ended',
           \A i \in 1..Len(log) : log'[i] = log[i]
    PROVE  SeqMeansAttempted'
  <1>1. \A s \in 1..saved : log'[s] = log[s]
    BY LenProperties DEF TypeInv, TablesOK, DaemonOK
  <1> QED BY <1>1 DEF SeqMeansAttempted

LEMMA SeqInvEngine ==
    ASSUME SeqInv, NEW w \in Worker, EngineStep(w)
    PROVE  SeqInv'
  <1> USE DEF SeqInv
  <1>1. TypeInv'
    BY EngineKeepsTypes
  <1>2. job[w].pc # "idle" /\ JobStep(w) /\ TablesStep
    BY EngineStepTypes DEF TypeInv
  <1>3. UNCHANGED <<mode, saved, cur, cut>>
    BY DEF EngineStep, daemonVars
  <1>4. /\ ended \subseteq ended'
        /\ job[Daemon].pc # "idle" /\ job'[Daemon].pc = "idle" => cur \in ended'
    BY <1>2 DEF JobStep
  <1>5. SeqMeansAttempted'
    BY <1>2, <1>3, <1>4, AttemptedStays DEF TablesStep, LogStep
  <1>6. WaitsForNext'
    BY <1>2, <1>3, <1>4 DEF WaitsForNext
  <1> QED BY <1>1, <1>5, <1>6

LEMMA SeqInvDaemon ==
    ASSUME SeqInv,
           Start \/ DaemonStep \/ Reconnect \/ RequestShutdown \/ Die
    PROVE  SeqInv'
  <1> USE DEF SeqInv
  <1>1. TypeInv'
    BY DaemonKeepsTypes
  <1>2. UNCHANGED <<log, ended>>
    BY DEF Start, DaemonStep, OnEvent, PersistLastSeq, CaughtUp, Listen, Exit,
       Reconnect, RequestShutdown, Die, tables
  <1>3. saved \in Nat /\ cur \in Nat
    BY LenProperties DEF TypeInv, TablesOK, DaemonOK
  <1>4. CASE OnEvent
    <2>1. CASE log[saved + 1].type = "created"
      <3>1. cur' = saved + 1 /\ saved' = saved /\ cut' = cut
            /\ job' = [job EXCEPT ![Daemon] = Call(log[saved + 1].delivery, "fetch")]
        BY <1>4, <2>1 DEF OnEvent, Begin
      <3>2. job'[Daemon].pc = "fetch"
        BY <3>1 DEF TypeInv, JobsOK, Worker, Call
      <3> QED BY <1>1, <1>2, <3>1, <3>2 DEF SeqMeansAttempted, WaitsForNext
    <2>2. CASE log[saved + 1].type # "created"
      <3>1. saved' = saved + 1 /\ cut' = cut /\ cur = 0 /\ cur' = 0
        BY <1>4, <2>2 DEF OnEvent
      <3>2. SeqMeansAttempted'
        BY <1>2, <1>3, <2>2, <3>1 DEF SeqMeansAttempted
      <3> QED BY <1>1, <3>1, <3>2 DEF WaitsForNext
    <2> QED BY <2>1, <2>2
  <1>5. CASE PersistLastSeq
    <2>1. cur = saved + 1 /\ cur \in ended
      BY <1>5 DEF PersistLastSeq, WaitsForNext
    <2>2. saved' = saved + 1 /\ cur' = 0 /\ cut' = cut
      BY <1>5, <2>1 DEF PersistLastSeq
    <2>3. SeqMeansAttempted'
      BY <1>2, <1>3, <2>1, <2>2 DEF SeqMeansAttempted
    <2> QED BY <1>1, <2>2, <2>3 DEF WaitsForNext
  <1>6. CASE RequestShutdown
    <2>1. CASE cur # 0
      <3>1. /\ cur = saved + 1 /\ saved' = saved + 1
            /\ cut' = cut \cup {cur} /\ mode' = "draining"
        BY <1>6, <2>1 DEF RequestShutdown, Running, WaitsForNext
      <3>2. SeqMeansAttempted'
        BY <1>2, <1>3, <3>1 DEF SeqMeansAttempted
      <3> QED BY <1>1, <3>1, <3>2 DEF WaitsForNext
    <2>2. CASE cur = 0
      <3>1. UNCHANGED <<saved, cut, cur>>
        BY <1>6, <2>2 DEF RequestShutdown
      <3> QED BY <1>1, <1>2, <2>2, <3>1 DEF SeqMeansAttempted, WaitsForNext
    <2> QED BY <2>1, <2>2
  <1>7. CASE Exit \/ Die
    <2>1. cur' = 0 /\ UNCHANGED <<saved, cut>>
      BY <1>7 DEF Exit, Die
    <2> QED BY <1>1, <1>2, <2>1 DEF SeqMeansAttempted, WaitsForNext
  <1>8. CASE Start \/ CaughtUp \/ Listen \/ Reconnect
    <2>1. UNCHANGED <<saved, cut, cur, job>> /\ mode # "draining"
      BY <1>8 DEF Start, CaughtUp, Listen, Reconnect
    <2> QED BY <1>1, <1>2, <2>1 DEF SeqMeansAttempted, WaitsForNext
  <1> QED BY <1>4, <1>5, <1>6, <1>7, <1>8 DEF DaemonStep

\* The other actors do not touch what SeqInv speaks of.
LEMMA SeqInvOthers ==
    ASSUME SeqInv, TypeInv', UNCHANGED <<daemonVars, ended>>,
           job'[Daemon] = job[Daemon],
           \A i \in 1..Len(log) : log'[i] = log[i]
    PROVE  SeqInv'
  <1>1. SeqMeansAttempted'
    BY AttemptedStays DEF SeqInv, daemonVars
  <1>2. WaitsForNext'
    BY DEF SeqInv, WaitsForNext, daemonVars
  <1> QED BY <1>1, <1>2 DEF SeqInv

LEMMA SeqInvNext == SeqInv /\ [Next]_vars => SeqInv'
  <1> SUFFICES ASSUME SeqInv, [Next]_vars PROVE SeqInv'
    OBVIOUS
  <1>1. TypeInv'
    BY TypeInvNext DEF SeqInv
  <1>2. CASE UNCHANGED vars
    BY <1>1, <1>2, SeqInvOthers DEF vars, tables, daemonVars
  <1>3. ASSUME NEW d \in Delivery, Redeliver(d) \/ Crawl(d) PROVE SeqInv'
    <2>1. UNCHANGED <<daemonVars, job, ended>>
      BY <1>3 DEF Redeliver, Crawl
    <2>2. \A i \in 1..Len(log) : log'[i] = log[i]
      <3>1. \/ UNCHANGED log
            \/ log' = Append(log, [type |-> "created", delivery |-> d])
        BY <1>3 DEF Redeliver, Crawl
      <3>2. log \in Seq(Event) /\ [type |-> "created", delivery |-> d] \in Event
        BY DEF SeqInv, TypeInv, TablesOK, Event
      <3> QED BY <3>1, <3>2, AppendProperties
    <2> QED BY <1>1, <2>1, <2>2, SeqInvOthers
  <1>4. ASSUME NEW w \in Cli, CliStep(w) PROVE SeqInv'
    <2>1. UNCHANGED <<daemonVars, log, ended>>
      BY <1>4 DEF CliStep, CliStart, ListUnconverted, CliEnd, CliNext, CliStops, tables
    <2>2. \/ UNCHANGED job
          \/ \E j : job' = [job EXCEPT ![w] = j]
      BY <1>4 DEF CliStep, CliStart, ListUnconverted, CliEnd, CliNext, CliStops, Begin
    <2>3. w # Daemon /\ Daemon \in Worker /\ job \in [Worker -> BusyJob \cup {NoJob}]
      BY WorkerAssumption DEF Worker, SeqInv, TypeInv, JobsOK
    <2>4. job'[Daemon] = job[Daemon]
      BY <2>2, <2>3
    <2> QED BY <1>1, <2>1, <2>4, SeqInvOthers
  <1> QED BY <1>2, <1>3, <1>4, SeqInvEngine, SeqInvDaemon DEF Next

\* Whatever dies and whenever, last_seq in the state file is never ahead of
\* the conversions the daemon has been through, but for cancelled ones.
THEOREM SeqMeansAttemptedHolds == Spec => []SeqMeansAttempted
  <1>1. Init => SeqInv
    <2>1. Init => SeqMeansAttempted
      BY DEF Init, SeqMeansAttempted
    <2> QED BY <2>1, TypeInvInit DEF Init, SeqInv, WaitsForNext
  <1>2. SeqInv => SeqMeansAttempted
    BY DEF SeqInv
  <1> QED BY <1>1, <1>2, SeqInvNext, PTL DEF Spec

-----------------------------------------------------------------------------
(* WalkMissesNothing.  What makes it inductive: as long as a walk is on,    *)
(* what it has to do and has not taken up yet is on the page or behind the  *)
(* cursor, and is still listed.                                             *)

After(w) == {d \in Unconverted : d > cursor[w]}

UpTo(w, d) == {e \in After(w) : e <= d}

LEMMA AfterFinite ==
    ASSUME NEW w, NEW d
    PROVE  /\ After(w) \subseteq Delivery /\ UpTo(w, d) \subseteq Delivery
           /\ IsFiniteSet(After(w)) /\ IsFiniteSet(UpTo(w, d))
           /\ Cardinality(UpTo(w, d)) \in Nat
  <1>1. After(w) \subseteq Delivery /\ UpTo(w, d) \subseteq Delivery
    BY DEF After, UpTo, Unconverted
  <1>2. IsFiniteSet(After(w)) /\ IsFiniteSet(UpTo(w, d))
    BY <1>1, FS_Subset, DeliveryAssumption
  <1> QED BY <1>1, <1>2, FS_CardinalityType

LEMMA ListedIs ==
    ASSUME NEW w
    PROVE  Listed(w) = {d \in After(w) : Cardinality(UpTo(w, d)) <= PageSize}
  BY DEF Listed, After, UpTo

\* A page is a prefix of what is left: nothing unlisted comes before a
\* listed delivery.
LEMMA ListedIsPrefix ==
    ASSUME NEW w, NEW d \in After(w), d \notin Listed(w), NEW e \in Listed(w)
    PROVE  e < d
  <1>1. After(w) \subseteq Nat
    BY AfterFinite, DeliveryAssumption
  <1>2. e \in After(w) /\ d \in Nat /\ e \in Nat
    BY <1>1, ListedIs
  <1> SUFFICES ASSUME d <= e PROVE FALSE
    BY <1>2
  <1>3. UpTo(w, d) \in SUBSET UpTo(w, e)
    BY <1>1, <1>2 DEF UpTo
  <1>4. Cardinality(UpTo(w, d)) <= Cardinality(UpTo(w, e))
    BY <1>3, AfterFinite, FS_Subset
  <1>5. Cardinality(UpTo(w, e)) <= PageSize
    BY ListedIs
  <1>6. Cardinality(UpTo(w, d)) <= PageSize
    BY <1>4, <1>5, AfterFinite, ConversionBoundAssumption
  <1> QED BY <1>6, ListedIs

\* Only the page after the last delivery is empty.
LEMMA EmptyPageIsLast ==
    ASSUME NEW w, Listed(w) = {}
    PROVE  After(w) = {}
  <1> SUFFICES ASSUME After(w) # {} PROVE FALSE
    OBVIOUS
  <1>1. After(w) \subseteq Nat
    BY AfterFinite, DeliveryAssumption
  <1>2. PICK d \in After(w) : \A e \in After(w) : ~(<<e, d>> \in OpToRel(<, Nat))
    BY <1>1, NatLessThanWellFounded, WFMin
  <1>3. ASSUME NEW e \in After(w) PROVE d <= e
    <2>1. d \in Nat /\ e \in Nat
      BY <1>1
    <2>2. e < d => <<e, d>> \in OpToRel(<, Nat)
      BY <2>1 DEF OpToRel
    <2>3. ~(e < d)
      BY <1>2, <2>2
    <2> QED BY <2>1, <2>3
  <1>4. UpTo(w, d) = {d}
    BY <1>1, <1>3 DEF UpTo
  <1>5. Cardinality(UpTo(w, d)) = 1
    BY <1>4, FS_Singleton
  <1> QED BY <1>5, ListedIs, ConversionBoundAssumption

StillListed(d) == Known(d) /\ ~row[d].converted

Ahead(w) == visited[w] \cup page[w] \cup {d \in Delivery : d > cursor[w]}

WalkProgress ==
    \A w \in Cli : walk[w] = "on" =>
        \A d \in todo[w] : StillListed(d) /\ d \in Ahead(w)

WalkInv == TypeInv /\ WalkMissesNothing /\ WalkProgress

\* A converter that marks a delivery takes it off every list of what is to
\* be done.
LEMMA EngineKeepsListed ==
    ASSUME TypeInv, NEW w \in Worker, EngineStep(w)
    PROVE  \A v \in Cli : \A d \in Delivery :
              d \in todo'[v] => d \in todo[v] /\ (StillListed(d) => StillListed(d)')
  <1> USE DEF TypeInv
  <1>1. KeepsRows /\ todo \in [Cli -> SUBSET Delivery]
    BY EngineStepTypes DEF TablesStep, WalksOK
  <1>2. CASE UNCHANGED <<row, todo>>
    BY <1>2 DEF StillListed, Known
  <1>3. CASE ClearError(w)
    <2>1. PICK d \in Delivery : d = job[w].delivery /\ Known(d)
      BY <1>3, BusyCall DEF ClearError
    <2>2. row' = [row EXCEPT ![d].error = FALSE] /\ todo' = todo
      BY <1>3, <2>1 DEF ClearError
    <2>3. row[d] \in Row
      BY <2>1, MarkedRow
    <2>4. \A e \in Delivery : Known(e) => row'[e].converted = row[e].converted
      BY <2>2, <2>3 DEF TablesOK, Row
    <2> QED BY <1>1, <2>2, <2>4 DEF StillListed, KeepsRows
  <1>4. CASE PatchDelivery(w)
    <2>1. PICK d \in Delivery : d = job[w].delivery /\ Known(d)
      BY <1>4, BusyCall DEF PatchDelivery
    <2>2. row[d] \in Row
      BY <2>1, MarkedRow
    <2>3. CASE job[w].ok
      <3>1. /\ row' = [row EXCEPT ![d].converted = TRUE]
            /\ todo' = [v \in Cli |-> todo[v] \ {d}]
        BY <1>4, <2>1, <2>3 DEF PatchDelivery
      <3>2. \A e \in Delivery : e # d => row'[e] = row[e]
        BY <3>1 DEF TablesOK
      <3> QED BY <1>1, <3>1, <3>2 DEF StillListed, Known
    <2>4. CASE ~job[w].ok
      <3>1. row' = [row EXCEPT ![d].error = TRUE] /\ todo' = todo
        BY <1>4, <2>1, <2>4 DEF PatchDelivery
      <3>2. \A e \in Delivery : Known(e) => row'[e].converted = row[e].converted
        BY <2>2, <3>1 DEF TablesOK, Row
      <3> QED BY <1>1, <3>1, <3>2 DEF StillListed, KeepsRows
    <2> QED BY <2>3, <2>4
  <1>5. \/ UNCHANGED <<row, todo>> \/ ClearError(w) \/ PatchDelivery(w)
    BY DEF EngineStep, AttemptFails, GetDelivery, FindSasFiles, ConvertFiles, EmitEvent,
       tables
  <1> QED BY <1>2, <1>3, <1>4, <1>5

LEMMA WalkInvEngine ==
    ASSUME WalkInv, NEW w \in Worker, EngineStep(w)
    PROVE  WalkInv'
  <1> USE DEF WalkInv
  <1>1. TypeInv'
    BY EngineKeepsTypes
  <1>2. /\ UNCHANGED <<page, cursor, visited>>
        /\ \A v \in Cli : walk'[v] \in {walk[v], "registry", "raised"}
    BY EngineStepTypes DEF EngineStep, JobStep
  <1>3. \A v \in Cli : \A d \in todo'[v] :
           d \in todo[v] /\ (StillListed(d) => StillListed(d)')
    BY <1>1, EngineKeepsListed DEF TypeInv, WalksOK
  <1>4. WalkMissesNothing'
    BY <1>2, <1>3 DEF WalkMissesNothing
  <1>5. WalkProgress'
    BY <1>2, <1>3 DEF WalkProgress, Ahead
  <1> QED BY <1>1, <1>4, <1>5

\* What a command does leaves the walks of the other commands alone.
LEMMA OtherWalks ==
    ASSUME WalkInv, NEW w \in Cli, CliStep(w), NEW v \in Cli, v # w
    PROVE  /\ walk'[v] = walk[v] /\ todo'[v] = todo[v]
           /\ visited'[v] = visited[v] /\ page'[v] = page[v] /\ cursor'[v] = cursor[v]
  BY DEF WalkInv, TypeInv, WalksOK, CliStep, CliStart, ListUnconverted, CliEnd, CliNext,
     CliStops

\* So what remains to be shown is about the walk of the command itself.
LEMMA OwnWalk ==
    ASSUME WalkInv, NEW w \in Cli, CliStep(w),
           walk'[w] = "done" => todo'[w] \subseteq visited'[w],
           walk'[w] = "on" => \A d \in todo'[w] :
               StillListed(d) /\ d \in visited'[w] \cup page'[w]
                                         \cup {e \in Delivery : e > cursor'[w]}
    PROVE  WalkInv'
  <1> USE DEF WalkInv
  <1>1. TypeInv'
    BY CliKeepsTypes
  <1>2. row' = row
    BY DEF CliStep, CliStart, ListUnconverted, CliEnd, CliNext, CliStops, tables
  <1>3. WalkMissesNothing'
    BY OtherWalks DEF WalkMissesNothing
  <1>4. ASSUME NEW v \in Cli, walk'[v] = "on", NEW d \in todo'[v]
        PROVE  /\ StillListed(d)
               /\ d \in visited'[v] \cup page'[v] \cup {e \in Delivery : e > cursor'[v]}
    BY <1>4, OtherWalks DEF WalkProgress, Ahead
  <1>5. WalkProgress'
    BY <1>2, <1>4 DEF WalkProgress, Ahead, StillListed, Known
  <1> QED BY <1>1, <1>3, <1>5

LEMMA WalkInvCli ==
    ASSUME WalkInv, NEW w \in Cli, CliStep(w)
    PROVE  WalkInv'
  <1>1. /\ walk \in [Cli -> {"off", "on", "done", "registry", "raised", "stopped"}]
        /\ page \in [Cli -> SUBSET Delivery]
        /\ cursor \in [Cli -> Delivery \cup {0}]
        /\ todo \in [Cli -> SUBSET Delivery] /\ visited \in [Cli -> SUBSET Delivery]
    BY DEF WalkInv, TypeInv, WalksOK
  <1>2. walk[w] = "on" => \A d \in todo[w] : StillListed(d) /\ d \in Ahead(w)
    BY DEF WalkInv, WalkProgress
  <1>3. CASE CliStart(w)
    <2>1. /\ walk'[w] = "on" /\ cursor'[w] = 0
          /\ todo'[w] = {d \in Unconverted : InShard(w, d)}
      BY <1>1, <1>3 DEF CliStart
    <2>2. ASSUME NEW d \in todo'[w] PROVE StillListed(d) /\ d \in Delivery /\ d > cursor'[w]
      <3>1. d \in Delivery /\ d \in Nat \ {0} /\ StillListed(d)
        BY <2>1, <2>2, DeliveryAssumption DEF Unconverted, StillListed
      <3> QED BY <2>1, <3>1
    <2> QED BY <2>1, <2>2, OwnWalk
  <1>4. CASE ListUnconverted(w)
    <2>1. PICK last \in Listed(w) :
             (\A d \in Listed(w) : d <= last) /\ cursor' = [cursor EXCEPT ![w] = last]
      BY <1>4 DEF ListUnconverted
    <2>2. /\ walk[w] = "on" /\ page[w] = {} /\ page'[w] = Listed(w)
          /\ walk'[w] = "on" /\ todo'[w] = todo[w] /\ visited'[w] = visited[w]
          /\ cursor'[w] = last
      BY <1>1, <1>4, <2>1 DEF ListUnconverted, Ready
    <2>3. ASSUME NEW d \in todo[w], d \notin visited[w], d \notin Listed(w)
          PROVE  d \in Delivery /\ d > last
      <3>1. d \in Delivery /\ d > cursor[w] /\ StillListed(d)
        BY <1>1, <1>2, <2>2, <2>3 DEF Ahead
      <3>2. d \in After(w)
        BY <3>1 DEF After, Unconverted, StillListed
      <3>3. last < d
        BY <2>1, <2>3, <3>2, ListedIsPrefix
      <3>4. last \in Nat /\ d \in Nat
        BY <3>1, AfterFinite, ListedIs, DeliveryAssumption
      <3> QED BY <3>1, <3>3, <3>4
    <2> QED BY <1>2, <2>2, <2>3, OwnWalk
  <1>5. CASE CliEnd(w)
    <2>1. /\ walk[w] = "on" /\ page[w] = {} /\ Listed(w) = {}
          /\ walk'[w] = "done" /\ todo'[w] = todo[w] /\ visited'[w] = visited[w]
      BY <1>1, <1>5 DEF CliEnd, Ready
    <2>2. ASSUME NEW d \in todo[w], d \notin visited[w] PROVE FALSE
      <3>1. d \in Delivery /\ d > cursor[w] /\ StillListed(d)
        BY <1>1, <1>2, <2>1, <2>2 DEF Ahead
      <3>2. d \in After(w)
        BY <3>1 DEF After, Unconverted, StillListed
      <3> QED BY <2>1, <3>2, EmptyPageIsLast
    <2> QED BY <2>1, <2>2, OwnWalk
  <1>6. CASE CliNext(w)
    <2>1. PICK d \in page[w] : /\ page' = [page EXCEPT ![w] = @ \ {d}]
                              /\ visited' = [visited EXCEPT ![w] = @ \cup {d}]
      BY <1>6 DEF CliNext
    <2>2. /\ walk[w] = "on" /\ walk'[w] = "on" /\ todo'[w] = todo[w]
          /\ cursor'[w] = cursor[w] /\ page'[w] = page[w] \ {d}
          /\ visited'[w] = visited[w] \cup {d}
      BY <1>1, <1>6, <2>1 DEF CliNext, Ready
    <2> QED BY <1>2, <2>2, OwnWalk DEF Ahead
  <1>7. CASE CliStops(w)
    <2>1. walk'[w] = "stopped"
      BY <1>1, <1>7 DEF CliStops
    <2> QED BY <2>1, OwnWalk
  <1> QED BY <1>3, <1>4, <1>5, <1>6, <1>7 DEF CliStep

LEMMA WalkInvNext == WalkInv /\ [Next]_vars => WalkInv'
  <1> SUFFICES ASSUME WalkInv, [Next]_vars PROVE WalkInv'
    OBVIOUS
  <1>1. TypeInv'
    BY TypeInvNext DEF WalkInv
  <1>2. ASSUME UNCHANGED cliVars, \A d \in Delivery : StillListed(d) => StillListed(d)'
        PROVE  WalkInv'
    <2>1. WalkMissesNothing'
      BY <1>2 DEF WalkInv, WalkMissesNothing, cliVars
    <2>2. todo \in [Cli -> SUBSET Delivery]
      BY DEF WalkInv, TypeInv, WalksOK
    <2>3. WalkProgress'
      BY <1>2, <2>2 DEF WalkInv, WalkProgress, Ahead, cliVars
    <2> QED BY <1>1, <2>1, <2>3 DEF WalkInv
  <1>3. CASE UNCHANGED vars
    BY <1>2, <1>3 DEF vars, tables, StillListed, Known
  <1>4. ASSUME NEW d \in Delivery, Redeliver(d) PROVE WalkInv'
    BY <1>2, <1>4 DEF Redeliver, StillListed, Known
  <1>5. ASSUME NEW d \in Delivery, Crawl(d) PROVE WalkInv'
    <2>1. row' = [row EXCEPT ![d] =
                    [fp |-> version[d], converted |-> FALSE, error |-> FALSE]]
      BY <1>5 DEF Crawl
    <2>2. [fp |-> version[d], converted |-> FALSE, error |-> FALSE] \in Row
      BY NewRow DEF WalkInv, TypeInv
    <2>3. \A e \in Delivery : StillListed(e) => StillListed(e)'
      BY <2>1, <2>2, RowIsNotNoRow DEF StillListed, Known, WalkInv, TypeInv, TablesOK
    <2> QED BY <1>2, <1>5, <2>3 DEF Crawl
  <1>6. CASE Start \/ DaemonStep \/ Reconnect \/ RequestShutdown \/ Die
    <2>1. UNCHANGED <<cliVars, row>>
      BY <1>6 DEF Start, DaemonStep, OnEvent, PersistLastSeq, CaughtUp, Listen, Exit,
         Reconnect, RequestShutdown, Die, tables
    <2> QED BY <1>2, <2>1 DEF StillListed, Known
  <1> QED BY <1>3, <1>4, <1>5, <1>6, WalkInvEngine, WalkInvCli DEF Next

\* A backfill that comes to its end has taken up every delivery of its shard
\* that was unconverted all the time, for any page size, any number of
\* deliveries, commands and crawls.
THEOREM WalkMissesNothingHolds == Spec => []WalkMissesNothing
  <1>1. Init => WalkInv
    <2>1. Init => WalkMissesNothing /\ WalkProgress
      BY DEF Init, WalkMissesNothing, WalkProgress
    <2> QED BY <2>1, TypeInvInit DEF WalkInv
  <1>2. WalkInv => WalkMissesNothing
    BY DEF WalkInv
  <1> QED BY <1>1, <1>2, WalkInvNext, PTL DEF Spec

-----------------------------------------------------------------------------
(* MarksAreCurrent and CompletedIsInRow.  What makes them inductive: as     *)
(* long as no crawl has come during its conversion, a call has read the     *)
(* files the row was crawled with or later ones, has left them converted    *)
(* once it patches, and has marked the row once it reports.                 *)

RowsNotAhead == \A d \in Delivery : Known(d) => row[d].fp <= version[d]

Current(j) ==
    j.pc \in {"convert", "patch", "emit"} /\ j.delivery \notin raced =>
        /\ j.read >= row[j.delivery].fp
        /\ j.pc # "convert" /\ j.ok => parquet[j.delivery] >= row[j.delivery].fp
        /\ j.pc = "emit" /\ j.ok => row[j.delivery].converted

CallsCurrent == \A w \in Worker : Current(job[w])

MarkInv == TypeInv /\ RowsNotAhead /\ CallsCurrent /\ MarksAreCurrent

\* What is said of e's conversion changes only to what is current.
MarkStays(e) ==
    /\ Known(e)' => Known(e) /\ row'[e].fp = row[e].fp
    /\ Known(e) /\ e \notin raced =>
          /\ parquet'[e] = parquet[e] \/ parquet'[e] >= row[e].fp
          /\ basis'[e] = basis[e] \/ basis'[e] >= row[e].fp
          /\ row[e].converted => row'[e].converted
          /\ row'[e].converted => row[e].converted \/ parquet'[e] >= row[e].fp
          /\ row'[e].error => row[e].error \/ basis'[e] >= row[e].fp

LEMMA RowTypes ==
    ASSUME TypeOK, NEW e \in Delivery, Known(e)
    PROVE  row[e] \in Row /\ row[e].fp \in Nat /\ row[e].converted \in BOOLEAN
  <1>1. row[e] \in Row
    BY DEF TablesOK, Known
  <1> QED BY <1>1, ConversionBoundAssumption DEF Row

LEMMA MarksStay ==
    ASSUME MarkInv, TypeInv', UNCHANGED <<version, raced>>,
           \A e \in Delivery : MarkStays(e),
           \A v \in Worker : job'[v] = job[v] \/ Current(job[v])'
    PROVE  MarkInv'
  <1> USE DEF MarkInv, TypeInv
  <1>1. \A e \in Delivery : /\ version[e] \in Nat /\ parquet[e] \in Nat
                            /\ parquet'[e] \in Nat /\ basis[e] \in Nat
                            /\ Known(e) => row[e].fp \in Nat
    BY RowTypes, ConversionBoundAssumption DEF TablesOK
  <1>2. RowsNotAhead'
    BY DEF RowsNotAhead, MarkStays, Known
  <1>3. ASSUME NEW v \in Worker PROVE Current(job[v])'
    <2> SUFFICES ASSUME job'[v] = job[v], job[v].pc \in {"convert", "patch", "emit"},
                        job[v].delivery \notin raced
                 PROVE  /\ job[v].read >= row'[job[v].delivery].fp
                        /\ job[v].pc # "convert" /\ job[v].ok =>
                              parquet'[job[v].delivery] >= row'[job[v].delivery].fp
                        /\ job[v].pc = "emit" /\ job[v].ok =>
                              row'[job[v].delivery].converted
      BY DEF Current
    <2>1. PICK e \in Delivery : e = job[v].delivery /\ Known(e)
      BY BusyCall
    <2>2. /\ job[v].read >= row[e].fp
          /\ job[v].pc # "convert" /\ job[v].ok => parquet[e] >= row[e].fp
          /\ job[v].pc = "emit" /\ job[v].ok => row[e].converted
      BY <2>1 DEF CallsCurrent, Current
    <2>3. Known(e)'
      BY <2>1 DEF JobsOK
    <2>4. MarkStays(e)
      OBVIOUS
    <2> QED BY <1>1, <2>1, <2>2, <2>3, <2>4 DEF MarkStays
  <1>4. ASSUME NEW e \in Delivery, e \notin raced, Known(e)'
        PROVE  /\ row'[e].converted => parquet'[e] >= row'[e].fp
               /\ row'[e].error => basis'[e] >= row'[e].fp
    <2>1. Known(e) /\ row'[e].fp = row[e].fp /\ MarkStays(e)
      BY <1>4 DEF MarkStays
    <2>2. /\ row[e].converted => parquet[e] >= row[e].fp
          /\ row[e].error => basis[e] >= row[e].fp
      BY <1>4, <2>1 DEF MarksAreCurrent
    <2> QED BY <1>1, <1>4, <2>1, <2>2 DEF MarkStays
  <1>5. MarksAreCurrent'
    BY <1>4 DEF MarksAreCurrent
  <1> QED BY <1>2, <1>3, <1>5 DEF CallsCurrent

\* A request that is not answered, or given up, leaves the call where it
\* is, ends it, or has it report a failure.
LEMMA NotAnswered ==
    ASSUME TypeInv, NEW w \in Worker, job[w].pc # "idle",
           NoAnswer(w) \/ GivesUp(w)
    PROVE  \E j \in BusyJob \cup {NoJob} :
             /\ job' = [job EXCEPT ![w] = j]
             /\ \/ j.pc = "idle"
                \/ /\ j.delivery = job[w].delivery /\ j.read = job[w].read
                   /\ j.ok = job[w].ok
                   /\ \/ j.pc = job[w].pc
                      \/ job[w].pc = "patch" /\ ~job[w].ok /\ j.pc = "emit"
  <1> USE DEF TypeInv
  <1>1. job[w] \in BusyJob /\ 0 \in 0..(MaxAttempts - 1)
    BY BusyCall, ConversionBoundAssumption
  <1>2. CASE job[w].tries + 1 < MaxAttempts /\ job' = [job EXCEPT ![w].tries = @ + 1]
    <2> DEFINE j == [job[w] EXCEPT !.tries = @ + 1]
    <2>1. job[w].tries + 1 \in 0..(MaxAttempts - 1)
      BY <1>1, <1>2, ConversionBoundAssumption DEF BusyJob
    <2>2. j \in BusyJob /\ j.delivery = job[w].delivery /\ j.read = job[w].read
          /\ j.ok = job[w].ok /\ j.pc = job[w].pc
      BY <1>1, <2>1 DEF BusyJob
    <2>3. job' = [job EXCEPT ![w] = j]
      BY <1>2
    <2> HIDE DEF j
    <2> QED BY <2>2, <2>3
  <1>3. ASSUME NEW how, Over(w, how)
        PROVE  job' = [job EXCEPT ![w] = NoJob] /\ NoJob.pc = "idle"
    BY <1>3 DEF Over, NoJob, Call
  <1>4. CASE job[w].pc = "patch" /\ ~job[w].ok /\ Goto(w, "emit")
    <2> DEFINE j == [job[w] EXCEPT !.pc = "emit", !.tries = 0]
    <2>1. j \in BusyJob /\ j.delivery = job[w].delivery /\ j.read = job[w].read
          /\ j.ok = job[w].ok /\ j.pc = "emit"
      BY <1>1 DEF BusyJob
    <2>2. job' = [job EXCEPT ![w] = j]
      BY <1>4 DEF Goto
    <2> HIDE DEF j
    <2> QED BY <1>4, <2>1, <2>2
  <1>5. CASE GivesUp(w)
    <2>1. CASE \E how : Over(w, how)
      BY <1>3, <2>1
    <2>2. CASE ~ \E how : Over(w, how)
      BY <1>4, <1>5, <2>2 DEF GivesUp, Swallowed
    <2> QED BY <2>1, <2>2
  <1> QED BY <1>2, <1>5 DEF NoAnswer

\* A step of a call that leaves the rows and the files alone.
LEMMA MarkInvCall ==
    ASSUME MarkInv, TypeInv', NEW w \in Worker, NEW j \in BusyJob \cup {NoJob},
           job' = [job EXCEPT ![w] = j], Current(j),
           UNCHANGED <<version, row, parquet, basis, raced>>
    PROVE  MarkInv'
  <1>1. \A e \in Delivery : MarkStays(e)
    BY DEF MarkStays, Known
  <1>2. \A v \in Worker : job'[v] = IF v = w THEN j ELSE job[v]
    BY DEF MarkInv, TypeInv, JobsOK
  <1>3. Current(job[w])'
    BY <1>2 DEF Current
  <1> QED BY <1>1, <1>2, <1>3, MarksStay

LEMMA MarkInvEngine ==
    ASSUME MarkInv, NEW w \in Worker, EngineStep(w)
    PROVE  MarkInv'
  <1> USE DEF MarkInv, TypeInv
  <1>1. TypeInv' /\ job[w].pc # "idle" /\ UNCHANGED <<version, raced>>
    BY EngineKeepsTypes, EngineStepTypes DEF EngineStep, TablesStep
  <1>2. PICK d \in Delivery : d = job[w].delivery /\ Known(d) /\ Known(d)'
    BY <1>1, BusyCall, EngineStepTypes DEF TablesStep, KeepsRows
  <1>3. /\ job[w] \in BusyJob /\ job \in [Worker -> BusyJob \cup {NoJob}]
        /\ Current(job[w]) /\ 0 \in 0..(MaxAttempts - 1)
    BY <1>1, BusyCall, ConversionBoundAssumption DEF CallsCurrent, JobsOK
  <1>4. /\ row[d] \in Row /\ row[d].fp \in Nat /\ version[d] \in Nat
        /\ job[w].read \in Nat /\ parquet[d] \in Nat /\ row[d].fp <= version[d]
    BY <1>2, <1>3, RowTypes, ConversionBoundAssumption
       DEF TablesOK, BusyJob, RowsNotAhead
  <1>5. NoJob \in BusyJob \cup {NoJob} /\ Current(NoJob)
    BY DEF NoJob, Call, Current
  <1>6. ASSUME NEW how, Over(w, how) PROVE job' = [job EXCEPT ![w] = NoJob]
    BY <1>6 DEF Over
  <1>7. CASE AttemptFails(w)
    <2>1. UNCHANGED <<row, parquet, basis>>
      BY <1>7 DEF AttemptFails, tables
    <2>2. PICK j \in BusyJob \cup {NoJob} :
             /\ job' = [job EXCEPT ![w] = j]
             /\ \/ j.pc = "idle"
                \/ /\ j.delivery = job[w].delivery /\ j.read = job[w].read
                   /\ j.ok = job[w].ok
                   /\ \/ j.pc = job[w].pc
                      \/ job[w].pc = "patch" /\ ~job[w].ok /\ j.pc = "emit"
      BY <1>1, <1>7, NotAnswered DEF AttemptFails
    <2>3. Current(j)
      BY <1>3, <2>2 DEF Current
    <2> QED BY <1>1, <2>1, <2>2, <2>3, MarkInvCall
  <1>8. CASE ClearError(w)
    <2>1. /\ row' = [row EXCEPT ![d].error = FALSE]
          /\ UNCHANGED <<parquet, basis>> /\ job[w].pc = "clear"
      BY <1>2, <1>8 DEF ClearError
    <2>2. /\ row'[d].fp = row[d].fp /\ row'[d].converted = row[d].converted
          /\ row'[d].error = FALSE
          /\ \A e \in Delivery \ {d} : row'[e] = row[e]
      BY <1>4, <2>1 DEF Row, TablesOK
    <2>3. \A e \in Delivery : MarkStays(e)
      BY <1>2, <2>1, <2>2 DEF MarkStays, Known
    <2>4. PICK j : job' = [job EXCEPT ![w] = j] /\ j.pc \in {"idle", "fetch", "clear"}
      <3>1. CASE Goto(w, "fetch")
        <4> DEFINE j == [job[w] EXCEPT !.pc = "fetch", !.tries = 0]
        <4>1. job' = [job EXCEPT ![w] = j] /\ j.pc = "fetch"
          BY <1>3, <3>1 DEF Goto, BusyJob
        <4> QED BY <4>1
      <3>2. CASE NoAnswer(w)
        BY <1>1, <2>1, <3>2, NotAnswered
      <3> QED BY <1>8, <3>1, <3>2 DEF ClearError
    <2>5. \A v \in Worker : job'[v] = IF v = w THEN j ELSE job[v]
      BY <1>3, <2>4
    <2>6. Current(job[w])'
      BY <2>4, <2>5 DEF Current
    <2> QED BY <1>1, <2>3, <2>5, <2>6, MarksStay
  <1>9. CASE GetDelivery(w)
    <2>1. UNCHANGED <<row, parquet, basis>>
      BY <1>9 DEF GetDelivery, tables
    <2>2. CASE Over(w, "returned")
      BY <1>1, <1>5, <1>6, <2>1, <2>2, MarkInvCall
    <2>3. CASE Goto(w, "open")
      <3> DEFINE j == [job[w] EXCEPT !.pc = "open", !.tries = 0]
      <3>1. j \in BusyJob /\ j.pc = "open" /\ job' = [job EXCEPT ![w] = j]
        BY <1>3, <2>3 DEF Goto, BusyJob
      <3> HIDE DEF j
      <3>2. Current(j)
        BY <3>1 DEF Current
      <3> QED BY <1>1, <2>1, <3>1, <3>2, MarkInvCall
    <2> QED BY <1>9, <2>2, <2>3 DEF GetDelivery
  <1>10. CASE FindSasFiles(w)
    <2>1. UNCHANGED <<row, parquet, basis>>
      BY <1>10 DEF FindSasFiles, tables
    <2>2. CASE \E how : Over(w, how)
      BY <1>1, <1>5, <1>6, <2>1, <2>2, MarkInvCall
    <2>3. CASE job' = [job EXCEPT ![w].pc = "convert",
                                 ![w].read = version[job[w].delivery]]
      <3> DEFINE j == [job[w] EXCEPT !.pc = "convert",
                                     !.read = version[job[w].delivery]]
      <3>a. version[d] \in 0..MaxVersion
        BY <1>2 DEF TablesOK
      <3>b. job' = [job EXCEPT ![w] = j]
        BY <2>3
      <3>1. /\ j \in BusyJob /\ j.pc = "convert" /\ j.delivery = d
            /\ j.read = version[d] /\ job' = [job EXCEPT ![w] = j]
        BY <1>2, <1>3, <3>a, <3>b DEF BusyJob
      <3> HIDE DEF j
      <3>2. Current(j)
        BY <1>4, <3>1 DEF Current
      <3> QED BY <1>1, <2>1, <3>1, <3>2, MarkInvCall
    <2> QED BY <1>10, <2>2, <2>3 DEF FindSasFiles
  <1>11. CASE ConvertFiles(w)
    <2>1. PICK ok \in BOOLEAN :
             /\ job' = [job EXCEPT ![w].pc = "patch", ![w].ok = ok]
             /\ parquet' = IF ok THEN [parquet EXCEPT ![d] = job[w].read] ELSE parquet
      BY <1>2, <1>11 DEF ConvertFiles
    <2>2. job[w].pc = "convert" /\ UNCHANGED <<row, basis>>
      BY <1>11 DEF ConvertFiles
    <2>3. d \notin raced => job[w].read >= row[d].fp
      BY <1>2, <1>3, <2>2 DEF Current
    <2>4. /\ parquet'[d] = IF ok THEN job[w].read ELSE parquet[d]
          /\ \A e \in Delivery \ {d} : parquet'[e] = parquet[e]
      BY <2>1 DEF TablesOK
    <2>5. \A e \in Delivery : MarkStays(e)
      BY <2>2, <2>3, <2>4 DEF MarkStays, Known
    <2> DEFINE j == [job[w] EXCEPT !.pc = "patch", !.ok = ok]
    <2>6. /\ job'[w] = j /\ \A v \in Worker \ {w} : job'[v] = job[v]
          /\ j.pc = "patch" /\ j.ok = ok /\ j.delivery = d /\ j.read = job[w].read
      BY <1>2, <1>3, <2>1 DEF BusyJob
    <2> HIDE DEF j
    <2>7. Current(job[w])'
      BY <1>1, <2>2, <2>3, <2>4, <2>6 DEF Current
    <2> QED BY <1>1, <2>5, <2>6, <2>7, MarksStay
  <1>12. CASE PatchDelivery(w)
    <2>1. /\ row' = IF job[w].ok THEN [row EXCEPT ![d].converted = TRUE]
                                 ELSE [row EXCEPT ![d].error = TRUE]
          /\ basis' = [basis EXCEPT ![d] = job[w].read]
          /\ parquet' = parquet /\ job[w].pc = "patch"
      BY <1>2, <1>12 DEF PatchDelivery
    <2>2. d \notin raced => /\ job[w].read >= row[d].fp
                            /\ job[w].ok => parquet[d] >= row[d].fp
      BY <1>2, <1>3, <2>1 DEF Current
    <2>3. /\ row'[d].fp = row[d].fp
          /\ row'[d].converted = (job[w].ok \/ row[d].converted)
          /\ row'[d].error = (~job[w].ok \/ row[d].error)
          /\ \A e \in Delivery \ {d} : row'[e] = row[e]
      <3>0. row \in [Delivery -> Row \cup {NoRow}] /\ row[d].converted \in BOOLEAN
        BY <1>2, RowTypes DEF TablesOK
      <3>1. CASE job[w].ok
        BY <1>4, <2>1, <3>0, <3>1 DEF Row
      <3>2. CASE ~job[w].ok
        BY <1>4, <2>1, <3>0, <3>2 DEF Row
      <3> QED BY <3>1, <3>2
    <2>4. /\ basis'[d] = job[w].read
          /\ \A e \in Delivery \ {d} : basis'[e] = basis[e]
      BY <2>1 DEF TablesOK
    <2>5. \A e \in Delivery : MarkStays(e)
      BY <1>2, <2>1, <2>2, <2>3, <2>4 DEF MarkStays, Known
    <2>6. PICK j : /\ job' = [job EXCEPT ![w] = j]
                   /\ \/ j.pc = "idle"
                      \/ /\ j.delivery = d /\ j.read = job[w].read
                         /\ j.ok = job[w].ok /\ j.pc \in {"patch", "emit"}
      <3>1. CASE Goto(w, "emit")
        <4> DEFINE j == [job[w] EXCEPT !.pc = "emit", !.tries = 0]
        <4>1. /\ job' = [job EXCEPT ![w] = j] /\ j.pc = "emit" /\ j.delivery = d
              /\ j.read = job[w].read /\ j.ok = job[w].ok
          BY <1>2, <1>3, <3>1 DEF Goto, BusyJob
        <4> HIDE DEF j
        <4> QED BY <4>1
      <3>2. CASE NoAnswer(w)
        BY <1>1, <1>2, <2>1, <3>2, NotAnswered
      <3> QED BY <1>12, <3>1, <3>2 DEF PatchDelivery
    <2>7. \A v \in Worker : job'[v] = IF v = w THEN j ELSE job[v]
      BY <1>3, <2>6
    <2>8. Current(job[w])'
      <3>1. job'[w] = j
        BY <2>7
      <3>2. CASE j.pc = "idle"
        BY <3>1, <3>2 DEF Current
      <3>3. CASE /\ j.delivery = d /\ j.read = job[w].read
                 /\ j.ok = job[w].ok /\ j.pc \in {"patch", "emit"}
        <4>1. d \notin raced => /\ j.read >= row'[d].fp
                                /\ j.ok => parquet'[d] >= row'[d].fp
                                /\ j.ok => row'[d].converted
          BY <2>1, <2>2, <2>3, <3>3
        <4> QED BY <1>1, <3>1, <3>3, <4>1 DEF Current
      <3> QED BY <2>6, <3>2, <3>3
    <2> QED BY <1>1, <2>5, <2>7, <2>8, MarksStay
  <1>13. CASE EmitEvent(w)
    <2>1. UNCHANGED <<row, parquet, basis>>
      BY <1>13 DEF EmitEvent
    <2>2. CASE Over(w, "returned")
      BY <1>1, <1>5, <1>6, <2>1, <2>2, MarkInvCall
    <2>3. CASE NoAnswer(w)
      <3>1. PICK j \in BusyJob \cup {NoJob} :
               /\ job' = [job EXCEPT ![w] = j]
               /\ \/ j.pc = "idle"
                  \/ /\ j.delivery = job[w].delivery /\ j.read = job[w].read
                     /\ j.ok = job[w].ok
                     /\ \/ j.pc = job[w].pc
                        \/ job[w].pc = "patch" /\ ~job[w].ok /\ j.pc = "emit"
        BY <1>1, <2>3, NotAnswered
      <3>2. Current(j)
        BY <1>3, <3>1 DEF Current
      <3> QED BY <1>1, <2>1, <3>1, <3>2, MarkInvCall
    <2> QED BY <1>13, <2>2, <2>3 DEF EmitEvent
  <1> QED BY <1>7, <1>8, <1>9, <1>10, <1>11, <1>12, <1>13 DEF EngineStep

\* A crawl that comes while no call is at work on the delivery makes the
\* row say nothing; one that does come makes the delivery raced.
LEMMA MarkInvCrawl ==
    ASSUME MarkInv, NEW d \in Delivery, Crawl(d)
    PROVE  MarkInv'
  <1> USE DEF MarkInv, TypeInv
  <1>1. TypeInv'
    BY CrawlKeepsTypes
  <1>2. /\ row' = [row EXCEPT ![d] =
                     [fp |-> version[d], converted |-> FALSE, error |-> FALSE]]
        /\ raced' = IF InFlight(d) THEN raced \cup {d} ELSE raced \ {d}
        /\ UNCHANGED <<version, parquet, job, basis>>
    BY DEF Crawl
  <1>3. /\ row'[d] = [fp |-> version[d], converted |-> FALSE, error |-> FALSE]
        /\ \A e \in Delivery \ {d} : row'[e] = row[e]
        /\ version[d] \in Nat
    BY <1>2, ConversionBoundAssumption DEF TablesOK
  <1>4. \A e \in Delivery \ {d} : e \in raced' <=> e \in raced
    BY <1>2
  <1>5. RowsNotAhead'
    BY <1>2, <1>3 DEF RowsNotAhead, Known
  <1>6. ASSUME NEW w \in Worker PROVE Current(job[w])'
    <2>1. CASE job[w].pc \notin {"convert", "patch", "emit"}
      BY <1>2, <2>1 DEF Current
    <2>2. CASE job[w].pc \in {"convert", "patch", "emit"} /\ job[w].delivery = d
      <3>1. d \in raced'
        BY <1>2, <2>2 DEF InFlight
      <3> QED BY <1>2, <2>2, <3>1 DEF Current
    <2>3. CASE job[w].pc \in {"convert", "patch", "emit"} /\ job[w].delivery # d
      <3>1. job[w].delivery \in Delivery
        BY <2>3, BusyCall
      <3>2. Current(job[w])
        BY DEF CallsCurrent
      <3> QED BY <1>2, <1>3, <1>4, <2>3, <3>1, <3>2 DEF Current
    <2> QED BY <2>1, <2>2, <2>3
  <1>7. MarksAreCurrent'
    <2> SUFFICES ASSUME NEW e \in Delivery, e \notin raced', Known(e)'
                 PROVE  /\ row'[e].converted => parquet'[e] >= row'[e].fp
                        /\ row'[e].error => basis'[e] >= row'[e].fp
      BY DEF MarksAreCurrent
    <2>1. CASE e = d
      BY <1>3, <2>1
    <2>2. CASE e # d
      BY <1>2, <1>3, <1>4, <2>2 DEF MarksAreCurrent, Known
    <2> QED BY <2>1, <2>2
  <1> QED BY <1>1, <1>2, <1>5, <1>6, <1>7 DEF CallsCurrent

LEMMA MarkInvNext == MarkInv /\ [Next]_vars => MarkInv'
  <1> SUFFICES ASSUME MarkInv, [Next]_vars PROVE MarkInv'
    OBVIOUS
  <1> USE DEF MarkInv
  <1>1. TypeInv'
    BY TypeInvNext
  <1>2. ASSUME NEW d \in Delivery, Redeliver(d) PROVE MarkInv'
    <2>1. \A e \in Delivery : version[e] \in Nat /\ version'[e] >= version[e]
      BY <1>2, ConversionBoundAssumption DEF Redeliver, TypeInv, TablesOK
    <2>2. UNCHANGED <<row, parquet, job, basis, raced>>
      BY <1>2 DEF Redeliver
    <2>3. RowsNotAhead'
      <3> SUFFICES ASSUME NEW e \in Delivery, Known(e) PROVE row[e].fp <= version'[e]
        BY <2>2 DEF RowsNotAhead, Known
      <3>1. row[e].fp <= version[e] /\ row[e].fp \in Nat
        BY RowTypes DEF RowsNotAhead, TypeInv
      <3>2. version'[e] \in Nat
        BY SMTT(30), <1>1, ConversionBoundAssumption DEF TypeInv, TablesOK
      <3> QED BY <2>1, <3>1, <3>2
    <2>4. CallsCurrent' /\ MarksAreCurrent'
      BY <2>2 DEF CallsCurrent, Current, MarksAreCurrent, Known
    <2> QED BY <1>1, <2>3, <2>4
  <1>3. ASSUME UNCHANGED <<version, row, parquet, basis, raced>>,
               \A v \in Worker : job'[v] = job[v]
                                 \/ job'[v].pc \notin {"convert", "patch", "emit"}
        PROVE  MarkInv'
    <2>1. \A e \in Delivery : MarkStays(e)
      BY <1>3 DEF MarkStays, Known
    <2>2. \A v \in Worker : job'[v] = job[v] \/ Current(job[v])'
      BY <1>3 DEF Current
    <2> QED BY <1>1, <1>3, <2>1, <2>2, MarksStay
  <1>4. CASE Start \/ DaemonStep \/ Reconnect \/ RequestShutdown \/ Die \/ UNCHANGED vars
    <2>1. UNCHANGED <<version, row, parquet, basis, raced>>
      BY <1>4 DEF Start, DaemonStep, OnEvent, PersistLastSeq, CaughtUp, Listen, Exit,
         Reconnect, RequestShutdown, Die, vars, tables
    <2>2. \/ UNCHANGED job
          \/ job' = [job EXCEPT ![Daemon] = NoJob]
          \/ \E d : job' = [job EXCEPT ![Daemon] = Call(d, "fetch")]
      BY <1>4 DEF Start, DaemonStep, OnEvent, PersistLastSeq, CaughtUp, Listen, Exit,
         Reconnect, RequestShutdown, Die, vars, Begin
    <2>3. \A v \in Worker : job'[v] = job[v] \/ job'[v].pc \in {"idle", "fetch"}
      BY <2>2 DEF TypeInv, JobsOK, NoJob, Call
    <2> QED BY <1>3, <2>1, <2>3
  <1>5. ASSUME NEW w \in Cli, CliStep(w) PROVE MarkInv'
    <2>1. UNCHANGED <<version, row, parquet, basis, raced>>
      BY <1>5 DEF CliStep, CliStart, ListUnconverted, CliEnd, CliNext, CliStops, tables
    <2>2. \/ UNCHANGED job
          \/ job' = [job EXCEPT ![w] = NoJob]
          \/ \E d : \E pc \in {"clear", "fetch"} : job' = [job EXCEPT ![w] = Call(d, pc)]
      BY <1>5 DEF CliStep, CliStart, ListUnconverted, CliEnd, CliNext, CliStops, Begin
    <2>3. \A v \in Worker : job'[v] = job[v] \/ job'[v].pc \in {"idle", "clear", "fetch"}
      BY <2>2 DEF TypeInv, JobsOK, NoJob, Call
    <2> QED BY <1>3, <2>1, <2>3
  <1> QED BY <1>2, <1>4, <1>5, MarkInvCrawl, MarkInvEngine DEF Next

LEMMA MarkInvAlways == Spec => []MarkInv
  <1>1. Init => MarkInv
    <2> SUFFICES ASSUME Init PROVE MarkInv
      OBVIOUS
    <2>1. RowsNotAhead /\ MarksAreCurrent
      BY DEF Init, RowsNotAhead, MarksAreCurrent, Known
    <2>2. CallsCurrent
      BY DEF Init, CallsCurrent, Current, NoJob, Call
    <2> QED BY <2>1, <2>2, TypeInvInit DEF MarkInv
  <1> QED BY <1>1, MarkInvNext, PTL DEF Spec

\* What a row says of a conversion is true of the files it was last crawled
\* with, or of later ones, however the daemon, the backfill commands and the
\* crawler interleave, unless that crawl came during a conversion.
THEOREM MarksAreCurrentHolds == Spec => []MarksAreCurrent
  <1>1. MarkInv => MarksAreCurrent
    BY DEF MarkInv
  <1> QED BY <1>1, MarkInvAlways, PTL

\* A consumer that hears of a completed conversion finds the row converted,
\* unless the delivery was crawled meanwhile: the report is the last request
\* of a call, and by then its mark is in the row.
THEOREM CompletedIsInRowHolds == Spec => CompletedIsInRow
  <1> DEFINE A == \A i \in (Len(log) + 1)..Len(log') :
                     log'[i].type = "completed" =>
                       row[log'[i].delivery].converted \/ log'[i].delivery \in raced
  <1>1. MarkInv /\ [Next]_vars => A
    <2> SUFFICES ASSUME MarkInv, [Next]_vars PROVE A
      OBVIOUS
    <2>0. log \in Seq(Event) /\ Len(log) \in Nat
      BY LenProperties DEF MarkInv, TypeInv, TablesOK
    <2>1. CASE UNCHANGED log
      BY <2>0, <2>1
    <2>2. ASSUME NEW e \in Event, log' = Append(log, e),
                 e.type = "completed" => row[e.delivery].converted \/ e.delivery \in raced
          PROVE  A
      <3>1. Len(log') = Len(log) + 1 /\ log'[Len(log) + 1] = e
        BY <2>0, <2>2, AppendProperties
      <3> QED BY <2>0, <2>2, <3>1
    <2>3. ASSUME NEW d \in Delivery, Crawl(d) PROVE A
      <3> DEFINE e == [type |-> "created", delivery |-> d]
      <3>1. e \in Event /\ e.type # "completed"
        BY DEF Event
      <3>2. UNCHANGED log \/ log' = Append(log, e)
        BY <2>3 DEF Crawl
      <3> HIDE DEF e, A
      <3> QED BY <2>1, <2>2, <3>1, <3>2
    <2>4. ASSUME NEW w \in Worker, EmitEvent(w) PROVE A
      <3>1. job[w].pc = "emit" /\ log' = Append(log, Report(w))
        BY <2>4 DEF EmitEvent
      <3>2. PICK d \in Delivery : d = job[w].delivery
        BY <3>1, BusyCall DEF MarkInv, TypeInv
      <3>3. /\ Report(w) \in Event /\ Report(w).delivery = d
            /\ Report(w).type = "completed" => job[w].ok
        BY <3>2 DEF Report, Event
      <3>4. job[w].ok /\ d \notin raced => row[d].converted
        BY <3>1, <3>2 DEF MarkInv, CallsCurrent, Current
      <3> HIDE DEF A
      <3> QED BY <2>2, <3>1, <3>3, <3>4
    <2>5. CASE \A w \in Worker : ~EmitEvent(w)
      <3>1. \A w \in Worker : EngineStep(w) => UNCHANGED log
        BY <2>5 DEF EngineStep, AttemptFails, ClearError, GetDelivery, FindSasFiles,
           ConvertFiles, PatchDelivery, tables
      <3>2. (\E w \in Cli : CliStep(w)) => UNCHANGED log
        BY DEF CliStep, CliStart, ListUnconverted, CliEnd, CliNext, CliStops, tables
      <3>3. (\E d \in Delivery : Redeliver(d)) => UNCHANGED log
        BY DEF Redeliver
      <3>4. Start \/ DaemonStep \/ Reconnect \/ RequestShutdown \/ Die \/ UNCHANGED vars
              => UNCHANGED log
        BY DEF Start, DaemonStep, OnEvent, PersistLastSeq, CaughtUp, Listen, Exit,
           Reconnect, RequestShutdown, Die, vars, tables
      <3> HIDE DEF A
      <3> QED BY <2>1, <2>3, <3>1, <3>2, <3>3, <3>4 DEF Next
    <2> QED BY <2>4, <2>5
  <1> QED BY <1>1, MarkInvAlways, PTL DEF Spec, CompletedIsInRow
=============================================================================
