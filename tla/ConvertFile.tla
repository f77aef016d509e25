----------------------------- MODULE ConvertFile -----------------------------
(***************************************************************************)
(* The conversion of the SAS files of one delivery to Parquet: the loop of *)
(* convert_one over the files, and convert_sas_to_parquet, which reads a   *)
(* file chunk by chunk, writes a row group for each to a tmp file, and     *)
(* moves the closed tmp file over the output.                              *)
(*                                                                         *)
(* The daemon and backfill commands may convert the same delivery at once, *)
(* the data partner may replace a file while it is read (pyreadstat opens  *)
(* it again by its path for every chunk), any call may fail, and a process *)
(* may be killed.  Skip guards, PATCH and events are in Conversion.        *)
(***************************************************************************)
EXTENDS Naturals, Sequences, FiniteSets

CONSTANTS
    Job,          \* conversions of the delivery
    File,         \* its SAS files
    OutputOf,     \* OutputOf[f]: the stem of f, which names its output
    Version,      \* the versions of a SAS file
    Chunks,       \* Chunks[v]: the number of chunks that version has
    Schema,       \* Schema[v][n]: the columns of the n-th, a function from their
                  \* names to the types pandas gives them
    Castable,     \* the pairs <<t, u>> such that pyarrow takes a column of type
                  \* t where u is expected
    MaxFaults,    \* bound: failing calls and kills
    MaxChanges,   \* bound: changes of the source
    Absent        \* no file, no version, no schema

ASSUME SourceAssumption ==
    /\ Absent \notin Version
    /\ Chunks \in [Version -> Nat]
    /\ \A v \in Version : \A n \in 1..Chunks[v] : Schema[v][n] # Absent
ASSUME ConvertBoundAssumption == MaxFaults \in Nat /\ MaxChanges \in Nat

Output == {OutputOf[f] : f \in File}
Final(o) == <<o, 0>>
Paths == Output \X Nat

ASSUME AbsentAssumption == Absent \notin File /\ Absent \notin Paths

VARIABLES
    source,     \* source[f]: the version of f on the share, or Absent
    disk,       \* the Parquet files, tmp files included: from paths to content
    pc,         \* pc[j]: the next step of j
    todo,       \* todo[j]: the files j has yet to convert
    file,       \* file[j]: the one it converts
    tmp,        \* tmp[j]: the tmp file it writes, or Absent
    locked,     \* locked[j]: locked_schema
    successes, failures,   \* of j, the files
    changes, faults,       \* how many so far
    replaced,   \* history: the files replaced while a job was reading them
    littered    \* history: the tmp files of killed jobs and failed unlinks

convVars == <<pc, todo, file, tmp, locked, successes, failures>>
vars == <<source, disk, convVars, changes, faults, replaced, littered>>

Init ==
    /\ source \in [File -> Version]
    /\ disk = <<>>
    /\ pc = [j \in Job |-> "idle"]
    /\ todo = [j \in Job |-> {}] /\ file = [j \in Job |-> Absent]
    /\ tmp = [j \in Job |-> Absent] /\ locked = [j \in Job |-> Absent]
    /\ successes = [j \in Job |-> {}] /\ failures = [j \in Job |-> {}]
    /\ changes = 0 /\ faults = 0
    /\ replaced = {} /\ littered = {}

At(j, step) == pc[j] = step
Goto(j, step) == pc' = [pc EXCEPT ![j] = step]

\* convert_sas_to_parquet returns, or raises: its variables are gone.
LeaveFile(j) ==
    /\ file' = [file EXCEPT ![j] = Absent]
    /\ tmp' = [tmp EXCEPT ![j] = Absent]
    /\ locked' = [locked EXCEPT ![j] = Absent]

\* The same of convert_one.
LeaveDelivery(j) ==
    /\ todo' = [todo EXCEPT ![j] = {}]
    /\ successes' = [successes EXCEPT ![j] = {}]
    /\ failures' = [failures EXCEPT ![j] = {}]
    /\ Goto(j, "idle")

Fault == faults < MaxFaults /\ faults' = faults + 1

\* The files of the file system: f with its content, and f gone.
Stored(path, content) ==
    [p \in DOMAIN disk \cup {path} |-> IF p = path THEN content ELSE disk[p]]
Unlinked(path) == [p \in DOMAIN disk \ {path} |-> disk[p]]

\* The row groups j has written so far; no tmp file, none.
Written(j) == IF tmp[j] = Absent THEN <<>> ELSE disk[tmp[j]].rows

-----------------------------------------------------------------------------
(* The loop of convert_one                                                 *)

FindSasFiles(j) ==
    /\ At(j, "idle")
    /\ todo' = [todo EXCEPT ![j] = {f \in File : source[f] # Absent}]
    /\ Goto(j, "next")
    /\ UNCHANGED <<source, disk, file, tmp, locked, successes, failures, changes, faults,
                   replaced, littered>>

\* The files are sorted by name; which one comes first is left open.
NextFile(j) ==
    /\ At(j, "next")
    /\ \E f \in todo[j] : /\ file' = [file EXCEPT ![j] = f]
                          /\ todo' = [todo EXCEPT ![j] = @ \ {f}]
    /\ Goto(j, "read")
    /\ UNCHANGED <<source, disk, tmp, locked, successes, failures, changes, faults, replaced, littered>>

\* All files done: what the PATCH will say of the files is known.
Done(j) ==
    /\ At(j, "next") /\ todo[j] = {} /\ LeaveDelivery(j)
    /\ UNCHANGED <<source, disk, file, tmp, locked, changes, faults, replaced, littered>>

-----------------------------------------------------------------------------
(* convert_sas_to_parquet                                                  *)

Source(j) == source[file[j]]
Position(j) == Len(Written(j))

\* Mutant of HasChunk: the last chunk is not read.
HasChunkBeforeLast(j) == Source(j) # Absent /\ Position(j) + 1 < Chunks[Source(j)]

HasChunk(j) == Source(j) # Absent /\ Position(j) < Chunks[Source(j)]

\* Mutant of TmpPath: the output itself is written to.
TmpPathIsFinal(o) == Final(o)

\* The path of the tmp file, a uuid making it fresh.
TmpPath(o) == <<o, CHOOSE n \in 1..Cardinality(DOMAIN disk) + 1 : <<o, n>> \notin DOMAIN disk>>

FirstChunk(j) ==
    /\ At(j, "read") /\ HasChunk(j) /\ tmp[j] = Absent
    /\ LET path == TmpPath(OutputOf[file[j]]) IN
         /\ tmp' = [tmp EXCEPT ![j] = path]
         /\ disk' = Stored(path, [rows |-> <<Source(j)>>, closed |-> FALSE])
    /\ locked' = [locked EXCEPT ![j] = Schema[Source(j)][1]]
    /\ UNCHANGED <<source, pc, todo, file, successes, failures, changes, faults,
                   replaced, littered>>

\* Table.from_pandas with a schema takes the columns that the schema names,
\* each converted if need be, and leaves out all others.
Provides(chunk, columns) ==
    \A c \in DOMAIN columns : c \in DOMAIN chunk /\ <<chunk[c], columns[c]>> \in Castable

\* Mutant of Fits: the schema of later chunks is not compared.
FitsAlways(j) == TRUE

Fits(j) == Provides(Schema[Source(j)][Position(j) + 1], locked[j])

LaterChunk(j) ==
    /\ At(j, "read") /\ HasChunk(j) /\ tmp[j] # Absent /\ Fits(j)
    /\ disk' = Stored(tmp[j], [rows |-> Append(Written(j), Source(j)), closed |-> FALSE])
    /\ UNCHANGED <<source, convVars, changes, faults, replaced, littered>>

\* SchemaDriftError, or the file is gone.
Raises(j) ==
    /\ At(j, "read")
    /\ \/ Source(j) = Absent
       \/ HasChunk(j) /\ tmp[j] # Absent /\ ~Fits(j)
    /\ Goto(j, "cleanup")
    /\ UNCHANGED <<source, disk, todo, file, tmp, locked, successes, failures, changes,
                   faults, replaced, littered>>

\* Mutant of Close: the file counts as converted once it is written.
CloseCounts(j) ==
    /\ At(j, "read") /\ Source(j) # Absent /\ ~HasChunk(j) /\ tmp[j] # Absent
    /\ disk' = Stored(tmp[j], [disk[tmp[j]] EXCEPT !.closed = TRUE])
    /\ successes' = [successes EXCEPT ![j] = @ \cup {file[j]}]
    /\ Goto(j, "replace")
    /\ UNCHANGED <<source, todo, file, tmp, locked, failures, changes, faults,
                   replaced, littered>>

\* No chunk is left: a file without any gets a Parquet file with headers
\* only; then the writer is closed, which writes the footer.
Close(j) ==
    /\ At(j, "read") /\ Source(j) # Absent /\ ~HasChunk(j)
    /\ LET path == IF tmp[j] = Absent THEN TmpPath(OutputOf[file[j]]) ELSE tmp[j]
       IN  /\ tmp' = [tmp EXCEPT ![j] = path]
           /\ disk' = Stored(path, [rows |-> Written(j), closed |-> TRUE])
    /\ Goto(j, "replace")
    /\ UNCHANGED <<source, todo, file, locked, successes, failures, changes, faults,
                   replaced, littered>>

\* os.replace; the file counts as converted, unless the stat of the output
\* raises, which nothing cleans up after.
Replace(j) ==
    /\ At(j, "replace")
    /\ LET path == Final(OutputOf[file[j]]) IN
         disk' = [p \in (DOMAIN disk \ {tmp[j]}) \cup {path} |->
                    IF p = path THEN disk[tmp[j]] ELSE disk[p]]
    /\ \/ /\ successes' = [successes EXCEPT ![j] = @ \cup {file[j]}]
          /\ UNCHANGED <<failures, faults>>
       \/ /\ Fault /\ UNCHANGED successes
          /\ failures' = [failures EXCEPT ![j] = @ \cup {file[j]}]
    /\ LeaveFile(j) /\ Goto(j, "next")
    /\ UNCHANGED <<source, todo, changes, replaced, littered>>

\* Any call may raise: the disk is full, memory runs out, a signal arrives.
CallFails(j) ==
    /\ pc[j] \in {"read", "replace"} /\ Fault
    /\ Goto(j, "cleanup")
    /\ UNCHANGED <<source, disk, todo, file, tmp, locked, successes, failures, changes,
                   replaced, littered>>

\* Mutant of CleanUp: the tmp file is not unlinked.
CleanUpNothing(j) ==
    /\ At(j, "cleanup") /\ LeaveFile(j)
    /\ failures' = [failures EXCEPT ![j] = @ \cup {file[j]}]
    /\ Goto(j, "next")
    /\ UNCHANGED <<source, disk, todo, successes, changes, faults, replaced, littered>>

\* The tmp file is unlinked if it exists; an unlink that fails leaves it.
\* The file is recorded as failed and the loop goes on, unless what was
\* raised is KeyboardInterrupt or SystemExit, which ends it.
CleanUp(j) ==
    /\ At(j, "cleanup") /\ LeaveFile(j)
    /\ \/ disk' = Unlinked(tmp[j]) /\ UNCHANGED <<littered, faults>>
       \/ /\ tmp[j] # Absent /\ Fault
          /\ littered' = littered \cup {tmp[j]} /\ UNCHANGED disk
    /\ \/ /\ Goto(j, "next") /\ UNCHANGED <<todo, successes>>
          /\ failures' = [failures EXCEPT ![j] = @ \cup {file[j]}]
       \/ LeaveDelivery(j)
    /\ UNCHANGED <<source, changes, replaced>>

Kill(j) ==
    /\ ~At(j, "idle") /\ Fault
    /\ littered' = littered \cup ({tmp[j]} \ {Absent})
    /\ LeaveFile(j) /\ LeaveDelivery(j)
    /\ UNCHANGED <<source, disk, changes, replaced>>

-----------------------------------------------------------------------------
\* The data partner replaces a file, or removes it, or puts it back.
SourceChanges(f) ==
    /\ changes < MaxChanges /\ changes' = changes + 1
    /\ \E v \in Version \cup {Absent} : v # source[f] /\ source' = [source EXCEPT ![f] = v]
    /\ replaced' = replaced \cup {g \in {f} : \E j \in Job : At(j, "read") /\ file[j] = f}
    /\ UNCHANGED <<disk, convVars, faults, littered>>

FileStep(j) == \/ FirstChunk(j) \/ LaterChunk(j) \/ Raises(j) \/ Close(j) \/ Replace(j)
               \/ CallFails(j) \/ CleanUp(j)
Next == \/ \E j \in Job : FindSasFiles(j) \/ NextFile(j) \/ Done(j) \/ FileStep(j) \/ Kill(j)
        \/ \E f \in File : SourceChanges(f)

Spec == Init /\ [][Next]_vars

-----------------------------------------------------------------------------
(* Properties                                                              *)

Contents == [rows : Seq(Version), closed : BOOLEAN]
Schemas == UNION {{Schema[v][n] : n \in 1..Chunks[v]} : v \in Version}
Steps == {"idle", "next", "read", "replace", "cleanup"}

\* The variables keep their types, and the tmp files of two conversions
\* differ.
TypeOK ==
    /\ source \in [File -> Version \cup {Absent}]
    /\ DOMAIN disk \subseteq Paths /\ \A p \in DOMAIN disk : disk[p] \in Contents
    /\ pc \in [Job -> Steps] /\ file \in [Job -> File \cup {Absent}]
    /\ todo \in [Job -> SUBSET File]
    /\ tmp \in [Job -> DOMAIN disk \cup {Absent}]
    /\ locked \in [Job -> Schemas \cup {Absent}]
    /\ successes \in [Job -> SUBSET File] /\ failures \in [Job -> SUBSET File]
    /\ \A i, j \in Job : tmp[i] = tmp[j] => i = j \/ tmp[i] = Absent

\* A whole Parquet file is closed, and each of its row groups comes from a
\* chunk that had all the columns of the first.  It may have had others.
Columns(c, i) == Schema[c.rows[i]][i]
Whole == {c \in Contents :
            c.closed /\ \A i \in 2..Len(c.rows) : Provides(Columns(c, i), Columns(c, 1))}

\* The conversion implements AtomicOutputs, whoever converts the same file at
\* the same time, and wherever a call fails or a process is killed.
Outputs == INSTANCE AtomicOutputs WITH
    out <- [o \in Output |-> IF Final(o) \in DOMAIN disk THEN disk[Final(o)] ELSE Absent]
ReadersSeeWholeFiles == Outputs!Spec

\* A tmp file that no conversion is writing is one that a killed process or a
\* failed unlink has left; nothing else litters the directory (AC2).
TmpOnlyIfKilled ==
    \A p \in DOMAIN disk : p[2] # 0 => p \in littered \/ \E j \in Job : tmp[j] = p

\* An output holds all chunks of one version of its SAS file, in order, unless
\* the file was replaced while it was read.
OneVersionUnlessReplaced ==
    \A f \in File \ replaced :
        /\ \A g \in File : OutputOf[g] = OutputOf[f] => g = f
        /\ Final(OutputOf[f]) \in DOMAIN disk
        => \E v \in Version : disk[Final(OutputOf[f])].rows = [i \in 1..Chunks[v] |-> v]

\* A file that will be reported as converted has a whole output, whatever
\* else converts it and fails.
ReportedIsThere ==
    \A j \in Job : \A f \in successes[j] :
        Final(OutputOf[f]) \in DOMAIN disk /\ disk[Final(OutputOf[f])] \in Whole
=============================================================================
