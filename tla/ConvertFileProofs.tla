------------------------- MODULE ConvertFileProofs -------------------------
(* Theorems about ConvertFile, for every value of its constants: any number *)
(* of conversions, files, versions, chunks and faults.                      *)
EXTENDS ConvertFile, SequenceTheorems, FiniteSetTheorems, FunctionTheorems, TLAPS

USE SourceAssumption, ConvertBoundAssumption, AbsentAssumption

\* A uuid is always left: a finite directory has not every path.
LEMMA FreshPath ==
    ASSUME IsFiniteSet(DOMAIN disk), NEW o \in Output
    PROVE  /\ TmpPath(o) \in Paths \ DOMAIN disk
           /\ TmpPath(o)[2] # 0 /\ TmpPath(o) # Absent
  <1> DEFINE k == Cardinality(DOMAIN disk)
             N == 1..k + 1
             all == {<<o, n>> : n \in N}
  <1>1. k \in Nat
    BY FS_CardinalityType
  <1>2. IsFiniteSet(N) /\ Cardinality(N) = k + 1
    BY <1>1, FS_Interval
  <1>3. PICK f : f = [n \in N |-> <<o, n>>]
    OBVIOUS
  <1>4. f \in Bijection(N, all)
    <2>1. f \in [N -> all] /\ \A m, n \in N : f[m] = f[n] => m = n
      BY <1>3
    <2>2. \A x \in all : \E n \in N : f[n] = x
      BY <1>3
    <2> QED BY <2>1, <2>2, Fun_IsBij
  <1>5. Cardinality(all) = k + 1
    BY <1>2, <1>4, FS_Bijection DEF ExistsBijection
  <1>6. ~(all \subseteq DOMAIN disk)
    BY <1>1, <1>5, FS_Subset
  <1>7. \E n \in N : <<o, n>> \notin DOMAIN disk
    BY <1>6
  <1>8. \E n \in N : TmpPath(o) = <<o, n>> /\ <<o, n>> \notin DOMAIN disk
    BY <1>7 DEF TmpPath
  <1> QED BY <1>1, <1>8 DEF Paths

-----------------------------------------------------------------------------
(* The inductive invariant: what a conversion has open, and that an output  *)
(* is only ever whole.                                                      *)

Fitting(content, schema) ==
    /\ Len(content.rows) > 0 => schema = Columns(content, 1)
    /\ \A i \in 2..Len(content.rows) : Provides(Columns(content, i), schema)

JobInv(j) ==
    /\ pc[j] \in {"read", "replace", "cleanup"} => file[j] \in File
    /\ pc[j] \in {"idle", "next"} => tmp[j] = Absent
    /\ pc[j] = "replace" => tmp[j] # Absent /\ disk[tmp[j]].closed
    /\ tmp[j] # Absent => tmp[j][2] # 0 /\ Fitting(disk[tmp[j]], locked[j])
    /\ tmp[j] # Absent /\ pc[j] = "read" => Len(disk[tmp[j]].rows) > 0

OutputsWhole == \A o \in Output : Final(o) \in DOMAIN disk => disk[Final(o)] \in Whole

ReportedThere ==
    \A j \in Job : \A f \in successes[j] : Final(OutputOf[f]) \in DOMAIN disk

Inv == /\ TypeOK /\ IsFiniteSet(DOMAIN disk)
       /\ \A j \in Job : JobInv(j)
       /\ OutputsWhole /\ ReportedThere

\* What a reader finds does not change.
SameOutputs ==
    \A o \in Output : /\ Final(o) \in DOMAIN disk' <=> Final(o) \in DOMAIN disk
                      /\ Final(o) \in DOMAIN disk => disk'[Final(o)] = disk[Final(o)]

LEMMA FileHasOutput == \A f \in File : OutputOf[f] \in Output
  BY DEF Output

\* A tmp file is no output.
LEMMA TmpIsNoOutput ==
    ASSUME Inv, NEW j \in Job, NEW o, tmp[j] # Absent
    PROVE  tmp[j] \in DOMAIN disk /\ tmp[j] # Final(o)
  BY DEF Inv, TypeOK, JobInv, Final

\* A content whose row groups fit one schema is whole once it is closed.
LEMMA FittingIsWhole ==
    ASSUME NEW c \in Contents, NEW schema, Fitting(c, schema), c.closed
    PROVE  c \in Whole
  <1>1. c.rows \in Seq(Version) /\ Len(c.rows) \in Nat
    BY DEF Contents
  <1> QED BY <1>1 DEF Fitting, Whole

\* A step that changes no file: what is left to show is what the job has done
\* with its own variables.
LEMMA DiskFrame ==
    ASSUME Inv, NEW j \in Job,
           UNCHANGED <<source, disk>>,
           pc' \in [Job -> Steps], file' \in [Job -> File \cup {Absent}],
           todo' \in [Job -> SUBSET File],
           tmp' \in [Job -> DOMAIN disk \cup {Absent}], tmp'[j] \in {tmp[j], Absent},
           locked' \in [Job -> Schemas \cup {Absent}],
           successes' \in [Job -> SUBSET File], failures' \in [Job -> SUBSET File],
           successes'[j] \subseteq successes[j],
           \A i \in Job : i # j =>
               /\ pc'[i] = pc[i] /\ file'[i] = file[i] /\ tmp'[i] = tmp[i]
               /\ locked'[i] = locked[i] /\ successes'[i] = successes[i],
           JobInv(j)'
    PROVE  Inv' /\ SameOutputs
  <1>1. TypeOK'
    <2>1. \A i, k \in Job : tmp'[i] = tmp'[k] => i = k \/ tmp'[i] = Absent
      BY DEF Inv, TypeOK
    <2> QED BY <2>1 DEF Inv, TypeOK
  <1>2. \A i \in Job : JobInv(i)'
    <2> SUFFICES ASSUME NEW i \in Job, i # j PROVE JobInv(i)'
      OBVIOUS
    <2> QED BY DEF Inv, JobInv, Fitting
  <1>3. OutputsWhole' /\ ReportedThere' /\ IsFiniteSet(DOMAIN disk')
    BY DEF Inv, OutputsWhole, ReportedThere, TypeOK, Whole
  <1> QED BY <1>1, <1>2, <1>3 DEF Inv, SameOutputs

\* The job puts a content into its tmp file, which may be a new one.
LEMMA TmpWritten ==
    ASSUME Inv, NEW j \in Job, NEW path, NEW content \in Contents,
           \/ tmp[j] # Absent /\ path = tmp[j]
           \/ path \in Paths \ DOMAIN disk /\ path[2] # 0 /\ path # Absent,
           disk' = Stored(path, content),
           tmp' = [tmp EXCEPT ![j] = path],
           pc' \in [Job -> Steps],
           locked' \in [Job -> Schemas \cup {Absent}],
           \A i \in Job : i # j => pc'[i] = pc[i] /\ locked'[i] = locked[i],
           pc[j] = "read", pc'[j] \in {"read", "replace"},
           pc'[j] = "replace" => content.closed,
           pc'[j] = "read" => Len(content.rows) > 0,
           Fitting(content, locked'[j]),
           UNCHANGED <<source, todo, file, successes, failures>>
    PROVE  Inv' /\ SameOutputs
  <1>1. /\ DOMAIN disk' = DOMAIN disk \cup {path} /\ disk'[path] = content
        /\ \A p \in DOMAIN disk : p # path => disk'[p] = disk[p]
    BY DEF Stored
  <1>2. path \in Paths /\ path[2] # 0 /\ path # Absent
    BY DEF Inv, TypeOK, JobInv
  <1>3. \A i \in Job : i # j /\ tmp[i] # Absent => tmp[i] \in DOMAIN disk /\ tmp[i] # path
    BY DEF Inv, TypeOK
  <1>4. tmp'[j] = path /\ \A i \in Job : i # j => tmp'[i] = tmp[i]
    BY DEF Inv, TypeOK
  <1>5. TypeOK'
    <2>1. DOMAIN disk' \subseteq Paths /\ \A p \in DOMAIN disk' : disk'[p] \in Contents
      BY <1>1, <1>2 DEF Inv, TypeOK
    <2>2. tmp' \in [Job -> DOMAIN disk' \cup {Absent}]
      BY <1>1 DEF Inv, TypeOK
    <2>3. \A i, k \in Job : tmp'[i] = tmp'[k] => i = k \/ tmp'[i] = Absent
      BY <1>3, <1>4 DEF Inv, TypeOK
    <2> QED BY <2>1, <2>2, <2>3 DEF Inv, TypeOK
  <1>6. IsFiniteSet(DOMAIN disk')
    BY <1>1, FS_AddElement DEF Inv
  <1>7. ASSUME NEW i \in Job PROVE JobInv(i)'
    <2>1. CASE i = j
      BY <1>1, <1>2, <1>4, <2>1 DEF Inv, JobInv
    <2>2. CASE i # j
      <3>1. JobInv(i) /\ tmp'[i] = tmp[i] /\ pc'[i] = pc[i] /\ locked'[i] = locked[i]
        BY <1>4, <2>2 DEF Inv
      <3>2. tmp[i] # Absent => disk'[tmp[i]] = disk[tmp[i]]
        BY <1>1, <1>3, <2>2
      <3> QED BY <3>1, <3>2 DEF JobInv, Fitting
    <2> QED BY <2>1, <2>2
  <1>8. \A o \in Output : Final(o) # path
    BY <1>2 DEF Final
  <1>9. SameOutputs
    BY <1>1, <1>8 DEF SameOutputs
  <1>10. OutputsWhole'
    BY <1>9 DEF SameOutputs, Inv, OutputsWhole, Whole
  <1>11. ReportedThere'
    BY <1>1 DEF Inv, ReportedThere
  <1> QED BY <1>5, <1>6, <1>7, <1>9, <1>10, <1>11 DEF Inv

\* The steps of the loop over the files, and those that only change the pc.
LEMMA QuietSteps ==
    ASSUME Inv, NEW j \in Job,
           FindSasFiles(j) \/ NextFile(j) \/ Done(j) \/ Raises(j) \/ CallFails(j) \/ Kill(j)
    PROVE  Inv' /\ SameOutputs
  <1> USE DEF At, Goto
  <1>1. JobInv(j) /\ tmp' \in [Job -> DOMAIN disk \cup {Absent}]
    BY DEF Inv, TypeOK, FindSasFiles, NextFile, Done, Raises, CallFails, Kill, LeaveFile
  <1>2. CASE FindSasFiles(j)
    BY <1>1, <1>2, DiskFrame DEF FindSasFiles, Inv, TypeOK, JobInv, Steps
  <1>3. CASE NextFile(j)
    BY SMTT(30), <1>1, <1>3, DiskFrame DEF NextFile, Inv, TypeOK, JobInv, Steps
  <1>4. CASE Done(j)
    BY <1>1, <1>4, DiskFrame DEF Done, LeaveDelivery, Inv, TypeOK, JobInv, Steps
  <1>5. CASE Raises(j)
    BY <1>1, <1>5, DiskFrame DEF Raises, Inv, TypeOK, JobInv, Fitting, Steps
  <1>6. CASE CallFails(j)
    BY ZenonT(60), <1>1, <1>6, DiskFrame DEF CallFails, Inv, TypeOK, JobInv, Fitting, Steps
  <1>7. CASE Kill(j)
    BY <1>1, <1>7, DiskFrame DEF Kill, LeaveFile, LeaveDelivery, Inv, TypeOK, JobInv, Steps
  <1> QED BY <1>2, <1>3, <1>4, <1>5, <1>6, <1>7

LEMMA FirstChunkStep ==
    ASSUME Inv, NEW j \in Job, FirstChunk(j)
    PROVE  Inv' /\ SameOutputs
  <1> DEFINE path == TmpPath(OutputOf[file[j]])
             content == [rows |-> <<Source(j)>>, closed |-> FALSE]
  <1>1. file[j] \in File /\ Source(j) \in Version /\ pc[j] = "read"
    BY DEF FirstChunk, HasChunk, Source, At, Inv, TypeOK, JobInv
  <1>2. path \in Paths \ DOMAIN disk /\ path[2] # 0 /\ path # Absent
    BY <1>1, FreshPath, FileHasOutput DEF Inv
  <1>4. content \in Contents /\ Len(content.rows) = 1 /\ content.rows[1] = Source(j)
    BY <1>1 DEF Contents
  <1> HIDE DEF path, content
  <1>5. disk' = Stored(path, content) /\ tmp' = [tmp EXCEPT ![j] = path]
    BY DEF FirstChunk, path, content
  <1>6. /\ locked' = [locked EXCEPT ![j] = Schema[Source(j)][1]]
        /\ UNCHANGED <<source, pc, todo, file, successes, failures>>
    BY DEF FirstChunk
  <1>7. locked' \in [Job -> Schemas \cup {Absent}]
        /\ locked'[j] = Schema[Source(j)][1]
    <2>1. Schema[Source(j)][1] \in Schemas
      <3>1. Chunks[Source(j)] \in Nat /\ 0 < Chunks[Source(j)]
        BY <1>1 DEF FirstChunk, HasChunk, Position, Written
      <3>2. 1 \in 1..Chunks[Source(j)]
        BY <3>1
      <3> QED BY <1>1, <3>2 DEF Schemas
    <2> QED BY <1>1, <1>6, <2>1 DEF Inv, TypeOK
  <1>8. Fitting(content, locked'[j])
    BY <1>4, <1>7 DEF Fitting, Columns
  <1>9. Len(content.rows) > 0 /\ (pc'[j] = "replace" => content.closed)
    BY <1>1, <1>4, <1>6
  <1> QED BY <1>1, <1>2, <1>4, <1>5, <1>6, <1>7, <1>8, <1>9, TmpWritten DEF Inv, TypeOK

LEMMA LaterChunkStep ==
    ASSUME Inv, NEW j \in Job, LaterChunk(j)
    PROVE  Inv' /\ SameOutputs
  <1> DEFINE old == disk[tmp[j]]
             content == [rows |-> Append(old.rows, Source(j)), closed |-> FALSE]
  <1>1. /\ pc[j] = "read" /\ tmp[j] # Absent
        /\ Source(j) \in Version
        /\ Provides(Schema[Source(j)][Position(j) + 1], locked[j])
    BY DEF LaterChunk, HasChunk, Fits, Source, At, Inv, TypeOK, JobInv
  <1>2. old \in Contents /\ Fitting(old, locked[j]) /\ Len(old.rows) > 0
    BY <1>1 DEF Inv, TypeOK, JobInv
  <1>4. /\ content.rows \in Seq(Version) /\ old.rows \in Seq(Version) /\ Len(content.rows) = Len(old.rows) + 1
        /\ \A i \in 1..Len(old.rows) : content.rows[i] = old.rows[i]
        /\ content.rows[Len(old.rows) + 1] = Source(j)
    BY <1>1, <1>2, AppendProperties DEF Contents
  <1>5. content \in Contents
    BY <1>4 DEF Contents
  <1>6. Fitting(content, locked[j])
    <2> HIDE DEF content
    <2>1. Len(old.rows) \in Nat
      BY <1>4, LenProperties
    <2>2. Position(j) = Len(old.rows)
      BY <1>1 DEF Position, Written
    <2>3. locked[j] = Columns(content, 1)
      <3>1. 1 \in 1..Len(old.rows)
        BY <1>2, <2>1
      <3>2. content.rows[1] = old.rows[1]
        BY <1>4, <3>1
      <3>3. locked[j] = Columns(old, 1)
        BY <1>2 DEF Fitting
      <3> QED BY <3>2, <3>3 DEF Columns
    <2>4. ASSUME NEW i \in 2..Len(content.rows)
          PROVE  Provides(Columns(content, i), locked[j])
      <3>1. CASE i \in 2..Len(old.rows)
        <4>1. content.rows[i] = old.rows[i]
          <5>1. i \in 1..Len(old.rows)
            BY <2>1, <3>1
          <5> QED BY <1>4, <5>1
        <4> QED BY <1>2, <3>1, <4>1 DEF Fitting, Columns
      <3>2. CASE i = Len(old.rows) + 1
        BY <1>1, <1>4, <2>2, <3>2 DEF Columns
      <3>3. i \in 2..Len(old.rows) + 1
        BY <1>4
      <3>4. i \in 2..Len(old.rows) \/ i = Len(old.rows) + 1
        BY <2>1, <3>3
      <3> QED BY <3>1, <3>2, <3>4
    <2> QED BY <2>3, <2>4 DEF Fitting
  <1>7. disk' = Stored(tmp[j], content)
    <2>1. Written(j) = old.rows
      BY <1>1 DEF Written
    <2>2. disk' = Stored(tmp[j], [rows |-> Append(Written(j), Source(j)), closed |-> FALSE])
      BY DEF LaterChunk
    <2> QED BY <2>1, <2>2
  <1>8. UNCHANGED <<source, pc, todo, file, tmp, locked, successes, failures>>
    BY DEF LaterChunk, convVars
  <1>9. tmp' = [tmp EXCEPT ![j] = tmp[j]]
    BY <1>8 DEF Inv, TypeOK
  <1>10. Len(content.rows) > 0
    BY <1>4, LenProperties
  <1> HIDE DEF content
  <1> QED BY <1>1, <1>5, <1>6, <1>7, <1>8, <1>9, <1>10, TmpWritten DEF Inv, TypeOK

LEMMA CloseStep ==
    ASSUME Inv, NEW j \in Job, Close(j)
    PROVE  Inv' /\ SameOutputs
  <1> DEFINE path == IF tmp[j] = Absent THEN TmpPath(OutputOf[file[j]]) ELSE tmp[j]
             content == [rows |-> Written(j), closed |-> TRUE]
  <1>1. pc[j] = "read" /\ file[j] \in File
    BY DEF Close, At, Inv, JobInv
  <1>3. content \in Contents /\ content.closed /\ Fitting(content, locked[j])
    <2>1. CASE tmp[j] = Absent
      BY <2>1 DEF Written, Contents, Fitting
    <2>2. CASE tmp[j] # Absent
      <3>1. disk[tmp[j]] \in Contents /\ Fitting(disk[tmp[j]], locked[j])
        BY <2>2 DEF Inv, TypeOK, JobInv
      <3>2. content.rows = disk[tmp[j]].rows /\ content.closed
        BY <2>2 DEF Written
      <3>3. content \in Contents
        BY <3>1, <3>2 DEF Contents
      <3> HIDE DEF content
      <3> QED BY <3>1, <3>2, <3>3 DEF Fitting, Columns
    <2> QED BY <2>1, <2>2
  <1>4. \/ tmp[j] # Absent /\ path = tmp[j]
        \/ path \in Paths \ DOMAIN disk /\ path[2] # 0 /\ path # Absent
    BY <1>1, FreshPath, FileHasOutput DEF Inv
  <1>5. disk' = Stored(path, content) /\ tmp' = [tmp EXCEPT ![j] = path]
    BY DEF Close
  <1>6. /\ UNCHANGED <<source, todo, file, locked, successes, failures>>
        /\ pc' = [pc EXCEPT ![j] = "replace"]
    BY DEF Close, Goto
  <1>7. pc' \in [Job -> Steps] /\ pc'[j] = "replace"
    BY <1>6 DEF Inv, TypeOK, Steps
  <1> HIDE DEF path, content
  <1> QED BY <1>1, <1>3, <1>4, <1>5, <1>6, <1>7, TmpWritten DEF Inv, TypeOK

\* The one step that changes what a reader finds.
LEMMA ReplaceStep ==
    ASSUME Inv, NEW j \in Job, Replace(j)
    PROVE  /\ Inv'
           /\ \E o \in Output : /\ Final(o) \in DOMAIN disk' /\ disk'[Final(o)] \in Whole
                                /\ \A q \in Output : q # o =>
                                      /\ Final(q) \in DOMAIN disk' <=> Final(q) \in DOMAIN disk
                                      /\ Final(q) \in DOMAIN disk => disk'[Final(q)] = disk[Final(q)]
  <1> DEFINE o == OutputOf[file[j]]
             path == Final(o)
  <1>1. /\ pc[j] = "replace" /\ file[j] \in File /\ o \in Output
        /\ tmp[j] # Absent /\ tmp[j] \in DOMAIN disk
        /\ disk[tmp[j]] \in Whole
    <2>1. JobInv(j) /\ pc[j] = "replace"
      BY DEF Replace, At, Inv
    <2>2. /\ tmp[j] # Absent /\ tmp[j] \in DOMAIN disk /\ disk[tmp[j]] \in Contents
          /\ disk[tmp[j]].closed /\ Fitting(disk[tmp[j]], locked[j])
      BY <2>1 DEF JobInv, Inv, TypeOK
    <2> QED BY <2>1, <2>2, FittingIsWhole, FileHasOutput DEF JobInv
  <1>2. /\ DOMAIN disk' = (DOMAIN disk \ {tmp[j]}) \cup {path}
        /\ disk'[path] = disk[tmp[j]]
        /\ \A p \in DOMAIN disk' : p # path => p # tmp[j] /\ p \in DOMAIN disk /\ disk'[p] = disk[p]
    BY DEF Replace
  <1>3. path \in Paths /\ \A q : path = Final(q) => q = o
    BY <1>1 DEF Final, Paths
  <1>4. \A i \in Job : tmp[i] # Absent => tmp[i] # path /\ tmp[i] \in DOMAIN disk
    BY TmpIsNoOutput
  <1>5. \A i \in Job : i # j /\ tmp[i] # Absent => tmp[i] \in DOMAIN disk' /\ disk'[tmp[i]] = disk[tmp[i]]
    <2> SUFFICES ASSUME NEW i \in Job, i # j, tmp[i] # Absent
                 PROVE  tmp[i] \in DOMAIN disk' /\ disk'[tmp[i]] = disk[tmp[i]]
      OBVIOUS
    <2>1. tmp[i] # tmp[j]
      BY <1>1 DEF Inv, TypeOK
    <2> QED BY <1>2, <1>4, <2>1
  <1>6. /\ UNCHANGED <<source, todo>>
        /\ pc' = [pc EXCEPT ![j] = "next"] /\ file' = [file EXCEPT ![j] = Absent]
        /\ tmp' = [tmp EXCEPT ![j] = Absent] /\ locked' = [locked EXCEPT ![j] = Absent]
        /\ successes' \in {successes, [successes EXCEPT ![j] = @ \cup {file[j]}]}
        /\ failures' \in {failures, [failures EXCEPT ![j] = @ \cup {file[j]}]}
    BY DEF Replace, LeaveFile, Goto
  <1>7. \A q \in Output : q # o =>
           /\ Final(q) \in DOMAIN disk' <=> Final(q) \in DOMAIN disk
           /\ Final(q) \in DOMAIN disk => disk'[Final(q)] = disk[Final(q)]
    <2> SUFFICES ASSUME NEW q \in Output, q # o
                 PROVE  /\ Final(q) \in DOMAIN disk' <=> Final(q) \in DOMAIN disk
                        /\ Final(q) \in DOMAIN disk => disk'[Final(q)] = disk[Final(q)]
      OBVIOUS
    <2>1. Final(q) # path /\ Final(q) # tmp[j]
      BY <1>1, <1>3, TmpIsNoOutput
    <2> QED BY <1>2, <2>1
  <1> HIDE DEF path, o
  <1>8. TypeOK'
    <2>1. DOMAIN disk' \subseteq Paths /\ \A p \in DOMAIN disk' : disk'[p] \in Contents
      BY <1>1, <1>2, <1>3 DEF Inv, TypeOK
    <2>2. tmp' \in [Job -> DOMAIN disk' \cup {Absent}]
      BY <1>5, <1>6 DEF Inv, TypeOK
    <2>3. \A i, k \in Job : tmp'[i] = tmp'[k] => i = k \/ tmp'[i] = Absent
      BY <1>6 DEF Inv, TypeOK
    <2>4. pc' \in [Job -> Steps] /\ file' \in [Job -> File \cup {Absent}]
          /\ locked' \in [Job -> Schemas \cup {Absent}]
          /\ successes' \in [Job -> SUBSET File] /\ failures' \in [Job -> SUBSET File]
      BY <1>1, <1>6 DEF Inv, TypeOK, Steps
    <2> QED BY <1>6, <2>1, <2>2, <2>3, <2>4 DEF Inv, TypeOK
  <1>9. IsFiniteSet(DOMAIN disk')
    <2>1. IsFiniteSet(DOMAIN disk \ {tmp[j]})
      BY FS_RemoveElement DEF Inv
    <2> QED BY <1>2, <2>1, FS_AddElement
  <1>10. ASSUME NEW i \in Job PROVE JobInv(i)'
    <2>1. CASE i = j
      BY <1>6, <2>1 DEF Inv, TypeOK, JobInv
    <2>2. CASE i # j
      <3>1. JobInv(i) /\ pc'[i] = pc[i] /\ file'[i] = file[i] /\ tmp'[i] = tmp[i]
            /\ locked'[i] = locked[i]
        BY <1>6, <2>2 DEF Inv, TypeOK
      <3> QED BY <1>5, <2>2, <3>1 DEF JobInv, Fitting
    <2> QED BY <2>1, <2>2
  <1>11. OutputsWhole'
    <2> SUFFICES ASSUME NEW q \in Output, Final(q) \in DOMAIN disk'
                 PROVE  disk'[Final(q)] \in Whole
      BY DEF OutputsWhole, Whole
    <2> QED BY <1>1, <1>2, <1>7 DEF path, Inv, OutputsWhole
  <1>12. ReportedThere'
    <2> SUFFICES ASSUME NEW i \in Job, NEW f \in successes'[i]
                 PROVE  Final(OutputOf[f]) \in DOMAIN disk'
      BY DEF ReportedThere
    <2>1. f \in File /\ OutputOf[f] \in Output
      BY <1>8, FileHasOutput DEF TypeOK
    <2>2. CASE OutputOf[f] = o
      BY <1>2, <2>2 DEF path
    <2>3. CASE OutputOf[f] # o
      <3>1. f \in successes[i]
        BY <1>6, <2>3 DEF o, Inv, TypeOK
      <3> QED BY <1>7, <2>1, <2>3, <3>1 DEF Inv, ReportedThere
    <2> QED BY <2>2, <2>3
  <1> QED BY <1>1, <1>2, <1>7, <1>8, <1>9, <1>10, <1>11, <1>12 DEF Inv, path

LEMMA CleanUpStep ==
    ASSUME Inv, NEW j \in Job, CleanUp(j)
    PROVE  Inv' /\ SameOutputs
  <1>1. CASE disk' = disk
    <2>1. /\ UNCHANGED <<source, disk>>
          /\ tmp' = [tmp EXCEPT ![j] = Absent]
          /\ file' = [file EXCEPT ![j] = Absent]
          /\ locked' = [locked EXCEPT ![j] = Absent]
          /\ file[j] \in File
      BY <1>1 DEF CleanUp, LeaveFile, At, Inv, JobInv
    <2>2. /\ pc' \in [Job -> Steps] /\ pc'[j] \in {"idle", "next"}
          /\ todo' \in [Job -> SUBSET File] /\ failures' \in [Job -> SUBSET File]
          /\ successes' \in [Job -> SUBSET File] /\ successes'[j] \subseteq successes[j]
          /\ \A i \in Job : i # j => pc'[i] = pc[i] /\ successes'[i] = successes[i]
      <3>1. CASE /\ Goto(j, "next") /\ UNCHANGED <<todo, successes>>
                 /\ failures' = [failures EXCEPT ![j] = @ \cup {file[j]}]
        BY <2>1, <3>1 DEF Goto, Inv, TypeOK, Steps
      <3>2. CASE LeaveDelivery(j)
        BY <2>1, <3>2 DEF LeaveDelivery, Goto, Inv, TypeOK, Steps
      <3> QED BY <3>1, <3>2 DEF CleanUp
    <2>3. /\ file' \in [Job -> File \cup {Absent}]
          /\ tmp' \in [Job -> DOMAIN disk \cup {Absent}] /\ tmp'[j] = Absent
          /\ locked' \in [Job -> Schemas \cup {Absent}]
          /\ \A i \in Job : i # j => /\ file'[i] = file[i] /\ tmp'[i] = tmp[i]
                                      /\ locked'[i] = locked[i]
      BY <2>1 DEF Inv, TypeOK
    <2>4. JobInv(j)'
      BY <2>2, <2>3 DEF JobInv
    <2> QED BY <2>1, <2>2, <2>3, <2>4, DiskFrame
  <1>2. CASE disk' = Unlinked(tmp[j])
    <2>1. /\ DOMAIN disk' = DOMAIN disk \ {tmp[j]}
          /\ \A p \in DOMAIN disk' : disk'[p] = disk[p]
      BY <1>2 DEF Unlinked
    <2>2. \A o \in Output : Final(o) # tmp[j]
      <3>1. \A o \in Output : Final(o) \in Paths
        BY DEF Final, Paths
      <3> QED BY <3>1, TmpIsNoOutput
    <2>3. SameOutputs
      BY <2>1, <2>2 DEF SameOutputs
    <2>4. /\ UNCHANGED source
          /\ pc' \in [Job -> Steps] /\ pc'[j] \in {"idle", "next"}
          /\ file' \in [Job -> File \cup {Absent}]
          /\ tmp' = [tmp EXCEPT ![j] = Absent]
          /\ locked' \in [Job -> Schemas \cup {Absent}]
          /\ todo' \in [Job -> SUBSET File] /\ failures' \in [Job -> SUBSET File]
          /\ successes' \in [Job -> SUBSET File] /\ successes'[j] \subseteq successes[j]
      <3>1. /\ UNCHANGED source /\ tmp' = [tmp EXCEPT ![j] = Absent]
            /\ file' = [file EXCEPT ![j] = Absent]
            /\ locked' = [locked EXCEPT ![j] = Absent]
            /\ file[j] \in File
        BY DEF CleanUp, LeaveFile, At, Inv, JobInv
      <3>2. CASE /\ Goto(j, "next") /\ UNCHANGED <<todo, successes>>
                 /\ failures' = [failures EXCEPT ![j] = @ \cup {file[j]}]
        BY <3>1, <3>2 DEF Goto, Inv, TypeOK, Steps
      <3>3. CASE LeaveDelivery(j)
        BY <3>1, <3>3 DEF LeaveDelivery, Goto, Inv, TypeOK, Steps
      <3> QED BY <3>2, <3>3 DEF CleanUp
    <2>5. \A i \in Job : i # j => /\ pc'[i] = pc[i] /\ file'[i] = file[i] /\ tmp'[i] = tmp[i]
                                  /\ locked'[i] = locked[i] /\ successes'[i] = successes[i]
      BY DEF CleanUp, LeaveFile, LeaveDelivery, Goto, Inv, TypeOK
    <2>6. \A i \in Job : i # j /\ tmp[i] # Absent =>
             tmp[i] \in DOMAIN disk' /\ disk'[tmp[i]] = disk[tmp[i]]
      BY <2>1 DEF Inv, TypeOK
    <2>7. TypeOK'
      <3>1. DOMAIN disk' \subseteq Paths /\ \A p \in DOMAIN disk' : disk'[p] \in Contents
        BY <2>1 DEF Inv, TypeOK
      <3>2. tmp' \in [Job -> DOMAIN disk' \cup {Absent}]
        BY <2>4, <2>6 DEF Inv, TypeOK
      <3>3. \A i, k \in Job : tmp'[i] = tmp'[k] => i = k \/ tmp'[i] = Absent
        BY <2>4 DEF Inv, TypeOK
      <3> QED BY <2>4, <3>1, <3>2, <3>3 DEF Inv, TypeOK
    <2>8. ASSUME NEW i \in Job PROVE JobInv(i)'
      <3>1. CASE i = j
        BY <2>4, <3>1 DEF Inv, TypeOK, JobInv
      <3>2. CASE i # j
        <4>1. JobInv(i)
          BY DEF Inv
        <4> QED BY <2>5, <2>6, <3>2, <4>1 DEF JobInv, Fitting
      <3> QED BY <3>1, <3>2
    <2>9. IsFiniteSet(DOMAIN disk')
      BY <2>1, FS_RemoveElement DEF Inv
    <2>10. OutputsWhole'
      BY <2>3 DEF SameOutputs, Inv, OutputsWhole, Whole
    <2>11. ReportedThere'
      <3> SUFFICES ASSUME NEW i \in Job, NEW f \in successes'[i]
                   PROVE  Final(OutputOf[f]) \in DOMAIN disk'
        BY DEF ReportedThere
      <3>1. f \in successes[i]
        BY <2>4, <2>5
      <3>2. f \in File
        BY <3>1 DEF Inv, TypeOK
      <3> QED BY <2>3, <3>1, <3>2, FileHasOutput DEF SameOutputs, Inv, ReportedThere
    <2> QED BY <2>3, <2>7, <2>8, <2>9, <2>10, <2>11 DEF Inv
  <1> QED BY <1>1, <1>2 DEF CleanUp

LEMMA SourceStep ==
    ASSUME Inv, NEW f \in File, SourceChanges(f)
    PROVE  Inv' /\ SameOutputs
  <1>1. /\ UNCHANGED <<disk, pc, todo, file, tmp, locked, successes, failures>>
        /\ source' \in [File -> Version \cup {Absent}]
    BY DEF SourceChanges, convVars, Inv, TypeOK
  <1> QED BY <1>1 DEF Inv, TypeOK, JobInv, Fitting, OutputsWhole, ReportedThere, Whole, SameOutputs

LEMMA Inductive == Inv /\ [Next]_vars => Inv'
  <1> SUFFICES ASSUME Inv, [Next]_vars PROVE Inv'
    OBVIOUS
  <1>1. CASE UNCHANGED vars
    <2>1. UNCHANGED <<source, disk, pc, todo, file, tmp, locked, successes, failures>>
      BY <1>1 DEF vars, convVars
    <2> QED BY <2>1 DEF Inv, TypeOK, JobInv, Fitting, OutputsWhole, ReportedThere, Whole
  <1> QED BY <1>1, QuietSteps, FirstChunkStep, LaterChunkStep, CloseStep, ReplaceStep,
             CleanUpStep, SourceStep DEF Next, FileStep

LEMMA Initial == Init => Inv
  <1> SUFFICES ASSUME Init PROVE Inv
    OBVIOUS
  <1>1. DOMAIN disk = {}
    BY DEF Init
  <1>2. IsFiniteSet(DOMAIN disk)
    BY <1>1, FS_EmptySet
  <1>3. TypeOK
    BY <1>1 DEF Init, TypeOK, Steps
  <1>4. (\A j \in Job : JobInv(j)) /\ OutputsWhole /\ ReportedThere
    BY <1>1 DEF Init, JobInv, OutputsWhole, ReportedThere
  <1> QED BY <1>2, <1>3, <1>4 DEF Inv

\* Whoever converts what at the same time, and wherever calls fail and
\* processes are killed, the variables keep their types and no two conversions
\* share a tmp file.
THEOREM TypeCorrect == Spec => []TypeOK
  <1>1. Inv => TypeOK
    BY DEF Inv
  <1> QED BY <1>1, Initial, Inductive, PTL DEF Spec

\* A file that will be reported as converted has a whole output.
THEOREM WhatIsReportedIsThere == Spec => []ReportedIsThere
  <1>1. Inv => ReportedIsThere
    <2> SUFFICES ASSUME Inv, NEW j \in Job, NEW f \in successes[j]
                 PROVE  Final(OutputOf[f]) \in DOMAIN disk /\ disk[Final(OutputOf[f])] \in Whole
      BY DEF ReportedIsThere
    <2>1. f \in File /\ Final(OutputOf[f]) \in DOMAIN disk
      BY DEF Inv, TypeOK, ReportedThere
    <2> QED BY <2>1, FileHasOutput DEF Inv, OutputsWhole
  <1> QED BY <1>1, Initial, Inductive, PTL DEF Spec

\* The conversion implements AtomicOutputs: whoever reads an output finds none
\* or a whole one, and it changes only by being replaced by a whole one.
THEOREM ConversionIsAtomic == Spec => ReadersSeeWholeFiles
  <1> DEFINE out == [o \in Output |-> IF Final(o) \in DOMAIN disk THEN disk[Final(o)] ELSE Absent]
  <1>1. Init => Outputs!Init
    BY DEF Init, Outputs!Init
  <1>2. Inv /\ [Next]_vars => [Outputs!Next]_out
    <2> SUFFICES ASSUME Inv, [Next]_vars PROVE Outputs!Next \/ out' = out
      OBVIOUS
    <2>1. CASE SameOutputs
      BY <2>1 DEF SameOutputs
    <2>2. ASSUME NEW j \in Job, Replace(j) PROVE Outputs!Next
      <3>1. PICK o \in Output :
               /\ Final(o) \in DOMAIN disk' /\ disk'[Final(o)] \in Whole
               /\ \A q \in Output : q # o =>
                     /\ Final(q) \in DOMAIN disk' <=> Final(q) \in DOMAIN disk
                     /\ Final(q) \in DOMAIN disk => disk'[Final(q)] = disk[Final(q)]
        BY <2>2, ReplaceStep
      <3>2. out'[o] \in Whole /\ out' = [out EXCEPT ![o] = out'[o]]
        BY <3>1
      <3> QED BY <3>2 DEF Outputs!Next, Outputs!Replace
    <2>3. CASE UNCHANGED vars
      BY <2>3 DEF vars
    <2> QED BY <2>1, <2>2, <2>3, QuietSteps, FirstChunkStep, LaterChunkStep, CloseStep,
               CleanUpStep, SourceStep DEF Next, FileStep
  <1> QED BY <1>1, <1>2, Initial, Inductive, PTL DEF Spec, ReadersSeeWholeFiles, Outputs!Spec

\* A step leaves behind no tmp file that its job had open, unless it counts it
\* as litter.
LEMMA NoNewLitter ==
    ASSUME Inv, TmpOnlyIfKilled, NEW j \in Job,
           littered \subseteq littered',
           \A i \in Job : i # j => tmp'[i] = tmp[i],
           \A p \in DOMAIN disk' : p[2] # 0 => p \in DOMAIN disk \/ p = tmp'[j],
           tmp[j] \in DOMAIN disk' => tmp[j] = tmp'[j] \/ tmp[j] \in littered'
    PROVE  TmpOnlyIfKilled'
  BY DEF TmpOnlyIfKilled

\* Nothing litters the directory but what killed processes and failed unlinks
\* have left.
THEOREM LitterExplained == Spec => []TmpOnlyIfKilled
  <1>1. Init => TmpOnlyIfKilled
    BY DEF Init, TmpOnlyIfKilled
  <1>2. Inv /\ TmpOnlyIfKilled /\ [Next]_vars => TmpOnlyIfKilled'
    <2> SUFFICES ASSUME Inv, TmpOnlyIfKilled, [Next]_vars PROVE TmpOnlyIfKilled'
      OBVIOUS
    <2>1. CASE UNCHANGED <<disk, tmp, littered>>
      BY <2>1 DEF TmpOnlyIfKilled
    <2>2. CASE UNCHANGED vars \/ \E f \in File : SourceChanges(f)
      BY <2>1, <2>2 DEF vars, convVars, SourceChanges
    <2>3. ASSUME NEW j \in Job,
                 \/ FindSasFiles(j) \/ NextFile(j) \/ Done(j) \/ Raises(j) \/ CallFails(j)
                 \/ LaterChunk(j)
          PROVE  TmpOnlyIfKilled'
      <3>1. CASE LaterChunk(j)
        <4>1. tmp[j] \in DOMAIN disk
          BY <3>1 DEF LaterChunk, Inv, TypeOK
        <4>2. DOMAIN disk' = DOMAIN disk
          BY <3>1, <4>1 DEF LaterChunk, Stored
        <4> QED BY <3>1, <4>2 DEF LaterChunk, convVars, TmpOnlyIfKilled
      <3> QED BY <2>1, <2>3, <3>1 DEF FindSasFiles, NextFile, Done, Raises, CallFails
    <2>4. ASSUME NEW j \in Job, FirstChunk(j) \/ Close(j) PROVE TmpOnlyIfKilled'
      <3>1. /\ UNCHANGED littered /\ \A i \in Job : i # j => tmp'[i] = tmp[i]
            /\ DOMAIN disk' = DOMAIN disk \cup {tmp'[j]}
            /\ tmp[j] = Absent \/ tmp'[j] = tmp[j]
        BY <2>4 DEF FirstChunk, Close, Stored, Inv, TypeOK
      <3>2. tmp[j] = Absent => tmp[j] \notin DOMAIN disk'
        BY <2>4, FirstChunkStep, CloseStep DEF Inv, TypeOK
      <3> QED BY <3>1, <3>2, NoNewLitter
    <2>5. ASSUME NEW j \in Job, Replace(j) PROVE TmpOnlyIfKilled'
      <3>1. /\ UNCHANGED littered /\ \A i \in Job : i # j => tmp'[i] = tmp[i]
            /\ DOMAIN disk' = (DOMAIN disk \ {tmp[j]}) \cup {Final(OutputOf[file[j]])}
        BY <2>5 DEF Replace, LeaveFile, Inv, TypeOK
      <3>2. tmp[j] # Final(OutputOf[file[j]])
        BY <2>5, TmpIsNoOutput DEF Replace, At, Inv, JobInv
      <3>3. Final(OutputOf[file[j]])[2] = 0
        BY DEF Final
      <3> QED BY <3>1, <3>2, <3>3, NoNewLitter
    <2>6. ASSUME NEW j \in Job, CleanUp(j) \/ Kill(j) PROVE TmpOnlyIfKilled'
      <3>1. /\ littered \subseteq littered' /\ DOMAIN disk' \subseteq DOMAIN disk
            /\ \A i \in Job : i # j => tmp'[i] = tmp[i]
            /\ tmp[j] \in DOMAIN disk' => tmp[j] \in littered' \/ tmp[j] = Absent
        BY <2>6 DEF CleanUp, Kill, LeaveFile, Unlinked, Inv, TypeOK
      <3>2. Absent \notin DOMAIN disk'
        BY <3>1 DEF Inv, TypeOK
      <3> QED BY <3>1, <3>2, NoNewLitter
    <2> QED BY <2>2, <2>3, <2>4, <2>5, <2>6 DEF Next, FileStep
  <1> QED BY <1>1, <1>2, Initial, Inductive, PTL DEF Spec

-----------------------------------------------------------------------------
(* OneVersionUnlessReplaced.  While nobody replaces the file a conversion   *)
(* reads, its row groups are the first chunks of what the share holds.      *)

Copies(n, v) == [i \in 1..n |-> v]

ReadInv(j) ==
    file[j] \in File \ replaced =>
        /\ pc[j] = "read" /\ tmp[j] # Absent =>
              \E n \in Nat : /\ source[file[j]] \in Version /\ n <= Chunks[source[file[j]]]
                             /\ disk[tmp[j]].rows = Copies(n, source[file[j]])
        /\ pc[j] = "replace" =>
              \E v \in Version : disk[tmp[j]].rows = Copies(Chunks[v], v)

VersionInv == (\A j \in Job : ReadInv(j)) /\ OneVersionUnlessReplaced

LEMMA CopiesProperties ==
    ASSUME NEW n \in Nat, NEW v
    PROVE  /\ Len(Copies(n, v)) = n
           /\ Append(Copies(n, v), v) = Copies(n + 1, v)
  <1>1. Copies(n, v) \in Seq({v}) /\ Len(Copies(n, v)) = n
    <2>1. Copies(n, v) \in Seq({v})
      BY IsASeq DEF Copies
    <2> QED BY <2>1 DEF Copies
  <1>2. Append(Copies(n, v), v) \in Seq({v}) /\ Len(Append(Copies(n, v), v)) = n + 1
    BY <1>1, AppendProperties
  <1>3. Copies(n + 1, v) \in Seq({v}) /\ Len(Copies(n + 1, v)) = n + 1
    <2>1. Copies(n + 1, v) \in Seq({v})
      BY IsASeq DEF Copies
    <2> QED BY <2>1 DEF Copies
  <1>4. \A i \in 1..n + 1 : Append(Copies(n, v), v)[i] = v /\ Copies(n + 1, v)[i] = v
    <2>1. \A i \in 1..n : Append(Copies(n, v), v)[i] = Copies(n, v)[i]
      BY <1>1, AppendProperties
    <2>2. Append(Copies(n, v), v)[n + 1] = v
      BY <1>1, AppendProperties
    <2>3. \A i \in 1..n + 1 : i \in 1..n \/ i = n + 1
      OBVIOUS
    <2> QED BY <2>1, <2>2, <2>3 DEF Copies
  <1>5. Append(Copies(n, v), v) = Copies(n + 1, v)
    BY <1>2, <1>3, <1>4, SeqEqual
  <1> QED BY <1>1, <1>5

\* A step of j that changes no output and no tmp file of another.
LEMMA VersionFrame ==
    ASSUME Inv, VersionInv, SameOutputs, NEW j \in Job,
           UNCHANGED <<source, replaced>>, ReadInv(j)',
           \A i \in Job : i # j => /\ pc'[i] = pc[i] /\ file'[i] = file[i] /\ tmp'[i] = tmp[i]
                                   /\ tmp[i] # Absent => disk'[tmp[i]] = disk[tmp[i]]
    PROVE  VersionInv'
  <1>1. ASSUME NEW i \in Job PROVE ReadInv(i)'
    <2> SUFFICES ASSUME i # j PROVE ReadInv(i)'
      OBVIOUS
    <2>1. ReadInv(i) /\ JobInv(i)
      BY DEF VersionInv, Inv
    <2> QED BY <2>1 DEF ReadInv, JobInv
  <1>2. OneVersionUnlessReplaced'
    BY FileHasOutput DEF VersionInv, OneVersionUnlessReplaced, SameOutputs
  <1> QED BY <1>1, <1>2 DEF VersionInv

LEMMA OthersTmp ==
    ASSUME Inv, NEW j \in Job, FileStep(j)
    PROVE  \A i \in Job : i # j =>
              /\ tmp'[i] = tmp[i]
              /\ tmp[i] # Absent => disk'[tmp[i]] = disk[tmp[i]]
  <1> SUFFICES ASSUME NEW i \in Job, i # j
               PROVE  tmp'[i] = tmp[i] /\ (tmp[i] # Absent => disk'[tmp[i]] = disk[tmp[i]])
    OBVIOUS
  <1>1. tmp[i] # Absent => tmp[i] \in DOMAIN disk /\ tmp[i] # tmp[j]
    BY DEF Inv, TypeOK
  <1>2. tmp'[i] = tmp[i]
    BY DEF FileStep, FirstChunk, LaterChunk, Raises, Close, Replace, CallFails, CleanUp,
           LeaveFile, convVars, Inv, TypeOK
  <1>3. CASE FirstChunk(j) \/ Close(j)
    <2>1. file[j] \in File
      BY <1>3 DEF FirstChunk, Close, At, Inv, JobInv
    <2>2. TmpPath(OutputOf[file[j]]) \notin DOMAIN disk
      BY <2>1, FreshPath, FileHasOutput DEF Inv
    <2> QED BY <1>1, <1>2, <1>3, <2>2 DEF FirstChunk, Close, Stored
  <1>4. CASE LaterChunk(j)
    BY <1>1, <1>2, <1>4 DEF LaterChunk, Stored
  <1>5. CASE Replace(j)
    BY <1>1, <1>2, <1>5, TmpIsNoOutput DEF Replace
  <1>6. CASE CleanUp(j)
    BY <1>1, <1>2, <1>6 DEF CleanUp, Unlinked
  <1>7. CASE Raises(j) \/ CallFails(j)
    BY <1>2, <1>7 DEF Raises, CallFails
  <1> QED BY <1>3, <1>4, <1>5, <1>6, <1>7 DEF FileStep

LEMMA ReadKeepsVersion ==
    ASSUME Inv, VersionInv, NEW j \in Job, FirstChunk(j) \/ LaterChunk(j) \/ Close(j)
    PROVE  VersionInv'
  <1> DEFINE v == Source(j)
  <1>1. /\ pc[j] = "read" /\ file[j] \in File
        /\ v = Source(j) /\ v = source[file[j]] /\ v \in Version
        /\ Chunks[v] \in Nat
        /\ UNCHANGED <<source, file, replaced>>
        /\ \A i \in Job : i # j => pc'[i] = pc[i]
    BY DEF FirstChunk, LaterChunk, Close, HasChunk, Source, At, Goto, convVars,
           Inv, TypeOK, JobInv
  <1> HIDE DEF v
  <1>2. SameOutputs /\ Inv'
    BY FirstChunkStep, LaterChunkStep, CloseStep
  <1>3. ReadInv(j)'
    <2> SUFFICES ASSUME file[j] \in File \ replaced PROVE ReadInv(j)'
      BY <1>1 DEF ReadInv
    <2>1. tmp[j] # Absent => \E n \in Nat : n <= Chunks[v] /\ Written(j) = Copies(n, v)
      BY <1>1 DEF VersionInv, ReadInv, Written
    <2>2. CASE FirstChunk(j)
      <3>1. disk'[tmp'[j]].rows = <<v>> /\ pc'[j] = "read" /\ Chunks[v] > 0
        <4>1. /\ tmp'[j] = TmpPath(OutputOf[file[j]])
              /\ disk' = Stored(tmp'[j], [rows |-> <<v>>, closed |-> FALSE])
              /\ pc' = pc
          BY <1>1, <2>2 DEF FirstChunk, Inv, TypeOK
        <4>2. disk'[tmp'[j]] = [rows |-> <<v>>, closed |-> FALSE]
          BY <4>1 DEF Stored
        <4>3. Chunks[v] > 0
          BY <1>1, <2>2 DEF FirstChunk, HasChunk, Position, Written
        <4>4. disk'[tmp'[j]].rows = <<v>>
          BY <4>2
        <4>5. pc'[j] = "read"
          BY <1>1, <4>1
        <4> QED BY <4>3, <4>4, <4>5
      <3>2. <<v>> = Copies(1, v)
        BY DEF Copies
      <3>3. 1 \in Nat /\ 1 <= Chunks[v]
        BY <1>1, <3>1
      <3> QED BY <1>1, <3>1, <3>2, <3>3 DEF ReadInv
    <2>3. CASE LaterChunk(j)
      <3>1. PICK n \in Nat : n <= Chunks[v] /\ Written(j) = Copies(n, v)
        BY <2>1, <2>3 DEF LaterChunk
      <3>2. /\ disk'[tmp'[j]].rows = Append(Written(j), v) /\ pc'[j] = "read"
            /\ Len(Written(j)) < Chunks[v]
        <4>1. /\ tmp' = tmp /\ pc' = pc
              /\ disk' = Stored(tmp[j], [rows |-> Append(Written(j), v), closed |-> FALSE])
          BY <1>1, <2>3 DEF LaterChunk, convVars
        <4>2. disk'[tmp[j]] = [rows |-> Append(Written(j), v), closed |-> FALSE]
          BY <4>1 DEF Stored
        <4>3. Len(Written(j)) < Chunks[v]
          BY <1>1, <2>3 DEF LaterChunk, HasChunk, Position
        <4>4. disk'[tmp'[j]].rows = Append(Written(j), v)
          <5> DEFINE rows == Append(Written(j), v)
          <5>1. disk'[tmp[j]] = [rows |-> rows, closed |-> FALSE]
            BY <4>2
          <5> HIDE DEF rows
          <5>2. disk'[tmp[j]].rows = rows
            BY <5>1
          <5> QED BY <4>1, <5>2 DEF rows
        <4>5. pc'[j] = "read"
          BY <1>1, <4>1
        <4> QED BY <4>3, <4>4, <4>5
      <3>3. n + 1 \in Nat /\ n + 1 <= Chunks[v] /\ disk'[tmp'[j]].rows = Copies(n + 1, v)
        <4>1. Len(Written(j)) = n
          BY <3>1, CopiesProperties
        <4>2. n < Chunks[v]
          BY <3>2, <4>1
        <4>3. disk'[tmp'[j]].rows = Append(Copies(n, v), v)
          BY <3>1, <3>2
        <4>4. Append(Copies(n, v), v) = Copies(n + 1, v)
          BY CopiesProperties
        <4>5. n + 1 \in Nat /\ n + 1 <= Chunks[v]
          BY <1>1, <4>2
        <4> QED BY <4>3, <4>4, <4>5
      <3> QED BY <1>1, <3>2, <3>3 DEF ReadInv
    <2>4. CASE Close(j)
      <3>1. /\ disk'[tmp'[j]].rows = Written(j) /\ pc'[j] = "replace"
            /\ ~(Len(Written(j)) < Chunks[v])
        <4>1. /\ tmp'[j] = IF tmp[j] = Absent THEN TmpPath(OutputOf[file[j]]) ELSE tmp[j]
              /\ disk' = Stored(tmp'[j], [rows |-> Written(j), closed |-> TRUE])
              /\ pc'[j] = "replace"
          BY <2>4 DEF Close, Goto, Inv, TypeOK
        <4>2. disk'[tmp'[j]] = [rows |-> Written(j), closed |-> TRUE]
          BY <4>1 DEF Stored
        <4>3. ~(Len(Written(j)) < Chunks[v])
          BY <1>1, <2>4 DEF Close, HasChunk, Position
        <4> QED BY <4>1, <4>2, <4>3
      <3>2. \E n \in Nat : n <= Chunks[v] /\ Written(j) = Copies(n, v)
        <4>1. CASE tmp[j] = Absent
          <5>1. Written(j) = <<>> /\ <<>> = Copies(0, v)
            BY <4>1 DEF Written, Copies
          <5> QED BY <1>1, <5>1
        <4> QED BY <2>1, <4>1
      <3>3. Written(j) = Copies(Chunks[v], v)
        <4>1. PICK n \in Nat : n <= Chunks[v] /\ Written(j) = Copies(n, v)
          BY <3>2
        <4>2. n = Chunks[v]
          BY <1>1, <3>1, <4>1, CopiesProperties
        <4> QED BY <4>1, <4>2
      <3> QED BY <1>1, <3>1, <3>3 DEF ReadInv
    <2> QED BY <2>2, <2>3, <2>4
  <1> QED BY <1>1, <1>2, <1>3, OthersTmp, VersionFrame DEF FileStep

LEMMA ReplaceKeepsVersion ==
    ASSUME Inv, VersionInv, NEW j \in Job, Replace(j)
    PROVE  VersionInv'
  <1> DEFINE o == OutputOf[file[j]]
  <1>1. /\ pc[j] = "replace" /\ file[j] \in File /\ o \in Output
        /\ UNCHANGED <<source, replaced>>
        /\ pc'[j] = "next" /\ file'[j] = Absent
        /\ \A i \in Job : i # j => pc'[i] = pc[i] /\ file'[i] = file[i]
    BY FileHasOutput DEF Replace, LeaveFile, At, Goto, Inv, TypeOK, JobInv
  <1>2. /\ disk'[Final(o)] = disk[tmp[j]]
        /\ \A p : p \in DOMAIN disk' /\ p # Final(o) => p \in DOMAIN disk /\ disk'[p] = disk[p]
    BY DEF Replace
  <1>3. ASSUME NEW i \in Job PROVE ReadInv(i)'
    <2>1. CASE i = j
      BY <1>1, <2>1 DEF ReadInv
    <2>2. CASE i # j
      <3>1. ReadInv(i) /\ JobInv(i)
        BY DEF VersionInv, Inv
      <3> QED BY <1>1, <2>2, <3>1, OthersTmp DEF FileStep, ReadInv, JobInv
    <2> QED BY <2>1, <2>2
  <1>4. ASSUME NEW f \in File \ replaced',
               \A g \in File : OutputOf[g] = OutputOf[f] => g = f,
               Final(OutputOf[f]) \in DOMAIN disk'
        PROVE  \E v \in Version : disk'[Final(OutputOf[f])].rows = [i \in 1..Chunks[v] |-> v]
    <2>1. CASE f = file[j]
      <3>1. \E v \in Version : disk[tmp[j]].rows = Copies(Chunks[v], v)
        BY <1>1, <1>4, <2>1 DEF VersionInv, ReadInv
      <3> QED BY <1>2, <2>1, <3>1 DEF Copies
    <2>2. CASE f # file[j]
      <3>1. Final(OutputOf[f]) # Final(o)
        BY <1>1, <1>4, <2>2 DEF Final
      <3> QED BY <1>1, <1>2, <1>4, <3>1 DEF VersionInv, OneVersionUnlessReplaced
    <2> QED BY <2>1, <2>2
  <1> QED BY <1>3, <1>4 DEF VersionInv, OneVersionUnlessReplaced

LEMMA OtherStepsKeepVersion ==
    ASSUME Inv, VersionInv, NEW j \in Job,
           \/ FindSasFiles(j) \/ NextFile(j) \/ Done(j) \/ Raises(j) \/ CallFails(j) \/ Kill(j)
           \/ CleanUp(j)
    PROVE  VersionInv'
  <1>1. SameOutputs
    BY QuietSteps, CleanUpStep
  <1>2. UNCHANGED <<source, replaced>>
    BY DEF FindSasFiles, NextFile, Done, Raises, CallFails, Kill, CleanUp
  <1>3. \/ pc'[j] \in {"idle", "next", "cleanup"}
        \/ pc'[j] = "read" /\ tmp'[j] = Absent
    <2>1. CASE CleanUp(j) \/ Kill(j)
      BY <2>1 DEF CleanUp, Kill, LeaveDelivery, Goto, Inv, TypeOK
    <2>2. CASE NextFile(j)
      BY <2>2 DEF NextFile, At, Goto, Inv, TypeOK, JobInv
    <2> QED BY <2>1, <2>2 DEF FindSasFiles, Done, Raises, CallFails, LeaveDelivery,
                              Goto, Inv, TypeOK
  <1>4. \A i \in Job : i # j => /\ pc'[i] = pc[i] /\ file'[i] = file[i] /\ tmp'[i] = tmp[i]
                                /\ tmp[i] # Absent => disk'[tmp[i]] = disk[tmp[i]]
    <2>1. CASE CleanUp(j)
      BY ZenonT(60), <2>1, OthersTmp DEF FileStep, CleanUp, LeaveFile, LeaveDelivery, Goto, Inv, TypeOK
    <2> QED BY <2>1 DEF FindSasFiles, NextFile, Done, Raises, CallFails, Kill,
                        LeaveFile, LeaveDelivery, Goto, Inv, TypeOK
  <1>5. ReadInv(j)'
    BY <1>3 DEF ReadInv
  <1> QED BY <1>1, <1>2, <1>4, <1>5, VersionFrame

LEMMA SourceKeepsVersion ==
    ASSUME Inv, VersionInv, NEW f \in File, SourceChanges(f)
    PROVE  VersionInv'
  <1>1. /\ UNCHANGED <<disk, pc, file, tmp>>
        /\ \A g \in File : g # f => source'[g] = source[g]
        /\ replaced \subseteq replaced'
        /\ \A j \in Job : pc[j] = "read" /\ file[j] = f => f \in replaced'
    BY DEF SourceChanges, convVars, At, Inv, TypeOK
  <1>2. ASSUME NEW j \in Job PROVE ReadInv(j)'
    <2>1. ReadInv(j)
      BY DEF VersionInv
    <2> QED BY <1>1, <2>1 DEF ReadInv
  <1> QED BY <1>1, <1>2 DEF VersionInv, OneVersionUnlessReplaced

\* An output holds all chunks of one version of its SAS file, in order, unless
\* the file was replaced while it was read, or another has the same stem:
\* whoever converts it at the same time.
THEOREM OutputsAreOneVersion == Spec => []OneVersionUnlessReplaced
  <1>1. Init => VersionInv
    BY DEF Init, VersionInv, ReadInv, OneVersionUnlessReplaced
  <1>2. Inv /\ VersionInv /\ [Next]_vars => VersionInv'
    <2> SUFFICES ASSUME Inv, VersionInv, [Next]_vars PROVE VersionInv'
      OBVIOUS
    <2>1. CASE UNCHANGED vars
      <3>1. UNCHANGED <<source, disk, pc, file, tmp, replaced>>
        BY <2>1 DEF vars, convVars
      <3> QED BY <3>1 DEF VersionInv, ReadInv, OneVersionUnlessReplaced
    <2> QED BY <2>1, ReadKeepsVersion, ReplaceKeepsVersion, OtherStepsKeepVersion,
               SourceKeepsVersion DEF Next, FileStep
  <1>3. VersionInv => OneVersionUnlessReplaced
    BY DEF VersionInv
  <1> QED BY <1>1, <1>2, <1>3, Initial, Inductive, PTL DEF Spec
=============================================================================
