---------------------------- MODULE ConvertFileMC ----------------------------
(* Two conversions of two files for TLC.  A column all of whose values in a *)
(* chunk are missing has the type "null", which any column takes.  Version  *)
(* 1 can be converted alone; version 2, whose first chunk has no dates, can *)
(* not, but has all the columns of version 1; version 3 has no chunks.      *)
EXTENDS ConvertFile, TLC
MCVersions == 1..3
MCChunks == <<2, 2, 0>>
MCSchema == << << "x" :> "date", "x" :> "null" >>,
               << "x" :> "null" @@ "y" :> "num", "x" :> "date" @@ "y" :> "num" >>,
               <<>> >>
Types == {"date", "num", "null"}
MCCastable == {<<t, t>> : t \in Types} \cup ({"null"} \X Types)
MCOutputOf == [f \in File |-> f]
Symmetric == Permutations(Job) \cup Permutations(File)
=============================================================================
