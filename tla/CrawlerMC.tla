------------------------------ MODULE CrawlerMC ------------------------------
(* Instances of Crawler for TLC: the lexicon soc.qar of the repository and  *)
(* one without a hook, that knows another terminal.                         *)
EXTENDS Crawler

CONSTANTS a, b

Lexicons   == {"soc.qar", "arc"}
QAStatus   == {"pending", "passed", "failed"}
QAStatuses == [l \in Lexicons |-> QAStatus]
QATransitions ==
    [l \in Lexicons |-> [s \in QAStatus |->
        IF s = "pending" THEN {"passed", "failed"} ELSE {}]]
QADirMap  == [l \in Lexicons |-> IF l = "arc" THEN "final" :> "passed"
                                ELSE "msoc" :> "passed" @@ "msoc_new" :> "pending"]
QASubDirs == [l \in Lexicons |-> IF l = "soc.qar" THEN "snap" :> "arc" ELSE <<>>]

\* The registry may have been started before "arc" was written.
Installs == {Lexicons, {"soc.qar"}}

Roots       == {"qa", "old"}
RootTarget  == [r \in Roots |-> "packages"]
RootLexicons == "qa" :> "soc.qar" @@ "old" :> "arc"

Name(workplan, dp, version) ==
    [workplan |-> workplan, dp |-> dp, version |-> version, segments |-> 3]

\* Names of version directories.
Names == "w1_mk_v09"   :> Name("w1", "mk", <<0, 9>>)
      @@ "w1_mk_v10"   :> Name("w1", "mk", <<1, 0>>)
      @@ "w2_mk_v1"    :> Name("w2", "mk", <<1>>)
      @@ "w1_nsdp_v01" :> Name("w1", "nsdp", <<0, 1>>)

At(version, rest) == <<"qa", "mk", "packages", "q", version>> \o rest

First    == At("w1_mk_v09", <<"msoc_new">>)
Snapshot == At("w1_mk_v09", <<"msoc_new", "snap">>)
Passed   == At("w1_mk_v09", <<"msoc">>)
Moved    == At("w1_mk_v09", <<"msoc", "snap">>)
Second   == At("w1_mk_v10", <<"msoc_new">>)
Foreign  == At("w2_mk_v1", <<"final">>)
Barred   == At("w1_nsdp_v01", <<"msoc">>)
BarredDir == <<"qa", "nsdp">>
Sibling   == <<"qa", "mk", "compare">>

Tree(leaves) == UNION {Above(p) : p \in leaves}

\* One delivery at first, with directories that the walk does not enter; it
\* is superseded, passed, joined by another or gone as the share changes.
AllPaths   == Tree({Snapshot, Moved, Second, Foreign, Barred, BarredDir, Sibling})
SomeShares == {Tree({First, BarredDir, Sibling})}
Moving     == {First, Passed, Second, Snapshot, Foreign, Barred}

=============================================================================
