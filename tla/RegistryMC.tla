----------------------------- MODULE RegistryMC -----------------------------
(* Instances of Registry for TLC: two lexicons of the repository, soc.qar   *)
(* (which sets passed_at) and soc.scdm (which does not).                    *)
EXTENDS Registry, TLC

CONSTANTS d1, d2, f1, f2

Lexicons == {"soc.qar", "soc.scdm"}
QAStatus == {"pending", "passed", "failed"}
Keys     == {"passed_at", "conversion_error"}

QAStatuses    == [l \in LexiconId |-> QAStatus]
QATransitions == [l \in LexiconId |->
                    [s \in QAStatus |->
                       IF s = "pending" THEN {"passed", "failed"} ELSE {}]]
QASetOn       == [l \in LexiconId |->
                    [f \in Keys |->
                       IF l = "soc.qar" /\ f = "passed_at" THEN "passed" ELSE None]]

PatchOf(status, converted, set, clear) ==
    [status |-> status, converted |-> converted, set |-> set, clear |-> clear]

\* A reviewer's verdicts (the last with metadata of his own), the two
\* reports of a converter, and an operator who clears an error.
Patches == { PatchOf("passed", FALSE, {}, {}),
             PatchOf("failed", FALSE, {}, {}),
             PatchOf("pending", FALSE, {}, {}),
             PatchOf("passed", FALSE, {}, {"passed_at"}),
             PatchOf(None, TRUE, {}, {}),
             PatchOf(None, FALSE, {"conversion_error"}, {}),
             PatchOf(None, FALSE, {}, {"conversion_error"}) }

=============================================================================
