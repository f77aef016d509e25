---------------------------- MODULE AtomicOutputs ----------------------------
(* What the file conversion promises to whoever reads its outputs: a        *)
(* Parquet file is absent or whole, and changes only by being replaced by    *)
(* another whole one ("Atomic write", convert_sas_to_parquet).               *)
CONSTANTS
    Output,   \* the names of the Parquet files
    Whole,    \* the contents that are whole
    Absent    \* no such file

VARIABLE out  \* out[o]: what a reader of o finds

Init == out = [o \in Output |-> Absent]

Replace(o) ==
    /\ out'[o] \in Whole
    /\ out' = [out EXCEPT ![o] = out'[o]]

Next == \E o \in Output : Replace(o)

Spec == Init /\ [][Next]_out
=============================================================================
