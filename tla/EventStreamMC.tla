--------------------------- MODULE EventStreamMC ---------------------------
(* Instances of EventStream for TLC.                                        *)
EXTENDS EventStream, TLC

CONSTANTS c1, c2, a, b

TwoSlots == c1 :> 1 @@ c2 :> 2

=============================================================================
