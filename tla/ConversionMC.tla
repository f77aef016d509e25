---------------------------- MODULE ConversionMC ----------------------------
(* Instances of Conversion for TLC.                                         *)
EXTENDS Conversion, TLC

CONSTANTS x, y

NoShard   == [w \in Cli |-> 0]
OneShard  == [w \in Cli |-> 1]
TwoShards == [w \in Cli |-> 2]
XFirst    == x :> 0 @@ y :> 1

\* The behaviours in which the daemon does not run.
BackfillNext ==
    \/ \E d \in Delivery : Redeliver(d) \/ Crawl(d)
    \/ \E w \in Cli : EngineStep(w) \/ CliStep(w)

BackfillSpec == Init /\ [][BackfillNext]_vars

=============================================================================
