---------------------------- MODULE OrderedStream ----------------------------
(* What the event stream promises to its consumers: each handles published   *)
(* events, in the order of their sequence numbers, none twice, and skips     *)
(* none but those given up as lost before it goes on past them.              *)
EXTENDS Naturals, Sequences

CONSTANT Consumer

VARIABLES
    published,  \* the number of events published
    lost,       \* the events of which delivery is no more promised
    handled     \* handled[k]: the events k has handled, in order

Init == published = 0 /\ lost = {} /\ handled = [k \in Consumer |-> <<>>]

LastOf(q) == IF q = <<>> THEN 0 ELSE q[Len(q)]

\* Publishing an event may make the delivery of others fail.
Publish ==
    /\ published' \in {published, published + 1}
    /\ lost \subseteq lost' /\ lost' \ lost \subseteq 1..published'
    /\ UNCHANGED handled

Handle(k, s) ==
    /\ LastOf(handled[k]) < s /\ s <= published
    /\ (LastOf(handled[k]) + 1)..(s - 1) \subseteq lost
    /\ handled' = [handled EXCEPT ![k] = Append(@, s)]
    /\ UNCHANGED <<published, lost>>

Next == Publish \/ \E k \in Consumer : \E s \in 1..published : Handle(k, s)

Spec == Init /\ [][Next]_<<published, lost, handled>>
=============================================================================
