------------------------- MODULE EventStreamProofs -------------------------
(* Theorems about EventStream, for every value of its constants.           *)
EXTENDS EventStream, SequenceTheorems, FiniteSetTheorems, TLAPS

\* A call of broadcast that is not suspended has noted no connection.
LEMMA CallType ==
    /\ NoCall \in Call /\ NoCall.dead = {}
    /\ \A s \in Seqs : AbortedCall(s) \in Call /\ AbortedCall(s).dead = {}
  BY DEF NoCall, AbortedCall, Call

\* What a call of broadcast, started or resumed, leaves in the variables it
\* writes has the right type.
LEMMA DeliverType ==
    ASSUME TypeOK, NEW s \in Seqs, NEW rest \in SUBSET Conn,
           NEW dead \in SUBSET Conn, NEW size \in Nat,
           NEW lock \in [Conn -> Seq(Seqs)],
           Deliver(s, rest, dead, size, lock)
    PROVE  /\ bcast' \in [Seqs -> Call]
           /\ drain' \in [Conn -> Seq(Seqs)]
           /\ active' \subseteq Conn
           /\ chan' \in [Conn -> Seq(Seqs)]
           /\ disturbed' \subseteq Seqs
  <1>1. PICK stuck \in SUBSET {c \in rest : stat[c] = "cut"} :
           LET blockers == Blockers(rest, lock, stuck)
               reached  == Reached(rest, blockers)
               dead2    == dead \cup (reached \cap Closed)
           IN  /\ SendTo(s, reached)
               /\ \/ blockers = {} /\ BroadcastDone(s, dead2, lock)
                  \/ \E b \in blockers \cap reached :
                        BroadcastWaits(s, b, dead2, size, lock)
    BY DEF Deliver
  <1> DEFINE blockers == Blockers(rest, lock, stuck)
             reached  == Reached(rest, blockers)
             dead2    == dead \cup (reached \cap Closed)
  <1>2. dead2 \in SUBSET Conn /\ reached \subseteq Conn
    BY DEF Reached, Closed
  <1>3. chan' \in [Conn -> Seq(Seqs)]
    <2>1. \A c \in Conn : Append(chan[c], s) \in Seq(Seqs)
      BY AppendProperties DEF TypeOK
    <2> QED BY <1>1, <2>1 DEF SendTo, TypeOK
  <1>4. CASE BroadcastDone(s, dead2, lock)
    <2>1. bcast' \in [Seqs -> Call]
      BY <1>4, CallType DEF BroadcastDone, TypeOK
    <2>2. active' \subseteq Conn /\ disturbed' \subseteq Seqs
      BY <1>4 DEF BroadcastDone, TypeOK, SetActive, Waiting
    <2> QED BY <1>3, <1>4, <2>1, <2>2 DEF BroadcastDone
  <1>5. ASSUME NEW b \in blockers \cap reached,
               BroadcastWaits(s, b, dead2, size, lock)
        PROVE  /\ bcast' \in [Seqs -> Call]
               /\ drain' \in [Conn -> Seq(Seqs)]
               /\ active' \subseteq Conn
               /\ disturbed' \subseteq Seqs
    <2>1. bcast' \in [Seqs -> Call]
      BY <1>2, <1>5 DEF BroadcastWaits, TypeOK, Call
    <2>2. b \in Conn /\ Append(lock[b], s) \in Seq(Seqs)
      BY <1>2, AppendProperties
    <2> QED BY <1>5, <2>1, <2>2 DEF BroadcastWaits, TypeOK
  <1> QED BY <1>1, <1>3, <1>4, <1>5

\* insert_event extends the log within its bound, and its broadcast starts.
LEMMA CommitType ==
    ASSUME TypeOK, NEW origin \in 0..MaxSeq, Commit(origin)
    PROVE  /\ Len(log) + 1 \in Seqs
           /\ log' \in Seq(0..MaxSeq) /\ Len(log') <= MaxSeq
           /\ bcast' \in [Seqs -> Call]
           /\ drain' \in [Conn -> Seq(Seqs)]
           /\ active' \subseteq Conn
           /\ chan' \in [Conn -> Seq(Seqs)]
           /\ disturbed' \subseteq Seqs
  <1>1. /\ Len(log) < MaxSeq /\ log' = Append(log, origin)
        /\ Deliver(Len(log) + 1, active, {}, Cardinality(active), drain)
    BY DEF Commit
  <1>2. Len(log) \in Nat /\ Len(log) + 1 \in Seqs
    BY <1>1, BoundAssumption, LenProperties DEF TypeOK, Seqs
  <1>3. log' \in Seq(0..MaxSeq) /\ Len(log') = Len(log) + 1
    BY <1>1, AppendProperties DEF TypeOK
  <1>4. Cardinality(active) \in Nat
    BY ConnAssumption, FS_Subset, FS_CardinalityType DEF TypeOK
  <1>5. active \in SUBSET Conn /\ drain \in [Conn -> Seq(Seqs)]
    BY DEF TypeOK
  <1>6. {} \in SUBSET Conn
    OBVIOUS
  <1>7. /\ bcast' \in [Seqs -> Call]
        /\ drain' \in [Conn -> Seq(Seqs)]
        /\ active' \subseteq Conn
        /\ chan' \in [Conn -> Seq(Seqs)]
        /\ disturbed' \subseteq Seqs
    BY <1>1, <1>2, <1>4, <1>5, <1>6, DeliverType
  <1> QED BY <1>1, <1>2, <1>3, <1>7, BoundAssumption

\* A channel or buffer that loses its head, or all from some place on, still
\* holds events.
LEMMA QueueType ==
    ASSUME NEW q \in Seq(Seqs), q # <<>>
    PROVE  /\ Head(q) \in Seqs /\ Tail(q) \in Seq(Seqs)
           /\ \A n \in 0..(Len(q) - 1) : SubSeq(q, 1, n) \in Seq(Seqs)
  <1>1. Head(q) \in Seqs /\ Tail(q) \in Seq(Seqs)
    BY HeadTailProperties
  <1>2. ASSUME NEW n \in 0..(Len(q) - 1)
        PROVE  SubSeq(q, 1, n) \in Seq(Seqs)
    <2>1. \A i \in 1..n : q[i] \in Seqs
      BY LenProperties, ElementOfSeq
    <2> QED BY <2>1, SubSeqProperties, LenProperties
  <1> QED BY <1>1, <1>2

\* Whatever breaks and in whatever order, every variable keeps its type; in
\* particular a session that is over has given up its connection.
THEOREM TypeCorrect == Spec => []TypeOK
  <1> USE BoundAssumption, ConnAssumption DEF Seqs
  <1>1. Init => TypeOK
    <2> SUFFICES ASSUME Init PROVE TypeOK
      OBVIOUS
    <2>1. bcast \in [Seqs -> Call]
      BY DEF Init, Call, NoCall
    <2>2. <<>> \in Seq(Seqs) /\ <<>> \in Seq(0..MaxSeq) /\ Len(<<>>) = 0
      BY EmptySeq
    <2>3. NoConn \in Conn \cup {NoConn}
      OBVIOUS
    <2> QED BY <2>1, <2>2, <2>3 DEF Init, TypeOK
  <1>2. TypeOK /\ [Next]_vars => TypeOK'
    <2> SUFFICES ASSUME TypeOK, [Next]_vars PROVE TypeOK'
      OBVIOUS
    <2> USE DEF sessionVars, workVars, registryVars
    <2>1. CASE Post
      <3>1. Commit(0) /\ 0 \in 0..MaxSeq
        BY <2>1 DEF Post
      <3> QED BY <2>1, <3>1, CommitType DEF Post, TypeOK
    <2>2. CASE RegistryRestart
      <3>1. bcast' \in [Seqs -> Call]
        BY <2>2, CallType DEF RegistryRestart, TypeOK
      <3>2. <<>> \in Seq(Seqs)
        BY EmptySeq
      <3> QED BY <2>2, <3>1, <3>2 DEF RegistryRestart, TypeOK
    <2>3. ASSUME NEW c \in Conn, Resume(c) PROVE TypeOK'
      <3> DEFINE s    == Head(drain[c])
                 lock == [drain EXCEPT ![c] = Tail(@)]
                 rest == {d \in active : Slot[d] > Slot[c]}
                 dead == bcast[s].dead \cup (IF Drained(c) THEN {} ELSE {c})
      <3>1. s \in Seqs /\ lock \in [Conn -> Seq(Seqs)]
        BY <2>3, QueueType DEF Resume, TypeOK
      <3>2. rest \in SUBSET Conn /\ dead \in SUBSET Conn /\ bcast[s].size \in Nat
        BY <3>1 DEF TypeOK, Call
      <3>3. CASE Cardinality(active) # bcast[s].size
        <4>1. /\ bcast' = [bcast EXCEPT ![s] = AbortedCall(s)]
              /\ drain' = lock
              /\ UNCHANGED <<active, disturbed, chan>>
          BY <2>3, <3>3 DEF Resume
        <4>2. bcast' \in [Seqs -> Call]
          BY <3>1, <4>1, CallType DEF TypeOK
        <4> QED BY <2>3, <3>1, <4>1, <4>2 DEF Resume, TypeOK
      <3>4. CASE Deliver(s, rest, dead, bcast[s].size, lock)
        <4> HIDE DEF s, lock, rest, dead
        <4> QED BY <2>3, <3>1, <3>2, <3>4, DeliverType DEF Resume, TypeOK
      <3> QED BY <2>3, <3>3, <3>4 DEF Resume
    <2>4. ASSUME NEW c \in Conn, Drop(c) PROVE TypeOK'
      BY <2>4 DEF Drop, TypeOK
    <2>5. ASSUME NEW c \in Conn, LoseTail(c) PROVE TypeOK'
      <3>1. PICK n \in 0..(Len(chan[c]) - 1) :
               chan' = [chan EXCEPT ![c] = SubSeq(@, 1, n)]
        BY <2>5 DEF LoseTail
      <3>2. chan[c] \in Seq(Seqs) /\ chan[c] # <<>>
        BY <3>1 DEF TypeOK
      <3>3. SubSeq(chan[c], 1, n) \in Seq(Seqs)
        BY <3>2, QueueType
      <3> QED BY <2>5, <3>1, <3>3 DEF LoseTail, TypeOK
    <2>6. ASSUME NEW c \in Conn, ServerNotices(c) PROVE TypeOK'
      BY <2>6 DEF ServerNotices, Waiting, TypeOK
    <2>7. ASSUME NEW c \in Conn, Disconnect(c) PROVE TypeOK'
      BY <2>7 DEF Disconnect, SetActive, Waiting, TypeOK
    <2>8. ASSUME NEW k \in Consumer, NEW c \in Conn, Connect(k, c) PROVE TypeOK'
      <3>1. <<>> \in Seq(Seqs)
        BY EmptySeq
      <3> QED BY <2>8, <3>1 DEF Connect, SetActive, Waiting, TypeOK
    <2>9. ASSUME NEW k \in Consumer, BufferWs(k) PROVE TypeOK'
      <3>1. link[k] \in Conn
        BY <2>9 DEF BufferWs, TypeOK
      <3>2. Head(chan[link[k]]) \in Seqs /\ Tail(chan[link[k]]) \in Seq(Seqs)
        BY <2>9, <3>1, QueueType DEF BufferWs, TypeOK
      <3>3. Append(buf[k], Head(chan[link[k]])) \in Seq(Seqs)
        BY <3>2, AppendProperties DEF TypeOK
      <3> QED BY <2>9, <3>1, <3>2, <3>3 DEF BufferWs, TypeOK
    <2>10. ASSUME NEW k \in Consumer, CatchUpPage(k) PROVE TypeOK'
      <3>1. Len(log) \in Nat
        BY LenProperties DEF TypeOK
      <3>2. Smaller(last[k] + PageSize, Len(log)) \in 0..MaxSeq
        BY <3>1 DEF Smaller, TypeOK
      <3> QED BY <2>10, <3>2 DEF CatchUpPage, TypeOK
    <2>11. ASSUME NEW k \in Consumer, CatchUpEnd(k) PROVE TypeOK'
      BY <2>11 DEF CatchUpEnd, TypeOK
    <2>12. ASSUME NEW k \in Consumer, CatchUpFails(k) PROVE TypeOK'
      <3>1. link[k] \in Conn
        BY <2>12 DEF CatchUpFails, Requests, TypeOK
      <3>2. <<>> \in Seq(Seqs)
        BY EmptySeq
      <3> QED BY <2>12, <3>1, <3>2 DEF CatchUpFails, Requests, TypeOK
    <2>13. ASSUME NEW k \in Consumer, HandlePaged(k) PROVE TypeOK'
      BY <2>13 DEF HandlePaged, TypeOK
    <2>14. ASSUME NEW k \in Consumer, HandleBuffered(k) PROVE TypeOK'
      <3>1. Head(buf[k]) \in Seqs /\ Tail(buf[k]) \in Seq(Seqs)
        BY <2>14, QueueType DEF HandleBuffered, TypeOK
      <3> QED BY SMTT(30), <2>14, <3>1 DEF HandleBuffered, TypeOK
    <2>15. ASSUME NEW k \in Consumer, ReplayEnd(k) PROVE TypeOK'
      BY <2>15 DEF ReplayEnd, TypeOK
    <2>16. ASSUME NEW k \in Consumer, HandleLive(k) PROVE TypeOK'
      <3>1. link[k] \in Conn
        BY <2>16 DEF HandleLive, TypeOK
      <3>2. /\ Head(chan[link[k]]) \in Seqs
            /\ Tail(chan[link[k]]) \in Seq(Seqs)
        BY <2>16, <3>1, QueueType DEF HandleLive, TypeOK
      <3>3. busy' \in [Consumer -> 0..MaxSeq] /\ chan' \in [Conn -> Seq(Seqs)]
        BY SMTT(30), <2>16, <3>1, <3>2 DEF HandleLive, TypeOK
      <3> QED BY <2>16, <3>3 DEF HandleLive, TypeOK
    <2>17. ASSUME NEW k \in Consumer, SessionEnd(k) PROVE TypeOK'
      BY <2>17 DEF SessionEnd, TypeOK
    <2>18. ASSUME NEW k \in Consumer, Attempt(k) PROVE TypeOK'
      <3>1. Commit(busy[k]) /\ busy[k] \in 0..MaxSeq
        BY <2>18 DEF Attempt, TypeOK
      <3> QED BY <2>18, <3>1, CommitType DEF Attempt, TypeOK
    <2>19. ASSUME NEW k \in Consumer, Finish(k) PROVE TypeOK'
      <3>1. busy[k] \in Seqs
        BY <2>19 DEF Finish, TypeOK
      <3>2. Append(handled[k], busy[k]) \in Seq(Seqs)
        BY <3>1, AppendProperties DEF TypeOK
      <3>3. /\ handled' = [handled EXCEPT ![k] = Append(@, busy[k])]
            /\ last' = [last EXCEPT ![k] = busy[k]]
            /\ busy' = [busy EXCEPT ![k] = 0]
            /\ posted' = [posted EXCEPT ![k] = {}]
            /\ UNCHANGED <<registryVars, stat, chan, sessionVars>>
        BY <2>19 DEF Finish
      <3> QED BY SMTT(30), <3>1, <3>2, <3>3 DEF TypeOK
    <2>20. ASSUME NEW k \in Consumer, CatchUpEmpty(k) PROVE TypeOK'
      BY <2>20 DEF CatchUpEmpty, Requests, TypeOK
    <2>21. CASE UNCHANGED vars
      BY <2>21 DEF vars, TypeOK
    <2> QED
      BY <2>1, <2>2, <2>3, <2>4, <2>5, <2>6, <2>7, <2>8, <2>9, <2>10, <2>11,
         <2>12, <2>13, <2>14, <2>15, <2>16, <2>17, <2>18, <2>19, <2>20,
         <2>21
      DEF Next, ConnStep, ConsumerStep, Emit, Retry
  <1> QED BY <1>1, <1>2, PTL DEF Spec

-----------------------------------------------------------------------------
(* HandledInOrder.  What makes it inductive: a consumer's history ends at  *)
(* _last_seq, and the event on_event is handling is beyond it.             *)

OrderInv ==
    \A k \in Consumer :
        /\ \A i \in 1..Len(handled[k]) : handled[k][i] <= last[k]
        /\ \A i, j \in 1..Len(handled[k]) :
              i < j => handled[k][i] < handled[k][j]
        /\ busy[k] = 0 \/ busy[k] > last[k]

\* Only the steps of a consumer that start or finish an event touch what
\* OrderInv is about.
LEMMA OrderStep == TypeOK /\ OrderInv /\ [Next]_vars => OrderInv'
  <1> SUFFICES ASSUME TypeOK, OrderInv, [Next]_vars PROVE OrderInv'
    OBVIOUS
  <1> USE DEF workVars
  <1>1. CASE UNCHANGED <<busy, last, handled>>
    BY <1>1 DEF OrderInv
  <1>2. ASSUME NEW k \in Consumer, HandlePaged(k) PROVE OrderInv'
    BY <1>2 DEF HandlePaged, OrderInv, TypeOK
  <1>3. ASSUME NEW k \in Consumer, HandleBuffered(k) PROVE OrderInv'
    BY <1>3 DEF HandleBuffered, IsNew, OrderInv, TypeOK
  <1>4. ASSUME NEW k \in Consumer, HandleLive(k) PROVE OrderInv'
    BY SMTT(30), <1>4 DEF HandleLive, IsNew, OrderInv, TypeOK
  <1>5. ASSUME NEW k \in Consumer, Finish(k) PROVE OrderInv'
    <2>1. busy[k] \in Seqs /\ busy[k] > last[k] /\ last[k] \in Nat
      BY <1>5, BoundAssumption DEF Finish, OrderInv, TypeOK, Seqs
    <2>2. /\ handled'[k] = Append(handled[k], busy[k])
          /\ last'[k] = busy[k] /\ busy'[k] = 0
          /\ \A j \in Consumer \ {k} : /\ handled'[j] = handled[j]
                                      /\ last'[j] = last[j] /\ busy'[j] = busy[j]
      BY <1>5 DEF Finish, TypeOK
    <2>3. /\ Len(handled'[k]) = Len(handled[k]) + 1
          /\ \A i \in 1..Len(handled[k]) : handled'[k][i] = handled[k][i]
          /\ handled'[k][Len(handled[k]) + 1] = busy[k]
          /\ Len(handled[k]) \in Nat
          /\ \A i \in 1..Len(handled[k]) : handled[k][i] \in Nat
      <3>1. handled[k] \in Seq(Seqs)
        BY DEF TypeOK
      <3>2. \A i \in 1..Len(handled[k]) : handled[k][i] \in Seqs
        BY <3>1, ElementOfSeq
      <3> QED BY <2>1, <2>2, <3>1, <3>2, AppendProperties, LenProperties,
                 BoundAssumption DEF Seqs
    <2>4. \A i \in 1..Len(handled[k]) : handled[k][i] <= last[k]
      BY DEF OrderInv
    <2>5. \A i, j \in 1..Len(handled[k]) : i < j => handled[k][i] < handled[k][j]
      BY DEF OrderInv
    <2>6. \A i \in 1..Len(handled'[k]) : handled'[k][i] <= last'[k]
      BY <2>1, <2>2, <2>3, <2>4, BoundAssumption DEF Seqs
    <2>7. \A i, j \in 1..Len(handled'[k]) :
             i < j => handled'[k][i] < handled'[k][j]
      BY <2>1, <2>2, <2>3, <2>4, <2>5, BoundAssumption DEF Seqs
    <2> QED BY <2>2, <2>6, <2>7 DEF OrderInv
  <1> QED
    BY <1>1, <1>2, <1>3, <1>4, <1>5
    DEF Next, ConnStep, ConsumerStep, vars, Post, RegistryRestart, Resume, Drop,
        LoseTail, ServerNotices, Disconnect, Connect, BufferWs, CatchUpPage,
        CatchUpEmpty, CatchUpEnd, CatchUpFails, ReplayEnd, SessionEnd, Emit, Retry, Attempt

\* No consumer completes an event twice or out of order: the dedup test of
\* _session and the order of catch-up pages suffice, for any number of
\* consumers and connections and whatever breaks.
THEOREM HandledInOrderHolds == Spec => []HandledInOrder
  <1>1. Init => OrderInv
    <2> SUFFICES ASSUME Init, NEW k \in Consumer
                 PROVE  handled[k] = <<>> /\ busy[k] = 0
      BY EmptySeq DEF OrderInv
    <2> QED BY DEF Init
  <1>2. OrderInv => HandledInOrder
    BY DEF OrderInv, HandledInOrder
  <1> QED BY <1>1, <1>2, OrderStep, TypeCorrect, PTL DEF Spec

-----------------------------------------------------------------------------
(* LiveSessionRegistered.  A connection that a broadcast has noted as dead  *)
(* is closed, and stays so: its object is not reused while it is noted.     *)

DeadAreClosed ==
    \A s \in Seqs : \A c \in bcast[s].dead : stat[c] \in {"lost", "none"}

LiveInv == DeadAreClosed /\ LiveSessionRegistered

\* A call of broadcast notes only closed connections, and discards only them.
LEMMA DeliverLive ==
    ASSUME TypeOK, LiveInv, NEW s \in Seqs, NEW rest \in SUBSET Conn,
           NEW dead \in SUBSET Conn, NEW size \in Nat,
           \A c \in dead : stat[c] \in {"lost", "none"},
           NEW lock \in [Conn -> Seq(Seqs)],
           Deliver(s, rest, dead, size, lock)
    PROVE  /\ \A t \in Seqs : \A c \in bcast'[t].dead : stat[c] \in {"lost", "none"}
           /\ \A c \in active : stat[c] = "open" => c \in active'
  <1>1. PICK stuck \in SUBSET {c \in rest : stat[c] = "cut"} :
           LET blockers == Blockers(rest, lock, stuck)
               reached  == Reached(rest, blockers)
               dead2    == dead \cup (reached \cap Closed)
           IN  \/ BroadcastDone(s, dead2, lock)
               \/ \E b \in blockers \cap reached :
                     BroadcastWaits(s, b, dead2, size, lock)
    BY DEF Deliver
  <1> DEFINE blockers == Blockers(rest, lock, stuck)
             reached  == Reached(rest, blockers)
             dead2    == dead \cup (reached \cap Closed)
  <1>2. \A c \in dead2 : stat[c] \in {"lost", "none"}
    BY DEF Closed
  <1> HIDE DEF dead2
  <1>3. CASE BroadcastDone(s, dead2, lock)
    <2>1. \A t \in Seqs : bcast'[t].dead = IF t = s THEN {} ELSE bcast[t].dead
      BY <1>3, CallType DEF BroadcastDone, TypeOK
    <2> QED BY <1>2, <1>3, <2>1 DEF BroadcastDone, SetActive, LiveInv, DeadAreClosed
  <1>4. ASSUME NEW b \in blockers \cap reached,
               BroadcastWaits(s, b, dead2, size, lock)
        PROVE  /\ \A t \in Seqs : \A c \in bcast'[t].dead : stat[c] \in {"lost", "none"}
               /\ \A c \in active : stat[c] = "open" => c \in active'
    <2>1. \A t \in Seqs : bcast'[t].dead = IF t = s THEN dead2 ELSE bcast[t].dead
      BY <1>4 DEF BroadcastWaits, TypeOK
    <2> QED BY <1>2, <1>4, <2>1 DEF BroadcastWaits, LiveInv, DeadAreClosed
  <1> QED BY <1>1, <1>3, <1>4 DEF dead2

\* Nothing but a call of broadcast and a loss of connections touches what
\* LiveInv is about.
LEMMA LiveStep == TypeOK /\ LiveInv /\ [Next]_vars => LiveInv'
  <1> SUFFICES ASSUME TypeOK, LiveInv, [Next]_vars PROVE LiveInv'
    OBVIOUS
  <1> USE DEF sessionVars, workVars, registryVars
  <1>1. CASE UNCHANGED <<bcast, stat, active, phase, link>>
    BY <1>1 DEF LiveInv, DeadAreClosed, LiveSessionRegistered
  <1>2. ASSUME NEW origin \in 0..MaxSeq, Commit(origin),
               UNCHANGED <<stat, phase, link>>
        PROVE  LiveInv'
    <2>1. Len(log) + 1 \in Seqs
      BY <1>2, CommitType
    <2>2. /\ active \in SUBSET Conn /\ {} \in SUBSET Conn
          /\ drain \in [Conn -> Seq(Seqs)] /\ Cardinality(active) \in Nat
      BY ConnAssumption, FS_Subset, FS_CardinalityType DEF TypeOK
    <2>3. Deliver(Len(log) + 1, active, {}, Cardinality(active), drain)
      BY <1>2 DEF Commit
    <2>4. /\ \A t \in Seqs : \A c \in bcast'[t].dead : stat[c] \in {"lost", "none"}
          /\ \A c \in active : stat[c] = "open" => c \in active'
      BY <2>1, <2>2, <2>3, DeliverLive
    <2> QED BY <1>2, <2>4 DEF LiveInv, DeadAreClosed, LiveSessionRegistered
  <1>3. ASSUME NEW c \in Conn, Resume(c) PROVE LiveInv'
    <2> DEFINE s    == Head(drain[c])
               lock == [drain EXCEPT ![c] = Tail(@)]
               rest == {d \in active : Slot[d] > Slot[c]}
               dead == bcast[s].dead \cup (IF Drained(c) THEN {} ELSE {c})
    <2>1. s \in Seqs /\ lock \in [Conn -> Seq(Seqs)]
      BY <1>3, QueueType DEF Resume, TypeOK
    <2>2. rest \in SUBSET Conn /\ dead \in SUBSET Conn /\ bcast[s].size \in Nat
      BY <2>1 DEF TypeOK, Call
    <2>3. \A d \in dead : stat[d] \in {"lost", "none"}
      <3>1. \A d \in bcast[s].dead : stat[d] \in {"lost", "none"}
        BY <2>1 DEF LiveInv, DeadAreClosed
      <3>2. ~Drained(c) => stat[c] \in {"lost", "none"}
        BY <1>3 DEF Resume
      <3> QED BY <3>1, <3>2
    <2>4. CASE Cardinality(active) # bcast[s].size
      <3>1. bcast' = [bcast EXCEPT ![s] = AbortedCall(s)]
        BY <1>3, <2>4 DEF Resume
      <3>2. \A t \in Seqs : bcast'[t].dead = IF t = s THEN {} ELSE bcast[t].dead
        BY <2>1, <3>1, CallType DEF TypeOK
      <3> QED BY <1>3, <2>4, <3>2
              DEF Resume, LiveInv, DeadAreClosed, LiveSessionRegistered
    <2>5. CASE Deliver(s, rest, dead, bcast[s].size, lock)
      <3> HIDE DEF s, lock, rest, dead
      <3>1. /\ \A t \in Seqs : \A d \in bcast'[t].dead : stat[d] \in {"lost", "none"}
            /\ \A d \in active : stat[d] = "open" => d \in active'
        BY <2>1, <2>2, <2>3, <2>5, DeliverLive
      <3> QED BY <1>3, <3>1
              DEF Resume, LiveInv, DeadAreClosed, LiveSessionRegistered
    <2> QED BY <1>3, <2>4, <2>5 DEF Resume
  <1>4. CASE RegistryRestart
    <2>1. \A t \in Seqs : \A c \in bcast'[t].dead : c \in Conn
      BY <1>4, CallType DEF RegistryRestart, TypeOK, Call
    <2> QED BY <1>4, <2>1
            DEF RegistryRestart, TypeOK, LiveInv, DeadAreClosed, LiveSessionRegistered
  <1>5. ASSUME NEW c \in Conn, Drop(c) \/ ServerNotices(c) \/ Disconnect(c)
        PROVE  LiveInv'
    <2>1. CASE Drop(c)
      BY <2>1 DEF Drop, TypeOK, LiveInv, DeadAreClosed, LiveSessionRegistered
    <2>2. CASE ServerNotices(c)
      <3>1. stat' = [stat EXCEPT ![c] = "lost"]
            /\ UNCHANGED <<bcast, active, phase, link>>
        BY <2>2 DEF ServerNotices
      <3> QED BY <3>1 DEF TypeOK, LiveInv, DeadAreClosed, LiveSessionRegistered
    <2>3. CASE Disconnect(c)
      <3>1. /\ stat' = [stat EXCEPT ![c] = "none"]
            /\ active' = active \ {c}
            /\ UNCHANGED <<bcast, phase, link>>
        BY <2>3 DEF Disconnect, SetActive
      <3> QED BY <3>1 DEF TypeOK, LiveInv, DeadAreClosed, LiveSessionRegistered
    <2> QED BY <1>5, <2>1, <2>2, <2>3
  <1>6. ASSUME NEW k \in Consumer, NEW c \in Conn, Connect(k, c) PROVE LiveInv'
    BY <1>6 DEF Connect, Fresh, SetActive, TypeOK, LiveInv, DeadAreClosed,
                LiveSessionRegistered
  <1>7. ASSUME NEW k \in Consumer, CatchUpFails(k) PROVE LiveInv'
    BY <1>7 DEF CatchUpFails, TypeOK, LiveInv, DeadAreClosed, LiveSessionRegistered
  <1>8. ASSUME NEW k \in Consumer,
               \/ CatchUpEmpty(k) \/ CatchUpEnd(k)
               \/ ReplayEnd(k) \/ SessionEnd(k)
        PROVE  LiveInv'
    <2>1. /\ UNCHANGED <<bcast, stat, active>>
          /\ phase[k] # "idle"
          /\ \A j \in Consumer : phase'[j] # "idle" =>
                phase[j] # "idle" /\ link'[j] = link[j]
      BY <1>8 DEF CatchUpEmpty, CatchUpEnd, Requests, ReplayEnd, SessionEnd,
                  TypeOK
    <2> QED BY <2>1 DEF LiveInv, DeadAreClosed, LiveSessionRegistered
  <1>9. ASSUME Post \/ \E k \in Consumer : Attempt(k) PROVE LiveInv'
    BY <1>2, <1>9, BoundAssumption DEF Post, Attempt, TypeOK
  <1> QED
    BY <1>1, <1>3, <1>4, <1>5, <1>6, <1>7, <1>8, <1>9
    DEF Next, ConnStep, ConsumerStep, vars, LoseTail, BufferWs, CatchUpPage,
        HandlePaged, HandleBuffered, HandleLive, Emit, Retry, Finish

\* The clean-up of dead connections never silences a live session: while the
\* server holds a session's connection open, broadcast serves it.
THEOREM LiveSessionRegisteredHolds == Spec => []LiveSessionRegistered
  <1>1. Init => LiveInv
    BY DEF Init, NoCall, LiveInv, DeadAreClosed, LiveSessionRegistered
  <1>2. LiveInv => LiveSessionRegistered
    BY DEF LiveInv
  <1> QED BY <1>1, <1>2, LiveStep, TypeCorrect, PTL DEF Spec

=============================================================================
