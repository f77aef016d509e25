------------------------ MODULE EventStreamGapProofs ------------------------
(* NoGapUnlessDisturbed and DeliversInOrder, the refinement of             *)
(* OrderedStream, for every value of the constants of EventStream.         *)
(*                                                                         *)
(* The argument: as long as the broadcast of an event is undisturbed, it   *)
(* waits at a connection ahead of which no later broadcast has got, so     *)
(* that every connection gets undisturbed events in the order of their     *)
(* seqs.  From the empty catch-up page on, an undisturbed event that a     *)
(* session has not handled is therefore on its way to it, and before all   *)
(* later ones.                                                             *)
EXTENDS EventStreamProofs

-----------------------------------------------------------------------------
(* The broadcasts.  `d` stands for drain, or for drain without the call    *)
(* that is being carried on.                                               *)

\* A call waits at one place.
OnePlace(d) ==
    \A b, c \in Conn : \A i \in 1..Len(d[b]), j \in 1..Len(d[c]) :
        d[b][i] = d[c][j] => b = c /\ i = j

\* No later call has got past an undisturbed one.
NoneOvertakes(d, dist) ==
    \A b, c \in Conn : \A i \in 1..Len(d[b]), j \in 1..Len(d[c]) :
        /\ d[b][i] \notin dist
        /\ d[b][i] < d[c][j]
        => Slot[c] < Slot[b] \/ (c = b /\ i < j)

\* An undisturbed call waits at a connection that is served and has not
\* been found closed, and the set it iterates has not changed.
UndisturbedGoOn(d, dist) ==
    \A b \in Conn : \A i \in 1..Len(d[b]) :
        /\ bcast[d[b][i]].pc = "waiting"
        /\ d[b][i] \notin dist =>
              /\ b \in active /\ stat[b] \in {"open", "cut"}
              /\ bcast[d[b][i]].size = Cardinality(active)

WaitingAreKnown == \A s \in Waiting : s <= Len(log)

BroadcastInv ==
    /\ OnePlace(drain)
    /\ NoneOvertakes(drain, disturbed)
    /\ UndisturbedGoOn(drain, disturbed)
    /\ WaitingAreKnown

-----------------------------------------------------------------------------
(* The sessions.                                                           *)

\* What session k has received and not handled, in the order it will.
Incoming(k) == buf[k] \o chan[link[k]]

Within(q, t) == \E i \in 1..Len(q) : q[i] = t

\* Sessions that have had the empty catch-up page.
Fed(k) == phase[k] \in {"caughtup", "replay", "listen"}

\* t is still to be handled by k, and its broadcast undisturbed.
Due(k, t) == last[k] < t /\ t # busy[k] /\ t \notin disturbed

OwnConnection ==
    \A j, k \in Consumer :
        phase[j] # "idle" /\ phase[k] # "idle" /\ link[j] = link[k] => j = k

\* Messages are of committed events; the buffer is empty when listening
\* begins; the page is what the log had.
MessagesAreKnown(k) ==
    /\ phase[k] = "listen" => buf[k] = <<>>
    /\ phase[k] # "idle" =>
          \A i \in 1..Len(Incoming(k)) : Incoming(k)[i] <= Len(log)
    /\ last[k] <= Len(log) /\ page[k] <= Len(log) /\ busy[k] <= Len(log)

\* With l the last event handled, w the one being handled and q what is
\* received: an event to be handled is received before any later one.
InOrder(q, l, w, dist) ==
    \A j \in 1..Len(q) : \A t \in Seqs :
        l < t /\ t # w /\ t \notin dist /\ t < q[j] =>
            \E i \in 1..(j - 1) : q[i] = t

ReceivedInOrder(k) ==
    Fed(k) => InOrder(Incoming(k), last[k], busy[k], disturbed)

\* While its connection is open, a due event has been received or its
\* broadcast waits ahead of the connection.
NoneMissed(k) ==
    Fed(k) /\ stat[link[k]] = "open" =>
        \A t \in 1..Len(log) : Due(k, t) =>
            \/ Within(Incoming(k), t)
            \/ \E b \in Conn : Slot[b] < Slot[link[k]] /\ Within(drain[b], t)

\* on_event works for the next event but for disturbed ones.
WorksForNext(k) ==
    busy[k] # 0 =>
        \A t \in Seqs : last[k] < t /\ t < busy[k] => t \in disturbed

SessionOf(k) ==
    /\ MessagesAreKnown(k) /\ ReceivedInOrder(k) /\ NoneMissed(k)
    /\ WorksForNext(k)

SessionInv == OwnConnection /\ \A k \in Consumer : SessionOf(k)

\* The history ends at _last_seq.
LastIsHandled == \A k \in Consumer : last[k] = Stream!LastOf(handled[k])

StreamInv == /\ BroadcastInv /\ SessionInv
             /\ NoGapUnlessDisturbed /\ LastIsHandled

-----------------------------------------------------------------------------
(* Queues.                                                                 *)

\* How the steps of the buffer task, the replay and the listening loop change
\* what is received.
LEMMA Queues ==
    ASSUME NEW p \in Seq(Seqs), NEW q \in Seq(Seqs)
    PROVE  /\ p \o q \in Seq(Seqs)
           /\ q # <<>> => Append(p, Head(q)) \o Tail(q) = p \o q
           /\ p # <<>> => /\ p \o q # <<>> /\ Head(p \o q) = Head(p)
                         /\ Tail(p \o q) = Tail(p) \o q
           /\ p = <<>> => p \o q = q
           /\ \A e \in Seqs : p \o Append(q, e) = Append(p \o q, e)
  <1>1. p \o q \in Seq(Seqs)
    BY ConcatProperties
  <1>2. ASSUME q # <<>> PROVE Append(p, Head(q)) \o Tail(q) = p \o q
    <2>1. Head(q) = q[1]
      OBVIOUS
    <2> DEFINE p2 == Append(p, Head(q))
               q2 == Tail(q)
    <2>2. /\ q2 \in Seq(Seqs) /\ Len(q2) = Len(q) - 1 /\ Head(q) \in Seqs
          /\ \A i \in 1..Len(q2) : q2[i] = q[i + 1]
      BY <1>2, HeadTailProperties
    <2>3. /\ p2 \in Seq(Seqs) /\ Len(p2) = Len(p) + 1
          /\ \A i \in 1..Len(p) : p2[i] = p[i]
          /\ p2[Len(p) + 1] = q[1]
      BY <2>1, <2>2, AppendProperties
    <2>4. Len(p) \in Nat /\ Len(q) \in Nat
      BY LenProperties
    <2> HIDE DEF p2, q2
    <2>5. /\ p2 \o q2 \in Seq(Seqs) /\ Len(p2 \o q2) = Len(p2) + Len(q2)
          /\ \A i \in 1..Len(p2) + Len(q2) : (p2 \o q2)[i] =
                 IF i <= Len(p2) THEN p2[i] ELSE q2[i - Len(p2)]
      BY <2>2, <2>3, ConcatProperties
    <2>6. /\ Len(p \o q) = Len(p) + Len(q)
          /\ \A i \in 1..Len(p) + Len(q) : (p \o q)[i] =
                 IF i <= Len(p) THEN p[i] ELSE q[i - Len(p)]
      BY ConcatProperties
    <2>7. Len(p2 \o q2) = Len(p \o q)
      BY <2>2, <2>3, <2>4, <2>5, <2>6
    <2>8. ASSUME NEW i \in 1..Len(p2 \o q2) PROVE (p2 \o q2)[i] = (p \o q)[i]
      <3>1. CASE i <= Len(p)
        BY <2>2, <2>3, <2>4, <2>5, <2>6, <3>1
      <3>2. CASE i = Len(p) + 1
        <4>1. (p2 \o q2)[i] = p2[Len(p) + 1]
          BY <2>2, <2>3, <2>4, <2>5, <3>2
        <4>2. (p \o q)[i] = q[1]
          BY <2>2, <2>3, <2>4, <2>5, <2>6, <3>2
        <4> QED BY <2>3, <4>1, <4>2
      <3>3. CASE i > Len(p) + 1
        <4>1. (p2 \o q2)[i] = q2[i - (Len(p) + 1)]
          BY <2>2, <2>3, <2>4, <2>5, <3>3
        <4>2. (p \o q)[i] = q[i - Len(p)]
          BY <2>2, <2>3, <2>4, <2>5, <2>6, <3>3
        <4>3. i - (Len(p) + 1) \in 1..Len(q2)
          BY <2>2, <2>3, <2>4, <2>5, <3>3
        <4>4. q2[i - (Len(p) + 1)] = q[(i - (Len(p) + 1)) + 1]
          BY <2>2, <4>3
        <4>5. (i - (Len(p) + 1)) + 1 = i - Len(p)
          BY <2>4, <2>7
        <4> QED BY <4>1, <4>2, <4>4, <4>5
      <3> QED BY <2>2, <2>3, <2>4, <2>5, <3>1, <3>2, <3>3
    <2>9. p2 \o q2 = p \o q
      BY <1>1, <2>5, <2>7, <2>8, SeqEqual
    <2> QED BY <2>9 DEF p2, q2
  <1>3. ASSUME p # <<>>
        PROVE  /\ p \o q # <<>> /\ Head(p \o q) = Head(p)
               /\ Tail(p \o q) = Tail(p) \o q
    <2>1. Len(p) \in Nat \ {0} /\ Len(q) \in Nat
      BY <1>3, EmptySeq, LenProperties
    <2>2. /\ Len(p \o q) = Len(p) + Len(q)
          /\ \A i \in 1..Len(p) + Len(q) : (p \o q)[i] =
                 IF i <= Len(p) THEN p[i] ELSE q[i - Len(p)]
      BY ConcatProperties
    <2>3. p \o q # <<>>
      BY <2>1, <2>2, EmptySeq
    <2>4. Head(p \o q) = Head(p)
      BY <2>1, <2>2
    <2> DEFINE r == p \o q
               p2 == Tail(p)
    <2>5. /\ Tail(r) \in Seq(Seqs) /\ Len(Tail(r)) = Len(r) - 1
          /\ \A i \in 1..Len(Tail(r)) : Tail(r)[i] = r[i + 1]
      BY <1>1, <2>3, HeadTailProperties
    <2>6. /\ p2 \in Seq(Seqs) /\ Len(p2) = Len(p) - 1
          /\ \A i \in 1..Len(p2) : p2[i] = p[i + 1]
      BY <1>3, HeadTailProperties
    <2> HIDE DEF p2
    <2>7. /\ p2 \o q \in Seq(Seqs) /\ Len(p2 \o q) = Len(p2) + Len(q)
          /\ \A i \in 1..Len(p2) + Len(q) : (p2 \o q)[i] =
                 IF i <= Len(p2) THEN p2[i] ELSE q[i - Len(p2)]
      BY <2>6, ConcatProperties
    <2>8. Len(Tail(r)) = Len(p2 \o q)
      BY <2>1, <2>2, <2>5, <2>6, <2>7
    <2>9. ASSUME NEW i \in 1..Len(Tail(r)) PROVE Tail(r)[i] = (p2 \o q)[i]
      BY <2>1, <2>2, <2>5, <2>6, <2>7
    <2>10. Tail(r) = p2 \o q
      BY <2>5, <2>7, <2>8, <2>9, SeqEqual
    <2> QED BY <2>3, <2>4, <2>10 DEF p2
  <1>4. p = <<>> => p \o q = q
    BY ConcatEmptySeq
  <1>5. ASSUME NEW e \in Seqs PROVE p \o Append(q, e) = Append(p \o q, e)
    <2>1. <<e>> \in Seq(Seqs)
      OBVIOUS
    <2>2. p \o (q \o <<e>>) = (p \o q) \o <<e>>
      BY <2>1, ConcatAssociative
    <2> QED BY <1>1, <2>2, AppendIsConcat
  <1> QED BY <1>1, <1>2, <1>3, <1>4, <1>5

\* A loss of the tail of the channel is one of the tail of what is received.
LEMMA Prefixes ==
    ASSUME NEW p \in Seq(Seqs), NEW q \in Seq(Seqs), NEW n \in 0..Len(q)
    PROVE  /\ SubSeq(q, 1, n) \in Seq(Seqs)
           /\ Len(p \o SubSeq(q, 1, n)) \in 0..Len(p \o q)
           /\ \A i \in 1..Len(p \o SubSeq(q, 1, n)) :
                 (p \o SubSeq(q, 1, n))[i] = (p \o q)[i]
  <1>1. Len(p) \in Nat /\ Len(q) \in Nat /\ \A i \in 1..n : q[i] \in Seqs
    BY LenProperties, ElementOfSeq
  <1> DEFINE q2 == SubSeq(q, 1, n)
  <1>2. /\ q2 \in Seq(Seqs) /\ Len(q2) = n /\ \A i \in 1..n : q2[i] = q[i]
    BY <1>1, SubSeqProperties
  <1> HIDE DEF q2
  <1>3. /\ Len(p \o q2) = Len(p) + n
        /\ \A i \in 1..Len(p) + n : (p \o q2)[i] =
               IF i <= Len(p) THEN p[i] ELSE q2[i - Len(p)]
    BY <1>2, ConcatProperties
  <1>4. /\ Len(p \o q) = Len(p) + Len(q)
        /\ \A i \in 1..Len(p) + Len(q) : (p \o q)[i] =
               IF i <= Len(p) THEN p[i] ELSE q[i - Len(p)]
    BY ConcatProperties
  <1>5. ASSUME NEW i \in 1..Len(p \o q2) PROVE (p \o q2)[i] = (p \o q)[i]
    BY <1>1, <1>2, <1>3, <1>4
  <1> QED BY <1>1, <1>2, <1>3, <1>4, <1>5 DEF q2

\* The order holds on as events are disturbed, when the event that is being
\* handled is done, and on what is left when the tail is lost.
LEMMA OrderKept ==
    ASSUME NEW q \in Seq(Seqs), NEW l \in 0..MaxSeq, NEW w \in 0..MaxSeq,
           NEW dist, NEW dist2, dist \subseteq dist2,
           InOrder(q, l, w, dist)
    PROVE  /\ InOrder(q, l, w, dist2)
           /\ w > l => InOrder(q, w, 0, dist2)
           /\ \A r \in Seq(Seqs) :
                 /\ Len(r) \in 0..Len(q)
                 /\ \A i \in 1..Len(r) : r[i] = q[i]
                 => InOrder(r, l, w, dist2)
  <1> USE BoundAssumption DEF Seqs
  <1>1. Len(q) \in Nat
    BY LenProperties
  <1>2. InOrder(q, l, w, dist2)
    BY DEF InOrder
  <1>3. w > l => InOrder(q, w, 0, dist2)
    BY DEF InOrder
  <1>4. ASSUME NEW r \in Seq(Seqs), Len(r) \in 0..Len(q),
               \A i \in 1..Len(r) : r[i] = q[i]
        PROVE  InOrder(r, l, w, dist2)
    <2> SUFFICES ASSUME NEW j \in 1..Len(r), NEW t \in Seqs,
                        l < t, t # w, t \notin dist2, t < r[j]
                 PROVE  \E i \in 1..(j - 1) : r[i] = t
      BY DEF InOrder
    <2>1. j \in 1..Len(q) /\ t < q[j]
      <3>1. j \in 1..Len(q)
        BY <1>1, <1>4
      <3>2. r[j] = q[j]
        BY <1>4
      <3> QED BY <3>1, <3>2
    <2>2. PICK i \in 1..(j - 1) : q[i] = t
      BY <1>2, <2>1 DEF InOrder
    <2>3. i \in 1..Len(r)
      BY <1>1, <1>4, <2>2
    <2> QED BY <1>4, <2>2, <2>3
  <1> QED BY <1>2, <1>3, <1>4

\* The dedup test of the replay and of the listening loop finds the next
\* undisturbed event, or one that is no more to be handled.
LEMMA OrderPopped ==
    ASSUME NEW q \in Seq(Seqs), q # <<>>, NEW l \in 0..MaxSeq, NEW dist,
           InOrder(q, l, 0, dist),
           NEW w, w = IF Head(q) > l THEN Head(q) ELSE 0
    PROVE  /\ InOrder(Tail(q), l, w, dist)
           /\ w # 0 => \A t \in Seqs : l < t /\ t < w => t \in dist
           /\ \A t \in Seqs : l < t /\ t # w /\ Within(q, t) => Within(Tail(q), t)
  <1> USE BoundAssumption DEF Seqs
  <1>1. /\ Tail(q) \in Seq(Seqs) /\ Len(Tail(q)) = Len(q) - 1
        /\ \A i \in 1..Len(Tail(q)) : Tail(q)[i] = q[i + 1]
        /\ Head(q) = q[1] /\ Head(q) \in Seqs
        /\ Len(q) \in Nat \ {0}
    BY HeadTailProperties, EmptySeq
  <1> DEFINE r == Tail(q)
  <1>2. \A t \in Seqs : l < t /\ t # w => q[1] # t
    BY <1>1
  <1>3. ASSUME NEW t \in Seqs, l < t, t # w, NEW n \in 0..Len(q),
               NEW i \in 1..n, q[i] = t
        PROVE  \E h \in 1..(n - 1) : r[h] = t
    <2>1. i # 1
      BY <1>2, <1>3
    <2>2. i - 1 \in 1..(n - 1) /\ i - 1 \in 1..Len(r)
      BY <1>1, <2>1
    <2>3. r[i - 1] = q[(i - 1) + 1]
      BY <1>1, <2>2
    <2>4. (i - 1) + 1 = i
      OBVIOUS
    <2> QED BY <1>3, <2>2, <2>3, <2>4
  <1>4. InOrder(r, l, w, dist)
    <2> SUFFICES ASSUME NEW j \in 1..Len(r), NEW t \in Seqs,
                        l < t, t # w, t \notin dist, t < r[j]
                 PROVE  \E i \in 1..(j - 1) : r[i] = t
      BY DEF InOrder
    <2>1. j + 1 \in 1..Len(q) /\ t < q[j + 1] /\ t # 0 /\ (j + 1) - 1 = j
      BY <1>1
    <2>2. PICK i \in 1..j : q[i] = t
      BY <2>1 DEF InOrder
    <2>3. j \in 0..Len(q)
      BY <1>1
    <2> QED BY <1>3, <2>2, <2>3
  <1>5. ASSUME w # 0, NEW t \in Seqs, l < t, t < w PROVE t \in dist
    <2>1. w = q[1] /\ t # 0
      BY <1>1, <1>5
    <2>2. 1 \in 1..Len(q) /\ 1 - 1 = 0
      BY <1>1
    <2>3. t \notin dist => \E i \in 1..0 : q[i] = t
      BY <1>5, <2>1, <2>2 DEF InOrder
    <2> QED BY <2>3
  <1>6. ASSUME NEW t \in Seqs, l < t, t # w, Within(q, t) PROVE Within(r, t)
    <2>1. PICK i \in 1..Len(q) : q[i] = t
      BY <1>6 DEF Within
    <2>2. Len(q) \in 0..Len(q) /\ Len(q) - 1 = Len(r)
      BY <1>1
    <2> QED BY <1>3, <1>6, <2>1, <2>2 DEF Within
  <1> QED BY <1>4, <1>5, <1>6

\* A message may be sent when all earlier events have been.
LEMMA OrderSent ==
    ASSUME NEW q \in Seq(Seqs), NEW l \in 0..MaxSeq, NEW w \in 0..MaxSeq,
           NEW dist, InOrder(q, l, w, dist), NEW s \in Seqs,
           \A t \in Seqs : l < t /\ t # w /\ t \notin dist /\ t < s => Within(q, t)
    PROVE  /\ InOrder(Append(q, s), l, w, dist)
           /\ Within(Append(q, s), s)
           /\ \A t \in Seqs : Within(q, t) => Within(Append(q, s), t)
  <1> DEFINE r == Append(q, s)
  <1>1. /\ r \in Seq(Seqs) /\ Len(r) = Len(q) + 1 /\ Len(q) \in Nat
        /\ \A i \in 1..Len(q) : r[i] = q[i]
        /\ r[Len(q) + 1] = s
    BY AppendProperties, LenProperties
  <1> HIDE DEF r
  <1>2. \A t \in Seqs : Within(q, t) => Within(r, t)
    BY <1>1 DEF Within
  <1>3. Within(r, s)
    BY <1>1 DEF Within
  <1>4. InOrder(r, l, w, dist)
    <2> SUFFICES ASSUME NEW j \in 1..Len(r), NEW t \in Seqs,
                        l < t, t # w, t \notin dist, t < r[j]
                 PROVE  \E i \in 1..(j - 1) : r[i] = t
      BY DEF InOrder
    <2>1. CASE j \in 1..Len(q)
      <3>1. PICK i \in 1..(j - 1) : q[i] = t
        BY <1>1, <2>1 DEF InOrder
      <3> QED BY <1>1, <2>1, <3>1
    <2>2. CASE j = Len(q) + 1
      <3>1. PICK i \in 1..Len(q) : q[i] = t
        BY <1>1, <2>2 DEF Within
      <3>2. j - 1 = Len(q)
        BY <1>1, <2>2
      <3> QED BY <1>1, <3>1, <3>2
    <2> QED BY <1>1, <2>1, <2>2
  <1> QED BY <1>2, <1>3, <1>4 DEF r

-----------------------------------------------------------------------------
(* The stretch of a broadcast up to its next wait.                         *)

\* s is sent, in slot order, to a part of `rest` that ends at the connection
\* where the call waits, and no call that another send has to wait for is
\* passed.
Stretch(s, rest, lock, reached) ==
    /\ chan' = [c \in Conn |-> IF c \in reached /\ stat[c] = "open"
                                 THEN Append(chan[c], s) ELSE chan[c]]
    /\ \A b \in rest : stat[b] \in {"open", "cut"} /\ lock[b] # <<>> =>
          \A c \in reached : Slot[c] <= Slot[b]
    /\ disturbed \subseteq disturbed'
    /\ disturbed' \subseteq disturbed \cup Waiting

StretchEnds(s, rest, lock, reached) ==
    /\ reached = rest
    /\ \A b \in rest : stat[b] \in {"open", "cut"} => lock[b] = <<>>
    /\ bcast'[s].pc = "none"
    /\ drain' = lock
    /\ active' = active \/ disturbed' = disturbed \cup (Waiting \ {s})

StretchWaits(s, rest, size, lock, reached) ==
    \E b \in reached :
        /\ stat[b] \in {"open", "cut"}
        /\ \A c \in rest \ reached : Slot[b] < Slot[c]
        /\ bcast'[s].pc = "waiting" /\ bcast'[s].size = size
        /\ drain' = [lock EXCEPT ![b] = Append(@, s)]
        /\ UNCHANGED <<active, disturbed>>

LEMMA DeliverIsStretch ==
    ASSUME TypeOK, NEW s \in Seqs, NEW rest \in SUBSET Conn,
           NEW dead \in SUBSET Conn, NEW size \in Nat,
           NEW lock \in [Conn -> Seq(Seqs)],
           Deliver(s, rest, dead, size, lock)
    PROVE  /\ \A t \in Seqs \ {s} : bcast'[t] = bcast[t]
           /\ \E reached \in SUBSET rest :
                 /\ Stretch(s, rest, lock, reached)
                 /\ \/ StretchEnds(s, rest, lock, reached)
                    \/ StretchWaits(s, rest, size, lock, reached)
  <1>1. PICK stuck \in SUBSET {c \in rest : stat[c] = "cut"} :
           LET blockers == Blockers(rest, lock, stuck)
               reached  == Reached(rest, blockers)
               dead2    == dead \cup (reached \cap Closed)
           IN  /\ SendTo(s, reached)
               /\ \/ blockers = {} /\ BroadcastDone(s, dead2, lock)
                  \/ \E b \in blockers \cap reached :
                        BroadcastWaits(s, b, dead2, size, lock)
    BY DEF Deliver
  <1> DEFINE blockers == Blockers(rest, lock, stuck)
             reached  == Reached(rest, blockers)
             dead2    == dead \cup (reached \cap Closed)
  <1>2. reached \in SUBSET rest
    BY DEF Reached
  <1>3. /\ \A b \in rest : stat[b] \in {"open", "cut"} /\ lock[b] # <<>> =>
              b \in blockers
        /\ \A b \in blockers : b \in rest /\ stat[b] \in {"open", "cut"}
        /\ \A b \in blockers : \A c \in reached : Slot[c] <= Slot[b]
    BY DEF Blockers, Reached
  <1>4. chan' = [c \in Conn |-> IF c \in reached /\ stat[c] = "open"
                                 THEN Append(chan[c], s) ELSE chan[c]]
    BY <1>1 DEF SendTo
  <1>5. CASE blockers = {} /\ BroadcastDone(s, dead2, lock)
    <2>1. reached = rest
      BY <1>5 DEF Reached
    <2>2. \A b \in rest : stat[b] \in {"open", "cut"} => lock[b] = <<>>
      BY <1>3, <1>5
    <2> HIDE DEF blockers, reached, dead2
    <2>3. /\ bcast' = [bcast EXCEPT ![s] = NoCall]
          /\ drain' = lock
          /\ active' = active \ dead2
          /\ disturbed' = IF active' = active THEN disturbed
                          ELSE disturbed \cup (Waiting \ {s})
      BY <1>5 DEF BroadcastDone, SetActive
    <2>4. bcast'[s].pc = "none" /\ \A t \in Seqs \ {s} : bcast'[t] = bcast[t]
      BY <2>3 DEF TypeOK, NoCall
    <2>5. Stretch(s, rest, lock, reached)
      BY <1>3, <1>4, <2>3 DEF Stretch
    <2>6. StretchEnds(s, rest, lock, reached)
      BY <2>1, <2>2, <2>3, <2>4 DEF StretchEnds
    <2> QED BY <1>2, <2>4, <2>5, <2>6
  <1>6. ASSUME NEW b \in blockers \cap reached,
               BroadcastWaits(s, b, dead2, size, lock)
        PROVE  /\ \A t \in Seqs \ {s} : bcast'[t] = bcast[t]
               /\ \E r \in SUBSET rest :
                     /\ Stretch(s, rest, lock, r)
                     /\ StretchWaits(s, rest, size, lock, r)
    <2>1. ASSUME NEW c \in rest \ reached PROVE Slot[b] < Slot[c]
      <3>1. PICK d \in blockers : ~(Slot[c] <= Slot[d])
        BY <2>1 DEF Reached
      <3>2. Slot[b] <= Slot[d]
        BY <1>3, <3>1
      <3>3. Slot[b] \in Nat /\ Slot[c] \in Nat /\ Slot[d] \in Nat
        BY <1>2, <1>3, <2>1, <3>1, SlotAssumption
      <3> QED BY <3>1, <3>2, <3>3
    <2> HIDE DEF blockers, reached, dead2
    <2>2. /\ bcast' = [bcast EXCEPT ![s] =
                         [pc |-> "waiting", dead |-> dead2, size |-> size]]
          /\ drain' = [lock EXCEPT ![b] = Append(@, s)]
          /\ UNCHANGED <<active, disturbed>>
      BY <1>6 DEF BroadcastWaits
    <2>3. /\ bcast'[s].pc = "waiting" /\ bcast'[s].size = size
          /\ \A t \in Seqs \ {s} : bcast'[t] = bcast[t]
      BY <2>2 DEF TypeOK
    <2>4. Stretch(s, rest, lock, reached)
      BY <1>3, <1>4, <2>2 DEF Stretch
    <2>5. StretchWaits(s, rest, size, lock, reached)
      BY <1>3, <2>1, <2>2, <2>3 DEF StretchWaits
    <2> QED BY <1>2, <2>3, <2>4, <2>5
  <1> QED BY <1>1, <1>2, <1>5, <1>6

\* What lets s go on over `rest` without passing an undisturbed call: the
\* earlier ones wait in `rest`, the later ones wait behind it.
GoesOn(s, rest, size, lock) ==
    /\ OnePlace(lock) /\ NoneOvertakes(lock, disturbed)
    /\ UndisturbedGoOn(lock, disturbed)
    /\ \A b \in Conn : \A i \in 1..Len(lock[b]) :
          /\ lock[b][i] # s
          /\ lock[b][i] < s /\ lock[b][i] \notin disturbed => b \in rest
          /\ s < lock[b][i] /\ s \notin disturbed =>
                \A c \in rest : Slot[b] < Slot[c]
    /\ s \notin disturbed => size = Cardinality(active)

LEMMA DeliverKeepsBroadcasts ==
    ASSUME TypeOK, BroadcastInv,
           NEW s \in Seqs, NEW rest \in SUBSET active,
           NEW dead \in SUBSET Conn, NEW size \in Nat,
           NEW lock \in [Conn -> Seq(Seqs)],
           Deliver(s, rest, dead, size, lock),
           GoesOn(s, rest, size, lock),
           stat' = stat, Len(log') \in Nat, s <= Len(log'), Len(log) <= Len(log')
    PROVE  BroadcastInv'
  <1> USE BoundAssumption DEF Seqs
  <1>1. /\ \A t \in Seqs \ {s} : bcast'[t] = bcast[t]
        /\ \E reached \in SUBSET rest :
                 /\ Stretch(s, rest, lock, reached)
                 /\ \/ StretchEnds(s, rest, lock, reached)
                    \/ StretchWaits(s, rest, size, lock, reached)
    <2>1. rest \in SUBSET Conn
      BY DEF TypeOK
    <2> QED BY <2>1, DeliverIsStretch
  <1>2. PICK reached \in SUBSET rest :
                 /\ Stretch(s, rest, lock, reached)
                 /\ \/ StretchEnds(s, rest, lock, reached)
                    \/ StretchWaits(s, rest, size, lock, reached)
    BY <1>1
  <1>3. WaitingAreKnown'
    <2>1. \A t \in Waiting' : t = s \/ t \in Waiting
      BY <1>1 DEF Waiting
    <2>2. Len(log) \in Nat
      BY LenProperties DEF TypeOK
    <2> QED BY <2>1, <2>2 DEF BroadcastInv, WaitingAreKnown, Waiting
  <1>4. ASSUME NEW b \in Conn, NEW i \in 1..Len(lock[b])
        PROVE  /\ lock[b][i] \in Seqs \ {s}
               /\ bcast'[lock[b][i]] = bcast[lock[b][i]]
               /\ bcast[lock[b][i]].pc = "waiting"
               /\ lock[b][i] \notin disturbed =>
                    /\ b \in active /\ stat[b] \in {"open", "cut"}
                    /\ bcast[lock[b][i]].size = Cardinality(active)
    <2>1. lock[b][i] \in Seqs
      BY ElementOfSeq
    <2> QED BY <1>1, <2>1 DEF GoesOn, UndisturbedGoOn
  <1>5. disturbed \subseteq disturbed'
    BY <1>2 DEF Stretch
  <1>6. CASE StretchEnds(s, rest, lock, reached)
    <2>1. drain' = lock
      BY <1>6 DEF StretchEnds
    <2>2. OnePlace(drain') /\ NoneOvertakes(drain', disturbed')
      BY <1>5, <2>1 DEF GoesOn, NoneOvertakes
    <2>3. UndisturbedGoOn(drain, disturbed)'
      <3> SUFFICES ASSUME NEW b \in Conn, NEW i \in 1..Len(lock[b])
                   PROVE  /\ bcast'[lock[b][i]].pc = "waiting"
                          /\ lock[b][i] \notin disturbed' =>
                               /\ b \in active' /\ stat[b] \in {"open", "cut"}
                               /\ bcast'[lock[b][i]].size = Cardinality(active')
        BY <2>1 DEF UndisturbedGoOn
      <3>1. lock[b][i] \in Waiting \ {s}
        BY <1>4 DEF Waiting
      <3>2. lock[b][i] \notin disturbed' => active' = active
        BY <1>6, <3>1 DEF StretchEnds
      <3> QED BY SMTT(30), <1>4, <1>5, <3>2
    <2> QED BY <1>3, <2>2, <2>3 DEF BroadcastInv
  <1>7. CASE StretchWaits(s, rest, size, lock, reached)
    <2>1. PICK b \in reached :
        /\ stat[b] \in {"open", "cut"}
        /\ \A c \in rest \ reached : Slot[b] < Slot[c]
        /\ bcast'[s].pc = "waiting" /\ bcast'[s].size = size
        /\ drain' = [lock EXCEPT ![b] = Append(@, s)]
        /\ UNCHANGED <<active, disturbed>>
      BY <1>7 DEF StretchWaits
    <2>2. b \in Conn /\ b \in active /\ b \in rest
      BY DEF TypeOK
    <2> DEFINE n == Len(lock[b]) + 1
    <2>3. /\ n \in Nat /\ Len(drain'[b]) = n /\ drain'[b][n] = s
          /\ \A i \in 1..n - 1 : drain'[b][i] = lock[b][i]
          /\ \A c \in Conn \ {b} : drain'[c] = lock[c]
          /\ n - 1 = Len(lock[b])
      <3>1. lock[b] \in Seq(Seqs) /\ drain'[b] = Append(lock[b], s)
        BY <2>1, <2>2
      <3> QED BY <2>1, <2>2, <3>1, AppendProperties, LenProperties
    <2> HIDE DEF n
    \* A place in drain' is the new one or one of lock.
    <2>3a. ASSUME NEW c \in Conn, NEW i \in 1..Len(drain'[c]), ~(c = b /\ i = n)
          PROVE  /\ i \in 1..Len(lock[c]) /\ drain'[c][i] = lock[c][i]
                 /\ c = b => i < n
      <3>1. CASE c = b
        BY <2>3, <2>3a, <3>1
      <3>2. CASE c # b
        <4>1. drain'[c] = lock[c]
          BY <2>3, <3>2
        <4> QED BY <3>2, <4>1
      <3> QED BY <3>1, <3>2
    <2>3b. ASSUME NEW c \in Conn, NEW i \in 1..Len(drain'[c])
           PROVE  drain'[c][i] = s <=> c = b /\ i = n
      <3>1. CASE c = b /\ i = n
        BY <2>3, <3>1
      <3>2. CASE ~(c = b /\ i = n)
        <4>1. i \in 1..Len(lock[c]) /\ drain'[c][i] = lock[c][i]
          BY <2>3a, <3>2
        <4>2. lock[c][i] # s
          BY <1>4, <4>1
        <4> QED BY <3>2, <4>1, <4>2
      <3> QED BY <3>1, <3>2
    <2>4. ASSUME NEW c \in Conn, NEW i \in 1..Len(drain'[c]), drain'[c][i] # s
          PROVE  /\ i \in 1..Len(lock[c]) /\ drain'[c][i] = lock[c][i]
                 /\ c = b => i < n
      BY <2>4, <2>3a, <2>3b
    <2>5. OnePlace(drain')
      <3> SUFFICES ASSUME NEW c \in Conn, NEW d \in Conn,
                          NEW i \in 1..Len(drain'[c]), NEW j \in 1..Len(drain'[d]),
                          drain'[c][i] = drain'[d][j]
                   PROVE  c = d /\ i = j
        BY DEF OnePlace
      <3>1. CASE drain'[c][i] = s
        BY <2>3b, <3>1
      <3>2. CASE drain'[c][i] # s
        <4>1. /\ i \in 1..Len(lock[c]) /\ drain'[c][i] = lock[c][i]
              /\ j \in 1..Len(lock[d]) /\ drain'[d][j] = lock[d][j]
          BY <2>4, <3>2
        <4>2. lock[c][i] = lock[d][j]
          BY <4>1
        <4> QED BY <4>1, <4>2 DEF GoesOn, OnePlace
      <3> QED BY <3>1, <3>2
    <2>6. NoneOvertakes(drain', disturbed')
      <3> SUFFICES ASSUME NEW c \in Conn, NEW d \in Conn,
                          NEW i \in 1..Len(drain'[c]), NEW j \in 1..Len(drain'[d]),
                          drain'[c][i] \notin disturbed,
                          drain'[c][i] < drain'[d][j]
                   PROVE  Slot[d] < Slot[c] \/ (d = c /\ i < j)
        BY ZenonT(60), <2>1 DEF NoneOvertakes
      <3>0. Slot[b] \in Nat /\ Slot[c] \in Nat /\ Slot[d] \in Nat
        BY <2>2, SlotAssumption
      <3>1. CASE drain'[c][i] = s
        <4>1. c = b
          BY <2>3b, <3>1
        <4>2. drain'[d][j] # s
          BY <2>3b, <3>1, <4>1
        <4>3. j \in 1..Len(lock[d]) /\ drain'[d][j] = lock[d][j]
          BY <2>4, <4>2
        <4> QED BY <2>1, <2>2, <3>1, <4>1, <4>3 DEF GoesOn
      <3>2. CASE drain'[c][i] # s /\ drain'[d][j] = s
        <4>1. /\ i \in 1..Len(lock[c]) /\ drain'[c][i] = lock[c][i]
              /\ c = b => i < n
          BY <2>4, <3>2
        <4>2. d = b /\ j = n
          BY <2>3b, <3>2
        <4>a. drain'[c][i] < s /\ drain'[c][i] \notin disturbed
          BY <3>2
        <4>b. lock[c][i] < s /\ lock[c][i] \notin disturbed
          BY <4>1, <4>a
        <4>e. stat[c] \in {"open", "cut"}
          BY <1>4, <4>1, <4>b
        <4>f. \A f \in Conn : \A h \in 1..Len(lock[f]) :
                 lock[f][h] < s /\ lock[f][h] \notin disturbed => f \in rest
          BY DEF GoesOn
        <4>c. c \in rest /\ stat[c] \in {"open", "cut"}
          BY <4>1, <4>b, <4>e, <4>f
        <4>d. lock[c] # <<>>
          BY <4>1
        <4>3. c \in rest /\ lock[c] # <<>> /\ stat[c] \in {"open", "cut"}
          BY <4>c, <4>d
        <4>4. Slot[b] <= Slot[c]
          BY <1>2, <4>3 DEF Stretch
        <4>5. Slot[b] = Slot[c] => c = b
          BY <2>2, SlotAssumption
        <4>6. CASE c = b
          BY <4>1, <4>2, <4>6
        <4>7. CASE c # b
          <5>1. Slot[d] < Slot[c]
            BY <3>0, <4>2, <4>4, <4>5, <4>7
          <5> QED BY <5>1
        <4> QED BY <4>6, <4>7
      <3>3. CASE drain'[c][i] # s /\ drain'[d][j] # s
        <4>1. /\ i \in 1..Len(lock[c]) /\ drain'[c][i] = lock[c][i]
              /\ j \in 1..Len(lock[d]) /\ drain'[d][j] = lock[d][j]
          BY <2>4, <3>3
        <4> QED BY <4>1 DEF GoesOn, NoneOvertakes
      <3> QED BY <3>1, <3>2, <3>3
    <2>7. UndisturbedGoOn(drain, disturbed)'
      <3> SUFFICES ASSUME NEW c \in Conn, NEW i \in 1..Len(drain'[c])
                   PROVE  /\ bcast'[drain'[c][i]].pc = "waiting"
                          /\ drain'[c][i] \notin disturbed =>
                               /\ c \in active /\ stat[c] \in {"open", "cut"}
                               /\ bcast'[drain'[c][i]].size = Cardinality(active)
        BY <2>1 DEF UndisturbedGoOn
      <3>1. CASE drain'[c][i] = s
        BY <2>1, <2>2, <2>3b, <3>1 DEF GoesOn
      <3>2. CASE drain'[c][i] # s
        <4>1. i \in 1..Len(lock[c]) /\ drain'[c][i] = lock[c][i]
          BY <2>4, <3>2
        <4>2. /\ bcast'[lock[c][i]] = bcast[lock[c][i]]
              /\ bcast[lock[c][i]].pc = "waiting"
              /\ lock[c][i] \notin disturbed =>
                    /\ c \in active /\ stat[c] \in {"open", "cut"}
                    /\ bcast[lock[c][i]].size = Cardinality(active)
          BY <1>4, <4>1
        <4> QED BY <4>1, <4>2
      <3> QED BY <3>1, <3>2
    <2> QED BY <1>3, <2>5, <2>6, <2>7 DEF BroadcastInv
  <1> QED BY <1>2, <1>6, <1>7

\* What a session's types give.
LEMMA SessionTypes ==
    ASSUME TypeOK, NEW k \in Consumer, phase[k] # "idle"
    PROVE  /\ link[k] \in Conn /\ buf[k] \in Seq(Seqs) /\ chan[link[k]] \in Seq(Seqs)
           /\ Incoming(k) \in Seq(Seqs)
           /\ last[k] \in 0..MaxSeq /\ busy[k] \in 0..MaxSeq
           /\ last[k] \in Nat /\ busy[k] \in Nat
  <1>1. link[k] \in Conn /\ buf[k] \in Seq(Seqs) /\ chan[link[k]] \in Seq(Seqs)
    BY DEF TypeOK
  <1>2. last[k] \in 0..MaxSeq /\ busy[k] \in 0..MaxSeq
    BY DEF TypeOK
  <1> QED BY <1>1, <1>2, Queues, BoundAssumption DEF Incoming

\* The stretch brings a fed session nothing that comes too early, and passes
\* none of them by.
LEMMA DeliverKeepsSessions ==
    ASSUME TypeOK, SessionInv,
           NEW s \in Seqs, NEW rest \in SUBSET active,
           NEW dead \in SUBSET Conn, NEW size \in Nat,
           NEW lock \in [Conn -> Seq(Seqs)],
           Deliver(s, rest, dead, size, lock),
           GoesOn(s, rest, size, lock),
           \A b \in Conn : \A t \in Seqs \ {s} :
              Within(drain[b], t) => Within(lock[b], t),
           \A k \in Consumer :
              Fed(k) /\ stat[link[k]] = "open" /\ Due(k, s) =>
                 Within(Incoming(k), s) \/ link[k] \in rest,
           UNCHANGED <<stat, phase, link, buf, page, busy, last>>,
           s <= Len(log) + 1, s <= Len(log'), Len(log) <= Len(log'),
           Len(log') = Len(log) \/ Len(log') = s
    PROVE  SessionInv'
  <1> USE BoundAssumption DEF Seqs
  <1>0. Len(log) \in Nat
    BY LenProperties DEF TypeOK
  <1>1. PICK reached \in SUBSET rest :
                 /\ Stretch(s, rest, lock, reached)
                 /\ \/ StretchEnds(s, rest, lock, reached)
                    \/ StretchWaits(s, rest, size, lock, reached)
    <2>1. rest \in SUBSET Conn
      BY DEF TypeOK
    <2> QED BY <2>1, DeliverIsStretch
  <1>2. disturbed \subseteq disturbed'
    BY <1>1 DEF Stretch
  <1>3. ASSUME NEW k \in Consumer, phase[k] # "idle"
        PROVE  IF link[k] \in reached /\ stat[link[k]] = "open"
                 THEN Incoming(k)' = Append(Incoming(k), s)
                 ELSE Incoming(k)' = Incoming(k)
    <2>1. chan'[link[k]] = IF link[k] \in reached /\ stat[link[k]] = "open"
                             THEN Append(chan[link[k]], s) ELSE chan[link[k]]
      BY <1>1, <1>3, SessionTypes DEF Stretch
    <2>2. /\ buf[k] \in Seq(Seqs) /\ chan[link[k]] \in Seq(Seqs)
      BY <1>3, SessionTypes
    <2>3. buf[k] \o Append(chan[link[k]], s) = Append(buf[k] \o chan[link[k]], s)
      <3> DEFINE p == buf[k]
                 q == chan[link[k]]
      <3>1. p \in Seq(Seqs) /\ q \in Seq(Seqs) /\ s \in Seqs
        BY <2>2
      <3> HIDE DEF p, q
      <3>2. p \o Append(q, s) = Append(p \o q, s)
        BY SMTT(30), <3>1, Queues
      <3> QED BY <3>2 DEF p, q
    <2> QED BY <2>1, <2>3 DEF Incoming
  <1>4. OwnConnection' /\ \A k \in Consumer : WorksForNext(k)'
    BY <1>2 DEF SessionInv, SessionOf, OwnConnection, WorksForNext
  <1>5. ASSUME NEW k \in Consumer PROVE MessagesAreKnown(k)'
    <2> SUFFICES /\ phase[k] = "listen" => buf[k] = <<>>
                 /\ phase[k] # "idle" =>
                       \A i \in 1..Len(Incoming(k)') : Incoming(k)'[i] <= Len(log')
                 /\ last[k] <= Len(log') /\ page[k] <= Len(log')
                 /\ busy[k] <= Len(log')
      BY DEF MessagesAreKnown
    <2>1. last[k] \in Nat /\ page[k] \in Nat /\ busy[k] \in Nat
      BY DEF TypeOK
    <2>2. ASSUME phase[k] # "idle", NEW i \in 1..Len(Incoming(k)')
          PROVE  Incoming(k)'[i] <= Len(log')
      <3>1. /\ Incoming(k) \in Seq(Seqs) /\ Len(Incoming(k)) \in Nat
            /\ \A j \in 1..Len(Incoming(k)) :
                  Incoming(k)[j] \in Seqs /\ Incoming(k)[j] <= Len(log)
        BY <2>2, SessionTypes, LenProperties, ElementOfSeq
           DEF SessionInv, SessionOf, MessagesAreKnown
      <3>2. CASE Incoming(k)' = Incoming(k)
        BY SMTT(30), <1>0, <2>2, <3>1, <3>2
      <3>3. CASE Incoming(k)' = Append(Incoming(k), s)
        <4> DEFINE q == Incoming(k)
        <4>1. /\ Len(Append(q, s)) = Len(q) + 1
              /\ \A j \in 1..Len(q) : Append(q, s)[j] = q[j]
              /\ Append(q, s)[Len(q) + 1] = s
          BY <3>1, AppendProperties
        <4> HIDE DEF q
        <4>2. i \in 1..Len(q) \/ i = Len(q) + 1
          BY <2>2, <3>1, <3>3, <4>1 DEF q
        <4> QED BY <1>0, <3>1, <3>3, <4>1, <4>2 DEF q
      <3> QED BY <1>3, <2>2, <3>2, <3>3
    <2> QED BY <1>0, <2>1, <2>2 DEF SessionInv, SessionOf, MessagesAreKnown
  \* Where an earlier due event is that has not been received.
  <1>6. ASSUME NEW k \in Consumer, Fed(k), link[k] \in reached,
               stat[link[k]] = "open",
               NEW t \in Seqs, Due(k, t), t < s
        PROVE  Within(Incoming(k), t)
    <2> SUFFICES ASSUME ~Within(Incoming(k), t) PROVE FALSE
      OBVIOUS
    <2>1. t \in 1..Len(log)
      BY <1>0, <1>6
    <2>2. PICK b \in Conn : Slot[b] < Slot[link[k]] /\ Within(drain[b], t)
      BY <1>6, <2>1 DEF SessionInv, SessionOf, NoneMissed
    <2>3. PICK i \in 1..Len(lock[b]) : lock[b][i] = t
      <3>1. t \in Seqs \ {s}
        BY <1>6
      <3>2. Within(lock[b], t)
        BY <2>2, <3>1
      <3> QED BY <3>2 DEF Within
    <2>4. b \in rest /\ stat[b] \in {"open", "cut"}
      BY <1>6, <2>3 DEF GoesOn, UndisturbedGoOn, Due
    <2>5. lock[b] # <<>>
      BY <2>3, EmptySeq
    <2>6. Slot[link[k]] <= Slot[b]
      BY <1>1, <1>6, <2>4, <2>5 DEF Stretch
    <2>7. Slot[b] \in Nat /\ Slot[link[k]] \in Nat
      <3>1. link[k] \in Conn
        BY <1>6, SessionTypes DEF Fed
      <3> QED BY <2>2, <3>1, SlotAssumption
    <2> QED BY SMTT(30), <2>2, <2>6, <2>7
  <1>7. ASSUME NEW k \in Consumer, Fed(k)
        PROVE  /\ InOrder(Incoming(k)', last[k], busy[k], disturbed')
               /\ \A t \in Seqs : Within(Incoming(k), t) => Within(Incoming(k)', t)
               /\ link[k] \in reached /\ stat[link[k]] = "open" =>
                     Within(Incoming(k)', s)
    <2>1. /\ Incoming(k) \in Seq(Seqs)
          /\ last[k] \in 0..MaxSeq /\ busy[k] \in 0..MaxSeq
          /\ InOrder(Incoming(k), last[k], busy[k], disturbed)
          /\ phase[k] # "idle"
      BY <1>7, SessionTypes DEF SessionInv, SessionOf, ReceivedInOrder, Fed
    <2>2. CASE link[k] \in reached /\ stat[link[k]] = "open"
      <3>1. Incoming(k)' = Append(Incoming(k), s)
        BY <1>3, <2>1, <2>2
      <3> DEFINE q == Incoming(k)
                 l == last[k]
                 w == busy[k]
      <3>2. \A t \in Seqs : l < t /\ t # w /\ t \notin disturbed /\ t < s => Within(q, t)
        BY <1>6, <1>7, <2>2 DEF Due
      <3>3. q \in Seq(Seqs) /\ l \in 0..MaxSeq /\ w \in 0..MaxSeq
            /\ InOrder(q, l, w, disturbed)
        BY <2>1
      <3> HIDE DEF q, l, w
      <3>4. /\ InOrder(Append(q, s), l, w, disturbed)
            /\ Within(Append(q, s), s)
            /\ \A t \in Seqs : Within(q, t) => Within(Append(q, s), t)
        BY <3>2, <3>3, OrderSent
      <3>5. Append(q, s) \in Seq(Seqs)
        BY <3>3, AppendProperties
      <3>6. InOrder(Append(q, s), l, w, disturbed')
        BY <1>2, <3>3, <3>4, <3>5, OrderKept
      <3> QED BY <3>1, <3>4, <3>6 DEF q, l, w
    <2>3. CASE ~(link[k] \in reached /\ stat[link[k]] = "open")
      <3>1. Incoming(k)' = Incoming(k)
        BY <1>3, <2>1, <2>3
      <3>2. InOrder(Incoming(k), last[k], busy[k], disturbed')
        BY <1>2, <2>1, OrderKept
      <3> QED BY <2>3, <3>1, <3>2
    <2> QED BY <2>2, <2>3
  <1>8. \A k \in Consumer : ReceivedInOrder(k)'
    BY <1>7 DEF ReceivedInOrder, Fed
  <1>9. ASSUME NEW k \in Consumer PROVE NoneMissed(k)'
    <2> SUFFICES ASSUME Fed(k), stat[link[k]] = "open",
                        NEW t \in 1..Len(log'), Due(k, t)', 
                        ~Within(Incoming(k)', t)
                 PROVE  \E b \in Conn :
                           Slot[b] < Slot[link[k]] /\ Within(drain'[b], t)
      BY DEF NoneMissed, Fed
    <2>1. Due(k, t) /\ t # 0
      BY <1>2 DEF Due
    <2>2. \A b \in Conn : \A u \in Seqs : Within(lock[b], u) => Within(drain'[b], u)
      <3>1. CASE StretchEnds(s, rest, lock, reached)
        BY <3>1 DEF StretchEnds
      <3>2. CASE StretchWaits(s, rest, size, lock, reached)
        <4>1. PICK b \in reached : drain' = [lock EXCEPT ![b] = Append(@, s)]
          BY <3>2 DEF StretchWaits
        <4>2. \A c \in Conn : drain'[c] = IF c = b THEN Append(lock[c], s) ELSE lock[c]
          BY <4>1
        <4>3. \A c \in Conn : \A u \in Seqs :
                 Within(lock[c], u) => Within(Append(lock[c], s), u)
          BY AppendProperties, LenProperties DEF Within
        <4> QED BY <4>2, <4>3
      <3> QED BY <1>1, <3>1, <3>2
    <2>3. CASE t # s
      <3>1. t \in 1..Len(log) /\ t \in Seqs
        BY <1>0, <2>3, LenProperties DEF SessionInv, TypeOK
      <3>2. ~Within(Incoming(k), t)
        BY <1>7, <3>1
      <3>3. PICK b \in Conn : Slot[b] < Slot[link[k]] /\ Within(drain[b], t)
        BY <2>1, <3>1, <3>2 DEF SessionInv, SessionOf, NoneMissed
      <3> QED BY <2>2, <2>3, <3>1, <3>3
    <2>4. CASE t = s
      <3>1. ~Within(Incoming(k), s) /\ link[k] \notin reached
        BY <1>7, <2>4
      <3>2. link[k] \in rest \ reached
        BY <2>1, <2>4, <3>1
      <3>3. CASE StretchEnds(s, rest, lock, reached)
        BY <3>2, <3>3 DEF StretchEnds
      <3>4. CASE StretchWaits(s, rest, size, lock, reached)
        <4>1. PICK b \in reached :
                 /\ Slot[b] < Slot[link[k]]
                 /\ drain' = [lock EXCEPT ![b] = Append(@, s)]
          BY <3>2, <3>4 DEF StretchWaits
        <4>2. b \in Conn /\ drain'[b] = Append(lock[b], s)
          BY <4>1 DEF TypeOK
        <4>3. Within(drain'[b], s)
          BY <4>2, AppendProperties, LenProperties DEF Within
        <4> QED BY <2>4, <4>1, <4>2, <4>3
      <3> QED BY <1>1, <3>3, <3>4
    <2> QED BY <2>3, <2>4
  <1> QED BY <1>4, <1>5, <1>8, <1>9 DEF SessionInv, SessionOf

-----------------------------------------------------------------------------
(* A commit and a broadcast that is taken up.                              *)

LEMMA CommitKeeps ==
    ASSUME TypeOK, BroadcastInv, SessionInv, LiveSessionRegistered,
           NEW origin \in 0..MaxSeq, Commit(origin),
           UNCHANGED <<stat, phase, link, buf, page, busy, last>>
    PROVE  BroadcastInv' /\ SessionInv' /\ Len(log') = Len(log) + 1
  <1> USE BoundAssumption DEF Seqs
  <1> DEFINE s == Len(log) + 1
  <1>1. /\ s \in Seqs /\ Len(log) \in Nat /\ Len(log') = s
        /\ active \in SUBSET Conn /\ drain \in [Conn -> Seq(Seqs)]
        /\ Cardinality(active) \in Nat /\ {} \in SUBSET Conn
    <2>1. s \in Seqs
      BY CommitType
    <2>2. Len(log) \in Nat /\ Len(log') = s
      BY AppendProperties, LenProperties DEF Commit, TypeOK
    <2> QED BY <2>1, <2>2, ConnAssumption, FS_Subset, FS_CardinalityType DEF TypeOK
  <1>2. Deliver(s, active, {}, Cardinality(active), drain)
    BY DEF Commit
  <1>3. GoesOn(s, active, Cardinality(active), drain)
    <2>1. ASSUME NEW b \in Conn, NEW i \in 1..Len(drain[b])
          PROVE  /\ drain[b][i] \in Nat /\ drain[b][i] < s
                 /\ drain[b][i] \notin disturbed => b \in active
      <3>1. drain[b][i] \in Seqs
        BY <1>1, ElementOfSeq
      <3>2. drain[b][i] \in Waiting /\ (drain[b][i] \notin disturbed => b \in active)
        BY <3>1 DEF BroadcastInv, UndisturbedGoOn, Waiting
      <3> QED BY <1>1, <3>1, <3>2 DEF BroadcastInv, WaitingAreKnown
    <2>2. \A b \in Conn : \A i \in 1..Len(drain[b]) :
            /\ drain[b][i] # s
            /\ drain[b][i] < s /\ drain[b][i] \notin disturbed => b \in active
            /\ ~(s < drain[b][i])
      BY <1>1, <2>1
    <2> HIDE DEF s
    <2> QED BY <2>2 DEF GoesOn, BroadcastInv
  <1>4. \A k \in Consumer : Fed(k) /\ stat[link[k]] = "open" => link[k] \in active
    BY DEF LiveSessionRegistered, Fed
  <1>5. /\ s <= Len(log) + 1 /\ s <= Len(log') /\ Len(log) <= Len(log')
        /\ Len(log') = Len(log) \/ Len(log') = s
    BY <1>1
  <1>6. \A b \in Conn : \A t \in Seqs \ {s} : Within(drain[b], t) => Within(drain[b], t)
    OBVIOUS
  <1>7. Len(log') = Len(log) + 1 /\ Len(log') \in Nat /\ stat' = stat
    BY <1>1
  <1> HIDE DEF s
  <1>8. BroadcastInv'
    BY <1>1, <1>2, <1>3, <1>5, <1>7, DeliverKeepsBroadcasts
  <1>9. SessionInv'
    BY <1>1, <1>2, <1>3, <1>4, <1>5, <1>6, DeliverKeepsSessions
  <1> QED BY <1>7, <1>8, <1>9

\* OnePlace, for a given pair of places.
LEMMA SamePlace ==
    ASSUME NEW d, OnePlace(d), NEW b \in Conn, NEW c \in Conn,
           NEW i \in 1..Len(d[b]), NEW j \in 1..Len(d[c]), d[b][i] = d[c][j]
    PROVE  b = c /\ i = j
  BY DEF OnePlace

First(c)  == Head(drain[c])
Others(c) == [drain EXCEPT ![c] = Tail(@)]
Behind(c) == {d \in active : Slot[d] > Slot[c]}

\* The oldest call that waits at c leaves the others as they are, waits
\* nowhere else, and has them where it may go on.
LEMMA TakenUp ==
    ASSUME TypeOK, BroadcastInv, NEW c \in Conn, drain[c] # <<>>
    PROVE  /\ First(c) \in Waiting /\ Others(c) \in [Conn -> Seq(Seqs)]
           /\ GoesOn(First(c), Behind(c), bcast[First(c)].size, Others(c))
           /\ \A b \in Conn : \A t \in Seqs \ {First(c)} :
                 Within(drain[b], t) => Within(Others(c)[b], t)
           /\ \A b \in Conn : Within(drain[b], First(c)) => b = c
  <1> USE BoundAssumption DEF Seqs
  <1> DEFINE s    == First(c)
             lock == Others(c)
             rest == Behind(c)
  <1>1. /\ lock[c] = Tail(drain[c]) /\ \A b \in Conn \ {c} : lock[b] = drain[b]
        /\ lock \in [Conn -> Seq(Seqs)]
        /\ Len(lock[c]) = Len(drain[c]) - 1
        /\ \A i \in 1..Len(lock[c]) : lock[c][i] = drain[c][i + 1]
        /\ s = drain[c][1] /\ s \in Seqs /\ Len(drain[c]) \in Nat \ {0}
    <2>1. drain[c] \in Seq(Seqs) /\ lock[c] = Tail(drain[c])
          /\ \A b \in Conn \ {c} : lock[b] = drain[b]
      BY DEF TypeOK, Others
    <2> DEFINE q == drain[c]
    <2>2. /\ Tail(q) \in Seq(Seqs) /\ Len(Tail(q)) = Len(q) - 1
          /\ \A i \in 1..Len(Tail(q)) : Tail(q)[i] = q[i + 1]
          /\ Head(q) \in Seqs /\ Head(q) = q[1] /\ Len(q) \in Nat \ {0}
      <3>1. q \in Seq(Seqs) /\ q # <<>>
        BY <2>1
      <3> HIDE DEF q
      <3>2. Head(q) = q[1]
        BY <3>1
      <3>3. Len(q) \in Nat \ {0}
        BY <3>1, EmptySeq
      <3> QED BY <3>1, <3>2, <3>3, HeadTailProperties
    <2>3. lock \in [Conn -> Seq(Seqs)]
      BY <2>1, <2>2 DEF TypeOK, Others
    <2> QED BY <2>1, <2>2, <2>3 DEF First
  <1> HIDE DEF s, lock
  <1>2. 1 \in 1..Len(drain[c])
    BY <1>1
  <1>3. \A b \in Conn : \A j \in 1..Len(drain[b]) :
           drain[b][j] = s => b = c /\ j = 1
    BY <1>1, <1>2 DEF BroadcastInv, OnePlace
  <1>4. s \in Waiting
    <2>1. bcast[drain[c][1]].pc = "waiting"
      BY <1>2 DEF BroadcastInv, UndisturbedGoOn
    <2> QED BY <1>1, <2>1 DEF Waiting
  \* The place in drain of what is at place i of lock[b].
  <1> DEFINE was(b, i) == IF b = c THEN i + 1 ELSE i
  <1>5. ASSUME NEW b \in Conn, NEW i \in 1..Len(lock[b])
        PROVE  /\ was(b, i) \in 1..Len(drain[b])
               /\ lock[b][i] = drain[b][was(b, i)]
               /\ lock[b][i] # s
               /\ lock[b][i] \in Nat
    <2>1. was(b, i) \in 1..Len(drain[b]) /\ lock[b][i] = drain[b][was(b, i)]
      <3>1. CASE b = c
        <4>1. i \in 1..Len(lock[c]) /\ i \in Int
          BY <1>1, <3>1
        <4>2. lock[c][i] = drain[c][i + 1]
          BY <1>1, <4>1
        <4>3. Len(lock[c]) = Len(drain[c]) - 1 /\ Len(drain[c]) \in Nat
          BY <1>1
        <4>4. i + 1 \in 1..Len(drain[c])
          BY <4>1, <4>3
        <4> QED BY <3>1, <4>2, <4>4
      <3>2. CASE b # c
        BY <1>1, <3>2
      <3> QED BY <3>1, <3>2
    <2>2. b = c => was(b, i) # 1
      BY <1>1
    <2>3. lock[b][i] # s
      BY <1>3, <2>1, <2>2
    <2>4. lock[b][i] \in Seqs
      BY <1>1, ElementOfSeq
    <2> QED BY <2>1, <2>3, <2>4
  <1>6. OnePlace(lock) /\ NoneOvertakes(lock, disturbed)
    <2>0. ASSUME NEW b \in Conn, NEW i \in 1..Len(lock[b]) PROVE i \in Int
      <3>1. Len(lock[b]) \in Nat
        BY <1>1, LenProperties
      <3> QED BY <3>1
    <2>1. OnePlace(lock)
      <3> SUFFICES ASSUME NEW b \in Conn, NEW d \in Conn,
                          NEW i \in 1..Len(lock[b]), NEW j \in 1..Len(lock[d]),
                          lock[b][i] = lock[d][j]
                   PROVE  b = d /\ i = j
        BY DEF OnePlace
      <3> DEFINE h == was(b, i)
                 g == was(d, j)
      <3>1. /\ h \in 1..Len(drain[b]) /\ lock[b][i] = drain[b][h]
            /\ g \in 1..Len(drain[d]) /\ lock[d][j] = drain[d][g]
        BY <1>5
      <3>2. (b = d /\ h = g => i = j) /\ (b = d /\ h < g => i < j)
        BY <2>0
      <3> HIDE DEF h, g
      <3>3. b = d /\ h = g
        <4>1. drain[b][h] = drain[d][g]
          BY <3>1
        <4>2. OnePlace(drain)
          BY DEF BroadcastInv
        <4> QED BY <3>1, <4>1, <4>2, SamePlace
      <3> QED BY <3>2, <3>3
    <2>2. NoneOvertakes(lock, disturbed)
      <3> SUFFICES ASSUME NEW b \in Conn, NEW d \in Conn,
                          NEW i \in 1..Len(lock[b]), NEW j \in 1..Len(lock[d]),
                          lock[b][i] \notin disturbed, lock[b][i] < lock[d][j]
                   PROVE  Slot[d] < Slot[b] \/ (d = b /\ i < j)
        BY DEF NoneOvertakes
      <3> DEFINE h == was(b, i)
                 g == was(d, j)
      <3>1. /\ h \in 1..Len(drain[b]) /\ lock[b][i] = drain[b][h]
            /\ g \in 1..Len(drain[d]) /\ lock[d][j] = drain[d][g]
        BY <1>5
      <3>2. (b = d /\ h = g => i = j) /\ (b = d /\ h < g => i < j)
        BY <2>0
      <3> HIDE DEF h, g
      <3>3. Slot[d] < Slot[b] \/ (d = b /\ h < g)
        BY <3>1 DEF BroadcastInv, NoneOvertakes
      <3> QED BY <3>2, <3>3
    <2> QED BY <2>1, <2>2
  <1>7. UndisturbedGoOn(lock, disturbed)
    <2> SUFFICES ASSUME NEW b \in Conn, NEW i \in 1..Len(lock[b])
                 PROVE  /\ bcast[lock[b][i]].pc = "waiting"
                        /\ lock[b][i] \notin disturbed =>
                             /\ b \in active /\ stat[b] \in {"open", "cut"}
                             /\ bcast[lock[b][i]].size = Cardinality(active)
      BY DEF UndisturbedGoOn
    <2> DEFINE h == was(b, i)
    <2>1. h \in 1..Len(drain[b]) /\ lock[b][i] = drain[b][h]
      BY <1>5
    <2> HIDE DEF h
    <2>2. /\ bcast[drain[b][h]].pc = "waiting"
          /\ drain[b][h] \notin disturbed =>
               /\ b \in active /\ stat[b] \in {"open", "cut"}
               /\ bcast[drain[b][h]].size = Cardinality(active)
      BY <2>1 DEF BroadcastInv, UndisturbedGoOn
    <2> QED BY <2>1, <2>2
  <1>8. ASSUME NEW b \in Conn, NEW i \in 1..Len(lock[b])
        PROVE  /\ lock[b][i] < s /\ lock[b][i] \notin disturbed => b \in rest
               /\ s < lock[b][i] /\ s \notin disturbed =>
                     \A d \in rest : Slot[b] < Slot[d]
    <2>1. was(b, i) \in 1..Len(drain[b]) /\ lock[b][i] = drain[b][was(b, i)]
      BY <1>5
    <2>0. was(b, i) \in Nat
      <3>1. Len(drain[b]) \in Nat
        BY LenProperties DEF TypeOK
      <3> QED BY <2>1, <3>1
    <2>2. ASSUME lock[b][i] < s, lock[b][i] \notin disturbed PROVE b \in rest
      <3> HIDE DEF was
      <3>1. Slot[c] < Slot[b] \/ (c = b /\ was(b, i) < 1)
        BY <1>1, <1>2, <2>1, <2>2 DEF BroadcastInv, NoneOvertakes
      <3>2. b \in active
        BY <2>1, <2>2 DEF BroadcastInv, UndisturbedGoOn
      <3>3. ~(was(b, i) < 1)
        BY <2>0, <2>1
      <3>4. Slot[b] \in Nat /\ Slot[c] \in Nat
        BY SlotAssumption
      <3> QED BY <3>1, <3>2, <3>3, <3>4 DEF Behind
    <2>3. ASSUME s < lock[b][i], s \notin disturbed, NEW d \in rest
          PROVE  Slot[b] < Slot[d]
      <3>1. Slot[b] < Slot[c] \/ b = c
        <4> HIDE DEF was
        <4> QED BY <1>1, <1>2, <2>1, <2>3 DEF BroadcastInv, NoneOvertakes
      <3>2. Slot[b] \in Nat /\ Slot[c] \in Nat /\ Slot[d] \in Nat /\ Slot[d] > Slot[c]
        BY SlotAssumption DEF TypeOK, Behind
      <3> QED BY <3>1, <3>2
    <2> QED BY <2>2, <2>3
  <1>9. s \notin disturbed => bcast[s].size = Cardinality(active)
    BY <1>1, <1>2 DEF BroadcastInv, UndisturbedGoOn
  <1>10. GoesOn(s, rest, bcast[s].size, lock)
    <2> HIDE DEF rest, was
    <2> QED BY <1>5, <1>6, <1>7, <1>8, <1>9 DEF GoesOn
  <1>11. ASSUME NEW b \in Conn, NEW t \in Seqs \ {s}, Within(drain[b], t)
         PROVE  Within(lock[b], t)
    <2>1. PICK j \in 1..Len(drain[b]) : drain[b][j] = t
      BY <1>11 DEF Within
    <2>2. CASE b = c
      <3>1. j # 1
        BY <1>1, <2>1, <2>2
      <3>2. j - 1 \in 1..Len(lock[c]) /\ (j - 1) + 1 = j
        BY <1>1, <2>2, <3>1
      <3>3. lock[c][j - 1] = drain[c][(j - 1) + 1]
        BY <1>1, <3>2
      <3> QED BY <2>1, <2>2, <3>2, <3>3 DEF Within
    <2>3. CASE b # c
      BY <1>1, <1>11, <2>3
    <2> QED BY <2>2, <2>3
  <1>12. \A b \in Conn : Within(drain[b], s) => b = c
    BY <1>3 DEF Within
  <1> QED BY <1>1, <1>4, <1>10, <1>11, <1>12 DEF s, lock

\* What happens to the connections disturbs all calls that wait, or takes
\* nothing from the connections that are served.
LEMMA BroadcastsKept ==
    ASSUME TypeOK, BroadcastInv, UNCHANGED <<log, bcast, drain>>,
           \/ Waiting \subseteq disturbed'
           \/ /\ UNCHANGED <<active, disturbed>>
              /\ \A b \in active : stat[b] \in {"open", "cut"} =>
                                   stat'[b] \in {"open", "cut"}
    PROVE  BroadcastInv'
  <1>1. WaitingAreKnown' /\ OnePlace(drain')
    BY DEF BroadcastInv, WaitingAreKnown, Waiting
  <1>2. ASSUME NEW b \in Conn, NEW i \in 1..Len(drain[b])
        PROVE  /\ bcast[drain[b][i]].pc = "waiting"
               /\ drain[b][i] \in Waiting
               /\ drain[b][i] \notin disturbed =>
                     /\ b \in active /\ stat[b] \in {"open", "cut"}
                     /\ bcast[drain[b][i]].size = Cardinality(active)
    <2>1. drain[b][i] \in Seqs
      BY ElementOfSeq DEF TypeOK
    <2> QED BY <2>1 DEF BroadcastInv, UndisturbedGoOn, Waiting
  <1>3. CASE Waiting \subseteq disturbed'
    <2>1. NoneOvertakes(drain', disturbed')
      BY <1>2, <1>3 DEF NoneOvertakes
    <2>2. UndisturbedGoOn(drain, disturbed)'
      BY <1>2, <1>3 DEF UndisturbedGoOn
    <2> QED BY <1>1, <2>1, <2>2 DEF BroadcastInv
  <1>4. CASE /\ UNCHANGED <<active, disturbed>>
             /\ \A b \in active : stat[b] \in {"open", "cut"} =>
                                  stat'[b] \in {"open", "cut"}
    <2>1. NoneOvertakes(drain', disturbed')
      BY <1>4 DEF BroadcastInv
    <2>2. UndisturbedGoOn(drain, disturbed)'
      BY <1>2, <1>4 DEF UndisturbedGoOn
    <2> QED BY <1>1, <2>1, <2>2 DEF BroadcastInv
  <1> QED BY <1>3, <1>4

\* What the server does without sending leaves the sessions what they had.
LEMMA SessionsKept ==
    ASSUME TypeOK, SessionInv, disturbed \subseteq disturbed',
           UNCHANGED <<log, chan, phase, link, buf, page, busy, last>>,
           \A c \in Conn : stat'[c] = "open" =>
              /\ stat[c] = "open"
              /\ \A b \in Conn : \A t \in Seqs :
                    Within(drain[b], t) => Within(drain'[b], t) \/ t \in disturbed'
    PROVE  SessionInv'
  <1> SUFFICES ASSUME NEW k \in Consumer PROVE SessionOf(k)'
    BY DEF SessionInv, OwnConnection
  <1>1. SessionOf(k) /\ Incoming(k)' = Incoming(k)
    BY DEF SessionInv, Incoming
  <1>2. MessagesAreKnown(k)' /\ WorksForNext(k)'
    BY <1>1 DEF SessionOf, MessagesAreKnown, WorksForNext
  <1>3. ReceivedInOrder(k)'
    <2> SUFFICES ASSUME Fed(k)
                 PROVE  InOrder(Incoming(k), last[k], busy[k], disturbed')
      BY <1>1 DEF ReceivedInOrder, Fed
    <2>1. /\ Incoming(k) \in Seq(Seqs)
          /\ last[k] \in 0..MaxSeq /\ busy[k] \in 0..MaxSeq
          /\ InOrder(Incoming(k), last[k], busy[k], disturbed)
      BY <1>1, SessionTypes DEF SessionOf, ReceivedInOrder, Fed
    <2> QED BY <2>1, OrderKept
  <1>4. NoneMissed(k)'
    <2> SUFFICES ASSUME Fed(k), stat'[link[k]] = "open",
                        NEW t \in 1..Len(log), Due(k, t)',
                        ~Within(Incoming(k), t)
                 PROVE  \E b \in Conn :
                           Slot[b] < Slot[link[k]] /\ Within(drain'[b], t)
      BY <1>1 DEF NoneMissed, Fed
    <2>1. link[k] \in Conn /\ Due(k, t) /\ t \notin disturbed' /\ t \in Seqs
      <3>1. t \in Seqs
        BY BoundAssumption, LenProperties DEF TypeOK, Seqs
      <3> QED BY <3>1, SessionTypes DEF Fed, Due
    <2>2. PICK b \in Conn : Slot[b] < Slot[link[k]] /\ Within(drain[b], t)
      BY <1>1, <2>1 DEF SessionOf, NoneMissed
    <2> QED BY <2>1, <2>2
  <1> QED BY <1>2, <1>3, <1>4 DEF SessionOf

LEMMA ResumeKeeps ==
    ASSUME TypeOK, BroadcastInv, SessionInv, LiveSessionRegistered,
           NEW c \in Conn, Resume(c)
    PROVE  BroadcastInv' /\ SessionInv'
  <1> USE BoundAssumption DEF Seqs
  <1> DEFINE s    == First(c)
             lock == Others(c)
             rest == Behind(c)
             dead == bcast[s].dead \cup (IF Drained(c) THEN {} ELSE {c})
             size == bcast[s].size
  <1>1. /\ s \in Waiting /\ lock \in [Conn -> Seq(Seqs)]
        /\ GoesOn(s, rest, size, lock)
        /\ \A b \in Conn : \A t \in Seqs \ {s} :
              Within(drain[b], t) => Within(lock[b], t)
        /\ \A b \in Conn : Within(drain[b], s) => b = c
    BY TakenUp DEF Resume
  <1>2. s \in Seqs /\ Len(log) \in Nat /\ s <= Len(log)
    BY <1>1, LenProperties DEF BroadcastInv, WaitingAreKnown, Waiting, TypeOK
  <1>3. UNCHANGED <<log, stat, phase, link, buf, page, busy, last>>
    BY DEF Resume, sessionVars, workVars
  <1>4. CASE Cardinality(active) # size
    <2>1. /\ bcast' = [bcast EXCEPT ![s] = AbortedCall(s)]
          /\ drain' = lock
          /\ UNCHANGED <<active, disturbed, chan>>
      BY <1>4 DEF Resume, First, Others
    <2> HIDE DEF s, lock, rest, dead, size
    <2>2. s \in disturbed
      BY <1>1, <1>4 DEF GoesOn
    <2>3. \A t \in Seqs \ {s} : bcast'[t] = bcast[t]
      BY <2>1 DEF TypeOK
    <2>4. bcast'[s].pc # "waiting"
      BY <1>2, <2>1 DEF AbortedCall, NoCall, TypeOK
    <2>5. BroadcastInv'
      <3>1. WaitingAreKnown'
        BY <1>3, <2>3, <2>4 DEF BroadcastInv, WaitingAreKnown, Waiting
      <3>2. OnePlace(drain') /\ NoneOvertakes(drain', disturbed')
        BY <1>1, <2>1 DEF GoesOn
      <3>3. UndisturbedGoOn(drain, disturbed)'
        <4>1. ASSUME NEW b \in Conn, NEW i \in 1..Len(lock[b])
              PROVE  bcast'[lock[b][i]] = bcast[lock[b][i]]
          <5>1. lock[b][i] \in Seqs
            BY <1>1, ElementOfSeq
          <5> QED BY <1>1, <2>3, <5>1 DEF GoesOn
        <4> QED BY <1>1, <1>3, <2>1, <4>1 DEF GoesOn, UndisturbedGoOn
      <3> QED BY <3>1, <3>2, <3>3 DEF BroadcastInv
    <2>6. SessionInv'
      <3>1. \A d \in Conn : stat'[d] = "open" =>
              /\ stat[d] = "open"
              /\ \A b \in Conn : \A t \in Seqs :
                    Within(drain[b], t) => Within(drain'[b], t) \/ t \in disturbed'
        BY <1>1, <1>3, <2>1, <2>2
      <3>2. disturbed \subseteq disturbed'
            /\ UNCHANGED <<log, chan, phase, link, buf, page, busy, last>>
        BY <1>3, <2>1
      <3> QED BY <3>1, <3>2, SessionsKept
    <2> QED BY <2>5, <2>6
  <1>5. CASE Cardinality(active) = size
    <2>1. Deliver(s, rest, dead, size, lock)
      BY <1>5 DEF Resume, First, Others, Behind
    <2>2. dead \in SUBSET Conn /\ size \in Nat /\ rest \in SUBSET active
      BY <1>2 DEF TypeOK, Call, Behind
    <2>3. ASSUME NEW k \in Consumer, Fed(k), stat[link[k]] = "open", Due(k, s),
                 ~Within(Incoming(k), s)
          PROVE  link[k] \in rest
      <3>1. s \in 1..Len(log)
        BY <1>2
      <3> HIDE DEF s
      <3>2. PICK b \in Conn : Slot[b] < Slot[link[k]] /\ Within(drain[b], s)
        BY <2>3, <3>1 DEF SessionInv, SessionOf, NoneMissed
      <3>3. b = c
        BY <1>1, <3>2
      <3>4. link[k] \in active /\ Slot[c] \in Nat /\ Slot[link[k]] \in Nat
        BY <2>3, SlotAssumption DEF LiveSessionRegistered, Fed, TypeOK
      <3> QED BY <3>2, <3>3, <3>4 DEF Behind
    <2>4. /\ stat' = stat /\ Len(log') \in Nat
          /\ s <= Len(log) + 1 /\ s <= Len(log') /\ Len(log) <= Len(log')
          /\ Len(log') = Len(log) \/ Len(log') = s
      BY <1>2, <1>3
    <2>5. \A k \in Consumer : Fed(k) /\ stat[link[k]] = "open" /\ Due(k, s) =>
             Within(Incoming(k), s) \/ link[k] \in rest
      BY <2>3
    <2> HIDE DEF s, lock, rest, dead, size
    <2>6. BroadcastInv'
      BY <1>1, <1>2, <2>1, <2>2, <2>4, DeliverKeepsBroadcasts
    <2>7. SessionInv'
      BY <1>1, <1>2, <1>3, <2>1, <2>2, <2>4, <2>5, DeliverKeepsSessions
    <2> QED BY <2>6, <2>7
  <1> QED BY <1>4, <1>5

-----------------------------------------------------------------------------
(* The steps of a consumer.                                                *)

\* A consumer's own steps leave the others what they had.
LEMMA OthersKept ==
    ASSUME TypeOK, SessionInv, NEW k \in Consumer,
           UNCHANGED <<log, drain>>, disturbed \subseteq disturbed',
           \A j \in Consumer \ {k} :
              /\ phase'[j] = phase[j] /\ link'[j] = link[j] /\ buf'[j] = buf[j]
              /\ page'[j] = page[j] /\ busy'[j] = busy[j] /\ last'[j] = last[j]
              /\ phase[j] # "idle" =>
                    /\ chan'[link[j]] = chan[link[j]]
                    /\ stat'[link[j]] = stat[link[j]]
                    /\ phase'[k] # "idle" => link'[k] # link[j],
           SessionOf(k)'
    PROVE  SessionInv'
  <1>1. OwnConnection'
    BY DEF SessionInv, OwnConnection
  <1>2. ASSUME NEW j \in Consumer \ {k} PROVE SessionOf(j)'
    <2>1. /\ phase'[j] = phase[j] /\ link'[j] = link[j] /\ buf'[j] = buf[j]
          /\ page'[j] = page[j] /\ busy'[j] = busy[j] /\ last'[j] = last[j]
          /\ phase[j] # "idle" =>
                /\ chan'[link[j]] = chan[link[j]] /\ stat'[link[j]] = stat[link[j]]
      OBVIOUS
    <2>2. SessionOf(j) /\ (phase[j] # "idle" => Incoming(j)' = Incoming(j))
      BY <2>1 DEF SessionInv, Incoming
    <2>3. MessagesAreKnown(j)' /\ WorksForNext(j)'
      BY <2>1, <2>2 DEF SessionOf, MessagesAreKnown, WorksForNext
    <2>4. ReceivedInOrder(j)'
      <3> SUFFICES ASSUME Fed(j)
                   PROVE  InOrder(Incoming(j), last[j], busy[j], disturbed')
        BY <2>1, <2>2 DEF ReceivedInOrder, Fed
      <3>1. /\ Incoming(j) \in Seq(Seqs)
            /\ last[j] \in 0..MaxSeq /\ busy[j] \in 0..MaxSeq
            /\ InOrder(Incoming(j), last[j], busy[j], disturbed)
        BY <2>2, SessionTypes DEF SessionOf, ReceivedInOrder, Fed
      <3> QED BY <3>1, OrderKept
    <2>5. NoneMissed(j)'
      <3> SUFFICES ASSUME Fed(j), stat[link[j]] = "open",
                          NEW t \in 1..Len(log), Due(j, t)
                   PROVE  \/ Within(Incoming(j), t)
                          \/ \E b \in Conn : Slot[b] < Slot[link[j]] /\ Within(drain[b], t)
        BY <2>1, <2>2 DEF NoneMissed, Fed, Due
      <3> QED BY <2>2 DEF SessionOf, NoneMissed
    <2> QED BY <2>3, <2>4, <2>5 DEF SessionOf
  <1> QED BY <1>1, <1>2 DEF SessionInv

\* The next message is taken from what a fed session has received.
LEMMA TakesNext ==
    ASSUME TypeOK, SessionInv, NEW k \in Consumer, Fed(k), busy[k] = 0,
           Incoming(k) # <<>>,
           Incoming(k)' = Tail(Incoming(k)),
           busy'[k] = IF IsNew(k, Head(Incoming(k))) THEN Head(Incoming(k)) ELSE 0,
           phase'[k] = phase[k], phase'[k] = "listen" => buf'[k] = <<>>,
           UNCHANGED <<log, drain, disturbed, stat, link, page, last>>
    PROVE  SessionOf(k)'
  <1> DEFINE q == Incoming(k)
             l == last[k]
             w == busy'[k]
  <1>1. SessionOf(k)
    BY DEF SessionInv
  <1>2. /\ q \in Seq(Seqs) /\ q # <<>> /\ l \in 0..MaxSeq
        /\ InOrder(q, l, 0, disturbed)
        /\ w = IF Head(q) > l THEN Head(q) ELSE 0
    BY <1>1, SessionTypes DEF SessionOf, ReceivedInOrder, Fed, IsNew
  <1>3. Len(log) \in Nat /\ phase[k] # "idle"
    BY LenProperties DEF TypeOK, Fed
  <1> HIDE DEF q, l, w
  <1>4. /\ InOrder(Tail(q), l, w, disturbed)
        /\ w # 0 => \A t \in Seqs : l < t /\ t < w => t \in disturbed
        /\ \A t \in Seqs : l < t /\ t # w /\ Within(q, t) => Within(Tail(q), t)
    BY <1>2, OrderPopped
  <1>5. /\ Len(Tail(q)) = Len(q) - 1 /\ Len(q) \in Nat \ {0} /\ Head(q) = q[1]
        /\ \A i \in 1..Len(Tail(q)) : Tail(q)[i] = q[i + 1]
    BY <1>2, HeadTailProperties, EmptySeq
  <1>6. \A i \in 1..Len(q) : q[i] <= Len(log)
    BY <1>1, <1>3 DEF SessionOf, MessagesAreKnown, q
  <1>7. MessagesAreKnown(k)'
    <2>1. \A i \in 1..Len(Tail(q)) : Tail(q)[i] <= Len(log)
      BY <1>5, <1>6
    <2>2. w <= Len(log)
      <3>1. q[1] <= Len(log)
        BY <1>5, <1>6
      <3> QED BY <1>2, <1>3, <1>5, <3>1
    <2> QED BY <1>1, <2>1, <2>2 DEF SessionOf, MessagesAreKnown, q, w
  <1>8. WorksForNext(k)'
    BY <1>4 DEF WorksForNext, l, w
  <1>9. ReceivedInOrder(k)'
    BY <1>4 DEF ReceivedInOrder, q, l, w
  <1>10. NoneMissed(k)'
    <2> SUFFICES ASSUME stat[link[k]] = "open",
                        NEW t \in 1..Len(log), l < t, t # w, t \notin disturbed,
                        ~Within(Tail(q), t)
                 PROVE  \E b \in Conn : Slot[b] < Slot[link[k]] /\ Within(drain[b], t)
      BY DEF NoneMissed, Due, q, l, w, Fed
    <2>1. t \in Seqs /\ t # 0
      BY BoundAssumption, LenProperties DEF TypeOK, Seqs
    <2>2. ~Within(q, t)
      BY <1>4, <2>1
    <2>3. Due(k, t)
      BY <2>1 DEF Due, l
    <2> QED BY <1>1, <2>2, <2>3 DEF SessionOf, NoneMissed, q
  <1> QED BY <1>7, <1>8, <1>9, <1>10 DEF SessionOf

\* The steps with which a consumer opens and closes a session, and the loss
\* of what its connection still held.
LEMMA ConnectKeeps ==
    ASSUME TypeOK, BroadcastInv, SessionInv,
           NEW k \in Consumer, NEW c \in Conn, Connect(k, c)
    PROVE  BroadcastInv' /\ SessionInv'
  <1> USE BoundAssumption DEF Seqs
  <1>1. disturbed \subseteq disturbed'
    BY DEF Connect, SetActive
  <1>2. BroadcastInv'
    <2>1. \/ Waiting \subseteq disturbed'
          \/ /\ UNCHANGED <<active, disturbed>>
             /\ \A b \in active : stat[b] \in {"open", "cut"} =>
                                  stat'[b] \in {"open", "cut"}
      BY DEF Connect, SetActive, TypeOK
    <2>2. UNCHANGED <<log, bcast, drain>>
      BY DEF Connect
    <2> QED BY <2>1, <2>2, BroadcastsKept
  <1>3. /\ phase'[k] = "catchup" /\ link'[k] = c /\ buf'[k] = <<>> /\ page'[k] = last[k]
        /\ chan'[c] = <<>>
        /\ \A d \in Conn \ {c} : chan'[d] = chan[d] /\ stat'[d] = stat[d]
        /\ \A j \in Consumer \ {k} :
              /\ phase'[j] = phase[j] /\ link'[j] = link[j] /\ buf'[j] = buf[j]
              /\ page'[j] = page[j] /\ link[j] # c
        /\ UNCHANGED <<log, drain, busy, last>>
    BY DEF Connect, Fresh, TypeOK, workVars
  <1>4. SessionOf(k)'
    <2>1. SessionOf(k)
      BY DEF SessionInv
    <2>2. Incoming(k)' = <<>>
      BY <1>3 DEF Incoming
    <2>3. MessagesAreKnown(k)'
      BY <1>3, <2>1, <2>2 DEF SessionOf, MessagesAreKnown
    <2>4. WorksForNext(k)'
      BY <1>1, <1>3, <2>1 DEF SessionOf, WorksForNext
    <2> QED BY <1>3, <2>3, <2>4 DEF SessionOf, ReceivedInOrder, NoneMissed, Fed
  <1>5. \A j \in Consumer \ {k} : phase[j] # "idle" => link[j] \in Conn \ {c}
    BY <1>3 DEF TypeOK
  <1>6. SessionInv'
    BY <1>1, <1>3, <1>4, <1>5, OthersKept
  <1> QED BY <1>2, <1>6

LEMMA LoseTailKeeps ==
    ASSUME TypeOK, SessionInv, NEW c \in Conn, LoseTail(c)
    PROVE  SessionInv'
  <1> USE BoundAssumption DEF Seqs
  <1>1. PICK n \in 0..(Len(chan[c]) - 1) :
           chan' = [chan EXCEPT ![c] = SubSeq(@, 1, n)]
    BY DEF LoseTail
  <1>2. /\ stat[c] # "open"
        /\ UNCHANGED <<log, drain, disturbed, stat, phase, link, buf, page, busy, last>>
    BY DEF LoseTail, registryVars, sessionVars, workVars
  <1> SUFFICES ASSUME NEW k \in Consumer PROVE SessionOf(k)'
    BY <1>2 DEF SessionInv, OwnConnection
  <1>3. SessionOf(k)
    BY DEF SessionInv
  <1>4. CASE phase[k] # "idle" /\ link[k] = c
    <2> DEFINE p == buf[k]
               q == chan[c]
               r == p \o SubSeq(q, 1, n)
               o == p \o q
    <2>1. p \in Seq(Seqs) /\ q \in Seq(Seqs) /\ n \in 0..Len(q)
      BY <1>1, LenProperties DEF TypeOK
    <2>2. Incoming(k)' = r /\ Incoming(k) = o
      BY <1>1, <1>2, <1>4 DEF Incoming, TypeOK
    <2>3. o \in Seq(Seqs) /\ last[k] \in 0..MaxSeq /\ busy[k] \in 0..MaxSeq
      BY <1>4, <2>2, SessionTypes
    <2> HIDE DEF p, q
    <2>4. /\ r \in Seq(Seqs) /\ Len(r) \in 0..Len(o)
          /\ \A i \in 1..Len(r) : r[i] = o[i]
      <3>1. /\ SubSeq(q, 1, n) \in Seq(Seqs)
            /\ Len(r) \in 0..Len(o) /\ \A i \in 1..Len(r) : r[i] = o[i]
        BY <2>1, Prefixes
      <3> QED BY <2>1, <3>1, ConcatProperties
    <2> HIDE DEF r, o
    <2>5. Len(o) \in Nat
      BY <2>3, LenProperties
    <2>6. MessagesAreKnown(k)'
      <3>1. \A i \in 1..Len(o) : o[i] <= Len(log)
        BY <1>3, <1>4, <2>2 DEF SessionOf, MessagesAreKnown
      <3>2. \A i \in 1..Len(r) : r[i] <= Len(log)
        BY <2>4, <2>5, <3>1
      <3> QED BY <1>2, <1>3, <2>2, <3>2 DEF SessionOf, MessagesAreKnown
    <2>7. ReceivedInOrder(k)'
      <3> SUFFICES ASSUME Fed(k) PROVE InOrder(r, last[k], busy[k], disturbed)
        BY <1>2, <2>2 DEF ReceivedInOrder, Fed
      <3>1. InOrder(o, last[k], busy[k], disturbed)
        BY <1>3, <2>2 DEF SessionOf, ReceivedInOrder
      <3> QED BY <2>3, <2>4, <3>1, OrderKept
    <2>8. NoneMissed(k)' /\ WorksForNext(k)'
      BY <1>2, <1>3, <1>4 DEF NoneMissed, SessionOf, WorksForNext
    <2> QED BY <2>6, <2>7, <2>8 DEF SessionOf
  <1>5. CASE ~(phase[k] # "idle" /\ link[k] = c)
    <2>1. phase[k] # "idle" => Incoming(k)' = Incoming(k)
      BY <1>1, <1>2, <1>5 DEF Incoming, TypeOK
    <2> QED BY <1>2, <1>3, <2>1
            DEF SessionOf, MessagesAreKnown, ReceivedInOrder, NoneMissed,
                WorksForNext, Fed, Due
  <1> QED BY <1>4, <1>5

\* The steps within a session that neither take a message nor end an event.
LEMMA WithinSession ==
    ASSUME TypeOK, SessionInv, NEW k \in Consumer,
           \/ BufferWs(k) \/ CatchUpPage(k) \/ CatchUpEmpty(k) \/ CatchUpEnd(k)
           \/ HandlePaged(k) \/ ReplayEnd(k) \/ SessionEnd(k) \/ CatchUpFails(k)
    PROVE  SessionInv'
  <1> USE BoundAssumption DEF Seqs
  <1>1. SessionOf(k) /\ OwnConnection
    BY DEF SessionInv
  <1>2. Len(log) \in Nat /\ last[k] \in Nat /\ busy[k] \in Nat /\ page[k] \in Nat
    BY LenProperties DEF TypeOK
  <1>3. /\ UNCHANGED <<log, drain, disturbed, last>> /\ phase[k] # "idle"
        /\ phase'[k] # "idle" => link'[k] = link[k]
        /\ \A j \in Consumer \ {k} :
              /\ phase'[j] = phase[j] /\ link'[j] = link[j] /\ buf'[j] = buf[j]
              /\ page'[j] = page[j] /\ busy'[j] = busy[j]
        /\ \A c \in Conn \ {link[k]} : chan'[c] = chan[c] /\ stat'[c] = stat[c]
    <2> USE DEF registryVars, sessionVars, workVars
    <2>1. CASE BufferWs(k)
      BY <2>1 DEF BufferWs, TypeOK
    <2>2. CASE CatchUpPage(k) \/ CatchUpEmpty(k) \/ CatchUpEnd(k)
      BY <2>2 DEF CatchUpPage, CatchUpEmpty, CatchUpEnd, Requests, TypeOK
    <2>3. CASE HandlePaged(k) \/ ReplayEnd(k) \/ SessionEnd(k)
      BY <2>3 DEF HandlePaged, ReplayEnd, SessionEnd, TypeOK
    <2>4. CASE CatchUpFails(k)
      BY <2>4 DEF CatchUpFails, Requests, TypeOK
    <2> QED BY <2>1, <2>2, <2>3, <2>4
  <1>4. SessionOf(k)'
    <2>1. CASE BufferWs(k)
      <3> DEFINE p == buf[k]
                 q == chan[link[k]]
      <3>1. p \in Seq(Seqs) /\ q \in Seq(Seqs) /\ q # <<>>
        BY <1>3, <2>1, SessionTypes DEF BufferWs
      <3>2. /\ buf'[k] = Append(p, Head(q)) /\ chan'[link[k]] = Tail(q)
            /\ link' = link /\ phase' = phase /\ phase[k] # "listen"
        BY <1>3, <2>1 DEF BufferWs, TypeOK
      <3>3. Incoming(k)' = Append(p, Head(q)) \o Tail(q) /\ Incoming(k) = p \o q
        BY <3>2 DEF Incoming
      <3> HIDE DEF p, q
      <3>4. Incoming(k)' = Incoming(k)
        BY <3>1, <3>3, Queues
      <3>5. UNCHANGED <<stat, page, busy>>
        BY <2>1 DEF BufferWs, workVars
      <3> QED BY <1>1, <1>3, <3>2, <3>4, <3>5
              DEF SessionOf, MessagesAreKnown, ReceivedInOrder, NoneMissed,
                  WorksForNext, Fed, Due
    <2>2. CASE CatchUpPage(k)
      <3>1. page'[k] <= Len(log)
        BY <1>2, <2>2 DEF CatchUpPage, Smaller, TypeOK
      <3>2. UNCHANGED <<stat, chan, phase, link, buf, busy>>
        BY <2>2 DEF CatchUpPage, workVars
      <3> QED BY <1>1, <1>3, <3>1, <3>2
              DEF SessionOf, MessagesAreKnown, ReceivedInOrder, NoneMissed,
                  WorksForNext, Fed, Due, Incoming
    <2>3. CASE CatchUpEmpty(k)
      <3>1. /\ last[k] = Len(log) /\ phase'[k] = "caughtup"
            /\ UNCHANGED <<stat, chan, link, buf, page, busy>>
        BY <2>3 DEF CatchUpEmpty, Requests, TypeOK, workVars
      <3>2. \A i \in 1..Len(Incoming(k)) : Incoming(k)[i] <= Len(log)
        BY <1>1, <1>3 DEF SessionOf, MessagesAreKnown
      <3>3. Incoming(k)' = Incoming(k) /\ Incoming(k) \in Seq(Seqs)
        BY <1>3, <3>1, SessionTypes DEF Incoming
      <3>4. InOrder(Incoming(k), last[k], busy[k], disturbed)
        <4>1. \A i \in 1..Len(Incoming(k)) : Incoming(k)[i] \in Seqs
          BY <3>3, ElementOfSeq
        <4> QED BY <1>2, <3>1, <3>2, <4>1 DEF InOrder
      <3>5. MessagesAreKnown(k)' /\ WorksForNext(k)'
        BY <1>1, <1>3, <3>1, <3>2, <3>3 DEF SessionOf, MessagesAreKnown, WorksForNext
      <3>6. ReceivedInOrder(k)'
        BY <1>3, <3>1, <3>3, <3>4 DEF ReceivedInOrder
      <3>7. NoneMissed(k)'
        BY <1>2, <1>3, <3>1 DEF NoneMissed, Due
      <3> QED BY <3>5, <3>6, <3>7 DEF SessionOf
    <2>4. CASE CatchUpEnd(k)
      <3>1. /\ phase[k] = "caughtup" /\ phase'[k] = "replay" /\ page'[k] = 0
            /\ UNCHANGED <<stat, chan, link, buf, busy>>
        BY <2>4 DEF CatchUpEnd, TypeOK, workVars
      <3>2. Incoming(k)' = Incoming(k)
        BY <3>1 DEF Incoming
      <3>3. MessagesAreKnown(k)' /\ WorksForNext(k)'
        BY <1>1, <1>2, <1>3, <3>1, <3>2 DEF SessionOf, MessagesAreKnown, WorksForNext
      <3>4. ReceivedInOrder(k)'
        BY <1>1, <1>3, <3>1, <3>2 DEF SessionOf, ReceivedInOrder, Fed
      <3>5. NoneMissed(k)'
        BY <1>1, <1>3, <3>1, <3>2 DEF SessionOf, NoneMissed, Fed, Due
      <3> QED BY <3>3, <3>4, <3>5 DEF SessionOf
    <2>5. CASE HandlePaged(k)
      <3>1. /\ phase[k] = "catchup" /\ last[k] < page[k] /\ busy'[k] = last[k] + 1
            /\ UNCHANGED <<stat, chan, phase, link, buf, page>>
        BY <2>5 DEF HandlePaged, TypeOK, sessionVars
      <3>2. MessagesAreKnown(k)'
        <4>1. Incoming(k)' = Incoming(k)
          BY <3>1 DEF Incoming
        <4>2. busy'[k] <= Len(log) /\ page[k] <= Len(log)
          BY <1>1, <1>2, <3>1 DEF SessionOf, MessagesAreKnown
        <4> QED BY <1>1, <1>3, <3>1, <4>1, <4>2 DEF SessionOf, MessagesAreKnown
      <3>3. WorksForNext(k)'
        BY <1>2, <1>3, <3>1 DEF WorksForNext
      <3> QED BY <3>1, <3>2, <3>3 DEF SessionOf, ReceivedInOrder, NoneMissed, Fed
    <2>6. CASE ReplayEnd(k)
      <3>1. /\ phase[k] = "replay" /\ phase'[k] = "listen" /\ buf[k] = <<>>
            /\ UNCHANGED <<stat, chan, link, buf, page, busy>>
        BY <2>6 DEF ReplayEnd, TypeOK, workVars
      <3> QED BY <1>1, <1>3, <3>1
              DEF SessionOf, MessagesAreKnown, ReceivedInOrder, NoneMissed,
                  WorksForNext, Fed, Due, Incoming
    <2>7. CASE SessionEnd(k)
      <3>1. phase'[k] = "idle" /\ UNCHANGED <<page, busy>>
        BY <2>7 DEF SessionEnd, TypeOK, workVars
      <3> QED BY <1>1, <1>3, <3>1
              DEF SessionOf, MessagesAreKnown, ReceivedInOrder, NoneMissed,
                  WorksForNext, Fed
    <2>8. CASE CatchUpFails(k)
      <3>1. phase'[k] = "idle" /\ page'[k] = 0 /\ UNCHANGED busy
        BY <2>8 DEF CatchUpFails, TypeOK, workVars
      <3> QED BY <1>1, <1>2, <1>3, <3>1
              DEF SessionOf, MessagesAreKnown, ReceivedInOrder, NoneMissed,
                  WorksForNext, Fed
    <2> QED BY <2>1, <2>2, <2>3, <2>4, <2>5, <2>6, <2>7, <2>8
  <1>5. \A j \in Consumer \ {k} : phase[j] # "idle" =>
           link[j] \in Conn /\ link[j] # link[k]
    BY <1>1, <1>3 DEF OwnConnection, TypeOK
  <1> QED BY <1>3, <1>4, <1>5, OthersKept

\* The next event of the buffer or of the connection.
LEMMA HandleKeeps ==
    ASSUME TypeOK, SessionInv, NEW k \in Consumer,
           HandleBuffered(k) \/ HandleLive(k)
    PROVE  SessionInv'
  <1> DEFINE p == buf[k]
             q == chan[link[k]]
  <1>1. /\ Fed(k) /\ phase[k] # "idle" /\ busy[k] = 0
        /\ p \in Seq(Seqs) /\ q \in Seq(Seqs) /\ link[k] \in Conn
        /\ Incoming(k) = p \o q
        /\ phase[k] = "listen" => p = <<>>
    <2>1. Fed(k) /\ phase[k] # "idle" /\ busy[k] = 0
      BY DEF HandleBuffered, HandleLive, Fed
    <2>2. phase[k] = "listen" => buf[k] = <<>>
      BY DEF SessionInv, SessionOf, MessagesAreKnown
    <2> QED BY <2>1, <2>2, SessionTypes DEF Incoming
  <1>2. /\ UNCHANGED <<log, drain, disturbed, stat, phase, link, page, last>>
        /\ \A j \in Consumer \ {k} : buf'[j] = buf[j] /\ busy'[j] = busy[j]
        /\ \A c \in Conn \ {link[k]} : chan'[c] = chan[c]
    BY DEF HandleBuffered, HandleLive, TypeOK, registryVars, sessionVars
  <1>3. /\ Incoming(k) # <<>> /\ Incoming(k)' = Tail(Incoming(k))
        /\ busy'[k] = IF IsNew(k, Head(Incoming(k))) THEN Head(Incoming(k)) ELSE 0
        /\ phase'[k] = "listen" => buf'[k] = <<>>
    <2>1. CASE HandleBuffered(k)
      <3>1. /\ p # <<>> /\ buf'[k] = Tail(p) /\ chan' = chan /\ link' = link
            /\ busy'[k] = IF IsNew(k, Head(p)) THEN Head(p) ELSE 0
            /\ phase[k] = "replay" /\ phase' = phase
        BY <2>1 DEF HandleBuffered, TypeOK
      <3>2. Incoming(k)' = Tail(p) \o q
        BY <3>1 DEF Incoming
      <3> HIDE DEF p, q
      <3>3. p \o q # <<>> /\ Head(p \o q) = Head(p) /\ Tail(p \o q) = Tail(p) \o q
        BY <1>1, <3>1, Queues
      <3> QED BY <1>1, <3>1, <3>2, <3>3
    <2>2. CASE HandleLive(k)
      <3>1. /\ q # <<>> /\ chan'[link[k]] = Tail(q) /\ UNCHANGED <<buf, link, phase>>
            /\ busy'[k] = IF IsNew(k, Head(q)) THEN Head(q) ELSE 0
            /\ phase[k] = "listen"
        BY <1>1, <2>2 DEF HandleLive, TypeOK, sessionVars
      <3>2. Incoming(k)' = p \o Tail(q)
        BY <3>1 DEF Incoming
      <3>3. buf'[k] = p
        BY <3>1
      <3> HIDE DEF p, q
      <3>4. p = <<>> /\ p \o q = q
        BY <1>1, <3>1, Queues
      <3>5. Tail(q) \in Seq(Seqs)
        BY <1>1, <3>1, HeadTailProperties
      <3>6. p \o Tail(q) = Tail(q)
        BY <1>1, <3>4, <3>5, Queues
      <3> QED BY <1>1, <3>1, <3>2, <3>3, <3>4, <3>6
    <2> QED BY <2>1, <2>2
  <1>4. SessionOf(k)'
    BY <1>1, <1>2, <1>3, TakesNext
  <1>5. \A j \in Consumer \ {k} : phase[j] # "idle" =>
           link[j] \in Conn /\ link[j] # link[k]
    BY <1>1 DEF SessionInv, OwnConnection, TypeOK
  <1> QED BY <1>2, <1>4, <1>5, OthersKept

\* on_event is done: what is between the last event and this one is disturbed.
LEMMA FinishKeeps ==
    ASSUME TypeOK, OrderInv, SessionInv, NoGapUnlessDisturbed, LastIsHandled,
           NEW k \in Consumer, Finish(k)
    PROVE  /\ SessionInv' /\ NoGapUnlessDisturbed' /\ LastIsHandled'
           /\ Stream!Handle(k, busy[k]) /\ busy[k] \in 1..Len(log)
  <1> USE BoundAssumption DEF Seqs
  <1>1. /\ SessionOf(k) /\ busy[k] \in Seqs /\ busy[k] > last[k]
        /\ last[k] \in 0..MaxSeq /\ last[k] = Stream!LastOf(handled[k])
        /\ Len(log) \in Nat
    BY LenProperties DEF SessionInv, OrderInv, LastIsHandled, Finish, TypeOK
  <1>2. /\ busy'[k] = 0 /\ last'[k] = busy[k]
        /\ handled'[k] = Append(handled[k], busy[k])
        /\ handled' = [handled EXCEPT ![k] = Append(@, busy[k])]
        /\ \A j \in Consumer \ {k} :
              busy'[j] = busy[j] /\ last'[j] = last[j] /\ handled'[j] = handled[j]
        /\ UNCHANGED <<log, drain, disturbed, stat, chan, phase, link, buf, page>>
    BY DEF Finish, TypeOK, registryVars, sessionVars
  <1>3. SessionInv'
    <2>0. Incoming(k)' = Incoming(k)
      BY <1>2 DEF Incoming
    <2>a. WorksForNext(k)'
      BY <1>2 DEF WorksForNext
    <2>b. MessagesAreKnown(k)
      BY <1>1 DEF SessionOf
    <2>c. MessagesAreKnown(k)'
      <3>1. /\ phase'[k] = "listen" => buf'[k] = <<>>
            /\ last'[k] <= Len(log') /\ page'[k] <= Len(log') /\ busy'[k] <= Len(log')
        BY <1>1, <1>2, <2>b DEF MessagesAreKnown
      <3>2. phase'[k] # "idle" =>
               \A i \in 1..Len(Incoming(k)) : Incoming(k)[i] <= Len(log')
        BY <1>2, <2>b DEF MessagesAreKnown
      <3> QED BY <2>0, <3>1, <3>2 DEF MessagesAreKnown
    <2>1. MessagesAreKnown(k)' /\ WorksForNext(k)' /\ Incoming(k)' = Incoming(k)
      BY <2>0, <2>a, <2>c
    <2>2. ReceivedInOrder(k)'
      <3> SUFFICES ASSUME Fed(k) PROVE InOrder(Incoming(k), busy[k], 0, disturbed)
        BY <1>2, <2>1 DEF ReceivedInOrder, Fed
      <3>1. InOrder(Incoming(k), last[k], busy[k], disturbed)
        BY <1>1 DEF SessionOf, ReceivedInOrder
      <3>2. Incoming(k) \in Seq(Seqs)
        BY SessionTypes DEF Fed
      <3>3. busy[k] \in 0..MaxSeq
        BY <1>1
      <3> QED BY <1>1, <3>1, <3>2, <3>3, OrderKept
    <2>3. NoneMissed(k)'
      <3> SUFFICES ASSUME Fed(k), stat[link[k]] = "open",
                          NEW t \in 1..Len(log), busy[k] < t, t \notin disturbed
                   PROVE  \/ Within(Incoming(k), t)
                          \/ \E b \in Conn : Slot[b] < Slot[link[k]] /\ Within(drain[b], t)
        BY <1>2, <2>1 DEF NoneMissed, Fed, Due
      <3>1. Due(k, t)
        BY <1>1 DEF Due
      <3> QED BY <1>1, <3>1 DEF SessionOf, NoneMissed
    <2>4. SessionOf(k)'
      BY <2>1, <2>2, <2>3 DEF SessionOf
    <2>5. \A j \in Consumer \ {k} :
             phase[j] # "idle" /\ phase[k] # "idle" => link[j] # link[k]
      BY DEF SessionInv, OwnConnection
    <2> QED BY <1>2, <2>4, <2>5, OthersKept
  <1>4. /\ handled[k] \in Seq(Seqs) /\ Len(handled[k]) \in Nat
        /\ Len(handled'[k]) = Len(handled[k]) + 1
        /\ \A i \in 1..Len(handled[k]) : handled'[k][i] = handled[k][i]
        /\ handled'[k][Len(handled[k]) + 1] = busy[k]
        /\ handled'[k] # <<>>
    <2>1. handled[k] \in Seq(Seqs)
      BY DEF TypeOK
    <2> DEFINE h  == handled[k]
               h2 == Append(h, busy[k])
    <2>2. Len(h) \in Nat
      BY <2>1, LenProperties
    <2>3. /\ h2 \in Seq(Seqs) /\ Len(h2) = Len(h) + 1
          /\ \A i \in 1..Len(h) : h2[i] = h[i]
          /\ h2[Len(h) + 1] = busy[k]
      BY <1>1, <2>1, AppendProperties
    <2>4. h2 # <<>>
      BY <2>2, <2>3
    <2>5. handled'[k] = h2
      BY <1>2
    <2> HIDE DEF h2
    <2> QED BY <2>1, <2>2, <2>3, <2>4, <2>5
  <1>5. (last[k] + 1)..(busy[k] - 1) \subseteq disturbed
    BY <1>1 DEF SessionOf, WorksForNext
  <1>6. NoGapUnlessDisturbed'
    <2>a. HandledSet(k)' = {handled'[k][i] : i \in 1..Len(handled'[k])}
      BY DEF HandledSet
    <2>b. busy[k] \in HandledSet(k)'
      <3>1. Len(handled[k]) + 1 \in 1..Len(handled'[k])
        BY <1>4
      <3> QED BY <1>4, <2>a, <3>1
    <2>c. ASSUME NEW t \in HandledSet(k) PROVE t \in HandledSet(k)'
      <3>1. PICK i \in 1..Len(handled[k]) : handled[k][i] = t
        BY <2>c DEF HandledSet
      <3>2. i \in 1..Len(handled'[k]) /\ handled'[k][i] = t
        BY <1>4, <3>1
      <3> QED BY <2>a, <3>2
    <2>1. HandledSet(k) \subseteq HandledSet(k)' /\ busy[k] \in HandledSet(k)'
      BY <2>b, <2>c
    <2>2. 1..busy[k] \subseteq HandledSet(k)' \cup disturbed
      <3> SUFFICES ASSUME NEW t \in 1..busy[k], t # busy[k], t \notin disturbed
                   PROVE  t \in HandledSet(k)'
        BY <2>1
      <3>1. t <= last[k]
        BY <1>1, <1>5
      <3>2. t \in 1..last[k]
        BY <1>1, <3>1
      <3> QED BY <2>1, <3>2 DEF NoGapUnlessDisturbed
    <2>3. \A j \in Consumer \ {k} : HandledSet(j)' = HandledSet(j)
      BY <1>2 DEF HandledSet
    <2>4. ASSUME NEW j \in Consumer
          PROVE  1..last'[j] \subseteq HandledSet(j)' \cup disturbed'
      <3>1. CASE j = k
        BY <1>2, <2>2, <3>1
      <3>2. CASE j # k
        BY <1>2, <2>3, <3>2 DEF NoGapUnlessDisturbed
      <3> QED BY <3>1, <3>2
    <2> QED BY <2>4 DEF NoGapUnlessDisturbed
  <1>7. LastIsHandled'
    <2>1. Stream!LastOf(handled'[k]) = busy[k]
      BY <1>4 DEF Stream!LastOf
    <2> QED BY <1>2, <2>1 DEF LastIsHandled
  <1>8. busy[k] \in 1..Len(log)
    BY <1>1 DEF SessionOf, MessagesAreKnown
  <1>9. Stream!Handle(k, busy[k])
    BY <1>1, <1>2, <1>5, <1>8 DEF Stream!Handle
  <1> QED BY <1>3, <1>6, <1>7, <1>8, <1>9

-----------------------------------------------------------------------------
(* The theorems.                                                           *)

\* Every step but the end of an on_event at most publishes an event and
\* gives up some that wait.
Quiet ==
    /\ Len(log') = Len(log) \/ Len(log') = Len(log) + 1
    /\ disturbed \subseteq disturbed'
    /\ disturbed' \subseteq disturbed \cup Waiting
    /\ UNCHANGED <<handled, last>>

LEMMA QuietSteps ==
    ASSUME TypeOK, [Next]_vars
    PROVE  Quiet \/ \E k \in Consumer : Finish(k)
  <1> USE DEF Quiet
  <1>1. ASSUME NEW s \in Seqs, NEW rest \in SUBSET Conn,
               NEW dead \in SUBSET Conn, NEW size \in Nat,
               NEW lock \in [Conn -> Seq(Seqs)],
               Deliver(s, rest, dead, size, lock)
        PROVE  disturbed \subseteq disturbed' /\ disturbed' \subseteq disturbed \cup Waiting
    BY <1>1, DeliverIsStretch DEF Stretch
  <1>2. ASSUME NEW origin \in 0..MaxSeq, Commit(origin), UNCHANGED <<handled, last>>
        PROVE  Quiet
    <2> DEFINE s == Len(log) + 1
    <2>1. s \in Seqs
      BY <1>2, CommitType
    <2>2. /\ active \in SUBSET Conn /\ {} \in SUBSET Conn
          /\ drain \in [Conn -> Seq(Seqs)] /\ Cardinality(active) \in Nat
      BY ConnAssumption, FS_Subset, FS_CardinalityType DEF TypeOK
    <2>3. Deliver(s, active, {}, Cardinality(active), drain)
      BY <1>2 DEF Commit
    <2> HIDE DEF s
    <2>4. disturbed \subseteq disturbed' /\ disturbed' \subseteq disturbed \cup Waiting
      BY <1>1, <2>1, <2>2, <2>3
    <2>5. Len(log') = Len(log) + 1
      BY <1>2, AppendProperties DEF Commit, TypeOK
    <2> QED BY <1>2, <2>4, <2>5
  <1>3. ASSUME NEW c \in Conn, Resume(c) PROVE Quiet
    <2> DEFINE s    == Head(drain[c])
               lock == [drain EXCEPT ![c] = Tail(@)]
               rest == {d \in active : Slot[d] > Slot[c]}
               dead == bcast[s].dead \cup (IF Drained(c) THEN {} ELSE {c})
    <2>1. s \in Seqs /\ lock \in [Conn -> Seq(Seqs)]
      BY <1>3, QueueType DEF Resume, TypeOK
    <2>2. rest \in SUBSET Conn /\ dead \in SUBSET Conn /\ bcast[s].size \in Nat
      BY <1>3, <2>1 DEF TypeOK, Call
    <2>3. UNCHANGED disturbed \/ Deliver(s, rest, dead, bcast[s].size, lock)
      BY <1>3 DEF Resume
    <2> HIDE DEF s, lock, rest, dead
    <2>4. disturbed \subseteq disturbed' /\ disturbed' \subseteq disturbed \cup Waiting
      BY <1>1, <2>1, <2>2, <2>3
    <2> QED BY <1>3, <2>4 DEF Resume, workVars
  <1>4. ASSUME NEW k \in Consumer, NEW c \in Conn, Connect(k, c) PROVE Quiet
    BY <1>4 DEF Connect, SetActive, workVars
  <1>5. ASSUME NEW c \in Conn, Drop(c) \/ LoseTail(c) \/ ServerNotices(c) \/ Disconnect(c)
        PROVE  Quiet
    BY <1>5 DEF Drop, LoseTail, ServerNotices, Disconnect, SetActive, registryVars, workVars
  <1>6. ASSUME NEW k \in Consumer,
               \/ BufferWs(k) \/ CatchUpPage(k) \/ CatchUpEmpty(k) \/ CatchUpEnd(k)
               \/ CatchUpFails(k) \/ HandlePaged(k) \/ HandleBuffered(k)
               \/ ReplayEnd(k) \/ HandleLive(k) \/ SessionEnd(k)
        PROVE  Quiet
    BY <1>6 DEF BufferWs, CatchUpPage, CatchUpEmpty, CatchUpEnd, CatchUpFails,
                HandlePaged, HandleBuffered, ReplayEnd, HandleLive, SessionEnd,
                registryVars, workVars
  <1>7. ASSUME NEW k \in Consumer, Attempt(k) PROVE Quiet
    BY <1>2, <1>7 DEF Attempt, TypeOK
  <1>8. CASE Post
    BY <1>2, <1>8, BoundAssumption DEF Post, workVars
  <1>9. CASE RegistryRestart \/ UNCHANGED vars
    BY <1>9 DEF RegistryRestart, vars, workVars
  <1> QED BY <1>3, <1>4, <1>5, <1>6, <1>7, <1>8, <1>9
          DEF Next, ConnStep, ConsumerStep, Emit, Retry

\* One step per action; Finish alone touches the last two conjuncts.
LEMMA StreamStep ==
    TypeOK /\ OrderInv /\ LiveSessionRegistered /\ StreamInv /\ [Next]_vars => StreamInv'
  <1> SUFFICES ASSUME TypeOK, OrderInv, LiveSessionRegistered, StreamInv, [Next]_vars
               PROVE  StreamInv'
    OBVIOUS
  <1>1. BroadcastInv /\ SessionInv /\ NoGapUnlessDisturbed /\ LastIsHandled
    BY DEF StreamInv
  <1>2. ASSUME NEW origin \in 0..MaxSeq, Commit(origin),
               UNCHANGED <<stat, phase, link, buf, page, busy, last>>
        PROVE  BroadcastInv' /\ SessionInv'
    BY <1>1, <1>2, CommitKeeps
  <1>3. ASSUME Post PROVE BroadcastInv' /\ SessionInv'
    <2>1. Commit(0) /\ 0 \in 0..MaxSeq
      BY <1>3, BoundAssumption DEF Post
    <2>2. UNCHANGED <<stat, phase, link, buf, page, busy, last>>
      BY <1>3 DEF Post, workVars
    <2>3. BroadcastInv' /\ SessionInv'
      BY <1>2, <2>1, <2>2
    <2> QED BY <2>3
  <1>4. ASSUME NEW k \in Consumer, Attempt(k) PROVE BroadcastInv' /\ SessionInv'
    BY <1>2, <1>4 DEF Attempt, sessionVars, TypeOK
  <1>5. ASSUME NEW c \in Conn, Resume(c) PROVE BroadcastInv' /\ SessionInv'
    BY <1>1, <1>5, ResumeKeeps
  <1>6. ASSUME RegistryRestart PROVE BroadcastInv' /\ SessionInv'
    <2>1. BroadcastInv'
      <3>1. \A c \in Conn : drain'[c] = <<>> /\ Len(drain'[c]) = 0
        BY <1>6 DEF RegistryRestart
      <3>2. \A s \in Seqs : bcast'[s].pc # "waiting"
        BY <1>6 DEF RegistryRestart, TypeOK, Waiting, AbortedCall, NoCall
      <3> QED BY <3>1, <3>2
              DEF BroadcastInv, OnePlace, NoneOvertakes, UndisturbedGoOn,
                  WaitingAreKnown, Waiting
    <2>2. /\ disturbed \subseteq disturbed' /\ \A c \in Conn : stat'[c] # "open"
          /\ UNCHANGED <<log, chan, phase, link, buf, page, busy, last>>
      BY <1>6 DEF RegistryRestart, sessionVars, workVars
    <2>3. \A c \in Conn : stat'[c] = "open" =>
              /\ stat[c] = "open"
              /\ \A b \in Conn : \A t \in Seqs :
                    Within(drain[b], t) => Within(drain'[b], t) \/ t \in disturbed'
      BY <2>2
    <2>4. SessionInv'
      BY <1>1, <2>2, <2>3, SessionsKept
    <2> QED BY <2>1, <2>4
  <1>7. ASSUME NEW c \in Conn, Drop(c) \/ ServerNotices(c) \/ Disconnect(c)
        PROVE  BroadcastInv' /\ SessionInv'
    <2>1. /\ UNCHANGED <<log, bcast, drain, chan, phase, link, buf, page, busy, last>>
          /\ disturbed \subseteq disturbed'
          /\ \A d \in Conn : stat'[d] = "open" => stat[d] = "open"
      BY <1>7 DEF Drop, ServerNotices, Disconnect, SetActive, TypeOK,
                  registryVars, sessionVars, workVars
    <2>2. \/ Waiting \subseteq disturbed'
          \/ /\ UNCHANGED <<active, disturbed>>
             /\ \A b \in active : stat[b] \in {"open", "cut"} =>
                                  stat'[b] \in {"open", "cut"}
      <3>1. CASE Drop(c)
        BY <3>1 DEF Drop, registryVars, TypeOK
      <3>2. CASE ServerNotices(c)
        BY <3>2 DEF ServerNotices
      <3>3. CASE Disconnect(c)
        BY <3>3 DEF Disconnect, SetActive, TypeOK
      <3> QED BY <1>7, <3>1, <3>2, <3>3
    <2>3. BroadcastInv'
      BY <1>1, <2>1, <2>2, BroadcastsKept
    <2>4. SessionInv'
      BY <1>1, <2>1, SessionsKept
    <2> QED BY <2>3, <2>4
  <1>8. ASSUME NEW c \in Conn, LoseTail(c) PROVE BroadcastInv' /\ SessionInv'
    <2>1. UNCHANGED <<log, bcast, drain, active, stat, disturbed>>
      BY <1>8 DEF LoseTail, registryVars
    <2> QED BY <1>1, <1>8, <2>1, BroadcastsKept, LoseTailKeeps
  <1>9. ASSUME NEW k \in Consumer, NEW c \in Conn, Connect(k, c)
        PROVE  BroadcastInv' /\ SessionInv'
    BY <1>1, <1>9, ConnectKeeps
  <1>10. ASSUME NEW k \in Consumer,
               \/ BufferWs(k) \/ CatchUpPage(k) \/ CatchUpEmpty(k) \/ CatchUpEnd(k)
               \/ CatchUpFails(k) \/ HandlePaged(k) \/ HandleBuffered(k)
               \/ ReplayEnd(k) \/ HandleLive(k) \/ SessionEnd(k)
        PROVE  BroadcastInv' /\ SessionInv'
    <2>1. /\ UNCHANGED <<log, bcast, drain, active, disturbed>>
          /\ \A b \in active : stat[b] \in {"open", "cut"} => stat'[b] \in {"open", "cut"}
      <3>1. CASE CatchUpFails(k)
        BY <3>1 DEF CatchUpFails, registryVars, TypeOK
      <3>2. CASE ~CatchUpFails(k)
        BY <1>10, <3>2
        DEF BufferWs, CatchUpPage, CatchUpEmpty, CatchUpEnd,
            HandlePaged, HandleBuffered, ReplayEnd, HandleLive, SessionEnd,
            registryVars
      <3> QED BY <3>1, <3>2
    <2>2. BroadcastInv'
      BY <1>1, <2>1, BroadcastsKept
    <2>3. SessionInv'
      BY <1>1, <1>10, WithinSession, HandleKeeps
    <2> QED BY <2>2, <2>3
  <1>11. ASSUME NEW k \in Consumer, Finish(k) PROVE StreamInv'
    <2>1. UNCHANGED <<log, bcast, drain, active, stat, disturbed>>
      BY <1>11 DEF Finish, registryVars
    <2>2. BroadcastInv'
      BY <1>1, <2>1, BroadcastsKept
    <2> QED BY <1>1, <1>11, <2>2, FinishKeeps DEF StreamInv
  <1>12. ASSUME UNCHANGED vars PROVE BroadcastInv' /\ SessionInv'
    <2>1. UNCHANGED <<log, bcast, drain, active, stat, chan, phase, link, buf, page,
                      busy, last, disturbed>>
      BY <1>12 DEF vars
    <2>2. /\ disturbed \subseteq disturbed'
          /\ \A c \in Conn : stat'[c] = "open" =>
              /\ stat[c] = "open"
              /\ \A b \in Conn : \A t \in Seqs :
                    Within(drain[b], t) => Within(drain'[b], t) \/ t \in disturbed'
          /\ \A b \in active : stat[b] \in {"open", "cut"} => stat'[b] \in {"open", "cut"}
      BY <2>1
    <2>3. BroadcastInv'
      BY <1>1, <2>1, <2>2, BroadcastsKept
    <2>4. SessionInv'
      BY <1>1, <2>1, <2>2, SessionsKept
    <2> QED BY <2>3, <2>4
  <1>13. CASE Quiet
    <2>1. NoGapUnlessDisturbed' /\ LastIsHandled'
      BY <1>1, <1>13 DEF Quiet, NoGapUnlessDisturbed, HandledSet, LastIsHandled
    <2>2. ASSUME NEW c \in Conn, ConnStep(c) PROVE BroadcastInv' /\ SessionInv'
      BY <1>5, <1>7, <1>8, <2>2 DEF ConnStep
    <2>3. ASSUME NEW k \in Consumer, ConsumerStep(k), ~Finish(k)
          PROVE  BroadcastInv' /\ SessionInv'
      <3>1. CASE \E c \in Conn : Connect(k, c)
        BY <1>9, <3>1
      <3>2. CASE Emit(k) \/ Retry(k)
        BY <1>4, <3>2 DEF Emit, Retry
      <3>3. CASE ~(\E c \in Conn : Connect(k, c)) /\ ~Emit(k) /\ ~Retry(k)
        BY <1>10, <2>3, <3>3 DEF ConsumerStep
      <3> QED BY <3>1, <3>2, <3>3
    <2>4. CASE \E k \in Consumer : Finish(k)
      BY <1>11, <2>4
    <2>5. CASE ~ \E k \in Consumer : Finish(k)
      <3>1. BroadcastInv' /\ SessionInv'
        BY <1>3, <1>6, <1>12, <2>2, <2>3, <2>5 DEF Next
      <3> QED BY <2>1, <3>1 DEF StreamInv
    <2> QED BY <2>4, <2>5
  <1> QED BY <1>11, <1>13, QuietSteps

LEMMA StreamInitially == Init => StreamInv /\ OrderInv
  <1> SUFFICES ASSUME Init PROVE StreamInv /\ OrderInv
    OBVIOUS
  <1>1. BroadcastInv
    BY DEF Init, NoCall, BroadcastInv, OnePlace, NoneOvertakes, UndisturbedGoOn,
           WaitingAreKnown, Waiting
  <1>2. SessionInv
    BY BoundAssumption DEF Init, SessionInv, SessionOf, OwnConnection, MessagesAreKnown,
           ReceivedInOrder, NoneMissed, WorksForNext, Fed
  <1>3. NoGapUnlessDisturbed /\ LastIsHandled
    BY DEF Init, NoGapUnlessDisturbed, LastIsHandled, Stream!LastOf
  <1>4. OrderInv
    BY DEF Init, OrderInv
  <1> QED BY <1>1, <1>2, <1>3, <1>4 DEF StreamInv

LEMMA StreamAlways == Spec => [](TypeOK /\ OrderInv /\ StreamInv)
  <1> QED BY StreamInitially, OrderStep, StreamStep, TypeCorrect,
             LiveSessionRegisteredHolds, PTL DEF Spec

\* A consumer that has passed an event has handled it, unless connections came
\* or went while the broadcast of that event was suspended: catch-up, buffer
\* and live connection leave no gap between them, whatever breaks.
THEOREM NoGapUnlessDisturbedHolds == Spec => []NoGapUnlessDisturbed
  <1>1. StreamInv => NoGapUnlessDisturbed
    BY DEF StreamInv
  <1> QED BY <1>1, StreamAlways, PTL

\* The event stream implements OrderedStream: the end of an on_event is the
\* handling of the next event that is not lost, all other steps at most publish
\* an event and give up some that were published.
THEOREM StreamImplementsOrderedStream == Spec => DeliversInOrder
  <1>1. Init => Stream!Init
    BY DEF Init, Stream!Init
  <1>2. TypeOK /\ OrderInv /\ StreamInv /\ [Next]_vars
           => [Stream!Next]_<<Len(log), disturbed, handled>>
    <2> SUFFICES ASSUME TypeOK, OrderInv, StreamInv, [Next]_vars PROVE Stream!Next
      OBVIOUS
    <2>1. ASSUME NEW k \in Consumer, Finish(k) PROVE Stream!Next
      <3>1. Stream!Handle(k, busy[k]) /\ busy[k] \in 1..Len(log)
        BY <2>1, FinishKeeps DEF StreamInv
      <3> QED BY <3>1 DEF Stream!Next
    <2>2. CASE Quiet
      <3>1. Waiting \subseteq 1..Len(log)
        BY BoundAssumption DEF StreamInv, BroadcastInv, WaitingAreKnown, Waiting, Seqs
      <3>2. Len(log) \in Nat
        BY LenProperties DEF TypeOK
      <3>a. Len(log') \in {Len(log), Len(log) + 1} /\ UNCHANGED handled
        BY <2>2 DEF Quiet
      <3>b. 1..Len(log) \subseteq 1..Len(log')
        BY <3>2, <3>a
      <3>c. disturbed \subseteq disturbed' /\ disturbed' \ disturbed \subseteq Waiting
        BY <2>2 DEF Quiet
      <3>3. /\ Len(log') \in {Len(log), Len(log) + 1}
            /\ disturbed \subseteq disturbed' /\ disturbed' \ disturbed \subseteq 1..Len(log')
            /\ UNCHANGED handled
        BY <3>1, <3>a, <3>b, <3>c
      <3> QED BY <3>3 DEF Stream!Next, Stream!Publish
    <2> QED BY <2>1, <2>2, QuietSteps
  <1> QED BY <1>1, <1>2, StreamAlways, PTL DEF Spec, DeliversInOrder, Stream!Spec

=============================================================================
