---------------------------- MODULE EventStream ----------------------------
(***************************************************************************)
(* The registry's event stream: the event log behind GET and POST /events, *)
(* the ConnectionManager that broadcasts each committed event over the     *)
(* WebSocket connections, and the EventConsumers that read both.           *)
(*                                                                         *)
(* The registry is one asyncio loop, so a handler is atomic between its    *)
(* awaits.  The only await after a commit is send_json inside broadcast:   *)
(* it writes the message and then waits until the transport has drained.   *)
(* One action therefore commits an event and carries its broadcast up to   *)
(* the first connection that makes it wait; Resume carries it on.          *)
(*                                                                         *)
(* Connections are objects of which Conn are alive at a time; an object is *)
(* reused only when nothing refers to the old one.  Slot is its place in   *)
(* the iteration order of the set active_connections.                      *)
(***************************************************************************)
EXTENDS Integers, Sequences, FiniteSets

CONSTANTS
    Conn,         \* WebSocket connections
    Slot,         \* Slot[c]: place of c in the set's iteration order
    Consumer,     \* EventConsumer objects, one per consuming process
    Converter,    \* the consumers that are converter daemons
    Cap,          \* messages a transport takes before a send has to wait
    PageSize,     \* limit of the catch-up request (1000 in the code)
    MaxAttempts,  \* attempts of a daemon's POST /events (4 in the code)
    MaxSeq,       \* bound: events committed in a behaviour
    NoConn        \* "no connection"

Seqs == 1..MaxSeq

ASSUME ConnAssumption == IsFiniteSet(Conn) /\ NoConn \notin Conn
ASSUME SlotAssumption ==
    /\ Slot \in [Conn -> Nat]
    /\ \A c, d \in Conn : Slot[c] = Slot[d] => c = d
ASSUME ConverterAssumption == Converter \subseteq Consumer
ASSUME BoundAssumption ==
    /\ Cap \in Nat
    /\ PageSize \in Nat \ {0}
    /\ MaxAttempts \in Nat \ {0}
    /\ MaxSeq \in Nat

VARIABLES
    log,        \* log[s]: 0 for a delivery.created event, and for a
                \* conversion event the seq of the created event it follows
    bcast,      \* bcast[s]: the call of broadcast for event s
    drain,      \* drain[c]: broadcasts waiting for c to drain, oldest first
    active,     \* ConnectionManager.active_connections
    stat,       \* stat[c]: state of the connection as the server sees it,
                \* "cut" when it is broken and the server does not know yet
    chan,       \* chan[c]: messages sent on c that its client can still read
    phase,      \* phase[k]: where consumer k is in run and _session
    link,       \* link[k]: the connection of k's session
    buf,        \* buf[k]: _ws_buffer
    page,       \* page[k]: last seq of the catch-up page k is working on,
                \* 0 when it is not catching up
    busy,       \* busy[k]: the event on_event is handling, 0 when none
    posted,     \* posted[k]: the events that k's on_event has posted for it
    last,       \* last[k]: _last_seq, which the daemon also keeps on disk
    handled,    \* history: the events whose on_event returned, in order
    disturbed   \* history: the events whose broadcast was suspended when
                \* active_connections changed or a connection was lost

registryVars == <<log, bcast, drain, active, disturbed>>
sessionVars  == <<phase, link, buf, page>>
workVars     == <<busy, posted, last, handled>>
vars == <<log, bcast, drain, active, stat, chan, phase, link, buf, page,
          busy, posted, last, handled, disturbed>>

-----------------------------------------------------------------------------
NoCall == [pc |-> "none", dead |-> {}, size |-> 0]

Waiting == {s \in Seqs : bcast[s].pc = "waiting"}

Smaller(a, b) == IF a < b THEN a ELSE b

Init ==
    /\ log = <<>>
    /\ bcast = [s \in Seqs |-> NoCall]
    /\ drain = [c \in Conn |-> <<>>]
    /\ active = {}
    /\ stat = [c \in Conn |-> "none"]
    /\ chan = [c \in Conn |-> <<>>]
    /\ phase = [k \in Consumer |-> "idle"]
    /\ link = [k \in Consumer |-> NoConn]
    /\ buf = [k \in Consumer |-> <<>>]
    /\ page = [k \in Consumer |-> 0]
    /\ busy = [k \in Consumer |-> 0]
    /\ posted = [k \in Consumer |-> {}]
    /\ last = [k \in Consumer |-> 0]
    /\ handled = [k \in Consumer |-> <<>>]
    /\ disturbed = {}

-----------------------------------------------------------------------------
(* ConnectionManager.broadcast                                             *)

\* active_connections changes to `members` while the broadcasts in
\* `suspended` are waiting.
SetActive(members, suspended) ==
    /\ active' = members
    /\ disturbed' = IF members = active THEN disturbed
                                        ELSE disturbed \cup suspended

\* The connections of `rest` at which a send of the broadcast has to wait:
\* the transport is over its limit, or another broadcast holds its drain
\* lock.  `stuck` are broken ones whose transport happens to be full.
Blockers(rest, lock, stuck) ==
    {c \in rest : \/ stat[c] = "open" /\ Len(chan[c]) >= Cap
                  \/ stat[c] \in {"open", "cut"} /\ lock[c] # <<>>
                  \/ c \in stuck}

\* The connections the loop gets to before its first wait.
Reached(rest, blockers) ==
    {c \in rest : \A b \in blockers : Slot[c] <= Slot[b]}

\* A send on a connection the server knows is closed raises, and the
\* connection is noted as dead.
Closed == {c \in Conn : stat[c] \in {"lost", "none"}}

SendTo(s, reached) ==
    chan' = [c \in Conn |-> IF c \in reached /\ stat[c] = "open"
                              THEN Append(chan[c], s) ELSE chan[c]]

\* The loop is over and the dead connections are discarded.
BroadcastDone(s, dead, lock) ==
    /\ bcast' = [bcast EXCEPT ![s] = NoCall]
    /\ drain' = lock
    /\ SetActive(active \ dead, Waiting \ {s})

\* The send to b waits.
BroadcastWaits(s, b, dead, size, lock) ==
    /\ bcast' = [bcast EXCEPT ![s] =
                   [pc |-> "waiting", dead |-> dead, size |-> size]]
    /\ drain' = [lock EXCEPT ![b] = Append(@, s)]
    /\ UNCHANGED <<active, disturbed>>

\* The loop of broadcast over `rest`, in slot order, until a send waits.
\* `lock` is drain without this call.
Deliver(s, rest, dead, size, lock) ==
    \E stuck \in SUBSET {c \in rest : stat[c] = "cut"} :
        LET blockers == Blockers(rest, lock, stuck)
            reached  == Reached(rest, blockers)
            dead2    == dead \cup (reached \cap Closed)
        IN  /\ SendTo(s, reached)
            /\ \/ blockers = {} /\ BroadcastDone(s, dead2, lock)
               \/ \E b \in blockers \cap reached :
                     BroadcastWaits(s, b, dead2, size, lock)

\* insert_event commits the next seq and its handler starts to broadcast.
Commit(origin) ==
    /\ Len(log) < MaxSeq
    /\ log' = Append(log, origin)
    /\ Deliver(Len(log) + 1, active, {}, Cardinality(active), drain)

\* create_delivery (or a PATCH) commits a new event.
Post ==
    /\ Commit(0)
    /\ UNCHANGED <<stat, phase, link, buf, page, workVars>>

\* The call of broadcast for s ends with an exception.  Whoever posted the
\* event gets no good answer; only the daemons of the module look at it.
AbortedCall(s) ==
    [NoCall EXCEPT !.pc = IF log[s] = 0 THEN "none" ELSE "aborted"]

\* The send that waits at c returns, because c drained, or raises, because
\* the server has noticed that c is closed.
Drained(c) == stat[c] = "open" /\ Len(chan[c]) <= Cap

\* The oldest broadcast waiting at c goes on.  Iterating a set whose size
\* changed raises RuntimeError: the call is over, the request fails with
\* status 500, and `dead` is not discarded.
Resume(c) ==
    /\ drain[c] # <<>>
    /\ Drained(c) \/ stat[c] \in {"lost", "none"}
    /\ LET s    == Head(drain[c])
           lock == [drain EXCEPT ![c] = Tail(@)]
           rest == {d \in active : Slot[d] > Slot[c]}
           dead == bcast[s].dead \cup (IF Drained(c) THEN {} ELSE {c})
       IN  IF Cardinality(active) # bcast[s].size
             THEN /\ bcast' = [bcast EXCEPT ![s] = AbortedCall(s)]
                  /\ drain' = lock
                  /\ UNCHANGED <<active, disturbed, chan>>
             ELSE Deliver(s, rest, dead, bcast[s].size, lock)
    /\ UNCHANGED <<log, stat, sessionVars, workVars>>

-----------------------------------------------------------------------------
(* Connections                                                             *)

\* Nothing refers to c any more: it can stand for a new connection.
Fresh(c) ==
    /\ stat[c] = "none"
    /\ drain[c] = <<>>
    /\ \A k \in Consumer : link[k] # c
    /\ \A s \in Seqs : c \notin bcast[s].dead

\* run connects; websocket_events accepts and adds the connection; the
\* session starts with an empty buffer and the buffer task running.
Connect(k, c) ==
    /\ phase[k] = "idle"
    /\ Fresh(c)
    /\ stat' = [stat EXCEPT ![c] = "open"]
    /\ chan' = [chan EXCEPT ![c] = <<>>]
    /\ SetActive(active \cup {c}, Waiting)
    /\ phase' = [phase EXCEPT ![k] = "catchup"]
    /\ link' = [link EXCEPT ![k] = c]
    /\ buf' = [buf EXCEPT ![k] = <<>>]
    /\ page' = [page EXCEPT ![k] = last[k]]
    /\ UNCHANGED <<log, bcast, drain, workVars>>

\* The network breaks c without the server noticing.
Drop(c) ==
    /\ stat[c] = "open"
    /\ stat' = [stat EXCEPT ![c] = "cut"]
    /\ UNCHANGED <<registryVars, chan, sessionVars, workVars>>

\* A message in flight on a closed connection is lost with all after it.
LoseTail(c) ==
    /\ stat[c] # "open"
    /\ \E n \in 0..(Len(chan[c]) - 1) :
          chan' = [chan EXCEPT ![c] = SubSeq(@, 1, n)]
    /\ UNCHANGED <<registryVars, stat, sessionVars, workVars>>

\* Mutant of KeepaliveTimeout: no keepalive ping is configured.
NoKeepalive(c) == c \notin Conn

\* The server learns that c is broken, from the network or because the
\* keepalive ping of a connection whose client does not read times out.
KeepaliveTimeout(c) ==
    /\ stat[c] = "open" /\ Len(chan[c]) > Cap

ServerNotices(c) ==
    /\ stat[c] = "cut" \/ KeepaliveTimeout(c)
    /\ stat' = [stat EXCEPT ![c] = "lost"]
    /\ disturbed' = disturbed \cup Waiting
    /\ UNCHANGED <<log, bcast, drain, active, chan, sessionVars, workVars>>

\* Mutant of Disconnect: the finally clause empties the set.
DisconnectAll(c) ==
    /\ stat[c] = "lost"
    /\ stat' = [stat EXCEPT ![c] = "none"]
    /\ SetActive({}, Waiting)
    /\ UNCHANGED <<log, bcast, drain, chan, sessionVars, workVars>>

\* receive_text raises in websocket_events and its finally discards c.
Disconnect(c) ==
    /\ stat[c] = "lost"
    /\ stat' = [stat EXCEPT ![c] = "none"]
    /\ SetActive(active \ {c}, Waiting)
    /\ UNCHANGED <<log, bcast, drain, chan, sessionVars, workVars>>

\* The registry process dies and is started again by its watchdog.  What
\* it committed is in the database; connections and handlers are gone.
RegistryRestart ==
    /\ bcast' = [s \in Seqs |-> IF s \in Waiting THEN AbortedCall(s)
                                                ELSE bcast[s]]
    /\ drain' = [c \in Conn |-> <<>>]
    /\ active' = {}
    /\ stat' = [c \in Conn |-> "none"]
    /\ UNCHANGED <<log, disturbed, chan, sessionVars, workVars>>

-----------------------------------------------------------------------------
(* EventConsumer                                                           *)

\* Mutant of BufferWs: a message that comes during the catch-up is dropped.
BufferWsDrops(k) ==
    /\ phase[k] \in {"catchup", "caughtup"}
    /\ chan[link[k]] # <<>>
    /\ chan' = [chan EXCEPT ![link[k]] = Tail(@)]
    /\ UNCHANGED <<registryVars, stat, sessionVars, workVars>>

\* _buffer_ws runs beside the catch-up.
BufferWs(k) ==
    /\ phase[k] \in {"catchup", "caughtup"}
    /\ chan[link[k]] # <<>>
    /\ buf' = [buf EXCEPT ![k] = Append(@, Head(chan[link[k]]))]
    /\ chan' = [chan EXCEPT ![link[k]] = Tail(@)]
    /\ UNCHANGED <<registryVars, stat, phase, link, page, workVars>>

\* The consumer asks for the events after _last_seq.
Requests(k) == phase[k] = "catchup" /\ busy[k] = 0 /\ page[k] = last[k]

CatchUpPage(k) ==
    /\ Requests(k)
    /\ last[k] < Len(log)
    /\ page' = [page EXCEPT ![k] = Smaller(last[k] + PageSize, Len(log))]
    /\ UNCHANGED <<registryVars, stat, chan, phase, link, buf, workVars>>

\* Mutant of CatchUpEmpty: the catch-up does not go on until a page is empty.
CatchUpStopsEarly(k) ==
    /\ Requests(k)
    /\ phase' = [phase EXCEPT ![k] = "caughtup"]
    /\ UNCHANGED <<registryVars, stat, chan, link, buf, page, workVars>>

\* The registry answers with an empty page.  Until the consumer has it, more
\* events may be committed and more messages buffered.
CatchUpEmpty(k) ==
    /\ Requests(k)
    /\ last[k] = Len(log)
    /\ phase' = [phase EXCEPT ![k] = "caughtup"]
    /\ UNCHANGED <<registryVars, stat, chan, link, buf, page, workVars>>

\* The empty page ends the catch-up, and the buffer task is cancelled.
CatchUpEnd(k) ==
    /\ phase[k] = "caughtup"
    /\ phase' = [phase EXCEPT ![k] = "replay"]
    /\ page' = [page EXCEPT ![k] = 0]
    /\ UNCHANGED <<registryVars, stat, chan, link, buf, workVars>>

\* raise_for_status or the request itself raises, and run does not catch
\* it: the consumer's process ends, which closes its connection, and its
\* watchdog starts it again with the _last_seq it kept on disk.
CatchUpFails(k) ==
    /\ Requests(k)
    /\ phase' = [phase EXCEPT ![k] = "idle"]
    /\ link' = [link EXCEPT ![k] = NoConn]
    /\ buf' = [buf EXCEPT ![k] = <<>>]
    /\ page' = [page EXCEPT ![k] = 0]
    /\ stat' = [stat EXCEPT ![link[k]] = IF @ = "open" THEN "cut" ELSE @]
    /\ chan' = [chan EXCEPT ![link[k]] = <<>>]
    /\ UNCHANGED <<registryVars, workVars>>

\* on_event is called for the next event of the page; catch-up events are
\* not compared with _last_seq.
HandlePaged(k) ==
    /\ phase[k] = "catchup" /\ busy[k] = 0 /\ last[k] < page[k]
    /\ busy' = [busy EXCEPT ![k] = last[k] + 1]
    /\ UNCHANGED <<registryVars, stat, chan, sessionVars, posted, last, handled>>

\* Mutant of IsNew: no dedup.
AlwaysNew(k, s) == s > 0

\* The dedup test of the replay and of the listening loop.
IsNew(k, s) == s > last[k]

\* The next event of the buffer, once the catch-up is over.
HandleBuffered(k) ==
    /\ phase[k] = "replay" /\ busy[k] = 0 /\ buf[k] # <<>>
    /\ buf' = [buf EXCEPT ![k] = Tail(@)]
    /\ busy' = [busy EXCEPT ![k] =
                  IF IsNew(k, Head(buf[k])) THEN Head(buf[k]) ELSE 0]
    /\ UNCHANGED <<registryVars, stat, chan, phase, link, page,
                   posted, last, handled>>

ReplayEnd(k) ==
    /\ phase[k] = "replay" /\ busy[k] = 0 /\ buf[k] = <<>>
    /\ phase' = [phase EXCEPT ![k] = "listen"]
    /\ UNCHANGED <<registryVars, stat, chan, link, buf, page, workVars>>

\* The next message of the connection.
HandleLive(k) ==
    /\ phase[k] = "listen" /\ busy[k] = 0 /\ chan[link[k]] # <<>>
    /\ chan' = [chan EXCEPT ![link[k]] = Tail(@)]
    /\ busy' = [busy EXCEPT ![k] =
                  IF IsNew(k, Head(chan[link[k]])) THEN Head(chan[link[k]]) ELSE 0]
    /\ UNCHANGED <<registryVars, stat, sessionVars, posted, last, handled>>

\* Mutant of SessionEnd: a session ends without giving up its connection.
SessionEndKeepsLink(k) ==
    /\ phase[k] = "listen" /\ busy[k] = 0 /\ chan[link[k]] = <<>>
    /\ stat[link[k]] # "open"
    /\ phase' = [phase EXCEPT ![k] = "idle"]
    /\ UNCHANGED <<registryVars, stat, chan, link, buf, page, workVars>>

\* The connection is closed and read to its end: run reconnects.
SessionEnd(k) ==
    /\ phase[k] = "listen" /\ busy[k] = 0 /\ chan[link[k]] = <<>>
    /\ stat[link[k]] # "open"
    /\ phase' = [phase EXCEPT ![k] = "idle"]
    /\ link' = [link EXCEPT ![k] = NoConn]
    /\ UNCHANGED <<registryVars, stat, chan, buf, page, workVars>>

-----------------------------------------------------------------------------
(* on_event of a converter daemon: convert_one posts a conversion event    *)
(* for a created one and on_event waits for the answer to that request,    *)
(* which the registry sends when its broadcast is over.                    *)

PostedLast(k) == CHOOSE s \in posted[k] : \A t \in posted[k] : t <= s

Attempt(k) ==
    /\ Commit(busy[k])
    /\ posted' = [posted EXCEPT ![k] = @ \cup {Len(log) + 1}]
    /\ UNCHANGED <<stat, sessionVars, busy, last, handled>>

Emit(k) ==
    /\ k \in Converter
    /\ busy[k] # 0 /\ log[busy[k]] = 0
    /\ posted[k] = {}
    /\ Attempt(k)

\* The registry is done with the last attempt.  Its answer may get lost.
Answered(k) == posted[k] # {} /\ PostedLast(k) \notin Waiting
Succeeded(k) == Answered(k) /\ bcast[PostedLast(k)].pc = "none"

\* _request_with_retry posts again after a 5xx or a network error.
Retry(k) ==
    /\ busy[k] # 0 /\ Answered(k)
    /\ Cardinality(posted[k]) < MaxAttempts
    /\ Attempt(k)

\* on_event returns (after its last attempt an exception is only logged)
\* and _last_seq advances.  The last condition is due to the bound MaxSeq.
Finish(k) ==
    /\ busy[k] # 0
    /\ \/ posted[k] = {}
       \/ Succeeded(k)
       \/ /\ Answered(k)
          /\ Cardinality(posted[k]) = MaxAttempts \/ Len(log) = MaxSeq
    /\ handled' = [handled EXCEPT ![k] = Append(@, busy[k])]
    /\ last' = [last EXCEPT ![k] = busy[k]]
    /\ busy' = [busy EXCEPT ![k] = 0]
    /\ posted' = [posted EXCEPT ![k] = {}]
    /\ UNCHANGED <<registryVars, stat, chan, sessionVars>>

-----------------------------------------------------------------------------
ConnStep(c) ==
    Resume(c) \/ Drop(c) \/ LoseTail(c) \/ ServerNotices(c) \/ Disconnect(c)

ConsumerStep(k) ==
    \/ \E c \in Conn : Connect(k, c)
    \/ BufferWs(k)
    \/ CatchUpPage(k) \/ CatchUpEmpty(k) \/ CatchUpEnd(k) \/ CatchUpFails(k)
    \/ HandlePaged(k) \/ HandleBuffered(k) \/ ReplayEnd(k) \/ HandleLive(k)
    \/ SessionEnd(k)
    \/ Emit(k) \/ Retry(k) \/ Finish(k)

Next ==
    \/ Post
    \/ RegistryRestart
    \/ \E c \in Conn : ConnStep(c)
    \/ \E k \in Consumer : ConsumerStep(k)

Spec == Init /\ [][Next]_vars

\* Tasks that can run do run: the handlers of the registry, the loops of a
\* consumer and on_event, which returns.  uvicorn's keepalive and the TCP
\* stack notice a broken connection in the end.  Requests may fail, but
\* not for ever.  Nothing makes a client post, drop or restart.
Fairness ==
    /\ \A c \in Conn :
          /\ WF_vars(Resume(c))
          /\ WF_vars(ServerNotices(c))
          /\ WF_vars(Disconnect(c))
    /\ \A k \in Consumer :
          /\ WF_vars(\E c \in Conn : Connect(k, c))
          /\ WF_vars(BufferWs(k))
          /\ SF_vars(CatchUpPage(k)) /\ SF_vars(CatchUpEmpty(k))
          /\ WF_vars(CatchUpEnd(k))
          /\ WF_vars(HandlePaged(k)) /\ WF_vars(HandleBuffered(k))
          /\ WF_vars(ReplayEnd(k)) /\ WF_vars(HandleLive(k))
          /\ WF_vars(SessionEnd(k))
          /\ WF_vars(Retry(k)) /\ WF_vars(Finish(k))

FairSpec == Spec /\ Fairness

-----------------------------------------------------------------------------
(* Properties                                                              *)

Call == [pc : {"none", "waiting", "aborted"}, dead : SUBSET Conn, size : Nat]

\* The type invariant of the registry, the connections and the consumers.
TypeOK ==
    /\ log \in Seq(0..MaxSeq) /\ Len(log) <= MaxSeq
    /\ bcast \in [Seqs -> Call]
    /\ drain \in [Conn -> Seq(Seqs)]
    /\ active \subseteq Conn
    /\ stat \in [Conn -> {"none", "open", "cut", "lost"}]
    /\ chan \in [Conn -> Seq(Seqs)]
    /\ phase \in [Consumer -> {"idle", "catchup", "caughtup", "replay", "listen"}]
    /\ link \in [Consumer -> Conn \cup {NoConn}]
    /\ \A k \in Consumer : (link[k] = NoConn) <=> (phase[k] = "idle")
    /\ buf \in [Consumer -> Seq(Seqs)]
    /\ page \in [Consumer -> 0..MaxSeq]
    /\ busy \in [Consumer -> 0..MaxSeq]
    /\ posted \in [Consumer -> SUBSET Seqs]
    /\ last \in [Consumer -> 0..MaxSeq]
    /\ handled \in [Consumer -> Seq(Seqs)]
    /\ disturbed \subseteq Seqs

\* A consumer completes no event twice and none out of order, whatever the
\* catch-up, the buffer and the live connection hand it (the dedup of
\* _session).
HandledInOrder ==
    \A k \in Consumer : \A i, j \in 1..Len(handled[k]) :
        i < j => handled[k][i] < handled[k][j]

HandledSet(k) == {handled[k][i] : i \in 1..Len(handled[k])}

\* What the design promises: no event is skipped (consumer.py, "exactly-once
\* processing").
NoGap == \A k \in Consumer : 1..last[k] \subseteq HandledSet(k)

\* What the code achieves: a consumer that has passed an event has handled
\* it, unless active_connections changed, or a connection was lost, while
\* the broadcast of that event was suspended.
NoGapUnlessDisturbed ==
    \A k \in Consumer : 1..last[k] \subseteq HandledSet(k) \cup disturbed

\* The event stream implements OrderedStream: whatever fails, and however the
\* two ways to an event interleave, a consumer handles committed events in
\* order and has no gap but of events whose broadcast was disturbed before.
Stream == INSTANCE OrderedStream WITH published <- Len(log), lost <- disturbed
DeliversInOrder == Stream!Spec

\* The clean-up of dead connections in broadcast and the finally clause of
\* websocket_events never take a live session out of active_connections.
LiveSessionRegistered ==
    \A k \in Consumer :
        phase[k] # "idle" /\ stat[link[k]] = "open" => link[k] \in active

\* Every broadcast, and so every request that commits an event, comes to an
\* end, even when it waits for a daemon whose on_event waits for it.
BroadcastEnds ==
    \A s \in Seqs : s \in Waiting ~> s \notin Waiting

\* Every consumer gets past every committed event, whatever fails on the
\* way, unless the broadcast of that event was disturbed.
EventuallyPassed ==
    \A k \in Consumer : \A s \in Seqs :
        s <= Len(log) ~> last[k] >= s \/ s \in disturbed

=============================================================================
