------------------------------ MODULE Registry ------------------------------
(***************************************************************************)
(* The registry's tables and the request handlers that change them: POST   *)
(* and PATCH /deliveries and POST /events.                                 *)
(*                                                                         *)
(* A handler runs without interruption up to its broadcast, so it is one   *)
(* action; but the row and the event it writes are committed one after the *)
(* other, and a crash or a failing insert in between leaves the row alone. *)
(* A delivery_id is the hash of the source_path and stands for it.  The    *)
(* timestamps and the descriptive columns of a row are left out.           *)
(***************************************************************************)
EXTENDS Naturals, Sequences, FiniteSets

CONSTANTS
    Delivery,     \* delivery ids
    LexiconId,    \* the lexicons that files define
    Status,       \* status names
    Field,        \* metadata keys
    Fingerprint,
    Statuses,     \* Statuses[l]: the statuses of lexicon l
    Transitions,  \* Transitions[l][s]: the statuses that may follow s
    SetOn,        \* SetOn[l][f]: the status that sets f, or None
    Patch,        \* the PATCH bodies that clients send
    MaxEvents,    \* bound: rows of the events table
    None

ASSUME LexiconAssumption ==
    /\ Statuses \in [LexiconId -> SUBSET Status]
    /\ Transitions \in [LexiconId -> [Status -> SUBSET Status]]
    /\ SetOn \in [LexiconId -> [Field -> Status \cup {None}]]
    /\ None \notin Status
ASSUME PatchAssumption ==
    Patch \subseteq [status : Status \cup {None}, converted : BOOLEAN,
                     set : SUBSET Field, clear : SUBSET Field]
ASSUME MaxEventsAssumption == MaxEvents \in Nat

VARIABLES
    loaded,      \* app.state.lexicons: the lexicons of this process
    deliveries,  \* deliveries[d]: the row, or NoRow
    events,      \* the events table, in seq order
    untold       \* history: the deliveries whose status no event has told

vars == <<loaded, deliveries, events, untold>>

Row == [lexicon : LexiconId, status : Status, fp : Fingerprint,
        converted : BOOLEAN, meta : SUBSET Field]
NoRow == [none |-> TRUE]

Known(d) == deliveries[d] # NoRow

\* A conversion event has a payload of its own and no row.
Event == [type : {"created", "status_changed"}, delivery : Delivery, row : Row]
         \cup [type : {"completed", "failed"}, delivery : Delivery]

Observation == [lexicon : LexiconId, status : Status, fp : Fingerprint]

Init ==
    /\ loaded = LexiconId
    /\ deliveries = [d \in Delivery |-> NoRow]
    /\ events = <<>>
    /\ untold = {}

-----------------------------------------------------------------------------
\* insert_event for a row whose status is to be told.  When it fails the row
\* is committed all the same, and the request is answered with status 500.
TellStatus(type, d, row) ==
    \/ /\ Len(events) < MaxEvents
       /\ events' = Append(events, [type |-> type, delivery |-> d, row |-> row])
       /\ untold' = untold \ {d}
    \/ /\ untold' = untold \cup {d}
       /\ UNCHANGED events

\* upsert_delivery: the columns and the metadata that the request does not
\* carry are reset, whatever the fingerprint.
Upserted(o) == [lexicon |-> o.lexicon, status |-> o.status, fp |-> o.fp,
                converted |-> FALSE, meta |-> {}]

\* Mutant of CreateDelivery: every upsert is taken for a new delivery.
CreateAlwaysNew(d, o) ==
    /\ o.lexicon \in loaded
    /\ o.status \in Statuses[o.lexicon]
    /\ deliveries' = [deliveries EXCEPT ![d] = Upserted(o)]
    /\ TellStatus("created", d, Upserted(o))
    /\ UNCHANGED loaded

\* create_delivery.  A crawler repeats the request when it is answered with
\* a 5xx or not at all.
CreateDelivery(d, o) ==
    /\ o.lexicon \in loaded
    /\ o.status \in Statuses[o.lexicon]
    /\ deliveries' = [deliveries EXCEPT ![d] = Upserted(o)]
    /\ IF ~Known(d)
         THEN TellStatus("created", d, Upserted(o))
         ELSE /\ untold' = IF o.status = deliveries[d].status
                             THEN untold ELSE untold \cup {d}
              /\ UNCHANGED events
    /\ UNCHANGED loaded

\* A status change has to be in the lexicon's transitions; the row's
\* lexicon may be one that this process has not loaded.
Changes(row, p) == p.status # None /\ p.status # row.status

\* Mutant of Allowed: the transitions of the lexicon are not consulted.
AllowedIfKnown(row, p) ==
    /\ row.lexicon \in loaded
    /\ p.status \in Statuses[row.lexicon]

Allowed(row, p) ==
    /\ row.lexicon \in loaded
    /\ p.status \in Statuses[row.lexicon]
    /\ p.status \in Transitions[row.lexicon][row.status]

\* The metadata of the request is merged into the row's; a key given as
\* null is kept with that value, which reads as absent.
Merged(row, p) == (row.meta \ p.clear) \cup p.set

\* The fields that the lexicon sets on a status, filled in after the merge.
Stamped(row, status) == {f \in Field : SetOn[row.lexicon][f] = status}

\* Mutant of Patched: the request's metadata is merged last.
PatchedStampFirst(row, p) ==
    [row EXCEPT
       !.status    = IF Changes(row, p) THEN p.status ELSE @,
       !.converted = @ \/ p.converted,
       !.meta      = ((@ \cup (IF Changes(row, p) THEN Stamped(row, p.status)
                                                 ELSE {})) \ p.clear) \cup p.set]

\* Mutant of Patched: a request without a status overwrites the row's.
PatchedNullStatus(row, p) ==
    [row EXCEPT !.status = p.status, !.converted = @ \/ p.converted]

\* The row as update_delivery leaves it.
Patched(row, p) ==
    [row EXCEPT
       !.status    = IF Changes(row, p) THEN p.status ELSE @,
       !.converted = @ \/ p.converted,
       !.meta      = Merged(row, p) \cup
                     (IF Changes(row, p) THEN Stamped(row, p.status) ELSE {})]

\* Mutant of UpdateDelivery: the event carries the row as it was.
UpdateTellsOldRow(d, p) ==
    /\ Known(d)
    /\ Changes(deliveries[d], p) => Allowed(deliveries[d], p)
    /\ deliveries' = [deliveries EXCEPT ![d] = Patched(@, p)]
    /\ IF Changes(deliveries[d], p)
         THEN TellStatus("status_changed", d, deliveries[d])
         ELSE UNCHANGED <<events, untold>>
    /\ UNCHANGED loaded

\* update_single_delivery.
UpdateDelivery(d, p) ==
    /\ Known(d)
    /\ Changes(deliveries[d], p) => Allowed(deliveries[d], p)
    /\ deliveries' = [deliveries EXCEPT ![d] = Patched(@, p)]
    /\ IF Changes(deliveries[d], p)
         THEN TellStatus("status_changed", d, Patched(deliveries[d], p))
         ELSE UNCHANGED <<events, untold>>
    /\ UNCHANGED loaded

\* emit_event: a converter reports a conversion.
EmitEvent(d, type) ==
    /\ Known(d)
    /\ Len(events) < MaxEvents
    /\ events' = Append(events, [type |-> type, delivery |-> d])
    /\ UNCHANGED <<loaded, deliveries, untold>>

\* The process starts again; the lexicon files may have changed meanwhile.
Restart ==
    /\ \E lexicons \in SUBSET LexiconId : loaded' = lexicons
    /\ UNCHANGED <<deliveries, events, untold>>

Next ==
    \/ \E d \in Delivery, o \in Observation : CreateDelivery(d, o)
    \/ \E d \in Delivery, p \in Patch : UpdateDelivery(d, p)
    \/ \E d \in Delivery, type \in {"completed", "failed"} : EmitEvent(d, type)
    \/ Restart

Spec == Init /\ [][Next]_vars

-----------------------------------------------------------------------------
(* Properties                                                              *)

\* The type invariant of the tables.
TypeOK ==
    /\ loaded \subseteq LexiconId
    /\ deliveries \in [Delivery -> Row \cup {NoRow}]
    /\ events \in Seq(Event) /\ Len(events) <= MaxEvents
    /\ untold \subseteq Delivery

TellsStatus(e) == e.type \in {"created", "status_changed"}

\* The positions in the events table that tell a status of d.
Told(d) == {i \in 1..Len(events) :
              events[i].delivery = d /\ TellsStatus(events[i])}

\* However often a crawler posts a delivery and repeats itself after an
\* error, create_delivery emits delivery.created at most once for it, and
\* before every other event of that delivery.
CreatedOnceAndFirst ==
    \A i, j \in 1..Len(events) :
        i < j /\ events[i].delivery = events[j].delivery
          => events[j].type # "created"

\* A reader of the events knows the status of every delivery, unless its
\* latest status was written without an event (a lost insert_event or an
\* upsert over an existing row).
EventsTellStatus ==
    \A d \in Delivery :
        Known(d) /\ d \notin untold =>
          \E i \in Told(d) : /\ \A j \in Told(d) : j <= i
                            /\ events[i].row.status = deliveries[d].status

\* The payload of a status_changed event already has the metadata that the
\* lexicon sets on the new status, whatever metadata the PATCH brought.
EventsCarryStamps ==
    \A i \in 1..Len(events) :
        events[i].type = "status_changed" =>
          Stamped(events[i].row, events[i].row.status) \subseteq events[i].row.meta

\* A reader of the events sees only legal transitions, from the status that
\* was told last to the one that is told now, of a delivery whose latest
\* status was told.
ToldTransitionsLegal ==
    [][\A d \in Delivery \ untold : \A i \in Told(d)' \ Told(d), j \in Told(d) :
         events'[i].type = "status_changed" /\ (\A k \in Told(d) : k <= j) =>
           events'[i].row.status \in
             Transitions[events'[i].row.lexicon][events[j].row.status]]_vars

=============================================================================
