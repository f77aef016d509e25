--------------------------- MODULE RegistryProofs ---------------------------
(* Theorems about Registry, for every value of its constants.              *)
EXTENDS Registry, SequenceTheorems, TLAPS

\* A row is told apart from NoRow by its fields.
LEMMA RowIsNotNoRow == NoRow \notin Row
  <1> SUFFICES ASSUME NoRow \in Row PROVE FALSE
    OBVIOUS
  <1>1. "status" \in DOMAIN NoRow
    BY DEF Row
  <1> QED BY <1>1 DEF NoRow

\* An upsert writes a row of the right type, and so does a PATCH.
LEMMA UpsertedType == \A o \in Observation : Upserted(o) \in Row
  BY DEF Observation, Upserted, Row

LEMMA PatchedType ==
    ASSUME NEW row \in Row, NEW p \in Patch
    PROVE  Patched(row, p) \in Row
  <1>1. p \in [status : Status \cup {None}, converted : BOOLEAN,
               set : SUBSET Field, clear : SUBSET Field]
    BY PatchAssumption
  <1>2. (IF Changes(row, p) THEN p.status ELSE row.status) \in Status
    BY <1>1 DEF Changes, Row
  <1>3. (row.converted \/ p.converted) \in BOOLEAN
    OBVIOUS
  <1>4. Merged(row, p) \cup
           (IF Changes(row, p) THEN Stamped(row, p.status) ELSE {})
        \in SUBSET Field
    BY <1>1 DEF Row, Merged, Stamped
  <1> QED BY <1>2, <1>3, <1>4 DEF Patched, Row

\* What insert_event appends to the table, if it does not fail.
LEMMA TellType ==
    ASSUME TypeOK, NEW type \in {"created", "status_changed"},
           NEW d \in Delivery, NEW row \in Row, TellStatus(type, d, row)
    PROVE  events' \in Seq(Event) /\ Len(events') <= MaxEvents
           /\ untold' \subseteq Delivery
  <1>1. [type |-> type, delivery |-> d, row |-> row] \in Event
    BY DEF Event
  <1>2. CASE Len(events) < MaxEvents
             /\ events' = Append(events, [type |-> type, delivery |-> d, row |-> row])
             /\ untold' = untold \ {d}
    <2>1. /\ events' \in Seq(Event) /\ Len(events') = Len(events) + 1
          /\ Len(events) \in Nat
      BY <1>1, <1>2, AppendProperties, LenProperties DEF TypeOK
    <2> QED BY <1>2, <2>1, MaxEventsAssumption DEF TypeOK
  <1>3. CASE untold' = untold \cup {d} /\ UNCHANGED events
    BY <1>3 DEF TypeOK
  <1> QED BY <1>2, <1>3 DEF TellStatus

\* Whatever requests come, fail or are repeated, the tables keep their types.
THEOREM TypeCorrect == Spec => []TypeOK
  <1>1. Init => TypeOK
    <2>1. <<>> \in Seq(Event) /\ Len(<<>>) = 0
      BY EmptySeq
    <2> QED BY <2>1, MaxEventsAssumption DEF Init, TypeOK
  <1>2. TypeOK /\ [Next]_vars => TypeOK'
    <2> SUFFICES ASSUME TypeOK, [Next]_vars PROVE TypeOK'
      OBVIOUS
    <2>1. ASSUME NEW d \in Delivery, NEW o \in Observation, CreateDelivery(d, o)
          PROVE  TypeOK'
      <3>1. Upserted(o) \in Row
        BY UpsertedType
      <3>2. CASE ~Known(d)
        <4>1. TellStatus("created", d, Upserted(o))
          BY <2>1, <3>2 DEF CreateDelivery
        <4> QED BY <2>1, <3>1, <4>1, TellType DEF CreateDelivery, TypeOK
      <3>3. CASE Known(d)
        BY <2>1, <3>1, <3>3 DEF CreateDelivery, TypeOK
      <3> QED BY <3>2, <3>3
    <2>2. ASSUME NEW d \in Delivery, NEW p \in Patch, UpdateDelivery(d, p)
          PROVE  TypeOK'
      <3>1. deliveries[d] \in Row
        BY <2>2 DEF UpdateDelivery, Known, TypeOK
      <3>2. Patched(deliveries[d], p) \in Row
        BY <3>1, PatchedType
      <3>3. CASE Changes(deliveries[d], p)
        <4>1. TellStatus("status_changed", d, Patched(deliveries[d], p))
          BY <2>2, <3>3 DEF UpdateDelivery
        <4> QED BY <2>2, <3>2, <4>1, TellType DEF UpdateDelivery, TypeOK
      <3>4. CASE ~Changes(deliveries[d], p)
        BY <2>2, <3>2, <3>4 DEF UpdateDelivery, TypeOK
      <3> QED BY <3>3, <3>4
    <2>3. ASSUME NEW d \in Delivery, NEW type \in {"completed", "failed"},
                 EmitEvent(d, type)
          PROVE  TypeOK'
      <3>1. [type |-> type, delivery |-> d] \in Event
        BY DEF Event
      <3>2. /\ events' \in Seq(Event) /\ Len(events') = Len(events) + 1
            /\ Len(events) \in Nat
        BY <2>3, <3>1, AppendProperties, LenProperties DEF EmitEvent, TypeOK
      <3> QED BY <2>3, <3>2, MaxEventsAssumption DEF EmitEvent, TypeOK
    <2>4. CASE Restart
      BY <2>4 DEF Restart, TypeOK
    <2>5. CASE UNCHANGED vars
      BY <2>5 DEF vars, TypeOK
    <2> QED BY <2>1, <2>2, <2>3, <2>4, <2>5 DEF Next
  <1> QED BY <1>1, <1>2, PTL DEF Spec

-----------------------------------------------------------------------------
(* CreatedOnceAndFirst.  What makes it inductive: an event is about a       *)
(* delivery that is in the table, and a row is never taken out of it.       *)

AboutKnown == \A i \in 1..Len(events) : Known(events[i].delivery)

OnceInv == AboutKnown /\ CreatedOnceAndFirst

\* Appending an event that does not announce a known delivery keeps OnceInv.
LEMMA OnceAppend ==
    ASSUME TypeOK, OnceInv, NEW e \in Event,
           events' = Append(events, e),
           \A d \in Delivery : Known(d) => Known(d)',
           Known(e.delivery)',
           e.type = "created" => ~Known(e.delivery)
    PROVE  OnceInv'
  <1>1. /\ Len(events') = Len(events) + 1 /\ Len(events) \in Nat
        /\ \A i \in 1..Len(events) : events'[i] = events[i]
        /\ events'[Len(events) + 1] = e
    BY AppendProperties, LenProperties DEF TypeOK
  <1>2. \A i \in 1..Len(events) : events[i] \in Event
    BY ElementOfSeq DEF TypeOK
  <1>3. \A x \in Event : x.delivery \in Delivery
    BY DEF Event
  <1>4. AboutKnown'
    <2> SUFFICES ASSUME NEW i \in 1..Len(events')
                 PROVE  deliveries'[events'[i].delivery] # NoRow
      BY DEF AboutKnown, Known
    <2>1. CASE i \in 1..Len(events)
      <3>1. Known(events[i].delivery) /\ events[i].delivery \in Delivery
        BY <1>2, <1>3, <2>1 DEF OnceInv, AboutKnown
      <3>2. events'[i] = events[i]
        BY <1>1, <2>1
      <3>3. deliveries'[events[i].delivery] # NoRow
        BY <3>1 DEF Known
      <3> QED BY <3>2, <3>3
    <2>2. CASE i = Len(events) + 1
      BY <1>1, <2>2 DEF Known
    <2> QED BY <1>1, <2>1, <2>2
  <1>5. CreatedOnceAndFirst'
    <2> SUFFICES ASSUME NEW i \in 1..Len(events'), NEW j \in 1..Len(events'), i < j,
                        events'[i].delivery = events'[j].delivery
                 PROVE  events'[j].type # "created"
      BY DEF CreatedOnceAndFirst
    <2>1. i \in 1..Len(events) /\ events'[i] = events[i]
      BY <1>1
    <2>2. CASE j \in 1..Len(events)
      BY <1>1, <2>1, <2>2 DEF OnceInv, CreatedOnceAndFirst
    <2>3. CASE j = Len(events) + 1
      <3>1. Known(e.delivery)
        BY <1>1, <2>1, <2>3 DEF OnceInv, AboutKnown
      <3> QED BY <1>1, <2>3, <3>1
    <2> QED BY <1>1, <2>2, <2>3
  <1> QED BY <1>4, <1>5 DEF OnceInv

\* A step that leaves the events alone and forgets no row keeps OnceInv.
LEMMA OnceKept ==
    ASSUME TypeOK, OnceInv, UNCHANGED events,
           \A d \in Delivery : Known(d) => Known(d)'
    PROVE  OnceInv'
  <1>1. \A i \in 1..Len(events) : events[i].delivery \in Delivery
    BY ElementOfSeq DEF TypeOK, Event
  <1> QED BY <1>1 DEF OnceInv, AboutKnown, CreatedOnceAndFirst, Known

LEMMA OnceStep == TypeOK /\ OnceInv /\ [Next]_vars => OnceInv'
  <1> SUFFICES ASSUME TypeOK, OnceInv, [Next]_vars PROVE OnceInv'
    OBVIOUS
  <1>1. ASSUME NEW d \in Delivery, NEW o \in Observation, CreateDelivery(d, o)
        PROVE  OnceInv'
    <2>1. Upserted(o) \in Row /\ Upserted(o) # NoRow
      BY UpsertedType, RowIsNotNoRow
    <2>2. Known(d)' /\ \A x \in Delivery : Known(x) => Known(x)'
      BY <1>1, <2>1 DEF CreateDelivery, Known, TypeOK
    <2>3. CASE UNCHANGED events
      BY <2>2, <2>3, OnceKept
    <2>4. CASE ~Known(d) /\ events' = Append(events, [type |-> "created",
                                        delivery |-> d, row |-> Upserted(o)])
      <3> DEFINE e == [type |-> "created", delivery |-> d, row |-> Upserted(o)]
      <3>1. e \in Event /\ e.delivery = d
        BY <2>1 DEF Event
      <3>2. events' = Append(events, e) /\ ~Known(e.delivery) /\ Known(e.delivery)'
        BY <2>2, <2>4
      <3> HIDE DEF e
      <3> QED BY <2>2, <3>1, <3>2, OnceAppend
    <2> QED BY <1>1, <2>3, <2>4 DEF CreateDelivery, TellStatus
  <1>2. ASSUME NEW d \in Delivery, NEW p \in Patch, UpdateDelivery(d, p)
        PROVE  OnceInv'
    <2> DEFINE row == Patched(deliveries[d], p)
    <2>1. deliveries[d] \in Row /\ row \in Row /\ row # NoRow
      BY <1>2, PatchedType, RowIsNotNoRow DEF UpdateDelivery, Known, TypeOK
    <2>2. Known(d)' /\ \A x \in Delivery : Known(x) => Known(x)'
      BY <1>2, <2>1 DEF UpdateDelivery, Known, TypeOK
    <2>3. CASE UNCHANGED events
      BY <2>2, <2>3, OnceKept
    <2>4. CASE events' = Append(events, [type |-> "status_changed",
                                         delivery |-> d, row |-> row])
      <3> DEFINE e == [type |-> "status_changed", delivery |-> d, row |-> row]
      <3>1. e \in Event /\ e.delivery = d /\ e.type # "created"
        BY <2>1 DEF Event
      <3>2. events' = Append(events, e) /\ Known(e.delivery)'
        BY <2>2, <2>4
      <3> HIDE DEF e, row
      <3> QED BY <2>2, <3>1, <3>2, OnceAppend
    <2> QED BY <1>2, <2>3, <2>4 DEF UpdateDelivery, TellStatus
  <1>3. ASSUME NEW d \in Delivery, NEW type \in {"completed", "failed"},
               EmitEvent(d, type)
        PROVE  OnceInv'
    <2> DEFINE e == [type |-> type, delivery |-> d]
    <2>1. e \in Event /\ e.delivery = d /\ e.type # "created"
      BY DEF Event
    <2>2. /\ events' = Append(events, e) /\ Known(e.delivery)'
          /\ \A x \in Delivery : Known(x) => Known(x)'
      BY <1>3, <2>1 DEF EmitEvent, Known
    <2> HIDE DEF e
    <2> QED BY <2>1, <2>2, OnceAppend
  <1>4. CASE Restart \/ UNCHANGED vars
    <2>1. UNCHANGED <<events, deliveries>>
      BY <1>4 DEF Restart, vars
    <2>2. \A d \in Delivery : Known(d) => Known(d)'
      BY <2>1 DEF Known
    <2> QED BY <2>1, <2>2, OnceKept
  <1> QED BY <1>1, <1>2, <1>3, <1>4 DEF Next

\* create_delivery announces a delivery at most once and before anything else
\* is said of it, for any crawlers, retries and failed inserts.
THEOREM CreatedOnceAndFirstHolds == Spec => []CreatedOnceAndFirst
  <1>1. Init => OnceInv
    <2>1. Len(<<>>) = 0
      BY EmptySeq
    <2> QED BY <2>1 DEF Init, OnceInv, AboutKnown, CreatedOnceAndFirst
  <1>2. OnceInv => CreatedOnceAndFirst
    BY DEF OnceInv
  <1> QED BY <1>1, <1>2, OnceStep, TypeCorrect, PTL DEF Spec

-----------------------------------------------------------------------------
(* EventsTellStatus.  It is inductive given the types: a write of a status  *)
(* either appends the event that tells it or makes the delivery untold.     *)

\* What the appended event tells is the latest that is told of its delivery.
LEMMA ToldByAppend ==
    ASSUME TypeOK, NEW e \in Event, events' = Append(events, e), TellsStatus(e)
    PROVE  \E i \in Told(e.delivery)' :
              /\ \A j \in Told(e.delivery)' : j <= i
              /\ events'[i] = e
  <1>1. /\ Len(events') = Len(events) + 1 /\ Len(events) \in Nat
        /\ events'[Len(events) + 1] = e
    BY AppendProperties, LenProperties DEF TypeOK
  <1>2. Told(e.delivery)' = {i \in 1..Len(events') :
           events'[i].delivery = e.delivery /\ TellsStatus(events'[i])}
    BY DEF Told, TellsStatus
  <1>3. Len(events) + 1 \in Told(e.delivery)'
    BY <1>1, <1>2
  <1>4. \A j \in Told(e.delivery)' : j <= Len(events) + 1
    BY <1>1, <1>2
  <1> QED BY <1>1, <1>3, <1>4

\* An event of another delivery or of a conversion changes nothing that is
\* told of d.
LEMMA ToldOtherwise ==
    ASSUME TypeOK, NEW e \in Event, events' = Append(events, e),
           NEW d \in Delivery, e.delivery # d \/ ~TellsStatus(e)
    PROVE  /\ Told(d)' = Told(d)
           /\ \A i \in Told(d) : events'[i] = events[i]
  <1>1. /\ Len(events') = Len(events) + 1 /\ Len(events) \in Nat
        /\ \A i \in 1..Len(events) : events'[i] = events[i]
        /\ events'[Len(events) + 1] = e
    BY AppendProperties, LenProperties DEF TypeOK
  <1>2. Told(d)' = {i \in 1..Len(events') :
           events'[i].delivery = d /\ TellsStatus(events'[i])}
    BY DEF Told, TellsStatus
  <1>3. \A i \in 1..Len(events') :
           i \in 1..Len(events) \/ i = Len(events) + 1
    BY <1>1
  <1> QED BY <1>1, <1>2, <1>3 DEF Told

\* EventsTellStatus survives a step that appends nothing if it changes only
\* the status of untold deliveries.
LEMMA TellNothing ==
    ASSUME EventsTellStatus, UNCHANGED events,
           untold \subseteq untold',
           \A x \in Delivery \ untold' :
              Known(x)' => Known(x) /\ deliveries'[x].status = deliveries[x].status
    PROVE  EventsTellStatus'
  <1> SUFFICES ASSUME NEW x \in Delivery, Known(x)', x \notin untold'
               PROVE  \E i \in Told(x)' : /\ \A j \in Told(x)' : j <= i
                                         /\ events'[i].row.status = deliveries'[x].status
    BY DEF EventsTellStatus
  <1>1. Told(x)' = Told(x)
    BY DEF Told, TellsStatus
  <1>2. Known(x) /\ x \notin untold /\ deliveries'[x].status = deliveries[x].status
    OBVIOUS
  <1> QED BY <1>1, <1>2 DEF EventsTellStatus

\* EventsTellStatus survives a step that appends e, writes no row but that of
\* its delivery, and tells the status it writes there.
LEMMA TellOne ==
    ASSUME TypeOK, EventsTellStatus, NEW e \in Event,
           events' = Append(events, e),
           \A x \in Delivery : x # e.delivery \/ ~TellsStatus(e) =>
              /\ x \in untold => x \in untold'
              /\ deliveries'[x] = deliveries[x],
           TellsStatus(e) => deliveries'[e.delivery].status = e.row.status
    PROVE  EventsTellStatus'
  <1> SUFFICES ASSUME NEW x \in Delivery, deliveries'[x] # NoRow, x \notin untold'
               PROVE  \E i \in Told(x)' : /\ \A j \in Told(x)' : j <= i
                                         /\ events'[i].row.status = deliveries'[x].status
    BY DEF EventsTellStatus, Known
  <1>1. CASE x = e.delivery /\ TellsStatus(e)
    <2>1. PICK i \in Told(e.delivery)' : /\ \A j \in Told(e.delivery)' : j <= i
                                        /\ events'[i] = e
      BY <1>1, ToldByAppend
    <2>2. Told(x)' = Told(e.delivery)'
      BY <1>1 DEF Told
    <2>3. deliveries'[x].status = e.row.status
      BY <1>1
    <2> QED BY <2>1, <2>2, <2>3
  <1>2. CASE x # e.delivery \/ ~TellsStatus(e)
    <2>1. Known(x) /\ x \notin untold /\ deliveries'[x] = deliveries[x]
      BY <1>2 DEF Known
    <2>2. Told(x)' = Told(x) /\ \A i \in Told(x) : events'[i] = events[i]
      BY <1>2, ToldOtherwise
    <2>3. PICK i \in Told(x) : /\ \A j \in Told(x) : j <= i
                              /\ events[i].row.status = deliveries[x].status
      BY <2>1 DEF EventsTellStatus
    <2> QED BY <2>1, <2>2, <2>3
  <1> QED BY <1>1, <1>2

LEMMA TellStep == TypeOK /\ EventsTellStatus /\ [Next]_vars => EventsTellStatus'
  <1> SUFFICES ASSUME TypeOK, EventsTellStatus, [Next]_vars PROVE EventsTellStatus'
    OBVIOUS
  <1>1. ASSUME NEW d \in Delivery, NEW o \in Observation, CreateDelivery(d, o)
        PROVE  EventsTellStatus'
    <2>1. Upserted(o) \in Row /\ Upserted(o).status = o.status
      BY UpsertedType DEF Upserted
    <2>2. deliveries'[d] = Upserted(o)
          /\ \A x \in Delivery \ {d} : deliveries'[x] = deliveries[x]
      BY <1>1 DEF CreateDelivery, TypeOK
    <2>3. CASE UNCHANGED events /\ d \in untold' /\ untold \subseteq untold'
      BY <2>2, <2>3, TellNothing DEF Known
    <2>4. CASE Known(d) /\ UNCHANGED <<events, untold>>
               /\ o.status = deliveries[d].status
      BY <2>1, <2>2, <2>4, TellNothing DEF Known
    <2>5. CASE /\ untold' = untold \ {d}
               /\ events' = Append(events, [type |-> "created", delivery |-> d,
                                            row |-> Upserted(o)])
      <3> DEFINE e == [type |-> "created", delivery |-> d, row |-> Upserted(o)]
      <3>1. e \in Event /\ e.delivery = d /\ TellsStatus(e) /\ e.row = Upserted(o)
        BY <2>1 DEF Event, TellsStatus
      <3>2. events' = Append(events, e)
        BY <2>5
      <3> HIDE DEF e
      <3> QED BY <2>2, <2>5, <3>1, <3>2, TellOne
    <2>6. CASE Known(d)
      BY <1>1, <2>3, <2>4, <2>6 DEF CreateDelivery
    <2>7. CASE ~Known(d)
      BY <1>1, <2>3, <2>5, <2>7 DEF CreateDelivery, TellStatus
    <2> QED BY <2>6, <2>7
  <1>2. ASSUME NEW d \in Delivery, NEW p \in Patch, UpdateDelivery(d, p)
        PROVE  EventsTellStatus'
    <2> DEFINE row == Patched(deliveries[d], p)
    <2>1. deliveries[d] \in Row /\ row \in Row /\ Known(d)
      BY <1>2, PatchedType DEF UpdateDelivery, Known, TypeOK
    <2>2. deliveries'[d] = row
          /\ \A x \in Delivery \ {d} : deliveries'[x] = deliveries[x]
      BY <1>2 DEF UpdateDelivery, TypeOK
    <2>3. CASE ~Changes(deliveries[d], p)
      <3>1. row.status = deliveries[d].status
        BY <2>1, <2>3 DEF Patched, Row
      <3>2. UNCHANGED <<events, untold>>
        BY <1>2, <2>3 DEF UpdateDelivery
      <3> HIDE DEF row
      <3> QED BY <2>1, <2>2, <3>1, <3>2, TellNothing DEF Known
    <2>4. CASE UNCHANGED events /\ untold' = untold \cup {d}
      <3> HIDE DEF row
      <3> QED BY <2>2, <2>4, TellNothing DEF Known
    <2>5. CASE /\ untold' = untold \ {d}
               /\ events' = Append(events, [type |-> "status_changed",
                                            delivery |-> d, row |-> row])
      <3> DEFINE e == [type |-> "status_changed", delivery |-> d, row |-> row]
      <3>1. e \in Event /\ e.delivery = d /\ TellsStatus(e) /\ e.row = row
        BY <2>1 DEF Event, TellsStatus
      <3>2. events' = Append(events, e)
        BY <2>5
      <3> HIDE DEF e, row
      <3> QED BY <2>2, <2>5, <3>1, <3>2, TellOne
    <2> QED BY <1>2, <2>3, <2>4, <2>5 DEF UpdateDelivery, TellStatus
  <1>3. ASSUME NEW d \in Delivery, NEW type \in {"completed", "failed"},
               EmitEvent(d, type)
        PROVE  EventsTellStatus'
    <2> DEFINE e == [type |-> type, delivery |-> d]
    <2>1. e \in Event /\ ~TellsStatus(e)
      BY DEF Event, TellsStatus
    <2>2. events' = Append(events, e) /\ UNCHANGED <<deliveries, untold>>
      BY <1>3 DEF EmitEvent
    <2> HIDE DEF e
    <2> QED BY <2>1, <2>2, TellOne
  <1>4. CASE Restart \/ UNCHANGED vars
    <2>1. UNCHANGED <<events, deliveries, untold>>
      BY <1>4 DEF Restart, vars
    <2> QED BY <2>1, TellNothing DEF Known
  <1> QED BY <1>1, <1>2, <1>3, <1>4 DEF Next

\* Whoever reads the events knows the status of every delivery but those of
\* which the table keeps a status that was written without its event.
THEOREM EventsTellStatusHolds == Spec => []EventsTellStatus
  <1>1. Init => EventsTellStatus
    BY DEF Init, EventsTellStatus, Known
  <1> QED BY <1>1, TellStep, TypeCorrect, PTL DEF Spec

-----------------------------------------------------------------------------
(* EventsCarryStamps.                                                       *)

\* Appending an event that has its stamps, or needs none, keeps it.
LEMMA StampsAppend ==
    ASSUME TypeOK, EventsCarryStamps, NEW e \in Event, events' = Append(events, e),
           e.type = "status_changed" => Stamped(e.row, e.row.status) \subseteq e.row.meta
    PROVE  EventsCarryStamps'
  <1>1. /\ Len(events') = Len(events) + 1 /\ Len(events) \in Nat
        /\ \A i \in 1..Len(events) : events'[i] = events[i]
        /\ events'[Len(events) + 1] = e
    BY AppendProperties, LenProperties DEF TypeOK
  <1> SUFFICES ASSUME NEW i \in 1..Len(events'), events'[i].type = "status_changed"
               PROVE  {f \in Field : SetOn[events'[i].row.lexicon][f] = events'[i].row.status}
                        \subseteq events'[i].row.meta
    BY DEF EventsCarryStamps, Stamped
  <1>2. CASE i \in 1..Len(events)
    BY <1>1, <1>2 DEF EventsCarryStamps, Stamped
  <1>3. CASE i = Len(events) + 1
    BY <1>1, <1>3 DEF Stamped
  <1> QED BY <1>1, <1>2, <1>3

\* The metadata that update_delivery writes with a new status has the fields
\* that the lexicon sets on it, whatever the request set or cleared.
LEMMA PatchedStamps ==
    ASSUME NEW row \in Row, NEW p \in Patch, Changes(row, p)
    PROVE  Stamped(Patched(row, p), Patched(row, p).status) \subseteq Patched(row, p).meta
  <1>1. /\ Patched(row, p).lexicon = row.lexicon
        /\ Patched(row, p).status = p.status
        /\ Patched(row, p).meta = Merged(row, p) \cup Stamped(row, p.status)
    BY DEF Patched, Row
  <1>2. Stamped(Patched(row, p), Patched(row, p).status) = Stamped(row, p.status)
    BY <1>1 DEF Stamped
  <1> QED BY <1>1, <1>2

LEMMA StampsStep == TypeOK /\ EventsCarryStamps /\ [Next]_vars => EventsCarryStamps'
  <1> SUFFICES ASSUME TypeOK, EventsCarryStamps, [Next]_vars PROVE EventsCarryStamps'
    OBVIOUS
  <1>1. CASE UNCHANGED events
    BY <1>1 DEF EventsCarryStamps, Stamped
  <1>2. ASSUME NEW d \in Delivery, NEW o \in Observation, CreateDelivery(d, o)
        PROVE  EventsCarryStamps'
    <2> DEFINE e == [type |-> "created", delivery |-> d, row |-> Upserted(o)]
    <2>1. e \in Event /\ e.type # "status_changed"
      BY UpsertedType DEF Event
    <2>2. UNCHANGED events \/ events' = Append(events, e)
      BY <1>2 DEF CreateDelivery, TellStatus
    <2> HIDE DEF e
    <2> QED BY <1>1, <2>1, <2>2, StampsAppend
  <1>3. ASSUME NEW d \in Delivery, NEW p \in Patch, UpdateDelivery(d, p)
        PROVE  EventsCarryStamps'
    <2> DEFINE row == Patched(deliveries[d], p)
    <2> DEFINE e == [type |-> "status_changed", delivery |-> d, row |-> row]
    <2>1. deliveries[d] \in Row /\ row \in Row
      BY <1>3, PatchedType DEF UpdateDelivery, Known, TypeOK
    <2>2. \/ UNCHANGED events
          \/ Changes(deliveries[d], p) /\ events' = Append(events, e)
      BY <1>3 DEF UpdateDelivery, TellStatus
    <2>3. Changes(deliveries[d], p) => Stamped(row, row.status) \subseteq row.meta
      BY <2>1, PatchedStamps
    <2>4. e \in Event /\ e.row = row
      BY <2>1 DEF Event
    <2> HIDE DEF e, row
    <2> QED BY <1>1, <2>2, <2>3, <2>4, StampsAppend
  <1>4. ASSUME NEW d \in Delivery, NEW type \in {"completed", "failed"},
               EmitEvent(d, type)
        PROVE  EventsCarryStamps'
    <2> DEFINE e == [type |-> type, delivery |-> d]
    <2>1. e \in Event /\ e.type # "status_changed"
      BY DEF Event
    <2>2. events' = Append(events, e)
      BY <1>4 DEF EmitEvent
    <2> HIDE DEF e
    <2> QED BY <2>1, <2>2, StampsAppend
  <1> QED BY <1>1, <1>2, <1>3, <1>4 DEF Next, Restart, vars

\* Every status_changed event has the metadata that its lexicon sets on the
\* new status, for any lexicons and any PATCH bodies.
THEOREM EventsCarryStampsHolds == Spec => []EventsCarryStamps
  <1>1. Init => EventsCarryStamps
    <2>1. Len(<<>>) = 0
      BY EmptySeq
    <2> QED BY <2>1 DEF Init, EventsCarryStamps
  <1> QED BY <1>1, StampsStep, TypeCorrect, PTL DEF Spec

-----------------------------------------------------------------------------
(* ToldTransitionsLegal.  A PATCH is checked against the status of the row, *)
(* which EventsTellStatus says is the one that was told last.               *)

\* Only the appended event can be new to those who follow d.
LEMMA NewlyTold ==
    ASSUME TypeOK, NEW e \in Event, events' = Append(events, e),
           NEW d \in Delivery, NEW i \in Told(d)' \ Told(d)
    PROVE  e.delivery = d /\ TellsStatus(e) /\ events'[i] = e
  <1>1. /\ Len(events') = Len(events) + 1 /\ Len(events) \in Nat
        /\ \A k \in 1..Len(events) : events'[k] = events[k]
        /\ events'[Len(events) + 1] = e
    BY AppendProperties, LenProperties DEF TypeOK
  <1>2. /\ i \in 1..Len(events')
        /\ events'[i].delivery = d /\ TellsStatus(events'[i])
    BY DEF Told, TellsStatus
  <1>3. i \notin 1..Len(events)
    BY <1>1, <1>2 DEF Told
  <1>4. i = Len(events) + 1
    BY <1>1, <1>2, <1>3
  <1> QED BY <1>1, <1>2, <1>4

\* A reader of the events sees only legal transitions of a delivery whose
\* latest status was told, for any lexicons, PATCH bodies and restarts.
THEOREM ToldTransitionsLegalHolds == Spec => ToldTransitionsLegal
  <1> DEFINE Legal(d, i, j) ==
        events'[i].type = "status_changed" /\ (\A k \in Told(d) : k <= j) =>
          events'[i].row.status \in
            Transitions[events'[i].row.lexicon][events[j].row.status]
             A == \A d \in Delivery \ untold : \A i \in Told(d)' \ Told(d), j \in Told(d) :
                     Legal(d, i, j)
  <1>1. TypeOK /\ EventsTellStatus /\ [Next]_vars => A
    <2> SUFFICES ASSUME TypeOK, EventsTellStatus, [Next]_vars,
                        NEW d \in Delivery, d \notin untold,
                        NEW i \in Told(d)' \ Told(d), NEW j \in Told(d),
                        \A k \in Told(d) : k <= j,
                        events'[i].type = "status_changed"
                 PROVE  events'[i].row.status \in
                          Transitions[events'[i].row.lexicon][events[j].row.status]
      OBVIOUS
    <2>1. CASE UNCHANGED events
      BY <2>1 DEF Told, TellsStatus
    <2>2. ASSUME NEW f \in Delivery, NEW o \in Observation, CreateDelivery(f, o)
          PROVE  UNCHANGED events
      <3> DEFINE e == [type |-> "created", delivery |-> f, row |-> Upserted(o)]
      <3>1. e \in Event /\ e.type # "status_changed"
        BY UpsertedType DEF Event
      <3>2. UNCHANGED events \/ events' = Append(events, e)
        BY <2>2 DEF CreateDelivery, TellStatus
      <3> HIDE DEF e
      <3>3. events' = Append(events, e) => events'[i] = e
        BY <3>1, NewlyTold
      <3> QED BY <3>1, <3>2, <3>3
    <2>3. ASSUME NEW f \in Delivery, NEW type \in {"completed", "failed"},
                 EmitEvent(f, type)
          PROVE  FALSE
      <3> DEFINE e == [type |-> type, delivery |-> f]
      <3>1. e \in Event /\ e.type # "status_changed"
        BY DEF Event
      <3>2. events' = Append(events, e)
        BY <2>3 DEF EmitEvent
      <3> HIDE DEF e
      <3>3. events'[i] = e
        BY <3>1, <3>2, NewlyTold
      <3> QED BY <3>1, <3>3
    <2>4. ASSUME NEW f \in Delivery, NEW p \in Patch, UpdateDelivery(f, p)
          PROVE  \/ UNCHANGED events
                 \/ events'[i].row.status \in
                      Transitions[events'[i].row.lexicon][events[j].row.status]
      <3> DEFINE old == deliveries[f]
                 new == Patched(old, p)
                 e   == [type |-> "status_changed", delivery |-> f, row |-> new]
      <3>1. old \in Row /\ new \in Row /\ Known(f)
        BY <2>4, PatchedType DEF UpdateDelivery, Known, TypeOK
      <3>2. e \in Event /\ e.delivery = f /\ e.row = new
        BY <3>1 DEF Event
      <3>3. \/ UNCHANGED events
            \/ Changes(old, p) /\ Allowed(old, p) /\ events' = Append(events, e)
        BY <2>4 DEF UpdateDelivery, TellStatus
      <3>4. Changes(old, p) /\ Allowed(old, p) =>
               new.status \in Transitions[new.lexicon][old.status]
        BY <3>1 DEF Allowed, Patched, Row
      <3> HIDE DEF e, new, old
      <3>5. CASE Changes(old, p) /\ Allowed(old, p) /\ events' = Append(events, e)
        <4>1. f = d /\ events'[i] = e
          BY <3>2, <3>5, NewlyTold
        <4>2. Known(d) /\ old = deliveries[d]
          BY <3>1, <4>1 DEF old
        <4>3. PICK h \in Told(d) : /\ \A k \in Told(d) : k <= h
                                  /\ events[h].row.status = deliveries[d].status
          BY <4>2 DEF EventsTellStatus
        <4>4. h = j
          <5>1. h <= j /\ j <= h /\ h \in Int /\ j \in Int
            BY <4>3 DEF Told
          <5> QED BY <5>1
        <4> QED BY <3>2, <3>4, <3>5, <4>1, <4>2, <4>3, <4>4
      <3> QED BY <3>3, <3>5
    <2>5. CASE Restart \/ UNCHANGED vars
      BY <2>1, <2>5 DEF Restart, vars
    <2> QED BY <2>1, <2>2, <2>3, <2>4, <2>5 DEF Next
  <1>2. Spec => []EventsTellStatus
    BY EventsTellStatusHolds
  <1> QED BY <1>1, <1>2, TypeCorrect, PTL DEF Spec, ToldTransitionsLegal
=============================================================================
