----------------------------- MODULE MeterTables -----------------------------
(***************************************************************************)
(* internal/meters: the tables app.meters, app.express_feeders and         *)
(* app.meter_consumption_daily, the administration that writes the first   *)
(* two, the feed that writes the third, and the filters every report       *)
(* starts from.  station, location, feeder_panel_name, ic_og, voltage_kv   *)
(* and multiply_factor, which the reports select, filter and group by in   *)
(* the same way, are one column, site.                                     *)
(***************************************************************************)
EXTENDS Integers, Sequences, FiniteSets, FiniteSetsExt

CONSTANTS Null,         \* SQL NULL
          Blank,        \* a field of nothing but white space
          NoData,       \* data_item_id 'NO_DATA': the meter was asked and did not answer
          Import,       \* data_item_id '00100000'
          Mapping,      \* app.data_item_mapping: data_item_id -> system_name
          Lower,        \* lower-case form of a name
          Upper,        \* upper-case form of a name
          InitMeters, InitFeeders, InitDaily, \* rows there at the start
          MeterInputs, FeederInputs,          \* what administrators submit
          Readings,     \* rows the feed can deliver
          Queries,      \* parameters of reports
          MaxMeters, MaxFeeders, MaxDaily, MaxEdits \* bounds of the model

VARIABLES meters,   \* rows of app.meters, by id
          feeders,  \* rows of app.express_feeders, by id
          daily,    \* rows of app.meter_consumption_daily
          edits     \* changes made by administrators, which the model bounds

vars == <<meters, feeders, daily, edits>>

\* One row per meter, item and day: raw_meter_readings_migration.sql replaces
\* the rows of the days it rebuilds.
KeyOf(d) == <<d.number, d.item, d.day>>

\* The systems of the items the reports add up.
Kilowatts == {"import_kwh", "export_kwh"}

\* The types of meters that the reports name.
MeterTypes == {"BSP", "DTX", "PSS", "SS", "REGIONAL_BOUNDARY", "DISTRICT_BOUNDARY"}

ASSUME TablesAssumption ==
  /\ Null \notin DOMAIN Mapping /\ NoData \notin DOMAIN Mapping /\ Null # NoData
  /\ Import \in DOMAIN Mapping /\ Mapping[Import] = "import_kwh"
  /\ Kilowatts \subseteq {Mapping[i] : i \in DOMAIN Mapping} /\ Null \notin Kilowatts
  /\ \A d, e \in InitDaily : KeyOf(d) = KeyOf(e) => d = e
  /\ IsFiniteSet(InitDaily)
  /\ \A d \in InitDaily \cup Readings :
       (d.item = NoData <=> d.kwh = Null) /\ d.day \in Int /\ d.kwh \in Int \cup {Null}
  /\ \A in \in MeterInputs \cup FeederInputs : in.id = 0 /\ in.deleted = FALSE
  /\ \A i \in DOMAIN InitMeters : InitMeters[i].id = i
  /\ \A i \in DOMAIN InitFeeders : InitFeeders[i].id = i
  /\ {MaxMeters, MaxFeeders, MaxDaily, MaxEdits} \subseteq Nat

\* LOWER of NULL is NULL, of a lower-case name that name; the code writes the
\* types in capitals.
ASSUME NamesAssumption ==
  /\ Lower[Null] = Null
  /\ \A n \in DOMAIN Lower :
       Lower[n] \in DOMAIN Lower /\ Lower[Lower[n]] = Lower[n] /\ (Lower[n] = Null => n = Null)
  /\ \A t \in MeterTypes : t # Null /\ Upper[t] = t /\ Lower[t] # Null

Init ==
  /\ meters = InitMeters
  /\ feeders = InitFeeders
  /\ daily = InitDaily
  /\ edits = 0

-----------------------------------------------------------------------------
(* Administration.  The caller's email is on the list when the handler     *)
(* asks; module Allowlist says who is.                                     *)

\* MeterInput.validate.
ValidMeter(in) == in.number # Blank /\ in.type # Blank

\* ExpressFeederInput.validate.
ValidFeeder(in) ==
  /\ in.name # Blank /\ in.sending # Blank /\ in.receiving # Blank
  /\ in.sending # in.receiving

Edit ==
  /\ edits < MaxEdits
  /\ edits' = edits + 1

\* A new row, with an id of its own; toMeter leaves deleted_at empty.
Added(table, in) == Append(table, [in EXCEPT !.id = Len(table) + 1])

CreateMeter(in) ==
  /\ Edit /\ Len(meters) < MaxMeters
  /\ ValidMeter(in)
  /\ meters' = Added(meters, in)
  /\ UNCHANGED <<feeders, daily>>

\* WherePK, to which bun adds deleted_at IS NULL; no row is ErrNotFound.
Replaces(table, id) == id \in DOMAIN table /\ ~table[id].deleted

UpdateMeter(id, in) ==
  /\ Edit
  /\ ValidMeter(in) /\ Replaces(meters, id)
  /\ meters' = [meters EXCEPT ![id] = [in EXCEPT !.id = id]]
  /\ UNCHANGED <<feeders, daily>>

SoftDeleteMeter(id) ==
  /\ Edit
  /\ Replaces(meters, id)
  /\ meters' = [meters EXCEPT ![id].deleted = TRUE]
  /\ UNCHANGED <<feeders, daily>>

\* The foreign keys of app.express_feeders.
Referenced(in) == {in.sending, in.receiving} \subseteq DOMAIN meters

CreateExpressFeeder(in) ==
  /\ Edit /\ Len(feeders) < MaxFeeders
  /\ ValidFeeder(in) /\ Referenced(in)
  /\ feeders' = Added(feeders, in)
  /\ UNCHANGED <<meters, daily>>

UpdateExpressFeeder(id, in) ==
  /\ Edit
  /\ ValidFeeder(in) /\ Referenced(in) /\ Replaces(feeders, id)
  /\ feeders' = [feeders EXCEPT ![id] = [in EXCEPT !.id = id]]
  /\ UNCHANGED <<meters, daily>>

SoftDeleteExpressFeeder(id) ==
  /\ Edit
  /\ Replaces(feeders, id)
  /\ feeders' = [feeders EXCEPT ![id].deleted = TRUE]
  /\ UNCHANGED <<meters, daily>>

\* Rows are added and none is replaced.
Load_bug(r) ==
  /\ r \notin daily
  /\ daily' = daily \cup {r}
  /\ Cardinality(daily') <= MaxDaily
  /\ UNCHANGED <<meters, feeders, edits>>

\* The feed adds a row or replaces the one with its key.
Load(r) ==
  /\ r \notin daily
  /\ daily' = {d \in daily : KeyOf(d) # KeyOf(r)} \cup {r}
  /\ Cardinality(daily') <= MaxDaily
  /\ UNCHANGED <<meters, feeders, edits>>

-----------------------------------------------------------------------------
(* What reports read.                                                      *)

\* The rows in use.
MeterRows_bug == {meters[id] : id \in {i \in DOMAIN meters : ~meters[i].deleted}}

\* Every row of app.meters: only the ORM's own queries leave out retired ones.
MeterRows == {meters[id] : id \in DOMAIN meters}
FeederRows == {feeders[id] : id \in DOMAIN feeders}

\* A column of a LEFT JOIN that found nothing.
NoMeter == [f \in {"id", "number", "type", "region", "district", "site", "point", "place"} |-> Null]

\* LEFT JOIN app.meters ON meter_number: one row for each meter of that number,
\* retired or not.
MetersOf(number) ==
  LET rows == {m \in MeterRows : m.number = number}
  IN  IF rows = {} THEN {NoMeter} ELSE rows

LowerAll(names) == {Lower[n] : n \in names}
UpperAll(names) == {Upper[n] : n \in names}

\* An absent parameter filters nothing, and a NULL column is in no list.
Passes(names, column) == names = {} \/ (column # Null /\ column \in names)

InDates(q, d) == q.from <= d.day /\ d.day <= q.to

\* A point is written "A/B": the names of the places it lies between.
LowerPoint(point) == [i \in DOMAIN point |-> Lower[point[i]]]

\* boundary_metering_point ILIKE %p%, for p a point or the name of one end.
AtPoint(q, m) ==
  q.points = {} \/ (m.point # Null /\ \E p \in q.points :
                      \E i \in 1 .. Len(m.point) - Len(p) + 1 :
                        LowerPoint(p) = SubSeq(LowerPoint(m.point), i, i + Len(p) - 1))

\* lower(boundary_metering_point) IN p: the point as a whole.
AtWholePoint(q, m) ==
  q.points = {} \/ (m.point # Null /\ \E p \in q.points : LowerPoint(p) = LowerPoint(m.point))

\* buildReadingFilters on the columns of a meter, but for the type ...
PlaceFilters(q, m) ==
  /\ Passes(LowerAll(q.regions), Lower[m.region])
  /\ Passes(LowerAll(q.districts), Lower[m.district])
  /\ Passes(LowerAll(q.sites), Lower[m.site])
  /\ AtPoint(q, m)

\* ... the type, compared in upper case as stored ...
TypeFilter(q, m) == Passes(UpperAll(q.types), m.type)

\* ... and on the columns of a reading.
ReadingFilters(q, d) == InDates(q, d) /\ Passes(q.numbers, d.number)

-----------------------------------------------------------------------------
(* The lists of the administration.  Of a page, only the rows it is cut    *)
(* from and their number are kept.                                         *)

Listed(rows) == [list |-> rows, total |-> Cardinality(rows)]

\* The ORM leaves out retired rows; a type is compared as it was typed in.
QueryMeters(q) ==
  Listed({m \in MeterRows :
    /\ ~m.deleted
    /\ Passes(LowerAll(q.regions), Lower[m.region])
    /\ Passes(LowerAll(q.districts), Lower[m.district])
    /\ Passes(LowerAll(q.sites), Lower[m.site])
    /\ Passes(q.types, m.type)
    /\ AtWholePoint(q, m)})

GetMeterByID(id) == {m \in MeterRows : m.id = id /\ ~m.deleted}

\* The meters of a pair are joined by hand, retired ones too.
ListExpressFeeders ==
  Listed({[id |-> f.id, sending |-> meters[f.sending].number, receiving |-> meters[f.receiving].number] :
          f \in {g \in FeederRows : ~g.deleted}})

\* The columns of app.express_feeders.
FeederColumns == {"id", "name", "sending", "receiving", "sendingRegion", "receivingRegion"}

\* What is there at the start, and what is submitted, has the columns of its table.
ASSUME RowsAssumption ==
  /\ InitMeters \in Seq({InitMeters[i] : i \in DOMAIN InitMeters})
  /\ InitFeeders \in Seq({InitFeeders[i] : i \in DOMAIN InitFeeders})
  /\ \A i \in DOMAIN InitMeters : ValidMeter(InitMeters[i]) /\ InitMeters[i].deleted \in BOOLEAN
  /\ \A i \in DOMAIN InitFeeders :
       /\ ValidFeeder(InitFeeders[i]) /\ InitFeeders[i].deleted \in BOOLEAN
       /\ {InitFeeders[i].sending, InitFeeders[i].receiving} \subseteq DOMAIN InitMeters
  /\ \A in \in MeterInputs \cup {InitMeters[i] : i \in DOMAIN InitMeters} :
       DOMAIN in = DOMAIN NoMeter \cup {"deleted"}
  /\ \A in \in FeederInputs \cup {InitFeeders[i] : i \in DOMAIN InitFeeders} :
       DOMAIN in = FeederColumns \cup {"deleted"}

\* The columns of the tables keep their types, and a row its id.
TypeOK ==
  /\ \A id \in DOMAIN meters :
       /\ meters[id].id = id /\ meters[id].deleted \in BOOLEAN /\ ValidMeter(meters[id])
       /\ DOMAIN meters[id] = DOMAIN NoMeter \cup {"deleted"}
  /\ \A id \in DOMAIN feeders :
       feeders[id].id = id /\ feeders[id].deleted \in BOOLEAN /\ ValidFeeder(feeders[id])
  /\ daily \subseteq InitDaily \cup Readings
  /\ \A d, e \in daily : KeyOf(d) = KeyOf(e) => d = e
  /\ edits \in 0 .. MaxEdits

==============================================================================
