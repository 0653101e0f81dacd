--------------------------- MODULE MeterConsumption ---------------------------
(***************************************************************************)
(* internal/meters/service.go: the consumption reports.  A report is a     *)
(* query over the tables: a join, filters, groups and sums.  An answer is  *)
(* the set of its groups, each a record of its key and its figures.        *)
(* GetAggregated alone reads another table, app.meter_readings_daily: the  *)
(* registers as they stood at the end of a day, which nothing in src/      *)
(* writes.                                                                 *)
(***************************************************************************)
EXTENDS MeterTables

CONSTANTS Failed,     \* a statement PostgreSQL refuses: the handler answers 500
          PeriodStart, \* first day of the period of a day, by kind of period
          Registers    \* rows of app.meter_readings_daily; kwh is total_val

ASSUME RegistersAssumption ==
  /\ IsFiniteSet(Registers)
  /\ \A d \in Registers : d.kwh \in Int \cup {Null}

\* SUM skips NULL.
Kwh(d) == IF d.kwh = Null THEN 0 ELSE d.kwh

\* Pairs of a reading and a meter of its number; the join with
\* data_item_mapping drops the readings of items that are not mapped.
Joined(q) ==
  {r \in UNION {{d} \X MetersOf(d.number) :
                d \in {e \in daily : e.item \in DOMAIN Mapping /\ ReadingFilters(q, e)}} :
     PlaceFilters(q, r[2])}

\* The reports of one type put it in place of the type filter ...
Typed(q, types) == {r \in Joined(q) : r[2].type \in types}

\* ... the general ones keep the filter.
Untyped(q) == {r \in Joined(q) : TypeFilter(q, r[2])}

Total(rows) == MapThenSumSet(LAMBDA r : Kwh(r[1]), rows)

\* GROUP BY the key of each row, with the sum of each group and the meters in it.
Grouped(rows, Key(_)) ==
  {LET group == {r \in rows : Key(r) = k} IN
     [key |-> k, kwh |-> Total(group), active |-> Cardinality({r[1].number : r \in group})] :
   k \in {Key(r) : r \in rows}}

Columns(m, cols) == [c \in cols |-> m[c]]

-----------------------------------------------------------------------------
(* One row per day, meter and item.                                        *)

DailyReport(rows, cols) ==
  Grouped(rows, LAMBDA r : [day |-> r[1].day, number |-> r[1].number,
                            system |-> Mapping[r[1].item], cols |-> Columns(r[2], cols)])

PlaceColumns == {"region", "district", "type", "site"}

GetDailyConsumption(q) == DailyReport(Untyped(q), PlaceColumns)

GetRegionalBoundaryDailyConsumption(q) ==
  DailyReport(Typed(q, {"REGIONAL_BOUNDARY"}), PlaceColumns \cup {"point"})

GetDistrictBoundaryDailyConsumption(q) ==
  DailyReport(Typed(q, {"DISTRICT_BOUNDARY"}), PlaceColumns \cup {"point"})

GetBSPDailyConsumption(q) == DailyReport(Typed(q, {"BSP"}), PlaceColumns)
GetDTXDailyConsumption(q) == DailyReport(Typed(q, {"DTX"}), PlaceColumns)
GetPSSDailyConsumption(q) == DailyReport(Typed(q, {"PSS"}), PlaceColumns)
GetSSDailyConsumption(q)  == DailyReport(Typed(q, {"SS"}), PlaceColumns)

\* The types of feeders, when the caller names none.
FeederTypes(types) == IF types = {} THEN {"BSP", "PSS", "SS"} ELSE types

GetFeederDailyConsumption(q) == DailyReport(Typed(q, FeederTypes(q.types)), PlaceColumns)

-----------------------------------------------------------------------------
(* Sums over periods, next to how many meters there are.                   *)

\* switch groupBy: anything but month and year is a day.
Period(kind, day) == PeriodStart[IF kind \in {"month", "year"} THEN kind ELSE "day"][day]

\* additionalGroups, lower case but for the type.
Extra(m, groups) == [c \in groups |-> IF c = "type" THEN m[c] ELSE Lower[m[c]]]

PeriodReport(q, rows, cols, groups) ==
  Grouped(rows, LAMBDA r : [period |-> Period(q.period, r[1].day), system |-> Mapping[r[1].item],
                            cols |-> Columns(r[2], cols), extra |-> Extra(r[2], groups)])

Numbers(rows) == {m.number : m \in rows}

\* COUNT(DISTINCT meter_number) of the rows of app.meters of some types ...
AllMeters(types) == Cardinality(Numbers({m \in MeterRows : m.type \in types}))

\* ... of those that pass the parameters as they were typed in ...
SameLetters(q, m) ==
  /\ Passes(q.regions, m.region) /\ Passes(q.districts, m.district) /\ Passes(q.sites, m.site)

\* Of the meters in use.
MetersRead_bug(q, types) ==
  Cardinality(Numbers({m \in MeterRows :
    /\ m.type \in types /\ ~m.deleted /\ PlaceFilters(q, m)
    /\ \E d \in daily : d.number = m.number /\ ReadingFilters(q, d)}))

\* ... and of those with a reading of any item under the filters of the report.
MetersRead(q, types) ==
  Cardinality(Numbers({m \in MeterRows :
    /\ m.type \in types /\ PlaceFilters(q, m)
    /\ \E d \in daily : d.number = m.number /\ ReadingFilters(q, d)}))

GetDTXAggregatedConsumption(q) ==
  [rows |-> PeriodReport(q, Typed(q, {"DTX"}), {"region", "district", "site"}, q.groups),
   total |-> Cardinality(Numbers({m \in MeterRows : m.type = "DTX" /\ SameLetters(q, m)})),
   ofColumn |-> [c \in {"region", "district"} |->
      [n \in DOMAIN Lower \ {Null} |-> Cardinality(Numbers({m \in MeterRows : m.type = "DTX" /\ m[c] = n}))]]]

GetAggregatedConsumption(q) ==
  [rows |-> PeriodReport(q, Untyped(q), {"region", "type", "site", "point"}, q.groups),
   total |-> Cardinality(Numbers({m \in MeterRows : SameLetters(q, m) /\ Passes(q.types, m.type)}))]

StationReport(q, types, cols, groups) ==
  [rows |-> PeriodReport(q, Typed(q, types), cols, groups),
   total |-> MetersRead(q, types), all |-> AllMeters(types)]

GetBSPAggregatedConsumption(q) == StationReport(q, {"BSP"}, {"site"}, q.groups)
GetPSSAggregatedConsumption(q) == StationReport(q, {"PSS"}, {"site"}, q.groups)
GetSSAggregatedConsumption(q)  == StationReport(q, {"SS"}, {"site"}, q.groups)

\* The type is a column already; it is not grouped by twice.
GetFeederAggregatedConsumption(q) ==
  StationReport(q, FeederTypes(q.types), {"site", "type"}, q.groups \ {"type"})

BoundaryReport(q, type) ==
  [rows |-> PeriodReport(q, Typed(q, {type}), {"point", "site"}, q.groups),
   total |-> Cardinality(Numbers({m \in MeterRows : m.type = type /\ SameLetters(q, m)}))]

GetRegionalBoundaryAggregatedConsumption(q) == BoundaryReport(q, "REGIONAL_BOUNDARY")
GetDistrictBoundaryAggregatedConsumption(q) == BoundaryReport(q, "DISTRICT_BOUNDARY")

-----------------------------------------------------------------------------
(* GetAggregated: totals, a series and totals by type, in three statements. *)

\* A date that is not given filters nothing.
OpenDates(q, d) == (q.from = Null \/ q.from <= d.day) /\ (q.to = Null \/ d.day <= q.to)

\* JOIN app.meters: registers of unknown numbers drop out; types are compared in
\* lower case on both sides.
Aggregable(q) ==
  {r \in UNION {{d} \X {m \in MeterRows : m.number = d.number} : d \in {e \in Registers : OpenDates(q, e)}} :
     /\ Passes(LowerAll(q.regions), Lower[r[2].region])
     /\ Passes(LowerAll(q.districts), Lower[r[2].district])
     /\ Passes(LowerAll(q.sites), Lower[r[2].site])
     /\ AtWholePoint(q, r[2])
     /\ Passes(LowerAll(q.types), Lower[r[2].type])}

System(d) == IF d.item \in DOMAIN Mapping THEN Mapping[d.item] ELSE Null

OfSystem(rows, s) == {r \in rows : System(r[1]) = s}

Totals(rows) == [s \in {Mapping[i] : i \in DOMAIN Mapping} |-> Total(OfSystem(rows, s))]

GetAggregated(q) ==
  LET rows == Aggregable(q)
      on(day) == {r \in rows : r[1].day = day}
      of(type) == {r \in rows : r[2].type = type}
  IN  [totals |-> Totals(rows),
       meters |-> Cardinality({r[1].number : r \in rows}),
       series |-> [day \in {r[1].day : r \in rows} |-> Totals(on(day))],
       stacked |-> [day \in {r[1].day : r \in rows} |->
                      [t \in {r[2].type : r \in on(day)} |-> Totals(on(day) \cap of(t))]],
       byType |-> [t \in {r[2].type : r \in rows} |-> Totals(of(t))]]

-----------------------------------------------------------------------------
(* Express feeders: each end is a meter, joined by id.                     *)

NoReading == [number |-> Null, item |-> Null, day |-> Null, kwh |-> Null]

ReadingsOf(q, m) ==
  LET rows == {d \in daily : d.number = m.number /\ InDates(q, d)}
  IN  IF rows = {} THEN {NoReading} ELSE rows

\* A filter on a meter holds of either end, each filter for itself.
EitherEnd(q, s, r) ==
  /\ Passes(LowerAll(q.regions), Lower[s.region]) \/ Passes(LowerAll(q.regions), Lower[r.region])
  /\ Passes(LowerAll(q.districts), Lower[s.district]) \/ Passes(LowerAll(q.districts), Lower[r.district])
  /\ Passes(LowerAll(q.sites), Lower[s.site]) \/ Passes(LowerAll(q.sites), Lower[r.site])
  /\ AtPoint(q, s) \/ AtPoint(q, r)
  /\ TypeFilter(q, s) \/ TypeFilter(q, r)

\* Every reading of the sending end with every one of the receiving end.
FeederPairs(q) ==
  UNION {{f} \X ReadingsOf(q, meters[f.sending]) \X ReadingsOf(q, meters[f.receiving]) :
         f \in {g \in FeederRows :
           /\ ~g.deleted
           /\ EitherEnd(q, meters[g.sending], meters[g.receiving])
           /\ Passes(LowerAll(q.sendingRegions), Lower[g.sendingRegion])
           /\ Passes(LowerAll(q.receivingRegions), Lower[g.receivingRegion])}}

\* COALESCE of the two dates.
PairDay(p) == IF p[2].day # Null THEN p[2].day ELSE p[3].day

EndTotals(pairs, i) ==
  [s \in Kilowatts |->
     MapThenSumSet(LAMBDA p : Kwh(p[i]), {p \in pairs : System(p[i]) = s})]

\* The groups are added up again by period and name.  A filter on meter numbers
\* names mcd, which this statement does not have.
FeederReport(q, kind) ==
  IF q.numbers # {} THEN Failed
  ELSE LET pairs == FeederPairs(q)
           Key(p) == [name |-> p[1].name,
                      period |-> IF PairDay(p) = Null THEN Null ELSE Period(kind, PairDay(p))]
       IN  {LET group == {p \in pairs : Key(p) = k} IN
              [key |-> k, sending |-> EndTotals(group, 2), receiving |-> EndTotals(group, 3)] :
            k \in {Key(p) : p \in pairs}}

GetExpressFeederDailyConsumption(q) == FeederReport(q, "day")
GetExpressFeederAggregatedConsumption(q) == FeederReport(q, q.period)

==============================================================================
