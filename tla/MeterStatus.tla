----------------------------- MODULE MeterStatus -----------------------------
(***************************************************************************)
(* internal/meters/service.go: which meters answered, and how often.       *)
(* Percentages are kept as the numbers they are ratios of.                 *)
(***************************************************************************)
EXTENDS MeterConsumption

\* daysInRange; only some handlers refuse a dateTo before dateFrom.
DaysInRange(q) == q.to - q.from + 1

\* The sub-select of a number: its rows in the range, of any item.
Recorded(q, m) == {d \in daily : d.number = m.number /\ InDates(q, d)}
Answered(q, m) == {d \in Recorded(q, m) : d.item # NoData}
DaysOf(rows) == Cardinality({d.day : d \in rows})

\* LEFT JOIN of that sub-select.  The filter on meter numbers is put on its
\* column, so that it leaves no meter without a record.
StatusRows(q) ==
  {m \in MeterRows :
     /\ PlaceFilters(q, m) /\ TypeFilter(q, m)
     /\ Passes(q.numbers, IF Recorded(q, m) = {} THEN Null ELSE m.number)}

HowMany(rows) == Cardinality(Numbers(rows))

\* BOOL_OR(data_item_id != 'NO_DATA') and no row.
Online(q, rows) == {m \in rows : Answered(q, m) # {}}
NoRecord(q, rows) == {m \in rows : Recorded(q, m) = {}}
NoAnswer(q, rows) == {m \in rows : Recorded(q, m) # {} /\ Answered(q, m) = {}}

GetMeterStatus(q) ==
  UNION {{[id |-> m.id, number |-> m.number, reading |-> d,
           status |-> IF d = NoReading THEN "OFFLINE - No Record"
                      ELSE IF d.item = NoData THEN "OFFLINE - No Data" ELSE "ONLINE"] :
          d \in ReadingsOf(q, m)} : m \in StatusRows(q)}

\* By id, and online only with a reading of import.
GetMeterStatusCounts(q) ==
  LET rows == StatusRows(q)
      online == {m \in rows : \E d \in Recorded(q, m) : d.item = Import}
      noRecord == NoRecord(q, rows)
  IN  [online |-> Cardinality(online), noRecord |-> Cardinality(noRecord),
       noData |-> Cardinality(rows \ (online \cup noRecord)), total |-> Cardinality(rows)]

\* AVG over the meters that have a record.
MeanUptime(q, rows, Up(_)) ==
  LET known == {m \in rows : Recorded(q, m) # {}}
  IN  [days |-> MapThenSumSet(Up, known), meters |-> Cardinality(known), of |-> DaysInRange(q)]

GetMeterStatusSummary(q) ==
  LET rows == StatusRows(q) IN
  [total |-> HowMany(rows), online |-> HowMany(Online(q, rows)),
   noData |-> HowMany(NoAnswer(q, rows)), noRecord |-> HowMany(NoRecord(q, rows)),
   kwh |-> MapThenSumSet(LAMBDA m : MapThenSumSet(Kwh, Recorded(q, m)), rows),
   uptime |-> MeanUptime(q, rows, LAMBDA m : DaysOf(Answered(q, m)))]

\* A line per day of the range; here the meter numbers filter app.meters.
GetMeterStatusTimeline(q) ==
  LET numbers == Numbers({m \in MeterRows : PlaceFilters(q, m) /\ TypeFilter(q, m)
                                              /\ Passes(q.numbers, m.number)})
  IN  [day \in q.from .. q.to |->
         LET on == {n \in numbers : \E d \in daily : d.number = n /\ d.day = day /\ d.item # NoData}
         IN  [online |-> Cardinality(on), offline |-> Cardinality(numbers \ on),
              total |-> Cardinality(numbers)]]

-----------------------------------------------------------------------------
(* Pages of meters.                                                        *)

\* GROUP BY the columns of the meter: rows that differ in their id only merge.
Profile(m) == [m EXCEPT !.id = 0, !.deleted = FALSE, !.place = Null]

\* The count is of the meters, before grouping and whatever the status asked
\* for; it has no mcd to filter numbers on, and the ratio is computed for every
\* meter, with a record or without.
DetailsTotal(q) == Cardinality(StatusRows(q))

GetMeterStatusDetails(q, status) ==
  LET rows == StatusRows(q)
      listed == CASE status = "ONLINE" -> Online(q, rows)
                  [] status = "OFFLINE" -> rows \ Online(q, rows)
                  [] OTHER -> rows
  IN  IF q.numbers # {} \/ (DaysInRange(q) = 0 /\ rows # {}) THEN Failed
      ELSE [list |-> {[profile |-> Profile(m),
                       status |-> IF Answered(q, m) # {} THEN "ONLINE"
                                  ELSE IF Recorded(q, m) # {} THEN "OFFLINE - No Data"
                                  ELSE "OFFLINE - No Record",
                       up |-> DaysOf(Answered(q, m)),
                       down |-> DaysInRange(q) - DaysOf(Answered(q, m))] : m \in listed},
            total |-> DetailsTotal(q)]

\* SUM(consumption) of every item, mapped or not, import and export alike.
GetConsumptionByRegion(q) ==
  LET rows == {r \in UNION {{d} \X MetersOf(d.number) :
                            d \in {e \in daily : e.kwh # Null /\ ReadingFilters(q, e)}} :
                 PlaceFilters(q, r[2]) /\ TypeFilter(q, r[2])}
      kind == IF q.period \in {"week", "month", "year"} THEN q.period ELSE "day"
      data == Grouped(rows, LAMBDA r : [date |-> PeriodStart[kind][r[1].day], region |-> r[2].region])
  IN  [data |-> data,
       kwh |-> MapThenSumSet(LAMBDA g : g.kwh, data),
       regions |-> Cardinality({g.key.region : g \in data} \ {Null})]

-----------------------------------------------------------------------------
(* Health.                                                                 *)

\* Days with a reading of import, of the days of the range.
ImportDays(q, m) == DaysOf({d \in Recorded(q, m) : d.item = Import})
AtLeast(q, m, percent) == ImportDays(q, m) * 100 >= percent * DaysInRange(q)

Healthy(q, rows) == {m \in rows : Recorded(q, m) # {} /\ AtLeast(q, m, 85)}
Warning(q, rows) == {m \in rows : Recorded(q, m) # {} /\ AtLeast(q, m, 60) /\ ~AtLeast(q, m, 85)}

\* A comparison with NULL is not true.
Critical_bug(q, rows) == {m \in rows : Recorded(q, m) # {} /\ ~AtLeast(q, m, 60)}

\* NULL is critical too.
Critical(q, rows) == {m \in rows : Recorded(q, m) = {} \/ ~AtLeast(q, m, 60)}

HealthCounts(q, rows) ==
  [total |-> HowMany(rows), healthy |-> HowMany(Healthy(q, rows)),
   warning |-> HowMany(Warning(q, rows)), critical |-> HowMany(Critical(q, rows))]

OfType(rows, t) == {m \in rows : m.type = t}
TypesOf(rows) == {m.type : m \in rows}

\* The last day recorded is one of the range, of any item; a meter without one
\* is not silent.
SilentFor(q, rows, days) ==
  {m \in rows : Recorded(q, m) # {} /\ \A d \in Recorded(q, m) : d.day < q.to - days}

GetMeterHealthMetrics(q) ==
  LET rows == StatusRows(q) IN
  [overall |-> HealthCounts(q, rows),
   uptime |-> MeanUptime(q, rows, LAMBDA m : ImportDays(q, m)),
   silent7 |-> HowMany(SilentFor(q, rows, 7)), silent30 |-> HowMany(SilentFor(q, rows, 30)),
   byType |-> [t \in TypesOf(rows) |-> HealthCounts(q, OfType(rows, t))]]

\* Days answered, of the days with a record.
UpPercent(q, m, percent) ==
  DaysOf(Answered(q, m)) * 100 - percent * DaysOf(Recorded(q, m))

Category(q, m) ==
  IF Recorded(q, m) = {} THEN "offline"
  ELSE IF UpPercent(q, m, 95) > 0 THEN "excellent"
  ELSE IF UpPercent(q, m, 80) >= 0 THEN "good"
  ELSE IF UpPercent(q, m, 60) >= 0 THEN "poor" ELSE "critical"

GetMeterHealthSummary(q) ==
  LET rows == StatusRows(q)
      offline(some) == HowMany(some \ Online(q, some))
  IN  [total |-> HowMany(rows), online |-> HowMany(Online(q, rows)), offline |-> offline(rows),
       distribution |-> [c \in {"excellent", "good", "poor", "critical"} |->
                           HowMany({m \in rows : Category(q, m) = c})],
       byType |-> [t \in TypesOf(rows) |->
                     [total |-> HowMany(OfType(rows, t)), offline |-> offline(OfType(rows, t)),
                      online |-> HowMany(Online(q, OfType(rows, t)))]]]

\* A row per meter, retired or not; the count follows the category asked for.
GetMeterHealthDetails(q, category) ==
  LET listed == {m \in StatusRows(q) : category = Blank \/ Category(q, m) = category}
  IN  [list |-> {[id |-> m.id, category |-> Category(q, m),
                  status |-> IF Answered(q, m) # {} THEN "ONLINE" ELSE "OFFLINE",
                  up |-> DaysOf(Answered(q, m)),
                  down |-> IF Recorded(q, m) = {} THEN DaysInRange(q)
                           ELSE DaysOf(Recorded(q, m)) - DaysOf(Answered(q, m))] : m \in listed},
       total |-> Cardinality(listed)]

\* The largest and the smallest sums of each type, of rows grouped by number and
\* the columns of the meter; without a reading of a system a sum is 0.
GetTopBottomConsumers(q) ==
  LET rows == {r \in Untyped(q) : r[2].type # Null}
      groups(t) == {[number |-> r[1].number, profile |-> Profile(r[2])] : r \in {x \in rows : x[2].type = t}}
      sum(g, s) == Total({r \in OfSystem(rows, s) : r[1].number = g.number /\ Profile(r[2]) = g.profile})
  IN  [t \in {r[2].type : r \in rows} |->
         [count |-> Cardinality(groups(t)),
          top |-> [s \in Kilowatts |-> Max({sum(g, s) : g \in groups(t)})],
          bottom |-> [s \in Kilowatts |-> Min({sum(g, s) : g \in groups(t)})]]]

==============================================================================
