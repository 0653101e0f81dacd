----------------------------- MODULE MeterReports -----------------------------
(***************************************************************************)
(* What the reports of internal/meters promise each other: figures that    *)
(* several statements compute, each with joins and filters of its own, and *)
(* that a reader puts side by side.                                        *)
(***************************************************************************)
EXTENDS MeterHandlers

\* The body of an answer, when there is one.
Given(answer, Holds(_)) == answer.status = 200 => Holds(answer.body)

InSystem(groups, s) == {g \in groups : g.key.system = s}

OfTypes(q, types) == [q EXCEPT !.types = types]

-----------------------------------------------------------------------------
(* Consumption.                                                            *)

\* The daily and the periodic report of a type and the general one asked for that
\* type have the same sums.
SameSums(q, type, days, periods) ==
  \A s \in Kilowatts :
    LET sum == SumOf("kwh", InSystem(days, s)) IN
    /\ SumOf("kwh", InSystem(periods, s)) = sum
    /\ Given(HandleGetDailyConsumption(OfTypes(q, {type})), LAMBDA all :
         SumOf("kwh", InSystem(all, s)) = sum)

\* No group has more meters than the report says were read, nor those more than
\* there are.
CountsNest(report) ==
  /\ \A g \in report.rows : g.active <= report.total
  /\ report.total <= report.all

TypeAgrees(q, type, onDays, inPeriods) ==
  Given(onDays, LAMBDA days : Given(inPeriods, LAMBDA report :
    SameSums(q, type, days, report.rows) /\ CountsNest(report)))

\* Of a pair over one day, each end shows its own consumption once for every
\* row of the other end: right with one reading, doubled with two.
Own(q, m, s) == MapThenSumSet(Kwh, {d \in Recorded(q, m) : System(d) = s})
Rows(q, m) == Cardinality(ReadingsOf(q, m))

PairAgrees(q, f, g) ==
  LET sending == meters[f.sending]
      receiving == meters[f.receiving]
  IN  \A s \in Kilowatts :
        /\ g.sending[s] = Own(q, sending, s) * Rows(q, receiving)
        /\ g.receiving[s] = Own(q, receiving, s) * Rows(q, sending)

FeedersAgree(q) ==
  q.from = q.to =>
    Given(HandleGetExpressFeederDailyConsumption(q), LAMBDA pairs :
      \A g \in pairs : \A f \in FeederRows :
        {h \in FeederRows : ~h.deleted /\ h.name = g.key.name} = {f} => PairAgrees(q, f, g))

\* The reports of one type, the general reports and the pairs of express feeders
\* agree on the same readings: a number registered twice is counted twice by all
\* of them.
ConsumptionAgrees ==
  \A q \in Queries :
    /\ TypeAgrees(q, "BSP", HandleGetBSPDailyConsumption(q), HandleGetBSPAggregatedConsumption(q))
    /\ TypeAgrees(q, "PSS", HandleGetPSSDailyConsumption(q), HandleGetPSSAggregatedConsumption(q))
    /\ TypeAgrees(q, "SS", HandleGetSSDailyConsumption(q), HandleGetSSAggregatedConsumption(q))
    /\ Given(HandleGetDTXDailyConsumption(q), LAMBDA days :
         Given(HandleGetDTXAggregatedConsumption(q), LAMBDA report :
           SameSums(q, "DTX", days, report.rows)))
    /\ Given(HandleGetFeederDailyConsumption(q), LAMBDA days :
         Given(HandleGetFeederAggregatedConsumption(q), LAMBDA report :
           /\ CountsNest(report)
           /\ \A s \in Kilowatts :
                SumOf("kwh", InSystem(days, s)) = SumOf("kwh", InSystem(report.rows, s))))
    /\ Given(HandleGetRegionalBoundaryDailyConsumption(q), LAMBDA days :
         Given(HandleGetRegionalBoundaryAggregatedConsumption(q), LAMBDA report :
           SameSums(q, "REGIONAL_BOUNDARY", days, report.rows)))
    /\ Given(HandleGetDistrictBoundaryDailyConsumption(q), LAMBDA days :
         Given(HandleGetDistrictBoundaryAggregatedConsumption(q), LAMBDA report :
           SameSums(q, "DISTRICT_BOUNDARY", days, report.rows)))
    /\ Given(HandleGetDailyConsumption(q), LAMBDA days :
         Given(HandleGetAggregatedConsumption(q), LAMBDA report :
           SumOf("kwh", days) = SumOf("kwh", report.rows)))
    /\ FeedersAgree(q)

-----------------------------------------------------------------------------
(* Status and health.                                                      *)

\* The classes of a health report are all of its meters.
Classes(counts) == counts.healthy + counts.warning + counts.critical = counts.total

HealthAgrees(q, summary) ==
  /\ Given(HandleGetMeterHealthMetrics(q), LAMBDA health :
       /\ Classes(health.overall) /\ health.overall.total = summary.total
       /\ \A t \in DOMAIN health.byType : Classes(health.byType[t])
       /\ health.silent30 <= health.silent7
       /\ health.uptime.meters + Cardinality(NoRecord(q, StatusRows(q))) = Cardinality(StatusRows(q)))
  /\ Given(HandleGetMeterHealthSummary(q), LAMBDA health :
       /\ health.total = summary.total /\ health.online = summary.online
       /\ health.offline = summary.noData + summary.noRecord
       /\ health.distribution.excellent + health.distribution.good + health.distribution.poor
            + health.distribution.critical + summary.noRecord = health.total
       /\ \A t \in DOMAIN health.byType :
            health.byType[t].online + health.byType[t].offline = health.byType[t].total)

\* The pages of the details, for a status and for all.
DetailsAgree(q, summary) ==
  LET all == HandleGetMeterStatusDetails(q, Blank) IN
  /\ all.status = 500 => q.numbers # {}
  /\ Given(all, LAMBDA details :
       /\ Cardinality(details.list) <= details.total
       /\ summary.total <= details.total
       /\ \A status \in {"ONLINE", "OFFLINE"} :
            Given(HandleGetMeterStatusDetails(q, status), LAMBDA some :
              some.list = {l \in details.list : (l.status = "ONLINE") <=> (status = "ONLINE")}))
  /\ LET of(category) == HandleGetMeterHealthDetails(q, category).body.total IN
     (\A c \in {Blank, "excellent", "good", "poor", "critical", "offline"} :
        HandleGetMeterHealthDetails(q, c).status = 200) =>
       of(Blank) = of("excellent") + of("good") + of("poor") + of("critical") + of("offline")

\* The cards, the timeline, the health reports and the detail pages count the
\* same meters as online, without data and without a record, and no range of
\* dates makes a page fail.
StatusAgrees ==
  \A q \in Queries :
    Given(HandleGetMeterStatusSummary(q), LAMBDA summary :
      /\ summary.online + summary.noData + summary.noRecord = summary.total
      /\ HealthAgrees(q, summary)
      /\ DetailsAgree(q, summary)
      /\ q.from = q.to /\ q.numbers = {} =>
           Given(HandleGetMeterStatusTimeline(q), LAMBDA lines :
             lines[q.from].online = summary.online /\ lines[q.from].total = summary.total)
      /\ Given(HandleGetMeterStatusCounts(q), LAMBDA counts :
           /\ counts.online + counts.noData + counts.noRecord = counts.total
           /\ summary.noRecord <= counts.noRecord)
      /\ Given(HandleGetMeterStatus(q), LAMBDA list :
           summary.online = HowMany({l \in list : l.status = "ONLINE"})))

-----------------------------------------------------------------------------
(* The map.                                                                *)

UniqueNumbers == Cardinality(Numbers(MeterRows)) = Len(meters)

\* Meters whose record names the one area they are in.
WellPlaced(m) ==
  /\ m.type # Null /\ m.district # Null /\ m.region # Null
  /\ \E a \in Areas : /\ Lower[a.district] = Lower[m.district] /\ Lower[a.region] = Lower[m.region]
                      /\ m.place \in {Null, {a}}
                      /\ \A b \in Areas : Lower[b.district] = Lower[m.district] => b = a

\* The map of the districts and their series show the same sums of a day.
MapAgrees(q) ==
  Given(HandleGetRegionalMapConsumption(q), LAMBDA map :
    Given(HandleGetDistrictTimeseriesConsumption(q), LAMBDA series :
      \A g \in series : g.key.area \in DOMAIN map =>
        \A s \in Kilowatts :
          g.kwh[s] = MapThenSumSet(LAMBDA r : r.kwh[s], {r \in map[g.key.area] : r.key.day = g.key.day})))

Unfiltered(q) ==
  [q EXCEPT !.types = {}, !.numbers = {}, !.regions = {}, !.districts = {}, !.areaRegions = {},
            !.hasPlace = Null]

\* The spatial list, its statistics, the list of mismatches and every count are
\* of the same rows; where every area has its names, a mismatch is a name that
\* differs or a place outside every area.
SpatialAgrees(q) ==
  LET u == Unfiltered(q)
      stats == HandleGetMeterSpatialStats.body
      mismatches == HandleGetMeterSpatialMismatch(u).body
      places(has) == HandleGetMetersWithServiceArea([u EXCEPT !.hasPlace = has]).body
      reports == {HandleGetMeterSpatialCounts(u, by) :
                    by \in {"region", "district", "meter_type", "region_meter_type", "district_meter_type"}}
                 \cup {HandleGetMeterSpatialCountsByRegion(u), HandleGetMeterSpatialCountsByDistrict(u),
                       HandleGetMeterSpatialCountsByType}
  IN  /\ stats.placed + stats.unplaced = stats.total
      /\ stats.inArea + stats.outside = stats.placed
      /\ places(TRUE).total = stats.placed /\ places(FALSE).total = stats.unplaced
      /\ mismatches.list \subseteq places(TRUE).list
      /\ \A counts \in reports :
           /\ counts.body.total = stats.total
           /\ Areas = ServiceAreas => counts.body.mismatched + stats.outside = mismatches.total

\* A value that a list offers as a filter finds a meter: a station always, a
\* region or a district when types are asked for.
Finds(q) == Given(HandleGetMeterStatusSummary(q), LAMBDA summary : summary.total > 0)

ListsAgree(q) ==
  LET p == [q EXCEPT !.numbers = {}, !.sites = {}, !.points = {}] IN
  /\ \A n \in UNION {HandleGetStations(p).body, HandleGetLocations(p).body, HandleGetVoltages(p).body} :
       Finds([OnePlace(p) EXCEPT !.sites = {n}])
  /\ \A n \in HandleGetBoundaryPoints(p).body : Finds([OnePlace(p) EXCEPT !.points = {n}])
  /\ p.types # {} =>
       /\ \A n \in HandleGetRegions(p).body : Finds([p EXCEPT !.regions = {n}, !.districts = {}])
       /\ \A n \in HandleGetDistricts(p).body : Finds([p EXCEPT !.regions = {}, !.districts = {n}])

\* Where every meter is where its record says, the map and the series agree, and
\* the spatial counts, the statistics and the list of mismatches always do; and a
\* filter that is offered finds a meter.
MapsAgree ==
  \A q \in Queries :
    /\ UniqueNumbers /\ (\A m \in MeterRows : WellPlaced(m)) => MapAgrees(q)
    /\ SpatialAgrees(q)
    /\ ListsAgree(q)

-----------------------------------------------------------------------------
(* The balance.                                                            *)

Net(flows) == MapThenSumSet(LAMBDA f : f.in - f.out, flows)

\* A flow counts for both of its ends, once in and once out.
FlowsCancel(q, balance) ==
  LET leftA == {f \in Flows(q) : f.a \in ValidRegions /\ f.b \notin ValidRegions}
      leftB == {f \in Flows(q) : f.b \in ValidRegions /\ f.a \notin ValidRegions}
  IN  balance.net = Net(leftA) - Net(leftB)

\* Exports and imports between regions cancel but for the flows of which one end
\* is no region; the lines of one region are those of the whole report, but for
\* the one of the meters without a region, which cannot be asked for; the
\* transformers deliver what their own report says; the summary adds up.
BalanceAgrees ==
  \A q \in Queries :
    Given(HandleGetRegionalEnergyBalance(q), LAMBDA balance :
      /\ q.regions = {} => FlowsCancel(q, balance)
      /\ UnknownRegion \notin LowerAll(q.regions) =>
           Given(HandleGetRegionalEnergyBalance([q EXCEPT !.regions = {}]), LAMBDA whole :
             balance.data = {l \in whole.data : Passes(LowerAll(q.regions), l.region)})
      /\ q.points = {} /\ q.types = {} => Given(HandleGetDTXDailyConsumption(q), LAMBDA days :
           balance.dtx = SumOf("kwh", InSystem(days, "import_kwh")))
      /\ Given(HandleGetRegionalEnergyBalanceSummary(q), LAMBDA summary :
           \A f \in {"days", "bsp", "dtx", "internal", "net", "total"} : SumOf(f, summary) = balance[f]))

-----------------------------------------------------------------------------
(* Retiring.                                                               *)

\* What is shown of the readings.
Answers(q) ==
  <<HandleGetDailyConsumption(q), HandleGetDTXAggregatedConsumption(q),
    HandleGetBSPAggregatedConsumption(q), HandleGetFeederAggregatedConsumption(q),
    HandleGetRegionalBoundaryAggregatedConsumption(q), HandleGetAggregatedReadings(q),
    HandleGetExpressFeederAggregatedConsumption(q),
    HandleGetConsumptionByRegion(q), HandleGetTopBottomConsumers(q),
    HandleGetMeterStatusSummary(q), HandleGetMeterHealthSummary(q),
    HandleGetRegionalMapConsumption(q), HandleGetDistrictTimeseriesConsumption(q),
    HandleGetRegionalEnergyBalance(q)>>

\* A retired meter is in no list of the administration, the others stay in
\* theirs, and the pairs of express feeders keep their ends.
RetiredIsUnlisted(caller, id) ==
  /\ HandleGetMeterByID(id)'.status = 404
  /\ HandleListExpressFeeders(caller)' = HandleListExpressFeeders(caller)
  /\ \A q \in Queries :
       {m \in HandleQueryMeters(q).body.list : m.id # id} = HandleQueryMeters(q)'.body.list

\* Retiring a meter takes it out of the lists of the administration and no
\* reading out of any report.
RetiringKeepsReports ==
  [][\A c \in Callers : \A id \in DOMAIN meters : DeleteMeter(c, id) =>
       RetiredIsUnlisted(c, id) /\ \A q \in Queries : Answers(q)' = Answers(q)]_vars

==============================================================================
