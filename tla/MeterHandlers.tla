----------------------------- MODULE MeterHandlers -----------------------------
(***************************************************************************)
(* internal/meters/handler.go: the requests.  An edit is an action: who    *)
(* may ask, then what the service does; a request that is refused changes  *)
(* nothing.  A report is an answer, computed from the tables as they are;  *)
(* sortBy, sortOrder, page and limit only arrange its rows.                *)
(***************************************************************************)
EXTENDS MeterBalance

CONSTANTS Callers,     \* users, and Null for a request without a session
          NotifyEmails \* those whose email is on the allowlist

\* The parameters of reports.
Parameters == {"from", "to", "numbers", "regions", "districts", "sites", "points", "types", "groups", "period",
               "byStation", "sendingRegions", "receivingRegions", "areaRegions", "hasPlace"}

\* A date that is not given is Null; a list of names that were typed in has none;
\* reports are grouped by columns of the meter (LOWER of deleted_at is an error).
ASSUME HandlersAssumption ==
  /\ Blank \notin {"ONLINE", "OFFLINE", "excellent", "good", "poor", "critical", "offline"}
  /\ \A q \in Queries : {q.from, q.to} \ {Null} \subseteq Int
  /\ \A q \in Queries : DOMAIN q = Parameters /\ Null \notin q.types
  /\ \A q \in Queries : q.groups \subseteq DOMAIN NoMeter

\* requireNotifyEmail: 401 without a user, 403 off the list.
MayManage(caller) == caller # Null /\ caller \in NotifyEmails

PostMeter(caller, in) == MayManage(caller) /\ CreateMeter(in)
PutMeter(caller, id, in) == MayManage(caller) /\ UpdateMeter(id, in)
DeleteMeter(caller, id) == MayManage(caller) /\ SoftDeleteMeter(id)
PostExpressFeeder(caller, in) == MayManage(caller) /\ CreateExpressFeeder(in)
PutExpressFeeder(caller, id, in) == MayManage(caller) /\ UpdateExpressFeeder(id, in)
DeleteExpressFeeder(caller, id) == MayManage(caller) /\ SoftDeleteExpressFeeder(id)

Next ==
  \/ \E c \in Callers, in \in MeterInputs :
       PostMeter(c, in) \/ \E id \in DOMAIN meters : PutMeter(c, id, in)
  \/ \E c \in Callers : \E id \in DOMAIN meters : DeleteMeter(c, id)
  \/ \E c \in Callers, in \in FeederInputs :
       PostExpressFeeder(c, in) \/ \E id \in DOMAIN feeders : PutExpressFeeder(c, id, in)
  \/ \E c \in Callers : \E id \in DOMAIN feeders : DeleteExpressFeeder(c, id)
  \/ \E r \in Readings : Load(r)

Spec == Init /\ [][Next]_vars

-----------------------------------------------------------------------------
(* Answers.                                                                *)

BadRequest == [status |-> 400, body |-> Null]

Answer(result) ==
  IF result = Failed THEN [status |-> 500, body |-> Null] ELSE [status |-> 200, body |-> result]

\* time.Parse refuses a date that is not given.
Parsed(q) == q.from # Null /\ q.to # Null

Dated(q, Report(_)) == IF Parsed(q) THEN Answer(Report(q)) ELSE BadRequest

\* dateTo.Before(dateFrom) is refused too.
Ranged(q, Report(_)) ==
  IF Parsed(q) /\ q.from <= q.to THEN Answer(Report(q)) ELSE BadRequest

\* A parameter that is read whole, not split at commas: a list is no name.
AsOne(names) == IF Cardinality(names) > 1 THEN {Unknown} ELSE names

OnePlace(q) == [q EXCEPT !.regions = AsOne(q.regions), !.districts = AsOne(q.districts)]

\* An unknown word is refused; nothing stands for day.
ByPeriod(q, periods, Report(_)) == IF q.period \in periods THEN Ranged(q, Report) ELSE BadRequest

HandleGetMeterByID(id) ==
  LET rows == GetMeterByID(id) IN IF rows = {} THEN [status |-> 404, body |-> Null] ELSE Answer(rows)

HandleQueryMeters(q) == Answer(QueryMeters(q))

HandleListExpressFeeders(caller) ==
  IF caller = Null THEN [status |-> 401, body |-> Null]
  ELSE IF caller \notin NotifyEmails THEN [status |-> 403, body |-> Null]
  ELSE Answer(ListExpressFeeders)

\* The dates are passed on as they are.
HandleGetAggregatedReadings(q) == Answer(GetAggregated(q))

HandleGetDailyConsumption(q) == Dated(q, GetDailyConsumption)
HandleGetRegionalBoundaryDailyConsumption(q) == Dated(q, GetRegionalBoundaryDailyConsumption)
HandleGetDistrictBoundaryDailyConsumption(q) == Dated(q, GetDistrictBoundaryDailyConsumption)
HandleGetBSPDailyConsumption(q) == Dated(q, GetBSPDailyConsumption)
HandleGetFeederDailyConsumption(q) == Dated(q, GetFeederDailyConsumption)
HandleGetPSSDailyConsumption(q) == Dated(q, GetPSSDailyConsumption)
HandleGetSSDailyConsumption(q) == Dated(q, GetSSDailyConsumption)
HandleGetDTXDailyConsumption(q) == Dated(q, GetDTXDailyConsumption)

HandleGetFeederAggregatedConsumption(q) == Dated(q, GetFeederAggregatedConsumption)
HandleGetBSPAggregatedConsumption(q) == Dated(q, GetBSPAggregatedConsumption)
HandleGetPSSAggregatedConsumption(q) == Dated(q, GetPSSAggregatedConsumption)
HandleGetSSAggregatedConsumption(q) == Dated(q, GetSSAggregatedConsumption)
HandleGetAggregatedConsumption(q) == Dated(q, GetAggregatedConsumption)
HandleGetDTXAggregatedConsumption(q) == Dated(q, GetDTXAggregatedConsumption)
HandleGetRegionalBoundaryAggregatedConsumption(q) == Dated(q, GetRegionalBoundaryAggregatedConsumption)
HandleGetDistrictBoundaryAggregatedConsumption(q) == Dated(q, GetDistrictBoundaryAggregatedConsumption)

\* Neither points nor types are read.
FeederQuery(q) == [q EXCEPT !.points = {}, !.types = {}]

HandleGetExpressFeederDailyConsumption(q) == Dated(FeederQuery(q), GetExpressFeederDailyConsumption)
HandleGetExpressFeederAggregatedConsumption(q) ==
  Dated(FeederQuery(q), GetExpressFeederAggregatedConsumption)

HandleGetMeterStatus(q) == Dated(q, GetMeterStatus)
HandleGetMeterStatusCounts(q) == Dated(q, GetMeterStatusCounts)
HandleGetMeterStatusSummary(q) == Ranged(q, GetMeterStatusSummary)
HandleGetMeterStatusTimeline(q) == Ranged(q, GetMeterStatusTimeline)

HandleGetMeterStatusDetails(q, status) ==
  IF status \in {Blank, "ONLINE", "OFFLINE"}
  THEN Ranged(q, LAMBDA p : GetMeterStatusDetails(p, status)) ELSE BadRequest

HandleGetConsumptionByRegion(q) ==
  ByPeriod(q, {Blank, "day", "week", "month", "year"}, GetConsumptionByRegion)

HandleGetMeterHealthMetrics(q) == Ranged(q, GetMeterHealthMetrics)
HandleGetMeterHealthSummary(q) == Ranged(q, GetMeterHealthSummary)

HandleGetMeterHealthDetails(q, category) ==
  IF category \in {Blank, "excellent", "good", "poor", "critical", "online", "offline"}
  THEN Ranged(q, LAMBDA p : GetMeterHealthDetails(p, category)) ELSE BadRequest

HandleGetTopBottomConsumers(q) == Ranged(q, GetTopBottomConsumers)

HandleGetMetersWithServiceArea(q) == Answer(GetMetersWithServiceArea(q))
HandleGetMeterSpatialMismatch(q) == Answer(GetMeterSpatialMismatch(q))
HandleGetMeterSpatialStats == Answer(GetMeterSpatialStats)
HandleGetMeterSpatialCounts(q, by) ==
  Answer(GetMeterSpatialCounts(by, q.types, q.regions, q.districts))
HandleGetMeterSpatialCountsByRegion(q) == Answer(GetMeterSpatialCountsByRegion(q.types))
HandleGetMeterSpatialCountsByDistrict(q) ==
  Answer(GetMeterSpatialCountsByDistrict(AsOne(q.regions), q.types))
HandleGetMeterSpatialCountsByType == Answer(GetMeterSpatialCountsByType)

HandleGetRegions(q) == Answer(GetUniqueRegions(q))
HandleGetDistricts(q) == Answer(GetUniqueDistricts(OnePlace(q)))
HandleGetStations(q) == Answer(GetUniqueStations(OnePlace(q)))
HandleGetLocations(q) == Answer(GetUniqueLocations(OnePlace(q)))
HandleGetBoundaryPoints(q) == Answer(GetUniqueBoundaryPoints(OnePlace(q)))
HandleGetVoltages(q) == Answer(GetUniqueVoltages(OnePlace(q)))

HandleGetRegionalMapConsumption(q) == Ranged(OnePlace(q), GetRegionalMapConsumption)
HandleGetDistrictTimeseriesConsumption(q) == Ranged(q, GetDistrictTimeseriesConsumption)

HandleGetRegionalEnergyBalance(q) == Ranged(q, GetRegionalEnergyBalance)
HandleGetRegionalEnergyBalanceSummary(q) == Ranged(q, GetRegionalEnergyBalanceSummary)

==============================================================================
