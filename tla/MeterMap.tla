------------------------------- MODULE MeterMap -------------------------------
(***************************************************************************)
(* internal/meters/service.go: meters on the map.  app.dbo_ecg holds the   *)
(* service areas.  The place of a meter is Null, without coordinates, or   *)
(* the set of the areas its coordinates lie in: none, one, or two on a     *)
(* border.  Names carry no white space at their ends, so that TRIM is the  *)
(* identity; the shapes that are drawn, which two requests read from       *)
(* tables of their own, are left out.                                      *)
(***************************************************************************)
EXTENDS MeterStatus

CONSTANTS ServiceAreas, \* rows of app.dbo_ecg: a district and its region
          Unknown       \* 'Unknown District', 'Unknown Region'

NoArea == [district |-> Null, region |-> Null]

\* deleted_at is never written out.
Shown(m) == [m EXCEPT !.deleted = FALSE]

\* LEFT JOIN app.dbo_ecg ON ST_Intersects: a row per area a meter lies in.
Located ==
  UNION {{Shown(m)} \X (IF m.place \in {Null, {}} THEN {NoArea} ELSE m.place) : m \in MeterRows}

HasPlace(m) == m.place # Null

\* A comparison with NULL is not true.
Differ(a, b) == a # Null /\ b # Null /\ Lower[a] # Lower[b]

Mismatched(l) == Differ(l[1].region, l[2].region) \/ Differ(l[1].district, l[2].district)

\* The type as it was typed in; a search on the number is a filter on numbers.
GetMetersWithServiceArea(q) ==
  Listed({l \in Located :
    /\ Passes(q.types, l[1].type) /\ Passes(q.numbers, l[1].number)
    /\ Passes(LowerAll(q.regions), Lower[l[1].region])
    /\ Passes(LowerAll(q.districts), Lower[l[1].district])
    /\ Passes(LowerAll(q.areaRegions), Lower[l[2].region])
    /\ q.hasPlace \in {Null, HasPlace(l[1])}})

\* A place outside every area does not match either.
Misplaced(l) == HasPlace(l[1]) /\ (Mismatched(l) \/ l[2].region = Null \/ l[2].district = Null)

GetMeterSpatialMismatch(q) ==
  Listed({l \in Located :
            Misplaced(l) /\ Passes(q.types, l[1].type) /\ Passes(q.numbers, l[1].number)})

HowManyOf(Test(_), rows) == Cardinality({l \in rows : Test(l)})

\* Counted by rows of the join: a meter on a border twice.
GetMeterSpatialStats ==
  [total |-> Cardinality(Located),
   placed |-> HowManyOf(LAMBDA l : HasPlace(l[1]), Located),
   unplaced |-> HowManyOf(LAMBDA l : ~HasPlace(l[1]), Located),
   inArea |-> HowManyOf(LAMBDA l : l[2].region # Null, Located),
   outside |-> HowManyOf(LAMBDA l : HasPlace(l[1]) /\ l[2].region = Null, Located),
   ofRegion |-> HowManyOf(LAMBDA l : Differ(l[1].region, l[2].region), Located),
   ofDistrict |-> HowManyOf(LAMBDA l : Differ(l[1].district, l[2].district), Located)]

\* The columns of a switch; any other word is "region".
SpatialKey(by, l) ==
  CASE by = "district" -> <<l[2].region, l[2].district>>
    [] by = "meter_type" -> <<l[1].type>>
    [] by = "region_meter_type" -> <<l[2].region, l[1].type>>
    [] by = "district_meter_type" -> <<l[2].region, l[2].district, l[1].type>>
    [] OTHER -> <<l[2].region>>

SumOf(f, groups) == MapThenSumSet(LAMBDA g : g[f], groups)

GetMeterSpatialCounts(by, types, regions, districts) ==
  LET rows == {l \in Located :
        /\ Passes(types, l[1].type)
        /\ Passes(LowerAll(regions), Lower[l[1].region])
        /\ Passes(LowerAll(districts), Lower[l[1].district])}
      data == {LET group == {l \in rows : SpatialKey(by, l) = k} IN
                 [key |-> k, total |-> Cardinality(group),
                  placed |-> HowManyOf(LAMBDA l : HasPlace(l[1]), group),
                  inArea |-> HowManyOf(LAMBDA l : l[2].region # Null, group),
                  mismatched |-> HowManyOf(Mismatched, group)] :
               k \in {SpatialKey(by, l) : l \in rows}}
  IN  [data |-> data, total |-> SumOf("total", data), mismatched |-> SumOf("mismatched", data)]

GetMeterSpatialCountsByRegion(types) == GetMeterSpatialCounts("region", types, {}, {})
GetMeterSpatialCountsByDistrict(regions, types) == GetMeterSpatialCounts("district", types, regions, {})
GetMeterSpatialCountsByType == GetMeterSpatialCounts("meter_type", {}, {}, {})

-----------------------------------------------------------------------------
(* The values a filter can be given.  A parameter is a set of at most one. *)

Named(n) == n \notin {Null, Blank}

\* LEFT JOIN app.meters by name, and an area without meters is listed unless
\* the types are asked for.
AreaNames(col, q) ==
  {Lower[a[col]] : a \in {b \in ServiceAreas :
     /\ Named(b[col])
     /\ q.types = {} \/ \E m \in MeterRows :
          Lower[m[col]] = Lower[b[col]] /\ TypeFilter(q, m)}}

GetUniqueRegions(q) == AreaNames("region", q)

GetUniqueDistricts(q) ==
  {Lower[a.district] : a \in {b \in ServiceAreas :
     /\ Passes(LowerAll(q.regions), Lower[b.region])
     /\ Lower[b.district] \in AreaNames("district", q)}}

\* station, location, voltage_kv and the boundary points of the meters; the
\* join with the areas filters nothing.
InPlaces(q, m) ==
  /\ Passes(LowerAll(q.regions), Lower[m.region])
  /\ Passes(LowerAll(q.districts), Lower[m.district])
  /\ TypeFilter(q, m)

MeterSites(q) == {Lower[m.site] : m \in {n \in MeterRows : Named(n.site) /\ InPlaces(q, n)}}

GetUniqueStations(q) == MeterSites(q)
GetUniqueLocations(q) == MeterSites(q)
GetUniqueVoltages(q) == MeterSites(q)

GetUniqueBoundaryPoints(q) ==
  {LowerPoint(m.point) : m \in {n \in MeterRows : n.point # Null /\ InPlaces(q, n)}}

-----------------------------------------------------------------------------
(* The regional map: three ways to find the district of a meter, whose     *)
(* rows are put together.                                                  *)

\* The coordinates lie in the area.
BySpace(a, m) == m.place # Null /\ a \in m.place

\* The district of that name, with coordinates or not.
ByDistrict_bug(a, m) == m.district # Null /\ Lower[a.district] = Lower[m.district]

\* Without coordinates, the district of that name; one outside every area is
\* not looked up by name.
ByDistrict(a, m) ==
  m.place = Null /\ m.district # Null /\ Lower[a.district] = Lower[m.district]

\* Without a district, every district of the region, with coordinates or not.
ByRegion(a, m) == m.district = Null /\ m.region # Null /\ Lower[a.region] = Lower[m.region]

Areas == {a \in ServiceAreas : a.district # Null /\ a.region # Null}

\* The columns of a meter that are compared with names, and the areas it lies in.
PlaceOK(m) ==
  /\ {m.region, m.district, m.site} \subseteq DOMAIN Lower
  /\ m.point = Null \/ m.point \in Seq(DOMAIN Lower)
  /\ m.place = Null \/ m.place \subseteq ServiceAreas

\* No area has the name that stands for none.
ASSUME MapAssumption ==
  /\ Null \notin BOOLEAN
  /\ IsFiniteSet(ServiceAreas)
  /\ \A a \in ServiceAreas : {a.district, a.region} \subseteq DOMAIN Lower
  /\ \A a \in Areas : Lower[Unknown] \notin {Lower[a.district], Lower[a.region]}
  /\ \A in \in MeterInputs \cup {InitMeters[i] : i \in DOMAIN InitMeters} : PlaceOK(in)

\* One value of each parameter, compared with the columns of the area.
AreasAsked(q) ==
  {a \in Areas : Passes(LowerAll(q.regions), Lower[a.region])
                   /\ Passes(LowerAll(q.districts), Lower[a.district])}

\* The columns a row of the map is grouped by.
MapColumns == {"number", "type", "site", "point"}

\* UNION ALL: a branch keeps its rows apart from those of the others.
MapRows(q) ==
  LET typed == {m \in MeterRows : m.type # Null /\ TypeFilter(q, m)}
      branch(name, Of(_, _)) ==
        UNION {{name} \X {p[1]} \X {p[2]} \X ReadingsOf(q, p[2]) :
               p \in {at \in AreasAsked(q) \X typed : Of(at[1], at[2])}}
  IN  branch("spatial", BySpace) \cup branch("district_name", ByDistrict)
        \cup branch("region_name", ByRegion)

GetRegionalMapConsumption(q) ==
  LET all == MapRows(q) IN
  [area \in AreasAsked(q) |->
     LET rows == {r \in all : r[2] = area}
         Key(r) == [branch |-> r[1], meter |-> Columns(r[3], MapColumns), day |-> r[4].day]
     IN  {LET group == {r \in rows : Key(r) = k} IN
            [key |-> k, kwh |-> [s \in Kilowatts |->
               MapThenSumSet(LAMBDA r : Kwh(r[4]), {r \in group : System(r[4]) = s})]] :
          k \in {Key(r) : r \in rows}}]

-----------------------------------------------------------------------------
(* Consumption by district.                                                *)

\* COALESCE of the area of the coordinates, of the area of that name (district
\* and region), and of what the meter itself knows.
AreasOf(m) ==
  LET named == {a \in ServiceAreas : /\ m.district # Null /\ m.region # Null
                                     /\ Lower[a.district] = Lower[m.district]
                                     /\ Lower[a.region] = Lower[m.region]}
  IN  IF m.place \notin {Null, {}} THEN m.place
      ELSE IF named # {} THEN named
      ELSE {[district |-> Unknown, region |-> IF m.region = Null THEN Unknown ELSE m.region]}

\* SELECT DISTINCT district, region, number.
DistrictMeters(q) ==
  UNION {AreasOf(m) \X {m.number} :
         m \in {n \in MeterRows :
           /\ n.type # Null /\ TypeFilter(q, n)
           /\ Passes(LowerAll(q.regions), Lower[n.region])
           /\ Passes(LowerAll(q.districts), Lower[n.district])}}

GetDistrictTimeseriesConsumption(q) ==
  LET rows == {r \in DistrictMeters(q) \X daily : r[2].number = r[1][2] /\ InDates(q, r[2])}
      Key(r) == [area |-> r[1][1], day |-> r[2].day]
  IN  {LET group == {r \in rows : Key(r) = k} IN
         [key |-> k, kwh |-> [s \in Kilowatts |->
            MapThenSumSet(LAMBDA r : Kwh(r[2]), {r \in group : System(r[2]) = s})]] :
       k \in {Key(r) : r \in rows}}

==============================================================================
