------------------------------- MODULE MCMeters -------------------------------
(* Two districts, of two regions; four meters, a pair of them an express       *)
(* feeder, and what administrators and the feed add to them: a number          *)
(* registered twice, meters outside every area and on a border, late readings. *)
EXTENDS MeterReports

Bekwai == [district |-> "Bekwai", region |-> "Ashanti"]
Ho     == [district |-> "Ho", region |-> "Volta"]
MCServiceAreas == {Bekwai, Ho}

Types == {"BSP", "DTX", "PSS", "SS", "REGIONAL_BOUNDARY", "DISTRICT_BOUNDARY"}

MCLower ==
  [n \in {"ashanti", "volta", "bekwai", "ho", "s1", "s2", "dtx", "bsp", "Ashanti", "Volta", "Bekwai",
          "Ho", "East", "S1", Null, Blank, Unknown} \cup Types |->
     CASE n = "Ashanti" -> "ashanti" [] n = "Volta" -> "volta" [] n = "Bekwai" -> "bekwai"
       [] n = "Ho" -> "ho" [] n = "S1" -> "s1" [] n = "DTX" -> "dtx" [] n = "BSP" -> "bsp" [] OTHER -> n]

MCUpper == [t \in Types \cup {"dtx", "bsp"} |-> IF t = "dtx" THEN "DTX" ELSE IF t = "bsp" THEN "BSP" ELSE t]

MCMapping == [i \in {Import, "00200000"} |-> IF i = Import THEN "import_kwh" ELSE "export_kwh"]

Days == 1 .. 10
MCPeriodStart ==
  [kind \in {"day", "week", "month", "year"} |->
     [d \in Days |-> CASE kind = "day" -> d [] kind = "week" -> IF d < 8 THEN 1 ELSE 8 [] OTHER -> 1]]

-----------------------------------------------------------------------------
Meter(number, type, region, district, site, point, place) ==
  [id |-> 0, number |-> number, type |-> type, region |-> region, district |-> district,
   site |-> site, point |-> point, place |-> place, deleted |-> FALSE]

Row(m, id, deleted) == [m EXCEPT !.id = id, !.deleted = deleted]

MCInitMeters ==
  <<Row(Meter("n1", "BSP", "Ashanti", "Bekwai", "s1", Null, {Bekwai}), 1, FALSE),
    Row(Meter("n2", "DTX", "ashanti", "bekwai", "s1", Null, Null), 2, FALSE),
    Row(Meter("n3", "REGIONAL_BOUNDARY", "Volta", "Ho", "s2", <<"Ashanti", "Volta">>, Null), 3, FALSE),
    Row(Meter("n4", "DTX", "Volta", "Ho", "s2", Null, {Ho}), 4, FALSE)>>

\* A number that is there already, with another type and place; a boundary meter
\* one end of which is no region; a meter outside every area; one without a
\* district, on a border, with its type in lower case.
MCMeterInputs ==
  {Meter("n2", "PSS", "Volta", "Ho", "s1", Null, {Ho}),
   Meter("n5", "REGIONAL_BOUNDARY", Null, Null, "s2", <<"Volta", "East">>, {}),
   Meter("n6", "dtx", "Ashanti", Null, Blank, Null, {Bekwai, Ho}),
   Meter(Blank, "BSP", "Ashanti", "Bekwai", "s1", Null, Null)}

Feeder(name, sending, receiving, sendingRegion) ==
  [id |-> 0, name |-> name, sending |-> sending, receiving |-> receiving,
   sendingRegion |-> sendingRegion, receivingRegion |-> Null, deleted |-> FALSE]

MCInitFeeders == <<[Feeder("f1", 1, 2, "Ashanti") EXCEPT !.id = 1]>>
MCFeederInputs == {Feeder("f2", 3, 4, Null), Feeder("f1", 2, 9, Null)}

Reading(number, item, day, kwh) == [number |-> number, item |-> item, day |-> day, kwh |-> kwh]

MCInitDaily ==
  {Reading("n1", Import, 1, 9), Reading("n2", Import, 1, 4), Reading("n2", Import, 2, 5),
   Reading("n3", Import, 1, 3), Reading("n3", "00200000", 1, 1), Reading("n4", NoData, 1, Null)}

\* A correction, a late export of a meter that has an import, a last day, a meter
\* nobody registered.
MCReadings ==
  {Reading("n1", Import, 1, 8), Reading("n2", "00200000", 1, 2), Reading("n5", "00200000", 10, 6),
   Reading("n4", "99999999", 2, 7)}

\* The registers of a day: a meter nobody registered, an item that is not mapped.
MCRegisters ==
  {Reading("n1", Import, 1, 109), Reading("n2", Import, 1, 54), Reading("n2", Import, 2, 59),
   Reading("n9", Import, 1, 7), Reading("n4", "99999999", 2, Null)}

-----------------------------------------------------------------------------
All == [from |-> 1, to |-> 10, numbers |-> {}, regions |-> {}, districts |-> {}, sites |-> {},
        byStation |-> FALSE, points |-> {}, types |-> {}, groups |-> {}, period |-> Blank,
        sendingRegions |-> {}, receivingRegions |-> {}, areaRegions |-> {}, hasPlace |-> Null]

MCQueries ==
  {All,
   [All EXCEPT !.to = 1, !.sendingRegions = {"ashanti"}],
   [All EXCEPT !.regions = {"ashanti"}, !.groups = {"region"}, !.period = "month",
               !.sites = {"S1"}, !.byStation = TRUE],
   [All EXCEPT !.numbers = {"n2"}, !.hasPlace = FALSE],
   [All EXCEPT !.types = {"dtx"}, !.districts = {"Bekwai"}, !.areaRegions = {"volta"}],
   [All EXCEPT !.points = {<<"Volta">>, <<"Ashanti", "Volta">>}],
   [All EXCEPT !.to = 0],
   [All EXCEPT !.from = Null]}

==============================================================================
