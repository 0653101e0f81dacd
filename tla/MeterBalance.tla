----------------------------- MODULE MeterBalance -----------------------------
(***************************************************************************)
(* internal/meters/service.go: the energy balance of the regions.  What    *)
(* enters a region through its bulk supply points, less what its           *)
(* transformers deliver, and what crosses its boundaries: a boundary meter *)
(* at the point "A/B" counts for A as it reads and for B the other way.    *)
(* The sites of a request are stations when its byStation says so, else    *)
(* locations or voltages.  Ratios, labels and flags computed from these    *)
(* figures are left out.                                                   *)
(***************************************************************************)
EXTENDS MeterMap

CONSTANT UnknownRegion \* 'unknown', the region of a meter without one

-----------------------------------------------------------------------------
(* The two halves of the query.                                            *)

InternalTypes(q) == UpperAll(q.types) \cap {"BSP", "DTX"}

\* The placeholders of the types come first in the statement, their arguments
\* after those of the dates: one type, and a date is compared with its name.
ArgumentsMisplaced(q) == InternalTypes(q) # {}

\* JOIN app.meters, JOIN data_item_mapping.
Metered(q) ==
  UNION {{d} \X {m \in MeterRows : m.number = d.number} :
         d \in {e \in daily : e.item # NoData /\ e.item \in DOMAIN Mapping /\ ReadingFilters(q, e)}}

\* A balance for other types has no internal half.
Internal(q) ==
  {r \in Metered(q) :
     /\ r[2].type \in (IF q.types = {} THEN {"BSP", "DTX"} ELSE InternalTypes(q))
     /\ System(r[1]) = "import_kwh"
     /\ Passes(LowerAll(q.regions), Lower[r[2].region])
     /\ Passes(LowerAll(q.districts), Lower[r[2].district])
     /\ Passes(LowerAll(q.sites), Lower[r[2].site])}

\* Neither region, district nor station filters the boundary half.
AtBoundary(q) ==
  {r \in Metered(q) :
     /\ r[2].type = "REGIONAL_BOUNDARY" /\ r[2].point # Null /\ Len(r[2].point) >= 2
     /\ System(r[1]) \in Kilowatts
     /\ q.byStation \/ Passes(LowerAll(q.sites), Lower[r[2].site])
     /\ AtWholePoint(q, r[2])}

\* Regions with a bulk supply point or a transformer, retired ones too.
ValidRegions ==
  {Lower[m.region] : m \in {n \in MeterRows : Named(n.region) /\ n.type \in {"BSP", "DTX"}}}

\* boundary_flows_parsed: a line per day and meter; SPLIT_PART takes two parts.
Flows(q) ==
  LET rows == AtBoundary(q)
      Key(r) == [day |-> r[1].day, number |-> r[2].number, point |-> r[2].point, site |-> r[2].site]
  IN  {LET group == {r \in rows : Key(r) = k} IN
         [key |-> k, a |-> Lower[k.point[1]], b |-> Lower[k.point[2]],
          in |-> Total(OfSystem(group, "import_kwh")), out |-> Total(OfSystem(group, "export_kwh"))] :
       k \in {Key(r) : r \in rows}}

FromA(f) == [side |-> "a", key |-> f.key, region |-> f.a, connected |-> f.b, in |-> f.in, out |-> f.out]

\* region_b as it reads.
FromB_bug(f) == [side |-> "b", key |-> f.key, region |-> f.b, connected |-> f.a, in |-> f.in, out |-> f.out]

\* region_b, from the other side.
FromB(f) == [side |-> "b", key |-> f.key, region |-> f.b, connected |-> f.a, in |-> f.out, out |-> f.in]

\* boundary_flows_per_region: an end that is no valid region has no entry, and
\* the other keeps its own.
FlowEntries(q) ==
  UNION {{e \in {FromA(f), FromB(f)} : e.region \in ValidRegions} : f \in Flows(q)}

\* jsonb_object_agg(location, ...) refuses a NULL key.
KeyMissing(q) == \E e \in FlowEntries(q) : e.key.site = Null

-----------------------------------------------------------------------------
(* A line per region and day.                                              *)

RegionOf(m) == IF m.region = Null THEN UnknownRegion ELSE Lower[m.region]

FlowOf(entries) == [in |-> SumOf("in", entries), out |-> SumOf("out", entries)]

Line(inside, entries, region, day) ==
  LET here == {r \in inside : RegionOf(r[2]) = region /\ r[1].day = day}
      across == {e \in entries : e.region = region /\ e.key.day = day}
      of(t) == {r \in here : r[2].type = t}
      bsp == Total(of("BSP"))
      dtx == Total(of("DTX"))
      flow == FlowOf(across)
  IN  [region |-> region, day |-> day, bsp |-> bsp, dtx |-> dtx, internal |-> bsp - dtx,
       bspMeters |-> HowMany({r[2] : r \in of("BSP")}),
       dtxMeters |-> HowMany({r[2] : r \in of("DTX")}),
       in |-> flow.in, out |-> flow.out, net |-> flow.in - flow.out,
       boundaryMeters |-> HowMany({e.key : e \in across}),
       connected |-> [c \in {e.connected : e \in across} |-> FlowOf({e \in across : e.connected = c})],
       total |-> bsp - dtx + flow.in - flow.out]

\* FULL OUTER JOIN of the halves, filtered by region as a whole.
FinalRegions(q, keys) == {k \in keys : Passes(LowerAll(q.regions), k[1])}

Lines(q) ==
  LET inside == Internal(q)
      entries == FlowEntries(q)
      keys == {<<RegionOf(r[2]), r[1].day>> : r \in inside} \cup {<<e.region, e.key.day>> : e \in entries}
  IN  {Line(inside, entries, k[1], k[2]) : k \in FinalRegions(q, keys)}

\* What the answer says of its lines.
BalanceOf(lines) ==
  [data |-> lines, regions |-> Cardinality({l.region : l \in lines}), days |-> Cardinality(lines),
   bsp |-> SumOf("bsp", lines), dtx |-> SumOf("dtx", lines), internal |-> SumOf("internal", lines),
   net |-> SumOf("net", lines), total |-> SumOf("total", lines)]

GetRegionalEnergyBalance(q) ==
  IF ArgumentsMisplaced(q) \/ KeyMissing(q) THEN Failed ELSE BalanceOf(Lines(q))

\* The lines added up by region.
RegionSums(lines, region) ==
  [region |-> region, days |-> Cardinality(lines),
   bsp |-> SumOf("bsp", lines), dtx |-> SumOf("dtx", lines), internal |-> SumOf("internal", lines),
   net |-> SumOf("net", lines), total |-> SumOf("total", lines)]

SummaryOf(balance) ==
  IF balance = Failed THEN Failed
  ELSE {RegionSums({l \in balance.data : l.region = region}, region) :
          region \in {l.region : l \in balance.data}}

GetRegionalEnergyBalanceSummary(q) == SummaryOf(GetRegionalEnergyBalance(q))

==============================================================================
