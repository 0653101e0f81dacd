--------------------------- MODULE MeterReportsProofs ---------------------------
(***************************************************************************)
(* Proofs about internal/meters: what the tables always are, that the      *)
(* reports of consumption, of status and health, of the map and of the     *)
(* balance agree with each other, and that retiring a meter takes it out   *)
(* of the lists of the administration and changes no report, for every     *)
(* registry, every feed and every set of parameters; and about the list of *)
(* the emails that may edit the tables (requireNotifyEmail).               *)
(***************************************************************************)
EXTENDS MeterReports, FunctionTheorems, FiniteSetTheorems, TLAPS

-----------------------------------------------------------------------------
(* The inductive invariant.  The reports look the ends of a feeder up by   *)
(* id, so the foreign keys belong to it; that a row is never removed, only *)
(* marked, is why they hold.                                               *)

IsTable(t) == t \in Seq({t[i] : i \in DOMAIN t})

FeederOK(f) ==
  /\ DOMAIN f = FeederColumns \cup {"deleted"}
  /\ {f.sending, f.receiving} \subseteq DOMAIN meters

TablesInv ==
  /\ TypeOK
  /\ IsTable(meters) /\ IsTable(feeders)
  /\ \A id \in DOMAIN feeders : FeederOK(feeders[id])
  /\ IsFiniteSet(daily)

-----------------------------------------------------------------------------
(* Tables: a row added, a row replaced.                                    *)

LEMMA TableRows ==
  ASSUME NEW t, IsTable(t)
  PROVE  Len(t) \in Nat /\ DOMAIN t = 1 .. Len(t)
BY DEF IsTable

LEMMA Tables ==
  ASSUME NEW S, NEW s \in Seq(S)
  PROVE  IsTable(s)
<1> DEFINE R == {s[i] : i \in DOMAIN s}
<1>1. Len(s) \in Nat /\ s \in [1 .. Len(s) -> S]
  OBVIOUS
<1>2. s \in [1 .. Len(s) -> R]
  BY <1>1
<1>3. s \in Seq(R)
  BY <1>1, <1>2
<1> QED
  BY <1>3 DEF IsTable

LEMMA AppendTable ==
  ASSUME NEW t, IsTable(t), NEW x
  PROVE  /\ IsTable(Append(t, x))
         /\ DOMAIN Append(t, x) = 1 .. Len(t) + 1
         /\ Append(t, x)[Len(t) + 1] = x
         /\ \A i \in DOMAIN t : Append(t, x)[i] = t[i]
<1> DEFINE S == {t[i] : i \in DOMAIN t} \cup {x}
<1>1. Len(t) \in Nat /\ DOMAIN t = 1 .. Len(t) /\ t \in [1 .. Len(t) -> S]
  BY TableRows DEF IsTable
<1>2. t \in Seq(S)
  BY <1>1
<1> HIDE DEF S
<1>3. /\ Append(t, x) \in Seq(S)
      /\ Len(Append(t, x)) = Len(t) + 1
      /\ Append(t, x)[Len(t) + 1] = x
      /\ \A i \in 1 .. Len(t) : Append(t, x)[i] = t[i]
  BY <1>1, <1>2, x \in S DEF S
<1>4. DOMAIN Append(t, x) = 1 .. Len(t) + 1
  BY <1>3
<1> QED
  BY <1>1, <1>3, <1>4, Tables

LEMMA ExceptTable ==
  ASSUME NEW t, IsTable(t), NEW id \in DOMAIN t, NEW x
  PROVE  /\ IsTable([t EXCEPT ![id] = x])
         /\ DOMAIN [t EXCEPT ![id] = x] = DOMAIN t
         /\ [t EXCEPT ![id] = x][id] = x
         /\ \A i \in DOMAIN t : i # id => [t EXCEPT ![id] = x][i] = t[i]
<1> DEFINE S == {t[i] : i \in DOMAIN t} \cup {x}
           u == [t EXCEPT ![id] = x]
<1>1. Len(t) \in Nat /\ DOMAIN t = 1 .. Len(t) /\ t \in [1 .. Len(t) -> S]
  BY TableRows DEF IsTable
<1>2. u \in [1 .. Len(t) -> S]
  BY <1>1
<1>3. u \in Seq(S)
  BY <1>1, <1>2
<1> QED
  BY <1>1, <1>3, Tables

-----------------------------------------------------------------------------
(* Rows: what is submitted, what is retired.                               *)

MeterOK(m, id) ==
  /\ m.id = id /\ m.deleted \in BOOLEAN /\ ValidMeter(m)
  /\ DOMAIN m = DOMAIN NoMeter \cup {"deleted"}

PairOK(f, id) == f.id = id /\ f.deleted \in BOOLEAN /\ ValidFeeder(f) /\ FeederOK(f)

LEMMA TablesByRow ==
  TablesInv <=> /\ \A id \in DOMAIN meters : MeterOK(meters[id], id)
                /\ \A id \in DOMAIN feeders : PairOK(feeders[id], id)
                /\ IsTable(meters) /\ IsTable(feeders)
                /\ daily \subseteq InitDaily \cup Readings
                /\ \A d, e \in daily : KeyOf(d) = KeyOf(e) => d = e
                /\ IsFiniteSet(daily)
                /\ edits \in 0 .. MaxEdits
BY DEF TablesInv, TypeOK, MeterOK, PairOK

LEMMA Submitted ==
  ASSUME NEW id
  PROVE  /\ \A in \in MeterInputs : ValidMeter(in) => MeterOK([in EXCEPT !.id = id], id)
         /\ \A in \in FeederInputs :
              ValidFeeder(in) /\ Referenced(in) => PairOK([in EXCEPT !.id = id], id)
<1>1. ASSUME NEW in \in MeterInputs, ValidMeter(in)
      PROVE  MeterOK([in EXCEPT !.id = id], id)
  <2>1. DOMAIN in = DOMAIN NoMeter \cup {"deleted"} /\ in.deleted = FALSE
    BY RowsAssumption, TablesAssumption
  <2>2. {"id", "number", "type", "deleted"} \subseteq DOMAIN in
    BY <2>1 DEF NoMeter
  <2> QED
    BY <1>1, <2>1, <2>2 DEF MeterOK, ValidMeter
<1>2. ASSUME NEW in \in FeederInputs, ValidFeeder(in), Referenced(in)
      PROVE  PairOK([in EXCEPT !.id = id], id)
  <2>1. DOMAIN in = FeederColumns \cup {"deleted"} /\ in.deleted = FALSE
    BY RowsAssumption, TablesAssumption
  <2> QED
    BY <1>2, <2>1 DEF PairOK, FeederOK, ValidFeeder, Referenced, FeederColumns
<1> QED
  BY <1>1, <1>2

LEMMA Retired ==
  ASSUME NEW id
  PROVE  /\ \A m : MeterOK(m, id) => MeterOK([m EXCEPT !.deleted = TRUE], id)
         /\ \A f : PairOK(f, id) => PairOK([f EXCEPT !.deleted = TRUE], id)
<1>1. ASSUME NEW m, MeterOK(m, id)
      PROVE  MeterOK([m EXCEPT !.deleted = TRUE], id)
  BY <1>1 DEF MeterOK, ValidMeter, NoMeter
<1>2. ASSUME NEW f, PairOK(f, id)
      PROVE  PairOK([f EXCEPT !.deleted = TRUE], id)
  BY <1>2 DEF PairOK, FeederOK, ValidFeeder, FeederColumns
<1> QED
  BY <1>1, <1>2

-----------------------------------------------------------------------------
(* Every step keeps the tables.                                            *)

\* The registry of meters, changed without an id getting lost.
LEMMA MetersChange ==
  ASSUME TablesInv, Edit, UNCHANGED <<feeders, daily>>,
         IsTable(meters'), DOMAIN meters \subseteq DOMAIN meters',
         \A id \in DOMAIN meters' : MeterOK(meters'[id], id)
  PROVE  TablesInv'
<1>1. \A id \in DOMAIN feeders' : PairOK(feeders[id], id)'
  BY TablesByRow DEF PairOK, FeederOK
<1>2. \A id \in DOMAIN meters' : MeterOK(meters[id], id)'
  BY DEF MeterOK
<1>3. edits' \in 0 .. MaxEdits
  BY TablesByRow, TablesAssumption DEF Edit
<1>4. /\ IsTable(meters)' /\ IsTable(feeders)'
      /\ daily' \subseteq InitDaily \cup Readings
      /\ \A d, e \in daily' : KeyOf(d) = KeyOf(e) => d = e
      /\ IsFiniteSet(daily')
  BY TablesByRow DEF IsTable
<1> QED
  BY <1>1, <1>2, <1>3, <1>4 DEF TablesInv, TypeOK, MeterOK, PairOK, KeyOf

LEMMA FeedersChange ==
  ASSUME TablesInv, Edit, UNCHANGED <<meters, daily>>,
         IsTable(feeders'), \A id \in DOMAIN feeders' : PairOK(feeders'[id], id)
  PROVE  TablesInv'
<1>1. \A id \in DOMAIN feeders' : PairOK(feeders[id], id)'
  BY DEF PairOK, FeederOK
<1>2. \A id \in DOMAIN meters' : MeterOK(meters[id], id)'
  BY TablesByRow DEF MeterOK
<1>3. edits' \in 0 .. MaxEdits
  BY TablesByRow, TablesAssumption DEF Edit
<1>4. /\ IsTable(meters)' /\ IsTable(feeders)'
      /\ daily' \subseteq InitDaily \cup Readings
      /\ \A d, e \in daily' : KeyOf(d) = KeyOf(e) => d = e
      /\ IsFiniteSet(daily')
  BY TablesByRow DEF IsTable
<1> QED
  BY <1>1, <1>2, <1>3, <1>4 DEF TablesInv, TypeOK, MeterOK, PairOK, KeyOf

LEMMA SameRegistry ==
  ASSUME TablesInv, UNCHANGED <<meters, feeders, edits>>, IsFiniteSet(daily'),
         daily' \subseteq InitDaily \cup Readings,
         \A d, e \in daily' : KeyOf(d) = KeyOf(e) => d = e
  PROVE  TablesInv'
<1>1. \A id \in DOMAIN meters' : MeterOK(meters[id], id)'
  BY TablesByRow DEF MeterOK
<1>2. \A id \in DOMAIN feeders' : PairOK(feeders[id], id)'
  BY TablesByRow DEF PairOK, FeederOK
<1>3. IsTable(meters)' /\ IsTable(feeders)' /\ edits' \in 0 .. MaxEdits
  BY TablesByRow DEF IsTable
<1> QED
  BY <1>1, <1>2, <1>3 DEF TablesInv, TypeOK, MeterOK, PairOK, KeyOf

LEMMA AddedRow ==
  ASSUME NEW t, IsTable(t), NEW in
  PROVE  /\ IsTable(Added(t, in))
         /\ DOMAIN t \subseteq DOMAIN Added(t, in)
         /\ \A id \in DOMAIN Added(t, in) :
              \/ id \in DOMAIN t /\ Added(t, in)[id] = t[id]
              \/ id = Len(t) + 1 /\ Added(t, in)[id] = [in EXCEPT !.id = id]
<1> DEFINE x == [in EXCEPT !.id = Len(t) + 1]
<1>1. Added(t, in) = Append(t, x)
  BY DEF Added
<1> HIDE DEF x
<1>2. Len(t) \in Nat /\ DOMAIN t = 1 .. Len(t)
  BY TableRows
<1>3. /\ IsTable(Append(t, x))
      /\ DOMAIN Append(t, x) = 1 .. Len(t) + 1
      /\ Append(t, x)[Len(t) + 1] = x
      /\ \A i \in DOMAIN t : Append(t, x)[i] = t[i]
  BY AppendTable
<1> QED
  BY <1>1, <1>2, <1>3 DEF x

LEMMA InitTables == Init => TablesInv
<1> SUFFICES ASSUME Init PROVE TablesInv
  OBVIOUS
<1>1. IsTable(meters) /\ IsTable(feeders)
  BY RowsAssumption DEF Init, IsTable
<1>2. \A id \in DOMAIN meters : MeterOK(meters[id], id)
  BY RowsAssumption, TablesAssumption DEF Init, MeterOK
<1>3. \A id \in DOMAIN feeders : PairOK(feeders[id], id)
  BY RowsAssumption, TablesAssumption DEF Init, PairOK, FeederOK
<1>4. /\ daily \subseteq InitDaily \cup Readings /\ IsFiniteSet(daily)
      /\ \A d, e \in daily : KeyOf(d) = KeyOf(e) => d = e
      /\ edits \in 0 .. MaxEdits
  BY TablesAssumption DEF Init
<1> QED
  BY <1>1, <1>2, <1>3, <1>4, TablesByRow

LEMMA NextTables == TablesInv /\ [Next]_vars => TablesInv'
<1> SUFFICES ASSUME TablesInv, [Next]_vars PROVE TablesInv'
  OBVIOUS
<1> USE TablesByRow
<1>1. ASSUME NEW in \in MeterInputs, CreateMeter(in)
      PROVE  TablesInv'
  <2>1. \A id : MeterOK([in EXCEPT !.id = id], id)
    BY <1>1, Submitted DEF CreateMeter
  <2>2. /\ IsTable(meters') /\ DOMAIN meters \subseteq DOMAIN meters'
        /\ \A id \in DOMAIN meters' : \/ id \in DOMAIN meters /\ meters'[id] = meters[id]
                                     \/ meters'[id] = [in EXCEPT !.id = id]
    BY <1>1, AddedRow DEF CreateMeter
  <2>3. \A id \in DOMAIN meters' : MeterOK(meters'[id], id)
    BY <2>1, <2>2
  <2> QED
    BY <1>1, <2>2, <2>3, MetersChange DEF CreateMeter
<1>2. ASSUME NEW in \in MeterInputs, NEW id \in DOMAIN meters, UpdateMeter(id, in)
      PROVE  TablesInv'
  <2> DEFINE x == [in EXCEPT !.id = id]
  <2>1. MeterOK(x, id)
    BY <1>2, Submitted DEF UpdateMeter
  <2>2. meters' = [meters EXCEPT ![id] = x]
    BY <1>2 DEF UpdateMeter
  <2> HIDE DEF x
  <2>3. IsTable(meters') /\ DOMAIN meters' = DOMAIN meters
    BY <2>2, ExceptTable
  <2>4. \A i \in DOMAIN meters' : MeterOK(meters'[i], i)
    BY <2>1, <2>2, <2>3
  <2> QED
    BY <1>2, <2>3, <2>4, MetersChange DEF UpdateMeter
<1>3. ASSUME NEW id \in DOMAIN meters, SoftDeleteMeter(id)
      PROVE  TablesInv'
  <2> DEFINE x == [meters[id] EXCEPT !.deleted = TRUE]
  <2>1. MeterOK(x, id)
    BY Retired
  <2>2. meters' = [meters EXCEPT ![id] = x]
    BY <1>3 DEF SoftDeleteMeter
  <2> HIDE DEF x
  <2>3. IsTable(meters') /\ DOMAIN meters' = DOMAIN meters
    BY <2>2, ExceptTable
  <2>4. \A i \in DOMAIN meters' : MeterOK(meters'[i], i)
    BY <2>1, <2>2, <2>3
  <2> QED
    BY <1>3, <2>3, <2>4, MetersChange DEF SoftDeleteMeter
<1>4. ASSUME NEW in \in FeederInputs, CreateExpressFeeder(in)
      PROVE  TablesInv'
  <2>1. \A id : PairOK([in EXCEPT !.id = id], id)
    BY <1>4, Submitted DEF CreateExpressFeeder
  <2>2. /\ IsTable(feeders')
        /\ \A id \in DOMAIN feeders' : \/ id \in DOMAIN feeders /\ feeders'[id] = feeders[id]
                                      \/ feeders'[id] = [in EXCEPT !.id = id]
    BY <1>4, AddedRow DEF CreateExpressFeeder
  <2>3. \A id \in DOMAIN feeders' : PairOK(feeders'[id], id)
    BY <2>1, <2>2
  <2> QED
    BY <1>4, <2>2, <2>3, FeedersChange DEF CreateExpressFeeder
<1>5. ASSUME NEW in \in FeederInputs, NEW id \in DOMAIN feeders, UpdateExpressFeeder(id, in)
      PROVE  TablesInv'
  <2> DEFINE x == [in EXCEPT !.id = id]
  <2>1. PairOK(x, id)
    BY <1>5, Submitted DEF UpdateExpressFeeder
  <2>2. feeders' = [feeders EXCEPT ![id] = x]
    BY <1>5 DEF UpdateExpressFeeder
  <2> HIDE DEF x
  <2>3. IsTable(feeders') /\ DOMAIN feeders' = DOMAIN feeders
    BY <2>2, ExceptTable
  <2>4. \A i \in DOMAIN feeders' : PairOK(feeders'[i], i)
    BY <2>1, <2>2, <2>3
  <2> QED
    BY <1>5, <2>3, <2>4, FeedersChange DEF UpdateExpressFeeder
<1>6. ASSUME NEW id \in DOMAIN feeders, SoftDeleteExpressFeeder(id)
      PROVE  TablesInv'
  <2> DEFINE x == [feeders[id] EXCEPT !.deleted = TRUE]
  <2>1. PairOK(x, id)
    BY Retired
  <2>2. feeders' = [feeders EXCEPT ![id] = x]
    BY <1>6 DEF SoftDeleteExpressFeeder
  <2> HIDE DEF x
  <2>3. IsTable(feeders') /\ DOMAIN feeders' = DOMAIN feeders
    BY <2>2, ExceptTable
  <2>4. \A i \in DOMAIN feeders' : PairOK(feeders'[i], i)
    BY <2>1, <2>2, <2>3
  <2> QED
    BY <1>6, <2>3, <2>4, FeedersChange DEF SoftDeleteExpressFeeder
<1>7. ASSUME NEW r \in Readings, Load(r)
      PROVE  TablesInv'
  <2> DEFINE kept == {d \in daily : KeyOf(d) # KeyOf(r)}
  <2>1. daily' = kept \cup {r} /\ UNCHANGED <<meters, feeders, edits>>
    BY <1>7 DEF Load
  <2>2. IsFiniteSet(daily')
    BY <2>1, FS_Subset, FS_AddElement
  <2>3. \A d, e \in daily' : KeyOf(d) = KeyOf(e) => d = e
    BY <2>1
  <2>4. daily' \subseteq InitDaily \cup Readings
    BY <2>1
  <2> QED
    BY <2>1, <2>2, <2>3, <2>4, SameRegistry
<1>8. CASE UNCHANGED vars
  BY <1>8, SameRegistry DEF vars
<1> QED
  BY <1>1, <1>2, <1>3, <1>4, <1>5, <1>6, <1>7, <1>8
  DEF Next, PostMeter, PutMeter, DeleteMeter, PostExpressFeeder, PutExpressFeeder, DeleteExpressFeeder

LEMMA TablesStay == Spec => []TablesInv
BY InitTables, NextTables, PTL DEF Spec

\* The rows of the three tables keep their columns and ids, a reading its key.
THEOREM TablesTyped == Spec => []TypeOK
<1>1. TablesInv => TypeOK
  BY DEF TablesInv
<1> QED
  BY <1>1, TablesStay, PTL

KeysHold ==
  \A id \in DOMAIN feeders : {feeders[id].sending, feeders[id].receiving} \subseteq DOMAIN meters

\* The ends of an express feeder, retired or not, are always rows of app.meters
\* (CreateExpressFeeder, UpdateExpressFeeder; SoftDeleteMeter only marks the
\* row), so that no report looks an end up in vain.
THEOREM EndsAreMeters == Spec => []KeysHold
<1>1. TablesInv => KeysHold
  BY DEF TablesInv, FeederOK, KeysHold
<1> QED
  BY <1>1, TablesStay, PTL

-----------------------------------------------------------------------------
(* Counting.                                                               *)

LEMMA ImageCount ==
  ASSUME NEW S, IsFiniteSet(S), NEW T, NEW f \in [S -> T], \A y \in T : \E x \in S : f[x] = y
  PROVE  IsFiniteSet(T) /\ Cardinality(T) <= Cardinality(S)
BY FS_Surjection, SMTT(30) DEF Surjection

LEMMA NumbersCount ==
  ASSUME NEW rows, IsFiniteSet(rows)
  PROVE  /\ IsFiniteSet(Numbers(rows)) /\ HowMany(rows) \in Nat /\ Cardinality(rows) \in Nat
         /\ HowMany(rows) <= Cardinality(rows)
<1> DEFINE f == [m \in rows |-> m.number]
<1>1. f \in [rows -> Numbers(rows)] /\ \A y \in Numbers(rows) : \E x \in rows : f[x] = y
  BY DEF Numbers
<1>2. IsFiniteSet(Numbers(rows)) /\ Cardinality(Numbers(rows)) <= Cardinality(rows)
  BY <1>1, ImageCount
<1> QED
  BY <1>2, FS_CardinalityType DEF HowMany

LEMMA NumbersGrow ==
  ASSUME NEW rows, IsFiniteSet(rows), NEW some \in SUBSET rows
  PROVE  IsFiniteSet(some) /\ HowMany(some) \in Nat /\ HowMany(some) <= HowMany(rows)
<1>1. IsFiniteSet(some)
  BY FS_Subset
<1>2. Numbers(some) \subseteq Numbers(rows)
  BY DEF Numbers
<1> QED
  BY <1>1, <1>2, NumbersCount, FS_Subset DEF HowMany

\* Two parts of some rows that have no number in common.
LEMMA NumbersAddUp ==
  ASSUME NEW rows, IsFiniteSet(rows), NEW A, NEW B, rows = A \cup B,
         \A a \in A, b \in B : a.number # b.number
  PROVE  HowMany(A) + HowMany(B) = HowMany(rows)
<1>1. /\ Numbers(rows) = Numbers(A) \cup Numbers(B) /\ Numbers(A) \cap Numbers(B) = {}
  BY DEF Numbers
<1>2. IsFiniteSet(A) /\ IsFiniteSet(B)
  BY FS_Subset
<1>3. IsFiniteSet(Numbers(A)) /\ IsFiniteSet(Numbers(B))
  BY <1>2, NumbersCount
<1>4. Cardinality(Numbers(A)) \in Nat /\ Cardinality(Numbers(B)) \in Nat
  BY <1>3, FS_CardinalityType
<1>5. Cardinality(Numbers(A) \cup Numbers(B)) = Cardinality(Numbers(A)) + Cardinality(Numbers(B)) - 0
  BY <1>1, <1>3, FS_Union, FS_EmptySet
<1>6. Cardinality(Numbers(rows)) = Cardinality(Numbers(A)) + Cardinality(Numbers(B))
  <2>1. Cardinality(Numbers(rows)) = Cardinality(Numbers(A) \cup Numbers(B))
    BY <1>1
  <2> QED
    BY <2>1, <1>4, <1>5
<1> QED
  BY <1>6 DEF HowMany

LEMMA RowsAddUp ==
  ASSUME NEW rows, IsFiniteSet(rows), NEW A, NEW B, rows = A \cup B, A \cap B = {}
  PROVE  /\ Cardinality(A) \in Nat /\ Cardinality(B) \in Nat
         /\ Cardinality(A) + Cardinality(B) = Cardinality(rows)
<1>1. IsFiniteSet(A) /\ IsFiniteSet(B)
  BY FS_Subset
<1>2. Cardinality(A) \in Nat /\ Cardinality(B) \in Nat
  BY <1>1, FS_CardinalityType
<1>3. Cardinality(rows) = Cardinality(A) + Cardinality(B) - 0
  BY <1>1, FS_Union, FS_EmptySet
<1> QED
  BY <1>2, <1>3

-----------------------------------------------------------------------------
(* What is read of a meter depends on its number only.                     *)

LEMMA SameNumber ==
  ASSUME NEW q, NEW a, NEW b, a.number = b.number
  PROVE  /\ Recorded(q, a) = Recorded(q, b) /\ Answered(q, a) = Answered(q, b)
         /\ ImportDays(q, a) = ImportDays(q, b) /\ Category(q, a) = Category(q, b)
<1>1. Recorded(q, a) = Recorded(q, b)
  BY DEF Recorded
<1>2. Answered(q, a) = Answered(q, b) /\ ImportDays(q, a) = ImportDays(q, b)
  BY <1>1 DEF Answered, ImportDays
<1> QED
  BY <1>1, <1>2 DEF Category, UpPercent

LEMMA RowsFinite ==
  ASSUME TablesInv, NEW q
  PROVE  IsFiniteSet(MeterRows) /\ IsFiniteSet(StatusRows(q)) /\ StatusRows(q) \subseteq MeterRows
<1>1. Len(meters) \in Nat /\ DOMAIN meters = 1 .. Len(meters)
  BY TableRows DEF TablesInv
<1>2. IsFiniteSet(DOMAIN meters)
  BY <1>1, FS_Interval
<1> DEFINE f == [id \in DOMAIN meters |-> meters[id]]
<1>3. f \in [DOMAIN meters -> MeterRows] /\ \A m \in MeterRows : \E id \in DOMAIN meters : f[id] = m
  BY DEF MeterRows
<1>4. IsFiniteSet(MeterRows)
  BY <1>2, <1>3, ImageCount
<1>5. StatusRows(q) \subseteq MeterRows
  BY DEF StatusRows
<1> QED
  BY <1>4, <1>5, FS_Subset

LEMMA DaysCount ==
  ASSUME TablesInv, NEW some \in SUBSET daily
  PROVE  DaysOf(some) \in Nat
<1> DEFINE f == [d \in some |-> d.day]
           days == {d.day : d \in some}
<1>1. IsFiniteSet(some)
  BY FS_Subset DEF TablesInv
<1>2. f \in [some -> days] /\ \A y \in days : \E x \in some : f[x] = y
  OBVIOUS
<1>3. IsFiniteSet(days)
  BY <1>1, <1>2, ImageCount, ZenonT(60)
<1> QED
  BY <1>3, FS_CardinalityType DEF DaysOf

-----------------------------------------------------------------------------
(* The cards and the counts.                                               *)

LEMMA SummaryIs ==
  ASSUME NEW q, HandleGetMeterStatusSummary(q).status = 200
  PROVE  LET summary == HandleGetMeterStatusSummary(q).body IN
         /\ summary.total = HowMany(StatusRows(q))
         /\ summary.online = HowMany(Online(q, StatusRows(q)))
         /\ summary.noData = HowMany(NoAnswer(q, StatusRows(q)))
         /\ summary.noRecord = HowMany(NoRecord(q, StatusRows(q)))
         /\ Parsed(q) /\ q.from <= q.to
<1>1. /\ HandleGetMeterStatusSummary(q).body = GetMeterStatusSummary(q)
      /\ Parsed(q) /\ q.from <= q.to
  BY DEF HandleGetMeterStatusSummary, Ranged, Answer, BadRequest
<1> QED
  BY <1>1 DEF GetMeterStatusSummary

LEMMA RangeIs ==
  ASSUME NEW q \in Queries, Parsed(q), q.from <= q.to
  PROVE  q.from \in Int /\ q.to \in Int /\ DaysInRange(q) \in Nat \ {0}
BY HandlersAssumption DEF Parsed, DaysInRange

LEMMA CardsAddUp ==
  ASSUME TablesInv, NEW q
  PROVE  LET rows == StatusRows(q) IN
         /\ HowMany(Online(q, rows)) + HowMany(NoAnswer(q, rows)) + HowMany(NoRecord(q, rows)) = HowMany(rows)
         /\ HowMany(rows \ Online(q, rows)) = HowMany(NoAnswer(q, rows)) + HowMany(NoRecord(q, rows))
         /\ {HowMany(rows), HowMany(Online(q, rows)), HowMany(NoAnswer(q, rows)),
             HowMany(NoRecord(q, rows))} \subseteq Nat
<1> DEFINE rows == StatusRows(q)
           on == Online(q, rows)
           silent == NoAnswer(q, rows)
           none == NoRecord(q, rows)
<1>1. IsFiniteSet(rows)
  BY RowsFinite
<1>2. \A m : Answered(q, m) \subseteq Recorded(q, m)
  BY DEF Answered
<1>3. /\ rows = on \cup (rows \ on) /\ rows \ on = silent \cup none
      /\ \A a \in on, b \in rows \ on : a.number # b.number
      /\ \A a \in silent, b \in none : a.number # b.number
  BY <1>2, SameNumber DEF Online, NoAnswer, NoRecord
<1>4. {on, silent, none, rows \ on} \subseteq SUBSET rows
  BY DEF Online, NoAnswer, NoRecord
<1> HIDE DEF rows, on, silent, none
<1>5. HowMany(on) + HowMany(rows \ on) = HowMany(rows)
  BY <1>1, <1>3, NumbersAddUp
<1>6. HowMany(silent) + HowMany(none) = HowMany(rows \ on)
  BY <1>1, <1>3, <1>4, FS_Subset, NumbersAddUp
<1>7. {HowMany(rows), HowMany(on), HowMany(silent), HowMany(none)} \subseteq Nat
  BY <1>1, <1>4, NumbersGrow, NumbersCount
<1> QED
  BY <1>5, <1>6, <1>7 DEF rows, on, silent, none

LEMMA CountsAddUp ==
  ASSUME TablesInv, NEW q
  PROVE  LET counts == GetMeterStatusCounts(q) IN
         /\ counts.online + counts.noData + counts.noRecord = counts.total
         /\ HowMany(NoRecord(q, StatusRows(q))) <= counts.noRecord
<1> DEFINE rows == StatusRows(q)
           on == {m \in rows : \E d \in Recorded(q, m) : d.item = Import}
           none == NoRecord(q, rows)
<1>1. IsFiniteSet(rows)
  BY RowsFinite
<1>2. on \subseteq rows /\ none \subseteq rows /\ on \cap none = {}
  BY DEF NoRecord
<1>3. GetMeterStatusCounts(q) =
        [online |-> Cardinality(on), noRecord |-> Cardinality(none),
         noData |-> Cardinality(rows \ (on \cup none)), total |-> Cardinality(rows)]
  BY DEF GetMeterStatusCounts
<1> HIDE DEF rows, on, none
<1>4. IsFiniteSet(on \cup none) /\ IsFiniteSet(none)
  BY <1>1, <1>2, FS_Subset
<1>5. /\ Cardinality(on) \in Nat /\ Cardinality(none) \in Nat
      /\ Cardinality(on) + Cardinality(none) = Cardinality(on \cup none)
  BY <1>2, <1>4, RowsAddUp
<1>6. /\ Cardinality(rows \ (on \cup none)) \in Nat
      /\ Cardinality(on \cup none) + Cardinality(rows \ (on \cup none)) = Cardinality(rows)
  BY <1>1, <1>2, RowsAddUp
<1>7. HowMany(none) <= Cardinality(none)
  BY <1>4, NumbersCount
<1> QED
  BY <1>3, <1>5, <1>6, <1>7 DEF rows, none

-----------------------------------------------------------------------------
(* Health.                                                                 *)

LEMMA ClassesAddUp ==
  ASSUME TablesInv, NEW q, DaysInRange(q) \in Nat \ {0},
         NEW some, IsFiniteSet(some)
  PROVE  Classes(HealthCounts(q, some)) /\ HealthCounts(q, some).total = HowMany(some)
<1> DEFINE well == Healthy(q, some)
           warned == Warning(q, some)
           ill == Critical(q, some)
<1>1. \A m : ImportDays(q, m) \in Nat
  <2> SUFFICES ASSUME NEW m PROVE ImportDays(q, m) \in Nat
    OBVIOUS
  <2>1. {d \in Recorded(q, m) : d.item = Import} \subseteq daily
    BY DEF Recorded
  <2> QED
    BY <2>1, DaysCount DEF ImportDays
<1>2. \A m : AtLeast(q, m, 85) => AtLeast(q, m, 60)
  BY <1>1 DEF AtLeast
<1>3. /\ some = well \cup (warned \cup ill)
      /\ \A a \in well, b \in warned \cup ill : a.number # b.number
      /\ \A a \in warned, b \in ill : a.number # b.number
  <2>1. some = well \cup (warned \cup ill)
    BY DEF Healthy, Warning, Critical
  <2>2. \A a, b : a.number = b.number =>
          /\ Recorded(q, a) = Recorded(q, b)
          /\ AtLeast(q, a, 85) <=> AtLeast(q, b, 85)
          /\ AtLeast(q, a, 60) <=> AtLeast(q, b, 60)
    BY SameNumber DEF AtLeast
  <2> QED
    BY <1>2, <2>1, <2>2 DEF Healthy, Warning, Critical
<1> HIDE DEF well, warned, ill
<1>4. IsFiniteSet(warned \cup ill)
  BY <1>3, FS_Subset
<1>5. HowMany(well) + HowMany(warned \cup ill) = HowMany(some)
  BY <1>3, NumbersAddUp
<1>6. HowMany(warned) + HowMany(ill) = HowMany(warned \cup ill)
  BY <1>3, <1>4, NumbersAddUp
<1>7. HowMany(well) \in Nat /\ HowMany(warned) \in Nat /\ HowMany(ill) \in Nat
  BY <1>3, NumbersGrow
<1> QED
  BY <1>5, <1>6, <1>7 DEF Classes, HealthCounts, well, warned, ill

LEMMA MetricsAgree ==
  ASSUME TablesInv, NEW q \in Queries, Parsed(q), q.from <= q.to
  PROVE  LET health == GetMeterHealthMetrics(q) IN
         /\ Classes(health.overall) /\ health.overall.total = HowMany(StatusRows(q))
         /\ \A t \in DOMAIN health.byType : Classes(health.byType[t])
         /\ health.silent30 <= health.silent7
         /\ health.uptime.meters + Cardinality(NoRecord(q, StatusRows(q))) = Cardinality(StatusRows(q))
<1> DEFINE rows == StatusRows(q)
           health == GetMeterHealthMetrics(q)
           known == {m \in rows : Recorded(q, m) # {}}
<1>1. q.from \in Int /\ q.to \in Int /\ DaysInRange(q) \in Nat \ {0}
  BY RangeIs
<1>2. IsFiniteSet(rows)
  BY RowsFinite
<1>3. /\ health.overall = HealthCounts(q, rows)
      /\ health.byType = [t \in TypesOf(rows) |-> HealthCounts(q, OfType(rows, t))]
      /\ health.silent7 = HowMany(SilentFor(q, rows, 7))
      /\ health.silent30 = HowMany(SilentFor(q, rows, 30))
      /\ health.uptime.meters = Cardinality(known)
  BY DEF GetMeterHealthMetrics, MeanUptime
<1>4. SilentFor(q, rows, 30) \subseteq SilentFor(q, rows, 7) /\ SilentFor(q, rows, 7) \subseteq rows
  <2>1. \A m : \A d \in Recorded(q, m) : d.day \in Int
    BY TablesAssumption DEF Recorded, TablesInv, TypeOK
  <2> QED
    BY <1>1, <2>1 DEF SilentFor
<1>5. /\ rows = known \cup NoRecord(q, rows) /\ known \cap NoRecord(q, rows) = {}
  BY DEF NoRecord
<1>6. \A t : IsFiniteSet(OfType(rows, t))
  BY <1>2, FS_Subset DEF OfType
<1> HIDE DEF rows, health, known
<1>7. HowMany(SilentFor(q, rows, 30)) <= HowMany(SilentFor(q, rows, 7))
  BY <1>2, <1>4, FS_Subset, NumbersGrow
<1>8. Cardinality(known) + Cardinality(NoRecord(q, rows)) = Cardinality(rows)
  BY <1>2, <1>5, RowsAddUp
<1>9. Classes(health.overall) /\ health.overall.total = HowMany(rows)
  BY <1>1, <1>2, <1>3, ClassesAddUp
<1>10. \A t \in DOMAIN health.byType : Classes(health.byType[t])
  BY <1>1, <1>3, <1>6, ClassesAddUp
<1> QED
  BY <1>3, <1>7, <1>8, <1>9, <1>10 DEF rows, health

LEMMA SummaryAgrees ==
  ASSUME TablesInv, NEW q
  PROVE  LET health == GetMeterHealthSummary(q)
             rows == StatusRows(q)
         IN
         /\ health.total = HowMany(rows) /\ health.online = HowMany(Online(q, rows))
         /\ health.offline = HowMany(NoAnswer(q, rows)) + HowMany(NoRecord(q, rows))
         /\ health.distribution.excellent + health.distribution.good + health.distribution.poor
              + health.distribution.critical + HowMany(NoRecord(q, rows)) = health.total
         /\ \A t \in DOMAIN health.byType :
              health.byType[t].online + health.byType[t].offline = health.byType[t].total
<1> DEFINE rows == StatusRows(q)
           health == GetMeterHealthSummary(q)
           of(c) == {m \in rows : Category(q, m) = c}
           none == NoRecord(q, rows)
<1>1. IsFiniteSet(rows)
  BY RowsFinite
<1>2. /\ health.total = HowMany(rows)
      /\ health.online = HowMany(Online(q, rows))
      /\ health.offline = HowMany(rows \ Online(q, rows))
      /\ health.distribution = [c \in {"excellent", "good", "poor", "critical"} |-> HowMany(of(c))]
      /\ health.byType = [t \in TypesOf(rows) |->
           [total |-> HowMany(OfType(rows, t)),
            offline |-> HowMany(OfType(rows, t) \ Online(q, OfType(rows, t))),
            online |-> HowMany(Online(q, OfType(rows, t)))]]
  BY DEF GetMeterHealthSummary
<1>3. \A m : /\ Category(q, m) \in {"excellent", "good", "poor", "critical", "offline"}
             /\ Category(q, m) = "offline" <=> Recorded(q, m) = {}
  BY DEF Category
<1>4. /\ \A a, b : a.number = b.number => Category(q, a) = Category(q, b)
      /\ none = of("offline")
      /\ rows = of("excellent") \cup (of("good") \cup (of("poor") \cup (of("critical") \cup none)))
  BY <1>3, SameNumber DEF NoRecord
<1>5. ASSUME NEW t
      PROVE  /\ HowMany(Online(q, OfType(rows, t))) + HowMany(OfType(rows, t) \ Online(q, OfType(rows, t)))
                  = HowMany(OfType(rows, t))
  <2> DEFINE some == OfType(rows, t)
             on == Online(q, some)
  <2>1. IsFiniteSet(some)
    BY <1>1, FS_Subset DEF OfType
  <2>2. some = on \cup (some \ on) /\ \A a \in on, b \in some \ on : a.number # b.number
    BY SameNumber DEF Online
  <2> HIDE DEF some, on
  <2>3. HowMany(on) + HowMany(some \ on) = HowMany(some)
    BY <2>1, <2>2, NumbersAddUp
  <2> QED
    BY <2>3 DEF some, on
<1>6. HowMany(of("excellent")) + HowMany(of("good")) + HowMany(of("poor")) + HowMany(of("critical"))
        + HowMany(none) = HowMany(rows)
  <2> DEFINE A == of("excellent")
             B == of("good")
             C == of("poor")
             D == of("critical")
  <2>1. /\ \A a \in A, b \in B \cup (C \cup (D \cup none)) : a.number # b.number
        /\ \A a \in B, b \in C \cup (D \cup none) : a.number # b.number
        /\ \A a \in C, b \in D \cup none : a.number # b.number
        /\ \A a \in D, b \in none : a.number # b.number
    BY <1>4
  <2>2. rows = A \cup (B \cup (C \cup (D \cup none)))
    BY <1>4
  <2> HIDE DEF A, B, C, D, none, rows
  <2>3. /\ IsFiniteSet(B \cup (C \cup (D \cup none))) /\ IsFiniteSet(C \cup (D \cup none))
        /\ IsFiniteSet(D \cup none)
    BY <1>1, <2>2, FS_Subset
  <2>4. /\ HowMany(A) + HowMany(B \cup (C \cup (D \cup none))) = HowMany(rows)
        /\ HowMany(B) + HowMany(C \cup (D \cup none)) = HowMany(B \cup (C \cup (D \cup none)))
        /\ HowMany(C) + HowMany(D \cup none) = HowMany(C \cup (D \cup none))
        /\ HowMany(D) + HowMany(none) = HowMany(D \cup none)
    <3>1. HowMany(A) + HowMany(B \cup (C \cup (D \cup none))) = HowMany(rows)
      BY <1>1, <2>1, <2>2, NumbersAddUp
    <3>2. \A S, T : /\ IsFiniteSet(S \cup T)
                    /\ \A a \in S, b \in T : a.number # b.number
                    => HowMany(S) + HowMany(T) = HowMany(S \cup T)
      BY NumbersAddUp
    <3> QED
      BY <2>1, <2>3, <3>1, <3>2
  <2>5. {HowMany(A), HowMany(B), HowMany(C), HowMany(D), HowMany(none)} \subseteq Nat
    BY <1>1, <2>2, NumbersGrow
  <2>6. HowMany(A) + HowMany(B) + HowMany(C) + HowMany(D) + HowMany(none) = HowMany(rows)
    BY <2>4, <2>5
  <2> QED
    BY <2>6 DEF A, B, C, D
<1>7. HowMany(rows \ Online(q, rows)) = HowMany(NoAnswer(q, rows)) + HowMany(NoRecord(q, rows))
  BY CardsAddUp
<1> HIDE DEF rows, health, of, none
<1>8. \A t \in DOMAIN health.byType :
        health.byType[t].online + health.byType[t].offline = health.byType[t].total
  BY <1>2, <1>5
<1>9. /\ health.distribution.excellent = HowMany(of("excellent"))
      /\ health.distribution.good = HowMany(of("good"))
      /\ health.distribution.poor = HowMany(of("poor"))
      /\ health.distribution.critical = HowMany(of("critical"))
  BY <1>2
<1> QED
  BY <1>2, <1>6, <1>7, <1>8, <1>9 DEF rows, health, none

LEMMA HealthReportsAgree ==
  ASSUME TablesInv, NEW q \in Queries, HandleGetMeterStatusSummary(q).status = 200
  PROVE  HealthAgrees(q, HandleGetMeterStatusSummary(q).body)
<1> DEFINE summary == HandleGetMeterStatusSummary(q).body
<1>1. /\ summary.total = HowMany(StatusRows(q))
      /\ summary.online = HowMany(Online(q, StatusRows(q)))
      /\ summary.noData = HowMany(NoAnswer(q, StatusRows(q)))
      /\ summary.noRecord = HowMany(NoRecord(q, StatusRows(q)))
      /\ Parsed(q) /\ q.from <= q.to
  BY SummaryIs
<1>2. HandleGetMeterHealthMetrics(q).status = 200 =>
        HandleGetMeterHealthMetrics(q).body = GetMeterHealthMetrics(q)
  BY DEF HandleGetMeterHealthMetrics, Ranged, Answer, BadRequest
<1>3. HandleGetMeterHealthSummary(q).status = 200 =>
        HandleGetMeterHealthSummary(q).body = GetMeterHealthSummary(q)
  BY DEF HandleGetMeterHealthSummary, Ranged, Answer, BadRequest
<1> HIDE DEF summary
<1> QED
  BY <1>1, <1>2, <1>3, MetricsAgree, SummaryAgrees DEF HealthAgrees, Given, summary

-----------------------------------------------------------------------------
(* The pages of details.                                                   *)

\* What a report that cannot be computed leaves is no report: no constant of a
\* configuration is a record.
FailedIsNoPage == \A rows, n : Failed # [list |-> rows, total |-> n]

\* A line of a page, and the meters a status is asked of.
StatusLine(q, m) ==
  [profile |-> Profile(m),
   status |-> IF Answered(q, m) # {} THEN "ONLINE"
              ELSE IF Recorded(q, m) # {} THEN "OFFLINE - No Data" ELSE "OFFLINE - No Record",
   up |-> DaysOf(Answered(q, m)),
   down |-> DaysInRange(q) - DaysOf(Answered(q, m))]

StatusAsked(q, status) ==
  IF status = "ONLINE" THEN Online(q, StatusRows(q))
  ELSE IF status = "OFFLINE" THEN StatusRows(q) \ Online(q, StatusRows(q)) ELSE StatusRows(q)

StatusPage(q, status) ==
  [list |-> {StatusLine(q, m) : m \in StatusAsked(q, status)}, total |-> Cardinality(StatusRows(q))]

LEMMA StatusDetailsAre ==
  ASSUME NEW q \in Queries, Parsed(q), q.from <= q.to, NEW status \in {Blank, "ONLINE", "OFFLINE"}
  PROVE  LET answer == HandleGetMeterStatusDetails(q, status) IN
         /\ q.numbers = {} => answer = Answer(StatusPage(q, status))
         /\ answer.status = 200 => answer.body = StatusPage(q, status)
<1> DEFINE result == GetMeterStatusDetails(q, status)
<1>1. HandleGetMeterStatusDetails(q, status) = Answer(result)
  BY DEF HandleGetMeterStatusDetails, Ranged
<1>2. DaysInRange(q) # 0
  BY RangeIs
<1>3. StatusAsked(q, status) =
        CASE status = "ONLINE" -> Online(q, StatusRows(q))
          [] status = "OFFLINE" -> StatusRows(q) \ Online(q, StatusRows(q))
          [] OTHER -> StatusRows(q)
  BY DEF StatusAsked
<1>4. result = IF q.numbers # {} THEN Failed ELSE StatusPage(q, status)
  BY <1>2, <1>3 DEF GetMeterStatusDetails, StatusPage, StatusLine, DetailsTotal
<1> HIDE DEF result
<1> QED
  BY <1>1, <1>4 DEF Answer

LEMMA StatusPagesAgree ==
  ASSUME TablesInv, FailedIsNoPage, NEW q \in Queries, Parsed(q), q.from <= q.to
  PROVE  LET all == HandleGetMeterStatusDetails(q, Blank) IN
         /\ all.status = 500 => q.numbers # {}
         /\ all.status = 200 =>
              /\ Cardinality(all.body.list) <= all.body.total
              /\ HowMany(StatusRows(q)) <= all.body.total
              /\ \A status \in {"ONLINE", "OFFLINE"} :
                   HandleGetMeterStatusDetails(q, status).status = 200 =>
                     HandleGetMeterStatusDetails(q, status).body.list =
                       {l \in all.body.list : (l.status = "ONLINE") <=> (status = "ONLINE")}
<1> DEFINE all == HandleGetMeterStatusDetails(q, Blank)
           rows == StatusRows(q)
           lines == {StatusLine(q, m) : m \in rows}
           f == [m \in rows |-> StatusLine(q, m)]
<1>1. IsFiniteSet(rows)
  BY RowsFinite
<1>2. Cardinality(lines) <= Cardinality(rows)
  <2>1. f \in [rows -> lines] /\ \A y \in lines : \E x \in rows : f[x] = y
    OBVIOUS
  <2> QED
    BY <1>1, <2>1, ImageCount
<1>3. HowMany(rows) <= Cardinality(rows)
  BY <1>1, NumbersCount
<1>4. StatusPage(q, Blank) = [list |-> lines, total |-> Cardinality(rows)]
  BY HandlersAssumption DEF StatusPage, StatusAsked
<1>5. /\ q.numbers = {} => all = Answer(StatusPage(q, Blank))
      /\ all.status = 200 => all.body = StatusPage(q, Blank)
  BY StatusDetailsAre
<1>6. all.status = 500 => q.numbers # {}
  BY <1>4, <1>5 DEF Answer, FailedIsNoPage
<1>7. ASSUME NEW status \in {"ONLINE", "OFFLINE"},
             HandleGetMeterStatusDetails(q, status).status = 200
      PROVE  HandleGetMeterStatusDetails(q, status).body.list =
               {l \in lines : (l.status = "ONLINE") <=> (status = "ONLINE")}
  <2>1. HandleGetMeterStatusDetails(q, status).body = StatusPage(q, status)
    BY <1>7, StatusDetailsAre
  <2>2. HandleGetMeterStatusDetails(q, status).body.list =
          {StatusLine(q, m) : m \in StatusAsked(q, status)}
    BY <2>1 DEF StatusPage
  <2>3. \A m : StatusLine(q, m).status = "ONLINE" <=> Answered(q, m) # {}
    BY DEF StatusLine
  <2>4. StatusAsked(q, status) = {m \in rows : (Answered(q, m) # {}) <=> (status = "ONLINE")}
    BY DEF StatusAsked, Online
  <2> QED
    BY <2>2, <2>3, <2>4
<1> HIDE DEF all, rows, lines, f
<1> QED
  BY <1>2, <1>3, <1>4, <1>5, <1>6, <1>7 DEF all, rows

HealthAsked(q, category) ==
  {m \in StatusRows(q) : category = Blank \/ Category(q, m) = category}

LEMMA HealthPagesAgree ==
  ASSUME TablesInv, NEW q,
         \A c \in {Blank, "excellent", "good", "poor", "critical", "offline"} :
           HandleGetMeterHealthDetails(q, c).status = 200
  PROVE  LET of(category) == HandleGetMeterHealthDetails(q, category).body.total IN
         of(Blank) = of("excellent") + of("good") + of("poor") + of("critical") + of("offline")
<1> DEFINE rows == StatusRows(q)
           A == HealthAsked(q, "excellent")
           B == HealthAsked(q, "good")
           C == HealthAsked(q, "poor")
           D == HealthAsked(q, "critical")
           E == HealthAsked(q, "offline")
<1>1. ASSUME NEW c \in {Blank, "excellent", "good", "poor", "critical", "offline"}
      PROVE  HandleGetMeterHealthDetails(q, c).body.total = Cardinality(HealthAsked(q, c))
  <2>1. HandleGetMeterHealthDetails(q, c).body = GetMeterHealthDetails(q, c)
    BY <1>1 DEF HandleGetMeterHealthDetails, Ranged, Answer, BadRequest
  <2> QED
    BY <2>1 DEF GetMeterHealthDetails, HealthAsked
<1>2. IsFiniteSet(rows)
  BY RowsFinite
<1>3. \A m : Category(q, m) \in {"excellent", "good", "poor", "critical", "offline"}
  BY DEF Category
<1>4. HealthAsked(q, Blank) = rows
  BY DEF HealthAsked
<1>5. \A c \in {"excellent", "good", "poor", "critical", "offline"} :
        HealthAsked(q, c) = {m \in rows : Category(q, m) = c}
  BY HandlersAssumption DEF HealthAsked
<1>6. /\ rows = A \cup (B \cup (C \cup (D \cup E)))
      /\ A \cap (B \cup (C \cup (D \cup E))) = {}
      /\ B \cap (C \cup (D \cup E)) = {}
      /\ C \cap (D \cup E) = {}
      /\ D \cap E = {}
  BY <1>3, <1>5
<1> HIDE DEF rows, A, B, C, D, E
<1>7. /\ IsFiniteSet(B \cup (C \cup (D \cup E))) /\ IsFiniteSet(C \cup (D \cup E))
      /\ IsFiniteSet(D \cup E)
  BY <1>2, <1>6, FS_Subset
<1>8. /\ Cardinality(A) + Cardinality(B \cup (C \cup (D \cup E))) = Cardinality(rows)
      /\ Cardinality(A) \in Nat
  BY <1>2, <1>6, RowsAddUp
<1>9. /\ Cardinality(B) + Cardinality(C \cup (D \cup E)) = Cardinality(B \cup (C \cup (D \cup E)))
      /\ Cardinality(B) \in Nat
  BY <1>6, <1>7, RowsAddUp
<1>10. /\ Cardinality(C) + Cardinality(D \cup E) = Cardinality(C \cup (D \cup E))
       /\ Cardinality(C) \in Nat
  BY <1>6, <1>7, RowsAddUp
<1>11. /\ Cardinality(D) + Cardinality(E) = Cardinality(D \cup E)
       /\ Cardinality(D) \in Nat /\ Cardinality(E) \in Nat
  BY <1>6, <1>7, RowsAddUp
<1>12. Cardinality(rows) =
         Cardinality(A) + Cardinality(B) + Cardinality(C) + Cardinality(D) + Cardinality(E)
  BY <1>8, <1>9, <1>10, <1>11
<1> QED
  BY <1>1, <1>4, <1>12 DEF A, B, C, D, E

LEMMA DetailPagesAgree ==
  ASSUME TablesInv, FailedIsNoPage, NEW q \in Queries, HandleGetMeterStatusSummary(q).status = 200
  PROVE  DetailsAgree(q, HandleGetMeterStatusSummary(q).body)
<1> DEFINE summary == HandleGetMeterStatusSummary(q).body
<1>1. summary.total = HowMany(StatusRows(q)) /\ Parsed(q) /\ q.from <= q.to
  BY SummaryIs
<1> HIDE DEF summary
<1> QED
  BY <1>1, StatusPagesAgree, HealthPagesAgree DEF DetailsAgree, Given, summary

-----------------------------------------------------------------------------
(* The timeline and the list.                                              *)

LEMMA TimelineAgrees ==
  ASSUME TablesInv, NEW q \in Queries, Parsed(q), q.from = q.to, q.from <= q.to, q.numbers = {}
  PROVE  LET lines == GetMeterStatusTimeline(q) IN
         /\ lines[q.from].online = HowMany(Online(q, StatusRows(q)))
         /\ lines[q.from].total = HowMany(StatusRows(q))
<1> DEFINE numbers == Numbers({m \in MeterRows : PlaceFilters(q, m) /\ TypeFilter(q, m)
                                                   /\ Passes(q.numbers, m.number)})
           on == {n \in numbers : \E d \in daily : d.number = n /\ d.day = q.from /\ d.item # NoData}
<1>1. q.from \in q.from .. q.to
  BY RangeIs
<1>2. /\ GetMeterStatusTimeline(q)[q.from].online = Cardinality(on)
      /\ GetMeterStatusTimeline(q)[q.from].total = Cardinality(numbers)
  BY <1>1 DEF GetMeterStatusTimeline
<1>3. numbers = Numbers(StatusRows(q))
  BY DEF StatusRows, Passes
<1>4. \A d \in daily : InDates(q, d) <=> d.day = q.from
  BY RangeIs, TablesAssumption DEF InDates, TablesInv, TypeOK
<1>5. \A m : Answered(q, m) # {} <=>
              \E d \in daily : d.number = m.number /\ d.day = q.from /\ d.item # NoData
  BY <1>4 DEF Answered, Recorded
<1>6. \A m \in StatusRows(q) : m.number \in on <=> Answered(q, m) # {}
  BY <1>3, <1>5 DEF Numbers
<1>7. on \subseteq {m.number : m \in StatusRows(q)}
  BY <1>3 DEF Numbers
<1>8. on = Numbers(Online(q, StatusRows(q)))
  <2> HIDE DEF on
  <2> QED
    BY <1>6, <1>7 DEF Numbers, Online
<1> QED
  BY <1>2, <1>3, <1>8 DEF HowMany

LEMMA ListAgrees ==
  ASSUME TablesInv, NEW q
  PROVE  HowMany(Online(q, StatusRows(q))) = HowMany({l \in GetMeterStatus(q) : l.status = "ONLINE"})
<1> DEFINE rows == StatusRows(q)
           line(m, d) == [id |-> m.id, number |-> m.number, reading |-> d,
                          status |-> IF d = NoReading THEN "OFFLINE - No Record"
                                     ELSE IF d.item = NoData THEN "OFFLINE - No Data" ELSE "ONLINE"]
<1>1. GetMeterStatus(q) = UNION {{line(m, d) : d \in ReadingsOf(q, m)} : m \in rows}
  BY DEF GetMeterStatus
<1>2. NoReading \notin daily
  BY TablesAssumption DEF NoReading, TablesInv, TypeOK
<1>3. \A m : \A d \in ReadingsOf(q, m) : line(m, d).status = "ONLINE" <=> d \in Answered(q, m)
  BY <1>2 DEF ReadingsOf, Answered, Recorded
<1>4. \A m : Answered(q, m) \subseteq ReadingsOf(q, m)
  BY DEF ReadingsOf, Answered, Recorded
<1>5. \A m, d : line(m, d).number = m.number
  OBVIOUS
<1> HIDE DEF line
<1>6. \A n : n \in Numbers({l \in GetMeterStatus(q) : l.status = "ONLINE"})
               <=> \E m \in rows : m.number = n /\ Answered(q, m) # {}
  BY <1>1, <1>3, <1>4, <1>5 DEF Numbers
<1>7. Numbers({l \in GetMeterStatus(q) : l.status = "ONLINE"}) = Numbers(Online(q, rows))
  BY <1>6 DEF Numbers, Online
<1> QED
  BY <1>7 DEF HowMany

\* The cards, the timeline, the health reports and the pages of details
\* (GetMeterStatusSummary, GetMeterStatusTimeline, GetMeterHealthMetrics,
\* GetMeterHealthSummary, GetMeterStatusDetails, GetMeterHealthDetails, behind
\* their handlers) count the same meters, for any registry, with numbers that
\* are registered twice and meters that are retired, any readings and any
\* parameters.
THEOREM StatusReportsAgree ==
  ASSUME FailedIsNoPage
  PROVE  Spec => []StatusAgrees
<1>1. TablesInv => StatusAgrees
  <2> SUFFICES ASSUME TablesInv, NEW q \in Queries, HandleGetMeterStatusSummary(q).status = 200
               PROVE  LET summary == HandleGetMeterStatusSummary(q).body IN
      /\ summary.online + summary.noData + summary.noRecord = summary.total
      /\ HealthAgrees(q, summary)
      /\ DetailsAgree(q, summary)
      /\ q.from = q.to /\ q.numbers = {} =>
           Given(HandleGetMeterStatusTimeline(q), LAMBDA lines :
             lines[q.from].online = summary.online /\ lines[q.from].total = summary.total)
      /\ Given(HandleGetMeterStatusCounts(q), LAMBDA counts :
           /\ counts.online + counts.noData + counts.noRecord = counts.total
           /\ summary.noRecord <= counts.noRecord)
      /\ Given(HandleGetMeterStatus(q), LAMBDA list :
           summary.online = HowMany({l \in list : l.status = "ONLINE"}))
    BY DEF StatusAgrees, Given
  <2> DEFINE summary == HandleGetMeterStatusSummary(q).body
  <2>1. /\ summary.total = HowMany(StatusRows(q))
        /\ summary.online = HowMany(Online(q, StatusRows(q)))
        /\ summary.noData = HowMany(NoAnswer(q, StatusRows(q)))
        /\ summary.noRecord = HowMany(NoRecord(q, StatusRows(q)))
        /\ Parsed(q) /\ q.from <= q.to
    BY SummaryIs
  <2>2. HealthAgrees(q, summary) /\ DetailsAgree(q, summary)
    BY HealthReportsAgree, DetailPagesAgree
  <2>3. HandleGetMeterStatusTimeline(q).status = 200 =>
          HandleGetMeterStatusTimeline(q).body = GetMeterStatusTimeline(q)
    BY DEF HandleGetMeterStatusTimeline, Ranged, Answer, BadRequest
  <2>4. HandleGetMeterStatusCounts(q).status = 200 =>
          HandleGetMeterStatusCounts(q).body = GetMeterStatusCounts(q)
    BY DEF HandleGetMeterStatusCounts, Dated, Answer, BadRequest
  <2>5. HandleGetMeterStatus(q).status = 200 => HandleGetMeterStatus(q).body = GetMeterStatus(q)
    BY DEF HandleGetMeterStatus, Dated, Answer, BadRequest
  <2> HIDE DEF summary
  <2>6. summary.online + summary.noData + summary.noRecord = summary.total
    <3>1. HowMany(Online(q, StatusRows(q))) + HowMany(NoAnswer(q, StatusRows(q)))
            + HowMany(NoRecord(q, StatusRows(q))) = HowMany(StatusRows(q))
      BY CardsAddUp
    <3> QED
      BY <2>1, <3>1
  <2>7. q.from = q.to /\ q.numbers = {} =>
          Given(HandleGetMeterStatusTimeline(q), LAMBDA lines :
            lines[q.from].online = summary.online /\ lines[q.from].total = summary.total)
    BY <2>1, <2>3, TimelineAgrees DEF Given
  <2>8. Given(HandleGetMeterStatusCounts(q), LAMBDA counts :
          /\ counts.online + counts.noData + counts.noRecord = counts.total
          /\ summary.noRecord <= counts.noRecord)
    BY <2>1, <2>4, CountsAddUp DEF Given
  <2>9. Given(HandleGetMeterStatus(q), LAMBDA list :
          summary.online = HowMany({l \in list : l.status = "ONLINE"}))
    BY <2>1, <2>5, ListAgrees DEF Given
  <2> QED
    BY <2>2, <2>6, <2>7, <2>8, <2>9 DEF summary
<1> QED
  BY <1>1, TablesStay, PTL

-----------------------------------------------------------------------------
(* Sums of a function over a finite set.  The fold that MapThenSumSet is   *)
(* is a recursive definition; that it has its solution, and what it adds   *)
(* up to, is shown by the smallest subset a fact fails of.                 *)

Sum(f, S) == SumFunctionOnSet(f, S)

\* Induction on the size of a set, with the set of the subsets a fact holds of in
\* place of an operator.
LEMMA LeastNumber ==
  ASSUME NEW T \in SUBSET Nat, T # {}
  PROVE  \E n \in T : \A m \in T : n <= m
<1>1. PICK n \in T : \A m \in T : ~ (<<m, n>> \in OpToRel(<, Nat))
  BY NatLessThanWellFounded, WFMin
<1>2. ASSUME NEW m \in T PROVE n <= m
  <2>1. m \in Nat /\ n \in Nat
    OBVIOUS
  <2>2. m < n => <<m, n>> \in OpToRel(<, Nat)
    BY <2>1 DEF OpToRel
  <2>3. ~(m < n)
    BY <1>1, <2>2
  <2> QED
    BY <2>1, <2>3
<1> QED
  BY <1>2

LEMMA Smallest ==
  ASSUME NEW S, IsFiniteSet(S), NEW B \in SUBSET (SUBSET S), B # {}
  PROVE  \E T \in B : \A U \in SUBSET T : U # T => U \notin B
<1> DEFINE sizes == {Cardinality(T) : T \in B}
<1>1. \A T \in B : IsFiniteSet(T) /\ Cardinality(T) \in Nat
  BY FS_Subset, FS_CardinalityType
<1>2. sizes \in SUBSET Nat /\ sizes # {}
  BY <1>1
<1>3. PICK n \in sizes : \A m \in sizes : n <= m
  <2> HIDE DEF sizes
  <2> QED
    BY <1>2, LeastNumber
<1>4. PICK T \in B : Cardinality(T) = n
  BY <1>3
<1>5. ASSUME NEW U \in SUBSET T, U # T, U \in B PROVE FALSE
  <2>1. n <= Cardinality(U)
    BY <1>3, <1>5
  <2>2. Cardinality(U) <= Cardinality(T) /\ Cardinality(U) # Cardinality(T)
    BY <1>1, <1>5, FS_Subset
  <2>3. Cardinality(U) \in Nat /\ Cardinality(T) \in Nat
    BY <1>1, <1>5
  <2> QED
    BY <1>4, <2>1, <2>2, <2>3
<1> QED
  BY <1>5

\* The value of the fold is its recursive definition's, which has one solution on
\* the subsets of a finite set.
Folds(g, f, D) ==
  g = [s \in D |-> IF s = {} THEN 0
                   ELSE f[CHOOSE x \in s : TRUE] + g[s \ {CHOOSE x \in s : TRUE}]]

LEMMA SumIs ==
  ASSUME NEW f, NEW S
  PROVE  Sum(f, S) = (CHOOSE iter : Folds(iter, f, SUBSET S))[S]
BY DEF Sum, SumFunctionOnSet, FoldFunctionOnSet, MapThenFoldSet, Folds

\* The subsets of at most n elements.
UpTo(S, n) == {s \in SUBSET S : Cardinality(s) <= n}

LEMMA SmallerFold ==
  ASSUME NEW S, IsFiniteSet(S), NEW n \in Nat, NEW s \in UpTo(S, n), s # {}
  PROVE  /\ (CHOOSE x \in s : TRUE) \in s
         /\ s \ {CHOOSE x \in s : TRUE} \in UpTo(S, n)
         /\ n # 0 /\ s \ {CHOOSE x \in s : TRUE} \in UpTo(S, n - 1)
<1> DEFINE x == CHOOSE x \in s : TRUE
<1>1. x \in s
  OBVIOUS
<1>2. IsFiniteSet(s) /\ Cardinality(s) \in Nat /\ Cardinality(s) <= n
  BY FS_Subset, FS_CardinalityType DEF UpTo
<1>3. IsFiniteSet(s \ {x}) /\ Cardinality(s \ {x}) = Cardinality(s) - 1
  BY <1>1, <1>2, FS_RemoveElement
<1>4. Cardinality(s \ {x}) \in Nat
  BY <1>3, FS_CardinalityType
<1>5. s \ {x} \in SUBSET S
  BY DEF UpTo
<1> HIDE DEF x
<1>6. /\ x \in s /\ s \ {x} \in UpTo(S, n) /\ n # 0 /\ s \ {x} \in UpTo(S, n - 1)
  BY <1>1, <1>2, <1>3, <1>4, <1>5 DEF UpTo
<1> QED
  BY <1>6 DEF x

LEMMA FoldUpTo ==
  ASSUME NEW S, IsFiniteSet(S), NEW f, NEW n \in Nat
  PROVE  \E g : Folds(g, f, UpTo(S, n))
<1> DEFINE bad == {m \in Nat : ~ \E g : Folds(g, f, UpTo(S, m))}
<1> SUFFICES ASSUME bad # {} PROVE FALSE
  OBVIOUS
<1>1. PICK m \in bad : \A k \in bad : m <= k
  <2>1. bad \in SUBSET Nat
    OBVIOUS
  <2> HIDE DEF bad
  <2> QED
    BY <2>1, LeastNumber
<1>2. CASE m = 0
  <2> DEFINE g == [s \in UpTo(S, 0) |-> 0]
  <2>1. \A s \in UpTo(S, 0) : s = {}
    BY SmallerFold
  <2>2. g = [s \in UpTo(S, 0) |-> IF s = {} THEN 0
                   ELSE f[CHOOSE x \in s : TRUE] + g[s \ {CHOOSE x \in s : TRUE}]]
    BY <2>1
  <2>3. Folds(g, f, UpTo(S, 0))
    BY <2>2 DEF Folds
  <2> QED
    BY <1>2, <2>3
<1>3. CASE m # 0
  <2>1. m - 1 \in Nat /\ ~(m <= m - 1)
    BY <1>3
  <2>2. PICK g : Folds(g, f, UpTo(S, m - 1))
    BY <1>1, <2>1
  <2> DEFINE rest(s) == s \ {CHOOSE x \in s : TRUE}
             h == [s \in UpTo(S, m) |-> IF s = {} THEN 0 ELSE f[CHOOSE x \in s : TRUE] + g[rest(s)]]
  <2>3. ASSUME NEW s \in UpTo(S, m - 1) PROVE s \in UpTo(S, m) /\ h[s] = g[s]
    <3>1. s \in UpTo(S, m)
      <4>1. s \in SUBSET S /\ Cardinality(s) <= m - 1
        BY DEF UpTo
      <4>2. Cardinality(s) \in Nat
        BY <4>1, FS_Subset, FS_CardinalityType
      <4> QED
        BY <4>1, <4>2 DEF UpTo
    <3>2. g[s] = IF s = {} THEN 0 ELSE f[CHOOSE x \in s : TRUE] + g[rest(s)]
      BY <2>2 DEF Folds
    <3> QED
      BY <3>1, <3>2
  <2>4. ASSUME NEW s \in UpTo(S, m), s # {} PROVE h[rest(s)] = g[rest(s)]
    <3>1. rest(s) \in UpTo(S, m - 1)
      BY <2>4, SmallerFold
    <3> HIDE DEF rest, h
    <3> QED
      BY <3>1, <2>3
  <2>5. h = [s \in UpTo(S, m) |-> IF s = {} THEN 0 ELSE f[CHOOSE x \in s : TRUE] + h[rest(s)]]
    <3> DEFINE k == [s \in UpTo(S, m) |-> IF s = {} THEN 0 ELSE f[CHOOSE x \in s : TRUE] + h[rest(s)]]
    <3>1. ASSUME NEW s \in UpTo(S, m) PROVE h[s] = k[s]
      <4>1. h[s] = IF s = {} THEN 0 ELSE f[CHOOSE x \in s : TRUE] + g[rest(s)]
        OBVIOUS
      <4>2. k[s] = IF s = {} THEN 0 ELSE f[CHOOSE x \in s : TRUE] + h[rest(s)]
        OBVIOUS
      <4> HIDE DEF h, k, rest
      <4> QED
        BY <4>1, <4>2, <2>4
    <3>2. h = [s \in UpTo(S, m) |-> h[s]] /\ k = [s \in UpTo(S, m) |-> k[s]]
      OBVIOUS
    <3> HIDE DEF h, k
    <3>3. h = k
      BY <3>1, <3>2
    <3> QED
      BY <3>3 DEF k
  <2>6. Folds(h, f, UpTo(S, m))
    BY <2>5 DEF Folds
  <2> QED
    BY <1>1, <2>6
<1> QED
  BY <1>2, <1>3

LEMMA FoldExists ==
  ASSUME NEW S, IsFiniteSet(S), NEW f
  PROVE  \E g : Folds(g, f, SUBSET S)
<1>1. Cardinality(S) \in Nat
  BY FS_CardinalityType
<1>2. UpTo(S, Cardinality(S)) = SUBSET S
  BY FS_Subset DEF UpTo
<1>3. \E g : Folds(g, f, UpTo(S, Cardinality(S)))
  BY <1>1, FoldUpTo
<1> QED
  BY <1>2, <1>3

\* Two solutions agree where both are defined.
LEMMA OneFold ==
  ASSUME NEW S, IsFiniteSet(S), NEW f, NEW g, Folds(g, f, SUBSET S),
         NEW T \in SUBSET S, NEW h, Folds(h, f, SUBSET T)
  PROVE  \A s \in SUBSET T : g[s] = h[s]
<1> DEFINE B == {s \in SUBSET T : g[s] # h[s]}
<1> SUFFICES ASSUME B # {} PROVE FALSE
  OBVIOUS
<1>1. PICK s \in B : \A u \in SUBSET s : u # s => u \notin B
  <2>1. IsFiniteSet(T) /\ B \in SUBSET (SUBSET T)
    BY FS_Subset
  <2> HIDE DEF B
  <2> QED
    BY <2>1, Smallest
<1> DEFINE x == CHOOSE y \in s : TRUE
<1>2. /\ g[s] = IF s = {} THEN 0 ELSE f[x] + g[s \ {x}]
      /\ h[s] = IF s = {} THEN 0 ELSE f[x] + h[s \ {x}]
  BY DEF Folds
<1>3. s # {} /\ x \in s
  BY <1>2
<1> HIDE DEF x
<1>4. g[s \ {x}] = h[s \ {x}]
  BY <1>1, <1>3
<1> QED
  BY <1>2, <1>3, <1>4

SumsOf(g, f, S) == Folds(g, f, SUBSET S) /\ \A T \in SUBSET S : Sum(f, T) = g[T]

LEMMA SumFolds ==
  ASSUME NEW S, IsFiniteSet(S), NEW f
  PROVE  \E g : SumsOf(g, f, S)
<1>1. PICK g : Folds(g, f, SUBSET S)
  BY FoldExists
<1>2. ASSUME NEW T \in SUBSET S PROVE Sum(f, T) = g[T]
  <2> DEFINE h == CHOOSE iter : Folds(iter, f, SUBSET T)
  <2>1. IsFiniteSet(T)
    BY FS_Subset
  <2>2. Folds(h, f, SUBSET T)
    <3>1. \E iter : Folds(iter, f, SUBSET T)
      BY <2>1, FoldExists
    <3> QED
      BY <3>1
  <2>3. Sum(f, T) = h[T]
    BY SumIs
  <2> HIDE DEF h
  <2> QED
    BY <1>1, <2>2, <2>3, OneFold
<1> QED
  BY <1>1, <1>2 DEF SumsOf

\* What a sum is: nothing for no element, and for a set one element and the rest.
LEMMA SumStep ==
  ASSUME NEW S, IsFiniteSet(S), NEW f
  PROVE  /\ Sum(f, {}) = 0
         /\ \A T \in SUBSET S : T # {} =>
              \E x \in T : Sum(f, T) = f[x] + Sum(f, T \ {x})
<1>1. PICK g : SumsOf(g, f, S)
  BY SumFolds
<1>2. Sum(f, {}) = 0
  BY <1>1 DEF SumsOf, Folds
<1>3. ASSUME NEW T \in SUBSET S, T # {}
      PROVE  \E x \in T : Sum(f, T) = f[x] + Sum(f, T \ {x})
  <2> DEFINE x == CHOOSE y \in T : TRUE
  <2>1. x \in T
    BY <1>3
  <2>2. g[T] = f[x] + g[T \ {x}]
    BY <1>1, <1>3 DEF SumsOf, Folds
  <2> HIDE DEF x
  <2> QED
    BY <1>1, <2>1, <2>2 DEF SumsOf
<1> QED
  BY <1>2, <1>3

LEMMA SumInt ==
  ASSUME NEW S, IsFiniteSet(S), NEW f, \A x \in S : f[x] \in Int
  PROVE  Sum(f, S) \in Int
<1> DEFINE B == {T \in SUBSET S : Sum(f, T) \notin Int}
<1> SUFFICES ASSUME B # {} PROVE FALSE
  OBVIOUS
<1>1. PICK T \in B : \A U \in SUBSET T : U # T => U \notin B
  <2>1. B \in SUBSET (SUBSET S)
    OBVIOUS
  <2> HIDE DEF B
  <2> QED
    BY <2>1, Smallest
<1>2. T # {}
  <2>1. Sum(f, {}) = 0
    BY SumStep
  <2> QED
    BY <2>1
<1>3. PICK y \in T : Sum(f, T) = f[y] + Sum(f, T \ {y})
  BY <1>2, SumStep
<1>4. Sum(f, T \ {y}) \in Int
  BY <1>1
<1> QED
  BY <1>3, <1>4

\* Any element will do.
LEMMA SumTake ==
  ASSUME NEW S, IsFiniteSet(S), NEW f, \A x \in S : f[x] \in Int, NEW x \in S
  PROVE  Sum(f, S) = f[x] + Sum(f, S \ {x})
<1> DEFINE B == {T \in SUBSET S : \E z \in T : Sum(f, T) # f[z] + Sum(f, T \ {z})}
<1> SUFFICES ASSUME B # {} PROVE FALSE
  OBVIOUS
<1>1. PICK T \in B : \A U \in SUBSET T : U # T => U \notin B
  <2>1. B \in SUBSET (SUBSET S)
    OBVIOUS
  <2> HIDE DEF B
  <2> QED
    BY <2>1, Smallest
<1>2. PICK z \in T : Sum(f, T) # f[z] + Sum(f, T \ {z})
  OBVIOUS
<1>3. PICK y \in T : Sum(f, T) = f[y] + Sum(f, T \ {y})
  BY <1>2, SumStep
<1>4. y # z
  BY <1>2, <1>3
<1>5. Sum(f, T \ {y}) = f[z] + Sum(f, (T \ {y}) \ {z})
  <2>1. T \ {y} \notin B /\ z \in T \ {y} /\ T \ {y} \in SUBSET S
    BY <1>1, <1>4
  <2> QED
    BY <2>1
<1>6. Sum(f, T \ {z}) = f[y] + Sum(f, (T \ {z}) \ {y})
  <2>1. T \ {z} \notin B /\ y \in T \ {z} /\ T \ {z} \in SUBSET S
    BY <1>1, <1>4
  <2> QED
    BY <2>1
<1>7. Sum(f, (T \ {y}) \ {z}) = Sum(f, (T \ {z}) \ {y})
  <2>1. (T \ {y}) \ {z} = (T \ {z}) \ {y}
    OBVIOUS
  <2> QED
    BY <2>1
<1>8. Sum(f, (T \ {z}) \ {y}) \in Int /\ f[y] \in Int /\ f[z] \in Int
  <2>1. IsFiniteSet((T \ {z}) \ {y})
    BY FS_Subset
  <2> QED
    BY <2>1, SumInt
<1> HIDE DEF B
<1> QED
  BY <1>2, <1>3, <1>5, <1>6, <1>7, <1>8

LEMMA SumSame ==
  ASSUME NEW S, IsFiniteSet(S), NEW f, \A x \in S : f[x] \in Int, NEW g, \A x \in S : g[x] = f[x]
  PROVE  Sum(g, S) = Sum(f, S)
<1> DEFINE B == {T \in SUBSET S : Sum(g, T) # Sum(f, T)}
<1> SUFFICES ASSUME B # {} PROVE FALSE
  OBVIOUS
<1>1. PICK T \in B : \A U \in SUBSET T : U # T => U \notin B
  <2>1. B \in SUBSET (SUBSET S)
    OBVIOUS
  <2> HIDE DEF B
  <2> QED
    BY <2>1, Smallest
<1>2. Sum(f, {}) = 0 /\ Sum(g, {}) = 0
  BY SumStep
<1>3. PICK x \in T : TRUE
  BY <1>2
<1>4. IsFiniteSet(T)
  BY FS_Subset
<1>5. Sum(f, T) = f[x] + Sum(f, T \ {x})
  BY <1>4, SumTake
<1>6. Sum(g, T) = g[x] + Sum(g, T \ {x})
  BY <1>4, SumTake
<1>7. Sum(g, T \ {x}) = Sum(f, T \ {x})
  BY <1>1
<1> QED
  BY <1>5, <1>6, <1>7

LEMMA SumUnion ==
  ASSUME NEW S, IsFiniteSet(S), NEW f, \A x \in S : f[x] \in Int,
         NEW C \in SUBSET S
  PROVE  Sum(f, S) = Sum(f, C) + Sum(f, S \ C)
<1> DEFINE B == {T \in SUBSET C : Sum(f, (S \ C) \cup T) # Sum(f, S \ C) + Sum(f, T)}
<1> SUFFICES ASSUME B # {} PROVE FALSE
  <2>1. C \notin B /\ (S \ C) \cup C = S
    OBVIOUS
  <2>2. IsFiniteSet(C) /\ IsFiniteSet(S \ C)
    BY FS_Subset
  <2>3. Sum(f, C) \in Int /\ Sum(f, S \ C) \in Int
    BY <2>2, SumInt
  <2>4. Sum(f, (S \ C) \cup C) = Sum(f, S \ C) + Sum(f, C)
    BY <2>1
  <2>5. Sum(f, (S \ C) \cup C) = Sum(f, S)
    BY <2>1
  <2> QED
    BY <2>3, <2>4, <2>5
<1>1. PICK T \in B : \A U \in SUBSET T : U # T => U \notin B
  <2>1. B \in SUBSET (SUBSET C) /\ IsFiniteSet(C)
    BY FS_Subset
  <2> HIDE DEF B
  <2> QED
    BY <2>1, Smallest
<1>2. Sum(f, {}) = 0 /\ Sum(f, S \ C) \in Int
  BY SumStep, SumInt, FS_Subset
<1>3. T # {}
  <2>1. ASSUME T = {} PROVE FALSE
    <3>1. (S \ C) \cup T = S \ C
      BY <2>1
    <3>2. Sum(f, (S \ C) \cup T) = Sum(f, S \ C) /\ Sum(f, T) = 0
      BY <2>1, <3>1, <1>2
    <3> QED
      BY <1>2, <3>2
  <2> QED
    BY <2>1
<1>4. PICK x \in T : TRUE
  BY <1>3
<1> DEFINE U == (S \ C) \cup T
           V == (S \ C) \cup (T \ {x})
<1>5. U \ {x} = V /\ x \in U /\ U \in SUBSET S /\ T \in SUBSET S
  OBVIOUS
<1>6. IsFiniteSet(T) /\ IsFiniteSet(U) /\ IsFiniteSet(T \ {x})
  BY <1>5, FS_Subset
<1>7. Sum(f, T) = f[x] + Sum(f, T \ {x}) /\ Sum(f, T \ {x}) \in Int /\ f[x] \in Int
  BY <1>6, SumTake, SumInt
<1>8. Sum(f, U) = f[x] + Sum(f, V)
  <2>1. \A y \in U : f[y] \in Int
    BY <1>5
  <2> HIDE DEF U, V
  <2> QED
    BY <1>5, <1>6, <2>1, SumTake
<1>9. Sum(f, V) = Sum(f, S \ C) + Sum(f, T \ {x})
  BY <1>1
<1>10. Sum(f, U) # Sum(f, S \ C) + Sum(f, T)
  OBVIOUS
<1> HIDE DEF U, V, B
<1> QED
  BY <1>2, <1>7, <1>8, <1>9, <1>10

LEMMA SumPlus ==
  ASSUME NEW S, IsFiniteSet(S), NEW f, \A x \in S : f[x] \in Int,
         NEW g, \A x \in S : g[x] \in Int, NEW h, \A x \in S : h[x] = f[x] + g[x]
  PROVE  Sum(h, S) = Sum(f, S) + Sum(g, S)
<1> DEFINE B == {T \in SUBSET S : Sum(h, T) # Sum(f, T) + Sum(g, T)}
<1> SUFFICES ASSUME B # {} PROVE FALSE
  OBVIOUS
<1>1. PICK T \in B : \A U \in SUBSET T : U # T => U \notin B
  <2>1. B \in SUBSET (SUBSET S)
    OBVIOUS
  <2> HIDE DEF B
  <2> QED
    BY <2>1, Smallest
<1>2. Sum(f, {}) = 0 /\ Sum(g, {}) = 0 /\ Sum(h, {}) = 0
  BY SumStep
<1>3. PICK x \in T : TRUE
  <2>1. T = {} => T \notin B
    BY <1>2
  <2> QED
    BY <2>1
<1>4. IsFiniteSet(T) /\ IsFiniteSet(T \ {x}) /\ \A y \in T : h[y] \in Int
  BY FS_Subset
<1>5. Sum(f, T) = f[x] + Sum(f, T \ {x}) /\ Sum(f, T \ {x}) \in Int
  BY <1>4, SumTake, SumInt
<1>6. Sum(g, T) = g[x] + Sum(g, T \ {x}) /\ Sum(g, T \ {x}) \in Int
  BY <1>4, SumTake, SumInt
<1>7. Sum(h, T) = h[x] + Sum(h, T \ {x})
  BY <1>4, SumTake
<1>8. Sum(h, T \ {x}) = Sum(f, T \ {x}) + Sum(g, T \ {x})
  BY <1>1
<1> QED
  BY <1>5, <1>6, <1>7, <1>8

LEMMA SumTimes ==
  ASSUME NEW S, IsFiniteSet(S), NEW c \in Int, NEW f, \A x \in S : f[x] \in Int,
         NEW h, \A x \in S : h[x] = f[x] * c
  PROVE  Sum(h, S) = Sum(f, S) * c
<1> DEFINE B == {T \in SUBSET S : Sum(h, T) # Sum(f, T) * c}
<1> SUFFICES ASSUME B # {} PROVE FALSE
  OBVIOUS
<1>1. PICK T \in B : \A U \in SUBSET T : U # T => U \notin B
  <2>1. B \in SUBSET (SUBSET S)
    OBVIOUS
  <2> HIDE DEF B
  <2> QED
    BY <2>1, Smallest
<1>2. Sum(f, {}) = 0 /\ Sum(h, {}) = 0
  BY SumStep
<1>3. PICK x \in T : TRUE
  <2>1. T = {} => T \notin B
    <3>1. 0 = 0 * c
      OBVIOUS
    <3> QED
      BY <1>2, <3>1
  <2> QED
    BY <2>1
<1>4. IsFiniteSet(T) /\ IsFiniteSet(T \ {x}) /\ \A y \in T : h[y] \in Int
  BY FS_Subset
<1>5. Sum(f, T) = f[x] + Sum(f, T \ {x}) /\ Sum(f, T \ {x}) \in Int
  BY <1>4, SumTake, SumInt
<1>6. Sum(h, T) = h[x] + Sum(h, T \ {x})
  BY <1>4, SumTake
<1>7. Sum(h, T \ {x}) = Sum(f, T \ {x}) * c
  BY <1>1
<1>8. (f[x] + Sum(f, T \ {x})) * c = f[x] * c + Sum(f, T \ {x}) * c
  BY <1>5
<1> QED
  BY <1>5, <1>6, <1>7, <1>8

LEMMA SumOnes ==
  ASSUME NEW S, IsFiniteSet(S), NEW f, \A x \in S : f[x] = 1
  PROVE  Sum(f, S) = Cardinality(S)
<1> DEFINE B == {T \in SUBSET S : Sum(f, T) # Cardinality(T)}
<1> SUFFICES ASSUME B # {} PROVE FALSE
  OBVIOUS
<1>1. PICK T \in B : \A U \in SUBSET T : U # T => U \notin B
  <2>1. B \in SUBSET (SUBSET S)
    OBVIOUS
  <2> HIDE DEF B
  <2> QED
    BY <2>1, Smallest
<1>2. Sum(f, {}) = 0 /\ Cardinality({}) = 0
  BY SumStep, FS_EmptySet
<1>3. PICK x \in T : TRUE
  <2>1. T = {} => T \notin B
    BY <1>2
  <2> QED
    BY <2>1
<1>4. IsFiniteSet(T) /\ Cardinality(T) \in Nat
  BY FS_Subset, FS_CardinalityType
<1>5. Sum(f, T) = 1 + Sum(f, T \ {x})
  BY <1>4, SumTake
<1>6. Cardinality(T \ {x}) = Cardinality(T) - 1
  BY <1>3, <1>4, FS_RemoveElement
<1>7. Sum(f, T \ {x}) = Cardinality(T \ {x})
  BY <1>1
<1> QED
  BY <1>4, <1>5, <1>6, <1>7

\* The parts a function cuts a set into: the sum is that of the sums of the parts.
Keys(S, h) == {h[x] : x \in S}
Part(S, h, k) == {x \in S : h[x] = k}

LEMMA SumParts ==
  ASSUME NEW S, IsFiniteSet(S), NEW f, \A x \in S : f[x] \in Int,
         NEW h, NEW K, K = Keys(S, h),
         NEW p, \A k \in K : p[k] = Sum(f, Part(S, h, k))
  PROVE  IsFiniteSet(K) /\ (\A k \in K : p[k] \in Int) /\ Sum(p, K) = Sum(f, S)
<1> DEFINE Of(L) == {x \in S : h[x] \in L}
<1>1. IsFiniteSet(K)
  <2> DEFINE g == [x \in S |-> h[x]]
  <2>1. g \in [S -> K] /\ \A y \in K : \E x \in S : g[x] = y
    BY DEF Keys
  <2> HIDE DEF g
  <2> QED
    BY <2>1, FS_Surjection DEF Surjection
<1>2. \A k \in K : p[k] \in Int
  <2> SUFFICES ASSUME NEW k \in K PROVE Sum(f, Part(S, h, k)) \in Int
    OBVIOUS
  <2>1. Part(S, h, k) \in SUBSET S
    BY DEF Part
  <2>2. IsFiniteSet(Part(S, h, k)) /\ \A x \in Part(S, h, k) : f[x] \in Int
    BY <2>1, FS_Subset
  <2> QED
    BY <2>2, SumInt
<1> DEFINE B == {L \in SUBSET K : Sum(p, L) # Sum(f, Of(L))}
<1>3. B = {}
  <2> SUFFICES ASSUME B # {} PROVE FALSE
    OBVIOUS
  <2>1. PICK L \in B : \A U \in SUBSET L : U # L => U \notin B
    <3>1. B \in SUBSET (SUBSET K)
      OBVIOUS
    <3> HIDE DEF B
    <3> QED
      BY <1>1, <3>1, Smallest
  <2>2. Sum(p, {}) = 0 /\ Sum(f, {}) = 0
    BY SumStep
  <2>3. L # {}
    <3>1. ASSUME L = {} PROVE FALSE
      <4>1. Of(L) = {}
        BY <3>1
      <4>2. Sum(p, L) = 0 /\ Sum(f, Of(L)) = 0
        BY <2>2, <3>1, <4>1
      <4> QED
        BY <4>2
    <3> QED
      BY <3>1
  <2>4. PICK k \in L : TRUE
    BY <2>3
  <2>5. IsFiniteSet(L) /\ IsFiniteSet(Of(L)) /\ k \in K /\ L \in SUBSET K
    <3>1. L \in SUBSET K /\ Of(L) \in SUBSET S
      OBVIOUS
    <3> HIDE DEF Of
    <3> QED
      BY <1>1, <3>1, FS_Subset
  <2>6. Sum(p, L) = p[k] + Sum(p, L \ {k})
    <3>1. \A l \in L : p[l] \in Int
      BY <1>2, <2>5
    <3> QED
      BY <2>4, <2>5, <3>1, SumTake
  <2>7. Sum(p, L \ {k}) = Sum(f, Of(L \ {k}))
    BY <2>1, <2>4, <2>5
  <2>8. Of(L) \ Part(S, h, k) = Of(L \ {k}) /\ Part(S, h, k) \in SUBSET Of(L)
    BY <2>4 DEF Part
  <2>9. Sum(f, Of(L)) = Sum(f, Part(S, h, k)) + Sum(f, Of(L) \ Part(S, h, k))
    <3>1. \A x \in Of(L) : f[x] \in Int
      OBVIOUS
    <3> HIDE DEF Of
    <3> QED
      BY <2>5, <2>8, <3>1, SumUnion
  <2>10. p[k] = Sum(f, Part(S, h, k))
    BY <2>5
  <2>11. Sum(f, Of(L) \ Part(S, h, k)) = Sum(f, Of(L \ {k}))
    BY <2>8
  <2>12. Sum(p, L) # Sum(f, Of(L))
    OBVIOUS
  <2> HIDE DEF Of, B
  <2> QED
    BY <2>6, <2>7, <2>9, <2>10, <2>11, <2>12
<1>4. K \in SUBSET K /\ K \notin B /\ Of(K) = S
  BY <1>3 DEF Keys
<1>5. Sum(p, K) = Sum(f, Of(K))
  BY <1>4
<1>6. Sum(f, Of(K)) = Sum(f, S)
  BY <1>4
<1> QED
  BY <1>1, <1>2, <1>5, <1>6

\* A sum over other names of the same things.
LEMMA SumImage ==
  ASSUME NEW S, IsFiniteSet(S), NEW h, \A x, y \in S : h[x] = h[y] => x = y,
         NEW f, NEW g, \A x \in S : g[x] = f[h[x]] /\ g[x] \in Int
  PROVE  Sum(f, Keys(S, h)) = Sum(g, S)
<1>1. ASSUME NEW k \in Keys(S, h) PROVE f[k] = Sum(g, Part(S, h, k))
  <2>1. PICK x \in S : k = h[x]
    BY DEF Keys
  <2>2. Part(S, h, k) = {x}
    BY <2>1 DEF Part
  <2>3. IsFiniteSet({x}) /\ Sum(g, {}) = 0 /\ {x} \ {x} = {}
    BY FS_Singleton, SumStep
  <2>4. Sum(g, {x}) = g[x] + Sum(g, {x} \ {x})
    BY <2>3, SumTake
  <2>5. Sum(g, {x}) = g[x]
    <3>1. Sum(g, {x} \ {x}) = 0
      BY <2>3
    <3> QED
      BY <2>4, <3>1
  <2>6. Sum(g, Part(S, h, k)) = Sum(g, {x})
    BY <2>2
  <2> QED
    BY <2>1, <2>5, <2>6
<1> DEFINE K == Keys(S, h)
<1>2. \A k \in K : f[k] = Sum(g, Part(S, h, k))
  BY <1>1
<1>3. \A x \in S : g[x] \in Int
  OBVIOUS
<1>4. K = Keys(S, h)
  OBVIOUS
<1> HIDE DEF K
<1>5. Sum(f, K) = Sum(g, S)
  BY <1>2, <1>3, <1>4, SumParts
<1> QED
  BY <1>5 DEF K

-----------------------------------------------------------------------------
(* Sums of readings: by group, by day, by period, by system.               *)

\* The sums the reports take are sums of functions.
LEMMA TotalIs ==
  ASSUME NEW rows
  PROVE  Total(rows) = Sum([r \in rows |-> Kwh(r[1])], rows)
<1> DEFINE f == [r \in rows |-> Kwh(r[1])]
           first(s) == CHOOSE x \in s : TRUE
<1>1. Total(rows) = (CHOOSE iter : iter = [s \in SUBSET rows |-> IF s = {} THEN 0
                       ELSE Kwh(first(s)[1]) + iter[s \ {first(s)}]])[rows]
  BY DEF Total, MapThenSumSet, MapThenFoldSet
<1>2. ASSUME NEW s \in SUBSET rows, s # {} PROVE f[first(s)] = Kwh(first(s)[1])
  <2>1. first(s) \in rows
    BY <1>2
  <2> HIDE DEF first
  <2> QED
    BY <2>1
<1> HIDE DEF f
<1>3. ASSUME NEW iter
      PROVE  Folds(iter, f, SUBSET rows)
               <=> iter = [s \in SUBSET rows |-> IF s = {} THEN 0
                             ELSE Kwh(first(s)[1]) + iter[s \ {first(s)}]]
  BY <1>2 DEF Folds
<1>4. Sum(f, rows) = (CHOOSE iter : Folds(iter, f, SUBSET rows))[rows]
  BY SumIs
<1> QED
  BY <1>1, <1>3, <1>4, ZenonT(60) DEF f

LEMMA SumOfIs ==
  ASSUME NEW c, NEW S
  PROVE  SumOf(c, S) = Sum([g \in S |-> g[c]], S)
<1> DEFINE f == [g \in S |-> g[c]]
           first(s) == CHOOSE x \in s : TRUE
<1>1. SumOf(c, S) = (CHOOSE iter : iter = [s \in SUBSET S |-> IF s = {} THEN 0
                       ELSE first(s)[c] + iter[s \ {first(s)}]])[S]
  BY DEF SumOf, MapThenSumSet, MapThenFoldSet
<1>2. ASSUME NEW s \in SUBSET S, s # {} PROVE f[first(s)] = first(s)[c]
  <2>1. first(s) \in S
    BY <1>2
  <2> HIDE DEF first
  <2> QED
    BY <2>1
<1> HIDE DEF f
<1>3. ASSUME NEW iter
      PROVE  Folds(iter, f, SUBSET S)
               <=> iter = [s \in SUBSET S |-> IF s = {} THEN 0
                             ELSE first(s)[c] + iter[s \ {first(s)}]]
  BY <1>2 DEF Folds
<1>4. Sum(f, S) = (CHOOSE iter : Folds(iter, f, SUBSET S))[S]
  BY SumIs
<1> QED
  BY <1>1, <1>3, <1>4, ZenonT(60) DEF f

\* Groups of rows by key.
GroupOf(rows, key, k) ==
  [key |-> k, kwh |-> Total(Part(rows, key, k)), active |-> Cardinality({r[1].number : r \in Part(rows, key, k)})]

Groups(rows, key) == {GroupOf(rows, key, k) : k \in Keys(rows, key)}

Metering(rows) == IsFiniteSet(rows) /\ \A r \in rows : Kwh(r[1]) \in Int

LEMMA TotalParts ==
  ASSUME NEW rows, Metering(rows), NEW h, NEW K, K = Keys(rows, h),
         NEW p, \A k \in K : p[k] = Total(Part(rows, h, k))
  PROVE  IsFiniteSet(K) /\ (\A k \in K : p[k] \in Int) /\ Sum(p, K) = Total(rows)
<1> DEFINE f == [r \in rows |-> Kwh(r[1])]
<1>1. IsFiniteSet(rows) /\ \A r \in rows : f[r] \in Int
  BY DEF Metering
<1>2. ASSUME NEW k \in K PROVE p[k] = Sum(f, Part(rows, h, k))
  <2> DEFINE g == [r \in Part(rows, h, k) |-> Kwh(r[1])]
  <2>1. IsFiniteSet(Part(rows, h, k)) /\ Part(rows, h, k) \subseteq rows
    BY <1>1, FS_Subset DEF Part
  <2>2. \A r \in Part(rows, h, k) : g[r] = f[r] /\ f[r] \in Int
    BY <1>1, <2>1
  <2>3. Sum(g, Part(rows, h, k)) = Total(Part(rows, h, k))
    BY TotalIs
  <2> HIDE DEF f, g
  <2>4. Sum(g, Part(rows, h, k)) = Sum(f, Part(rows, h, k))
    BY <2>1, <2>2, SumSame
  <2> QED
    BY <2>3, <2>4
<1>3. Sum(f, rows) = Total(rows)
  BY TotalIs
<1> HIDE DEF f
<1> QED
  BY <1>1, <1>2, <1>3, SumParts

LEMMA GroupsSum ==
  ASSUME NEW rows, Metering(rows), NEW key
  PROVE  SumOf("kwh", Groups(rows, key)) = Total(rows)
<1> DEFINE K == Keys(rows, key)
           h == [k \in K |-> GroupOf(rows, key, k)]
           p == [k \in K |-> Total(Part(rows, key, k))]
           G == Groups(rows, key)
           f == [g \in G |-> g["kwh"]]
<1>1. K = Keys(rows, key) /\ \A k \in K : p[k] = Total(Part(rows, key, k))
  OBVIOUS
<1>2. G = Keys(K, h)
  BY DEF Groups, Keys
<1>3. \A x, y \in K : h[x] = h[y] => x = y
  BY DEF GroupOf
<1>4. \A k \in K : h[k] \in G /\ p[k] = f[h[k]]
  BY DEF GroupOf, Groups
<1>5. SumOf("kwh", G) = Sum(f, G)
  BY SumOfIs
<1> HIDE DEF K, h, p, G, f
<1>6. IsFiniteSet(K) /\ (\A k \in K : p[k] \in Int) /\ Sum(p, K) = Total(rows)
  BY <1>1, TotalParts
<1>7. Sum(f, Keys(K, h)) = Sum(p, K)
  BY <1>3, <1>4, <1>6, SumImage
<1> QED
  BY <1>2, <1>5, <1>6, <1>7 DEF G

\* The groups of one system are the groups of its rows.
LEMMA GroupsOfSystem ==
  ASSUME NEW rows, Metering(rows), NEW key, NEW s
  PROVE  SumOf("kwh", InSystem(Groups(rows, key), s)) = Total({r \in rows : key[r].system = s})
<1> DEFINE R == {r \in rows : key[r].system = s}
<1>1. Keys(R, key) = {k \in Keys(rows, key) : k.system = s}
  BY DEF Keys
<1>2. ASSUME NEW k \in Keys(R, key) PROVE Part(R, key, k) = Part(rows, key, k)
  BY <1>1 DEF Part
<1>3. \A k \in Keys(R, key) : GroupOf(R, key, k) = GroupOf(rows, key, k)
  BY <1>2 DEF GroupOf
<1>4. \A k : GroupOf(rows, key, k).key = k
  BY DEF GroupOf
<1>5. InSystem(Groups(rows, key), s) = {GroupOf(rows, key, k) : k \in {j \in Keys(rows, key) : j.system = s}}
  BY <1>4 DEF InSystem, Groups
<1>6. InSystem(Groups(rows, key), s) = Groups(R, key)
  BY <1>1, <1>3, <1>5 DEF Groups
<1>7. Metering(R)
  BY FS_Subset DEF Metering
<1> HIDE DEF R
<1> QED
  BY <1>6, <1>7, GroupsSum DEF R

NumbersRead(rows) == {r[1].number : r \in rows}
OfMapping(rows, s) == {r \in rows : Mapping[r[1].item] = s}

DayKey(r, cols) ==
  [day |-> r[1].day, number |-> r[1].number, system |-> Mapping[r[1].item], cols |-> Columns(r[2], cols)]
PeriodKey(q, r, cols, groups) ==
  [period |-> Period(q.period, r[1].day), system |-> Mapping[r[1].item],
   cols |-> Columns(r[2], cols), extra |-> Extra(r[2], groups)]

LEMMA DailyGroups ==
  ASSUME NEW rows, NEW cols
  PROVE  DailyReport(rows, cols) = Groups(rows, [r \in rows |-> DayKey(r, cols)])
<1> DEFINE key == [r \in rows |-> DayKey(r, cols)]
<1>1. DailyReport(rows, cols) =
        {[key |-> k, kwh |-> Total({r \in rows : DayKey(r, cols) = k}),
          active |-> Cardinality({r[1].number : r \in {x \in rows : DayKey(x, cols) = k}})] :
           k \in {DayKey(r, cols) : r \in rows}}
  BY DEF DailyReport, Grouped, DayKey
<1>2. {DayKey(r, cols) : r \in rows} = Keys(rows, key)
  BY DEF Keys
<1>3. \A k : {r \in rows : DayKey(r, cols) = k} = Part(rows, key, k)
  BY DEF Part
<1> HIDE DEF key
<1>4. ASSUME NEW k
      PROVE  [key |-> k, kwh |-> Total({r \in rows : DayKey(r, cols) = k}),
              active |-> Cardinality({r[1].number : r \in {x \in rows : DayKey(x, cols) = k}})] = GroupOf(rows, key, k)
  <2>1. {r \in rows : DayKey(r, cols) = k} = Part(rows, key, k) /\ {x \in rows : DayKey(x, cols) = k} = Part(rows, key, k)
    BY <1>3
  <2> QED
    BY <2>1 DEF GroupOf
<1>5. DailyReport(rows, cols) = Groups(rows, key)
  BY <1>1, <1>2, <1>4 DEF Groups
<1> QED
  BY <1>5 DEF key

LEMMA PeriodGroups ==
  ASSUME NEW q, NEW rows, NEW cols, NEW groups
  PROVE  PeriodReport(q, rows, cols, groups) = Groups(rows, [r \in rows |-> PeriodKey(q, r, cols, groups)])
<1> DEFINE key == [r \in rows |-> PeriodKey(q, r, cols, groups)]
           report == PeriodReport(q, rows, cols, groups)
<1>1. report =
        {[key |-> k, kwh |-> Total({r \in rows : PeriodKey(q, r, cols, groups) = k}),
          active |-> Cardinality({r[1].number : r \in {x \in rows : PeriodKey(q, x, cols, groups) = k}})] :
           k \in {PeriodKey(q, r, cols, groups) : r \in rows}}
  BY DEF PeriodReport, Grouped, PeriodKey
<1>2. {PeriodKey(q, r, cols, groups) : r \in rows} = Keys(rows, key)
  BY DEF Keys
<1>3. \A k : {r \in rows : PeriodKey(q, r, cols, groups) = k} = Part(rows, key, k)
  BY DEF Part
<1> HIDE DEF key, report
<1>4. ASSUME NEW k
      PROVE  [key |-> k, kwh |-> Total({r \in rows : PeriodKey(q, r, cols, groups) = k}),
              active |-> Cardinality({r[1].number : r \in {x \in rows : PeriodKey(q, x, cols, groups) = k}})] = GroupOf(rows, key, k)
  <2>1. {r \in rows : PeriodKey(q, r, cols, groups) = k} = Part(rows, key, k) /\ {x \in rows : PeriodKey(q, x, cols, groups) = k} = Part(rows, key, k)
    BY <1>3
  <2> QED
    BY <2>1 DEF GroupOf
<1>5. report = Groups(rows, key)
  BY <1>1, <1>2, <1>4 DEF Groups
<1> QED
  BY <1>5 DEF key, report

LEMMA DailySums ==
  ASSUME NEW rows, Metering(rows), NEW cols
  PROVE  /\ SumOf("kwh", DailyReport(rows, cols)) = Total(rows)
         /\ \A s : SumOf("kwh", InSystem(DailyReport(rows, cols), s)) = Total(OfMapping(rows, s))
<1> DEFINE key == [r \in rows |-> DayKey(r, cols)]
<1>1. DailyReport(rows, cols) = Groups(rows, key)
  BY DailyGroups
<1>2. \A r \in rows : key[r].system = Mapping[r[1].item]
  BY DEF DayKey
<1> HIDE DEF key
<1>3. \A s : {r \in rows : key[r].system = s} = OfMapping(rows, s)
  BY <1>2 DEF OfMapping
<1> QED
  BY <1>1, <1>3, GroupsSum, GroupsOfSystem

LEMMA PeriodSums ==
  ASSUME NEW q, NEW rows, Metering(rows), NEW cols, NEW groups
  PROVE  /\ SumOf("kwh", PeriodReport(q, rows, cols, groups)) = Total(rows)
         /\ \A s : SumOf("kwh", InSystem(PeriodReport(q, rows, cols, groups), s)) = Total(OfMapping(rows, s))
         /\ \A g \in PeriodReport(q, rows, cols, groups) :
              \E some \in SUBSET rows : g.active = Cardinality(NumbersRead(some))
<1> DEFINE key == [r \in rows |-> PeriodKey(q, r, cols, groups)]
           report == PeriodReport(q, rows, cols, groups)
<1>1. report = Groups(rows, key)
  BY PeriodGroups
<1>2. \A r \in rows : key[r].system = Mapping[r[1].item]
  BY DEF PeriodKey
<1> HIDE DEF key, report
<1>3. \A s : {r \in rows : key[r].system = s} = OfMapping(rows, s)
  BY <1>2 DEF OfMapping
<1>4. \A g \in report : \E some \in SUBSET rows : g.active = Cardinality(NumbersRead(some))
  <2> SUFFICES ASSUME NEW k \in Keys(rows, key)
               PROVE  \E some \in SUBSET rows :
                        GroupOf(rows, key, k).active = Cardinality(NumbersRead(some))
    BY <1>1 DEF Groups
  <2>1. Part(rows, key, k) \in SUBSET rows
    BY DEF Part
  <2>2. GroupOf(rows, key, k).active = Cardinality(NumbersRead(Part(rows, key, k)))
    BY DEF GroupOf, NumbersRead
  <2> QED
    BY <2>1, <2>2
<1>5. /\ SumOf("kwh", report) = Total(rows)
      /\ \A s : SumOf("kwh", InSystem(report, s)) = Total(OfMapping(rows, s))
  BY <1>1, <1>3, GroupsSum, GroupsOfSystem
<1> QED
  BY <1>4, <1>5 DEF report

-----------------------------------------------------------------------------
(* The rows that the reports of consumption read.                          *)

LEMMA KwhIsNumber ==
  ASSUME TablesInv, NEW d \in daily
  PROVE  Kwh(d) \in Int /\ d.day \in Int
<1>1. d \in InitDaily \cup Readings
  BY DEF TablesInv, TypeOK
<1> QED
  BY <1>1, TablesAssumption DEF Kwh

LEMMA MeteringRows ==
  ASSUME TablesInv, NEW rows, rows \subseteq daily \X (MeterRows \cup {NoMeter})
  PROVE  Metering(rows)
<1>1. IsFiniteSet(daily) /\ IsFiniteSet(MeterRows \cup {NoMeter})
  BY RowsFinite, FS_AddElement DEF TablesInv
<1>2. IsFiniteSet(rows)
  BY <1>1, FS_Product, FS_Subset
<1>3. \A r \in rows : r[1] \in daily
  OBVIOUS
<1> QED
  BY <1>2, <1>3, KwhIsNumber DEF Metering

LEMMA JoinedRows ==
  ASSUME NEW q
  PROVE  /\ Joined(q) \subseteq daily \X (MeterRows \cup {NoMeter})
         /\ \A r \in Joined(q) :
              /\ r = <<r[1], r[2]>> /\ r[1].item \in DOMAIN Mapping /\ ReadingFilters(q, r[1]) /\ PlaceFilters(q, r[2])
              /\ r[2].type # Null => r[2] \in MeterRows /\ r[2].number = r[1].number
         /\ \A d \in daily, m \in MeterRows :
              /\ d.item \in DOMAIN Mapping /\ ReadingFilters(q, d) /\ PlaceFilters(q, m) /\ m.number = d.number
              => <<d, m>> \in Joined(q)
<1>1. \A n : MetersOf(n) \subseteq MeterRows \cup {NoMeter}
  BY DEF MetersOf
<1>2. NoMeter.type = Null
  BY DEF NoMeter
<1>3. \A n : \A m \in MetersOf(n) : m.type # Null => m \in MeterRows /\ m.number = n
  BY <1>2 DEF MetersOf
<1>4. \A m \in MeterRows : m \in MetersOf(m.number)
  BY DEF MetersOf
<1> QED
  BY <1>1, <1>3, <1>4 DEF Joined

LEMMA TypedRows ==
  ASSUME TablesInv, NEW q, NEW types
  PROVE  Metering(Typed(q, types)) /\ Metering(Untyped(q))
<1>1. /\ Typed(q, types) \subseteq daily \X (MeterRows \cup {NoMeter})
      /\ Untyped(q) \subseteq daily \X (MeterRows \cup {NoMeter})
  BY JoinedRows DEF Typed, Untyped
<1> QED
  BY <1>1, MeteringRows

\* A report asked for one type.
LEMMA OneType ==
  ASSUME NEW q \in Queries, NEW type \in MeterTypes
  PROVE  Untyped(OfTypes(q, {type})) = Typed(q, {type})
<1> DEFINE p == OfTypes(q, {type})
<1>1. /\ p.types = {type} /\ p.from = q.from /\ p.to = q.to /\ p.numbers = q.numbers /\ p.regions = q.regions
      /\ p.districts = q.districts /\ p.sites = q.sites /\ p.points = q.points
  BY HandlersAssumption DEF OfTypes, Parameters
<1> HIDE DEF p
<1>2. UpperAll(p.types) = {type} /\ type # Null
  BY <1>1, NamesAssumption DEF UpperAll
<1>3. \A d, m : /\ ReadingFilters(p, d) <=> ReadingFilters(q, d)
                /\ PlaceFilters(p, m) <=> PlaceFilters(q, m)
                /\ TypeFilter(p, m) <=> m.type \in {type}
  BY <1>1, <1>2 DEF ReadingFilters, PlaceFilters, AtPoint, InDates, TypeFilter, Passes
<1>4. Joined(p) = Joined(q)
  BY <1>3 DEF Joined
<1> QED
  BY <1>3, <1>4 DEF Untyped, Typed, p

-----------------------------------------------------------------------------
(* One type: by day, by period and in the general report.                   *)

LEMMA SameSumsHold ==
  ASSUME TablesInv, NEW q \in Queries, NEW type \in MeterTypes, NEW cols, NEW periodCols, NEW groups
  PROVE  SameSums(q, type, DailyReport(Typed(q, {type}), cols),
                  PeriodReport(q, Typed(q, {type}), periodCols, groups))
<1> DEFINE rows == Typed(q, {type})
           p == OfTypes(q, {type})
<1>1. Metering(rows)
  BY TypedRows
<1> SUFFICES ASSUME NEW s \in Kilowatts
             PROVE  LET sum == SumOf("kwh", InSystem(DailyReport(rows, cols), s)) IN
    /\ SumOf("kwh", InSystem(PeriodReport(q, rows, periodCols, groups), s)) = sum
    /\ Given(HandleGetDailyConsumption(p), LAMBDA all :
         SumOf("kwh", InSystem(all, s)) = sum)
  BY DEF SameSums
<1>2. /\ SumOf("kwh", InSystem(DailyReport(rows, cols), s)) = Total(OfMapping(rows, s))
      /\ SumOf("kwh", InSystem(DailyReport(rows, PlaceColumns), s)) = Total(OfMapping(rows, s))
      /\ SumOf("kwh", InSystem(PeriodReport(q, rows, periodCols, groups), s)) = Total(OfMapping(rows, s))
  BY <1>1, DailySums, PeriodSums
<1>3. HandleGetDailyConsumption(p).status = 200
        => HandleGetDailyConsumption(p).body = DailyReport(rows, PlaceColumns)
  <2>1. GetDailyConsumption(p) = DailyReport(rows, PlaceColumns)
    BY OneType DEF GetDailyConsumption
  <2> HIDE DEF p, rows
  <2> QED
    BY <2>1 DEF HandleGetDailyConsumption, Dated, Answer, BadRequest
<1> HIDE DEF p, rows
<1> QED
  BY <1>2, <1>3 DEF Given

\* The meters of a group were read; those that were read are there.
LEMMA CountsHold ==
  ASSUME TablesInv, NEW q, NEW types, Null \notin types, NEW cols, NEW groups
  PROVE  CountsNest([rows |-> PeriodReport(q, Typed(q, types), cols, groups),
                     total |-> MetersRead(q, types), all |-> AllMeters(types)])
<1> DEFINE rows == Typed(q, types)
           read == {m \in MeterRows : /\ m.type \in types /\ PlaceFilters(q, m)
                                      /\ \E d \in daily : d.number = m.number /\ ReadingFilters(q, d)}
           all == {m \in MeterRows : m.type \in types}
<1>1. IsFiniteSet(Numbers(read)) /\ IsFiniteSet(Numbers(all)) /\ Numbers(read) \subseteq Numbers(all)
  <2>1. IsFiniteSet(read) /\ IsFiniteSet(all)
    BY RowsFinite, FS_Subset
  <2>2. \A some : IsFiniteSet(some) => IsFiniteSet(Numbers(some))
    BY NumbersCount
  <2>3. Numbers(read) \subseteq Numbers(all)
    BY DEF Numbers
  <2> QED
    BY <2>1, <2>2, <2>3
<1>2. MetersRead(q, types) <= AllMeters(types)
  BY <1>1, FS_Subset DEF MetersRead, AllMeters
<1>3. \A r \in rows : r[1].number \in Numbers(read)
  <2> SUFFICES ASSUME NEW r \in rows PROVE r[1].number \in Numbers(read)
    OBVIOUS
  <2>1. r \in Joined(q) /\ r[2].type \in types
    BY DEF Typed
  <2>2. /\ ReadingFilters(q, r[1]) /\ PlaceFilters(q, r[2]) /\ r[2] \in MeterRows
        /\ r[2].number = r[1].number /\ r[1] \in daily
    BY <2>1, JoinedRows
  <2>3. r[2] \in read
    BY <2>1, <2>2
  <2> QED
    BY <2>2, <2>3 DEF Numbers
<1>4. \A g \in PeriodReport(q, rows, cols, groups) : g.active <= MetersRead(q, types)
  <2> SUFFICES ASSUME NEW g \in PeriodReport(q, rows, cols, groups) PROVE g.active <= MetersRead(q, types)
    OBVIOUS
  <2>1. Metering(rows)
    BY TypedRows
  <2> HIDE DEF rows, read
  <2>2. PICK some \in SUBSET rows : g.active = Cardinality(NumbersRead(some))
    <3>1. \A h \in PeriodReport(q, rows, cols, groups) :
            \E some \in SUBSET rows : h.active = Cardinality(NumbersRead(some))
      BY <2>1, PeriodSums
    <3> QED
      BY <3>1
  <2>3. NumbersRead(some) \subseteq Numbers(read)
    BY <1>3 DEF NumbersRead
  <2>4. Cardinality(NumbersRead(some)) <= Cardinality(Numbers(read))
    BY <1>1, <2>3, FS_Subset
  <2> QED
    BY <2>2, <2>4 DEF MetersRead, read
<1> QED
  BY <1>2, <1>4 DEF CountsNest

-----------------------------------------------------------------------------
(* Pairs of readings.                                                      *)

LEMMA ReadingsFinite ==
  ASSUME TablesInv, NEW q, NEW m
  PROVE  /\ IsFiniteSet(ReadingsOf(q, m)) /\ ReadingsOf(q, m) # {}
         /\ \A d \in ReadingsOf(q, m) : Kwh(d) \in Int
         /\ \A s \in Kilowatts : {d \in ReadingsOf(q, m) : System(d) = s} = {d \in Recorded(q, m) : System(d) = s}
<1>1. IsFiniteSet(Recorded(q, m)) /\ \A d \in Recorded(q, m) : Kwh(d) \in Int
  BY FS_Subset, KwhIsNumber DEF Recorded, TablesInv
<1>2. IsFiniteSet({NoReading}) /\ Kwh(NoReading) \in Int
  <2>1. NoReading.kwh = Null
    BY DEF NoReading
  <2>2. Kwh(NoReading) = 0
    BY <2>1 DEF Kwh
  <2> QED
    BY <2>2, FS_Singleton
<1>3. \A s \in Kilowatts : System(NoReading) # s
  BY TablesAssumption DEF System, NoReading
<1>4. ReadingsOf(q, m) = IF Recorded(q, m) = {} THEN {NoReading} ELSE Recorded(q, m)
  BY DEF ReadingsOf, Recorded
<1> QED
  BY <1>1, <1>2, <1>3, <1>4

\* i pairs A with B in P, and h takes the first of a pair: g adds up f once for
\* every element of B.
Product(A, B, P, f, g, h, i) ==
  /\ IsFiniteSet(A) /\ IsFiniteSet(B) /\ B # {} /\ IsFiniteSet(P)
  /\ \A a \in A : f[a] \in Int
  /\ \A x \in P : h[x] \in A /\ g[x] = f[h[x]]
  /\ \A a \in A, b \in B : i[<<a, b>>] \in P /\ h[i[<<a, b>>]] = a
  /\ \A x \in P : \E b \in B : x = i[<<h[x], b>>]
  /\ \A a \in A : \A b, c \in B : i[<<a, b>>] = i[<<a, c>>] => b = c

LEMMA SumProduct ==
  ASSUME NEW A, NEW B, NEW P, NEW f, NEW g, NEW h, NEW i, Product(A, B, P, f, g, h, i)
  PROVE  Sum(g, P) = Sum(f, A) * Cardinality(B)
<1> USE DEF Product
<1> DEFINE p == [a \in A |-> f[a] * Cardinality(B)]
           one == [x \in P |-> 1]
<1>1. Cardinality(B) \in Nat
  BY FS_CardinalityType
<1>2. A = Keys(P, h)
  <2>1. ASSUME NEW a \in A PROVE \E x \in P : a = h[x]
    <3>1. PICK b \in B : TRUE
      OBVIOUS
    <3> QED
      BY <3>1
  <2> QED
    BY <2>1 DEF Keys
<1>3. ASSUME NEW a \in A PROVE p[a] = Sum(g, Part(P, h, a))
  <2> DEFINE Q == Part(P, h, a)
             j == [b \in B |-> i[<<a, b>>]]
  <2>1. IsFiniteSet(Q) /\ Q \subseteq P
    BY FS_Subset DEF Part
  <2>2. ExistsBijection(B, Q)
    <3>1. j \in [B -> Q]
      BY DEF Part
    <3>2. ASSUME NEW x \in Q PROVE \E b \in B : j[b] = x
      <4>1. x \in P /\ h[x] = a
        BY DEF Part
      <4>2. PICK b \in B : x = i[<<h[x], b>>]
        BY <4>1
      <4> QED
        BY <4>1, <4>2
    <3>3. \A b, c \in B : j[b] = j[c] => b = c
      OBVIOUS
    <3>4. DOMAIN j = B
      OBVIOUS
    <3> HIDE DEF j, Q
    <3>5. j \in Bijection(B, Q)
      BY <3>1, <3>2, <3>3, <3>4 DEF Bijection, Injection, Surjection, IsInjective
    <3> QED
      BY <3>5 DEF ExistsBijection
  <2>3. Cardinality(Q) = Cardinality(B)
    BY <2>1, <2>2, FS_Bijection
  <2>4. Sum(one, Q) = Cardinality(Q)
    <3>1. \A x \in Q : one[x] = 1
      BY <2>1
    <3> HIDE DEF one, Q
    <3> QED
      BY <2>1, <3>1, SumOnes
  <2>5. \A x \in Q : one[x] = 1 /\ one[x] \in Int /\ g[x] = one[x] * f[a]
    BY <2>1 DEF Part
  <2> HIDE DEF Q, j, one
  <2>6. Sum(g, Q) = Sum(one, Q) * f[a]
    BY <2>1, <2>5, SumTimes
  <2>7. f[a] * Cardinality(B) = Cardinality(B) * f[a]
    BY <1>1
  <2> QED
    BY <2>3, <2>4, <2>6, <2>7 DEF Q
<1>4. \A x \in P : g[x] \in Int
  OBVIOUS
<1>5. \A a \in A : p[a] = f[a] * Cardinality(B)
  OBVIOUS
<1> HIDE DEF p, one
<1>6. Sum(p, A) = Sum(g, P)
  BY <1>2, <1>3, <1>4, SumParts
<1>7. Sum(p, A) = Sum(f, A) * Cardinality(B)
  BY <1>1, <1>5, SumTimes
<1> QED
  BY <1>6, <1>7

-----------------------------------------------------------------------------
(* What the ends of a pair of express feeders show.                        *)

\* What one end of some pairs adds up to, and what a meter recorded.
LEMMA EndIs ==
  ASSUME NEW P, NEW i
  PROVE  MapThenSumSet(LAMBDA p : Kwh(p[i]), P) = Sum([p \in P |-> Kwh(p[i])], P)
<1> DEFINE f == [p \in P |-> Kwh(p[i])]
           first(s) == CHOOSE x \in s : TRUE
<1>1. MapThenSumSet(LAMBDA p : Kwh(p[i]), P)
        = (CHOOSE iter : iter = [s \in SUBSET P |-> IF s = {} THEN 0
                       ELSE Kwh(first(s)[i]) + iter[s \ {first(s)}]])[P]
  BY DEF MapThenSumSet, MapThenFoldSet
<1>2. ASSUME NEW s \in SUBSET P, s # {} PROVE f[first(s)] = Kwh(first(s)[i])
  <2>1. first(s) \in P
    BY <1>2
  <2> HIDE DEF first
  <2> QED
    BY <2>1
<1> HIDE DEF f
<1>3. ASSUME NEW iter
      PROVE  Folds(iter, f, SUBSET P)
               <=> iter = [s \in SUBSET P |-> IF s = {} THEN 0
                             ELSE Kwh(first(s)[i]) + iter[s \ {first(s)}]]
  BY <1>2 DEF Folds
<1>4. Sum(f, P) = (CHOOSE iter : Folds(iter, f, SUBSET P))[P]
  BY SumIs
<1> QED
  BY <1>1, <1>3, <1>4, ZenonT(60) DEF f

LEMMA OwnIs ==
  ASSUME NEW q, NEW m, NEW s, NEW D, D = {d \in Recorded(q, m) : System(d) = s}
  PROVE  Own(q, m, s) = Sum([d \in D |-> Kwh(d)], D)
<1> DEFINE f == [d \in D |-> Kwh(d)]
           first(t) == CHOOSE x \in t : TRUE
<1>1. Own(q, m, s)
        = (CHOOSE iter : iter = [t \in SUBSET D |-> IF t = {} THEN 0
                       ELSE Kwh(first(t)) + iter[t \ {first(t)}]])[D]
  BY DEF Own, MapThenSumSet, MapThenFoldSet
<1>2. ASSUME NEW t \in SUBSET D, t # {} PROVE f[first(t)] = Kwh(first(t))
  <2>1. first(t) \in D
    BY <1>2
  <2> HIDE DEF first
  <2> QED
    BY <2>1
<1> HIDE DEF f
<1>3. ASSUME NEW iter
      PROVE  Folds(iter, f, SUBSET D)
               <=> iter = [t \in SUBSET D |-> IF t = {} THEN 0
                             ELSE Kwh(first(t)) + iter[t \ {first(t)}]]
  BY <1>2 DEF Folds
<1>4. Sum(f, D) = (CHOOSE iter : Folds(iter, f, SUBSET D))[D]
  BY SumIs
<1>5. (CHOOSE iter : Folds(iter, f, SUBSET D))
        = CHOOSE iter : iter = [t \in SUBSET D |-> IF t = {} THEN 0
                          ELSE Kwh(first(t)) + iter[t \ {first(t)}]]
  BY <1>3
<1> HIDE DEF first
<1> QED
  BY <1>1, <1>4, <1>5 DEF f

\* All pairs of the readings of two meters.
PairsOf(q, f, m, n) == {f} \X ReadingsOf(q, m) \X ReadingsOf(q, n)

LEMMA PairSums ==
  ASSUME TablesInv, NEW q, NEW s \in Kilowatts, NEW f, NEW m, NEW n
  PROVE  /\ EndTotals(PairsOf(q, f, m, n), 2)[s] = Own(q, m, s) * Rows(q, n)
         /\ EndTotals(PairsOf(q, f, m, n), 3)[s] = Own(q, n, s) * Rows(q, m)
<1> USE DEF PairsOf
<1> DEFINE pairs == PairsOf(q, f, m, n)
           A == ReadingsOf(q, m)
           B == ReadingsOf(q, n)
           Of(D) == {d \in D : System(d) = s}
           P(i) == {p \in pairs : System(p[i]) = s}
           own(D) == [d \in D |-> Kwh(d)]
           g(i) == [p \in P(i) |-> Kwh(p[i])]
           h(i) == [p \in P(i) |-> p[i]]
           join2 == [x \in Of(A) \X B |-> <<f, x[1], x[2]>>]
           join3 == [x \in Of(B) \X A |-> <<f, x[2], x[1]>>]
<1>1. /\ IsFiniteSet(A) /\ IsFiniteSet(B) /\ A # {} /\ B # {}
      /\ IsFiniteSet(Of(A)) /\ IsFiniteSet(Of(B))
      /\ Of(A) = {d \in Recorded(q, m) : System(d) = s} /\ Of(B) = {d \in Recorded(q, n) : System(d) = s}
  BY ReadingsFinite, FS_Subset
<1>2. (\A d \in A : Kwh(d) \in Int) /\ (\A d \in B : Kwh(d) \in Int)
  BY ReadingsFinite
<1>3. IsFiniteSet(P(2)) /\ IsFiniteSet(P(3))
  <2>1. IsFiniteSet(A \X B)
    BY <1>1, FS_Product
  <2> DEFINE j == [x \in A \X B |-> <<f, x[1], x[2]>>]
  <2>2. j \in [A \X B -> pairs] /\ \A y \in pairs : \E x \in A \X B : j[x] = y
    <3>1. ASSUME NEW y \in pairs PROVE \E x \in A \X B : j[x] = y
      <4>1. y = <<f, y[2], y[3]>> /\ <<y[2], y[3]>> \in A \X B
        OBVIOUS
      <4> QED
        BY <4>1
    <3> QED
      BY <3>1
  <2> HIDE DEF j
  <2>3. j \in Surjection(A \X B, pairs)
    BY <2>2 DEF Surjection
  <2>4. IsFiniteSet(pairs)
    BY <2>1, <2>3, FS_Surjection
  <2> QED
    BY <2>4, FS_Subset
<1>4. /\ EndTotals(pairs, 2)[s] = Sum(g(2), P(2)) /\ EndTotals(pairs, 3)[s] = Sum(g(3), P(3))
  BY EndIs DEF EndTotals
<1>5. /\ Own(q, m, s) = Sum(own(Of(A)), Of(A)) /\ Own(q, n, s) = Sum(own(Of(B)), Of(B))
  BY <1>1, OwnIs
<1>6. Sum(g(2), P(2)) = Sum(own(Of(A)), Of(A)) * Cardinality(B)
  <2>1. \A d \in Of(A) : own(Of(A))[d] \in Int
    BY <1>2
  <2>2. \A x \in P(2) : h(2)[x] \in Of(A) /\ g(2)[x] = own(Of(A))[h(2)[x]]
    OBVIOUS
  <2>3. \A a \in Of(A), b \in B : join2[<<a, b>>] \in P(2) /\ h(2)[join2[<<a, b>>]] = a
    OBVIOUS
  <2>4. \A x \in P(2) : \E b \in B : x = join2[<<h(2)[x], b>>]
    <3>1. ASSUME NEW x \in P(2) PROVE x = join2[<<h(2)[x], x[3]>>] /\ x[3] \in B
      OBVIOUS
    <3> QED
      BY <3>1
  <2>5. \A a \in Of(A) : \A b, c \in B : join2[<<a, b>>] = join2[<<a, c>>] => b = c
    OBVIOUS
  <2> HIDE DEF A, B, Of, P, own, g, h, join2
  <2>6. Product(Of(A), B, P(2), own(Of(A)), g(2), h(2), join2)
    BY <1>1, <1>3, <2>1, <2>2, <2>3, <2>4, <2>5 DEF Product
  <2> QED
    BY <2>6, SumProduct
<1>7. Sum(g(3), P(3)) = Sum(own(Of(B)), Of(B)) * Cardinality(A)
  <2>1. \A d \in Of(B) : own(Of(B))[d] \in Int
    BY <1>2
  <2>2. \A x \in P(3) : h(3)[x] \in Of(B) /\ g(3)[x] = own(Of(B))[h(3)[x]]
    OBVIOUS
  <2>3. \A a \in Of(B), b \in A : join3[<<a, b>>] \in P(3) /\ h(3)[join3[<<a, b>>]] = a
    OBVIOUS
  <2>4. \A x \in P(3) : \E b \in A : x = join3[<<h(3)[x], b>>]
    <3>1. ASSUME NEW x \in P(3) PROVE x = join3[<<h(3)[x], x[2]>>] /\ x[2] \in A
      OBVIOUS
    <3> QED
      BY <3>1
  <2>5. \A a \in Of(B) : \A b, c \in A : join3[<<a, b>>] = join3[<<a, c>>] => b = c
    OBVIOUS
  <2> HIDE DEF A, B, Of, P, own, g, h, join3
  <2>6. Product(Of(B), A, P(3), own(Of(B)), g(3), h(3), join3)
    BY <1>1, <1>3, <2>1, <2>2, <2>3, <2>4, <2>5 DEF Product
  <2> QED
    BY <2>6, SumProduct
<1> QED
  BY <1>4, <1>5, <1>6, <1>7 DEF Rows

LEMMA FeedersHold ==
  ASSUME TablesInv, NEW q \in Queries
  PROVE  FeedersAgree(q)
<1> DEFINE p == FeederQuery(q)
           PeriodOf(r) == IF PairDay(r) = Null THEN Null ELSE Period("day", PairDay(r))
           Key(r) == [name |-> r[1].name, period |-> PeriodOf(r)]
           pairs == FeederPairs(p)
           group(k) == {r \in pairs : Key(r) = k}
           result == GetExpressFeederDailyConsumption(p)
<1>1. p.from = q.from /\ p.to = q.to
  BY HandlersAssumption DEF FeederQuery, Parameters
<1> SUFFICES ASSUME q.from = q.to, HandleGetExpressFeederDailyConsumption(q).status = 200,
                    NEW g \in HandleGetExpressFeederDailyConsumption(q).body, NEW f \in FeederRows,
                    {h \in FeederRows : ~h.deleted /\ h.name = g.key.name} = {f}
             PROVE  PairAgrees(q, f, g)
  BY DEF FeedersAgree, Given
<1>2. Parsed(p) /\ result # Failed /\ HandleGetExpressFeederDailyConsumption(q).body = result
  <2> HIDE DEF p
  <2> QED
    BY DEF HandleGetExpressFeederDailyConsumption, Dated, Answer, BadRequest, p
<1>3. q.from \in Int
  BY <1>1, <1>2, HandlersAssumption DEF Parsed
<1>4. result = {[key |-> k, sending |-> EndTotals(group(k), 2), receiving |-> EndTotals(group(k), 3)] :
                k \in {Key(r) : r \in pairs}}
  <2> HIDE DEF p
  <2> QED
    BY <1>2 DEF GetExpressFeederDailyConsumption, FeederReport
<1>5. PICK r0 \in pairs : g = [key |-> Key(r0), sending |-> EndTotals(group(Key(r0)), 2),
                               receiving |-> EndTotals(group(Key(r0)), 3)]
  <2> HIDE DEF p, result, pairs, group, Key
  <2> QED
    BY <1>2, <1>4
<1> DEFINE m == meters[f.sending]
           n == meters[f.receiving]
           all == PairsOf(p, f, m, n)
<1>6. ASSUME NEW r \in pairs, r[1].name = r0[1].name PROVE r[1] = f /\ r \in all
  <2> HIDE DEF p
  <2>1. /\ r[1] \in FeederRows /\ ~r[1].deleted
        /\ r \in {r[1]} \X ReadingsOf(p, meters[r[1].sending]) \X ReadingsOf(p, meters[r[1].receiving])
    BY DEF FeederPairs
  <2>2. r[1].name = g.key.name
    BY <1>5, <1>6
  <2>3. r[1] = f
    BY <2>1, <2>2
  <2> QED
    BY <2>1, <2>3 DEF PairsOf
<1>7. all \subseteq pairs
  <2>1. r0[1] = f
    BY <1>6
  <2> HIDE DEF p
  <2> QED
    BY <2>1 DEF FeederPairs, PairsOf
<1>8. \A x : \A a, b \in ReadingsOf(p, x) : a.day = b.day
  <2> SUFFICES ASSUME NEW x, NEW a \in ReadingsOf(p, x), NEW b \in ReadingsOf(p, x) PROVE a.day = b.day
    OBVIOUS
  <2>1. \A d \in daily : InDates(p, d) => d.day = q.from
    BY <1>1, <1>3, KwhIsNumber DEF InDates
  <2> HIDE DEF p
  <2> QED
    BY <2>1 DEF ReadingsOf
<1>9. \A r \in all : Key(r) = Key(r0)
  <2> SUFFICES ASSUME NEW r \in all PROVE Key(r) = Key(r0)
    OBVIOUS
  <2>1. r0 \in all
    BY <1>6
  <2> HIDE DEF p
  <2>2. r[1] = r0[1] /\ r[2].day = r0[2].day /\ r[3].day = r0[3].day
    BY <1>8, <2>1 DEF PairsOf
  <2> QED
    BY <2>2 DEF PairDay
<1>10. group(Key(r0)) = all
  <2>1. \A r \in group(Key(r0)) : r \in pairs /\ r[1].name = r0[1].name
    OBVIOUS
  <2> QED
    BY <1>6, <1>7, <1>9, <2>1
<1>11. \A x : /\ \A s : Own(p, x, s) = Own(q, x, s)
              /\ Rows(p, x) = Rows(q, x)
  <2>1. \A d : InDates(p, d) <=> InDates(q, d)
    BY <1>1 DEF InDates
  <2>2. \A x : Recorded(p, x) = Recorded(q, x) /\ ReadingsOf(p, x) = ReadingsOf(q, x)
    BY <2>1 DEF Recorded, ReadingsOf
  <2> QED
    BY <2>2 DEF Own, Rows
<1>12. \A s \in Kilowatts : /\ EndTotals(all, 2)[s] = Own(p, m, s) * Rows(p, n)
                            /\ EndTotals(all, 3)[s] = Own(p, n, s) * Rows(p, m)
  BY PairSums
<1> HIDE DEF p, all, Key, group, pairs
<1>13. g.sending = EndTotals(all, 2) /\ g.receiving = EndTotals(all, 3)
  BY <1>5, <1>10
<1> QED
  BY <1>11, <1>12, <1>13 DEF PairAgrees

-----------------------------------------------------------------------------
(* The reports of consumption.                                             *)

\* The answers of the two handlers of a type whose report counts its meters.
OfStations(q, type, onDays, inPeriods) ==
  /\ onDays.status = 200 => onDays.body = DailyReport(Typed(q, {type}), PlaceColumns)
  /\ inPeriods.status = 200 => inPeriods.body = StationReport(q, {type}, {"site"}, q.groups)

LEMMA StationsAgree ==
  ASSUME TablesInv, NEW q \in Queries, NEW type \in MeterTypes, NEW onDays, NEW inPeriods,
         OfStations(q, type, onDays, inPeriods)
  PROVE  TypeAgrees(q, type, onDays, inPeriods)
<1> DEFINE days == DailyReport(Typed(q, {type}), PlaceColumns)
           report == StationReport(q, {type}, {"site"}, q.groups)
<1>1. /\ onDays.status = 200 => onDays.body = days
      /\ inPeriods.status = 200 => inPeriods.body = report
  BY DEF OfStations
<1>2. report.rows = PeriodReport(q, Typed(q, {type}), {"site"}, q.groups)
  BY DEF StationReport
<1>3. SameSums(q, type, days, report.rows)
  BY <1>2, SameSumsHold
<1>4. CountsNest(report)
  <2>1. Null \notin {type}
    BY NamesAssumption
  <2> QED
    BY <2>1, CountsHold DEF StationReport
<1> HIDE DEF days, report
<1> QED
  BY <1>1, <1>3, <1>4 DEF TypeAgrees, Given

LEMMA FeederStationsAgree ==
  ASSUME TablesInv, NEW q \in Queries
  PROVE  Given(HandleGetFeederDailyConsumption(q), LAMBDA days :
           Given(HandleGetFeederAggregatedConsumption(q), LAMBDA report :
             /\ CountsNest(report)
             /\ \A s \in Kilowatts :
                  SumOf("kwh", InSystem(days, s)) = SumOf("kwh", InSystem(report.rows, s))))
<1> DEFINE types == FeederTypes(q.types)
           days == GetFeederDailyConsumption(q)
           report == GetFeederAggregatedConsumption(q)
<1>1. /\ HandleGetFeederDailyConsumption(q).status = 200 => HandleGetFeederDailyConsumption(q).body = days
      /\ HandleGetFeederAggregatedConsumption(q).status = 200
           => HandleGetFeederAggregatedConsumption(q).body = report
  BY DEF HandleGetFeederDailyConsumption, HandleGetFeederAggregatedConsumption, Dated, Answer, BadRequest
<1>2. Null \notin types
  BY NamesAssumption, HandlersAssumption DEF FeederTypes, MeterTypes
<1>3. CountsNest(report) /\ report.rows = PeriodReport(q, Typed(q, types), {"site", "type"}, q.groups \ {"type"})
  BY <1>2, CountsHold DEF GetFeederAggregatedConsumption, StationReport
<1>4. Metering(Typed(q, types))
  BY TypedRows
<1>5. \A s : SumOf("kwh", InSystem(days, s)) = Total(OfMapping(Typed(q, types), s))
  BY <1>4, DailySums DEF GetFeederDailyConsumption
<1>6. \A s : SumOf("kwh", InSystem(report.rows, s)) = Total(OfMapping(Typed(q, types), s))
  <2> HIDE DEF report, types
  <2> QED
    BY <1>3, <1>4, PeriodSums
<1> HIDE DEF days, report
<1> QED
  BY <1>1, <1>3, <1>5, <1>6 DEF Given

\* A type whose report does not count its meters.
LEMMA SumsAgree ==
  ASSUME TablesInv, NEW q \in Queries, NEW type \in MeterTypes, NEW onDays, NEW inPeriods, NEW dayCols,
         NEW cols, NEW groups, NEW report,
         onDays.status = 200 => onDays.body = DailyReport(Typed(q, {type}), dayCols),
         inPeriods.status = 200 => inPeriods.body = report,
         report.rows = PeriodReport(q, Typed(q, {type}), cols, groups)
  PROVE  onDays.status = 200 /\ inPeriods.status = 200 => SameSums(q, type, onDays.body, inPeriods.body.rows)
BY SameSumsHold

LEMMA GeneralReportsAgree ==
  ASSUME TablesInv, NEW q \in Queries
  PROVE  Given(HandleGetDailyConsumption(q), LAMBDA days :
           Given(HandleGetAggregatedConsumption(q), LAMBDA report :
             SumOf("kwh", days) = SumOf("kwh", report.rows)))
<1> DEFINE days == GetDailyConsumption(q)
           report == GetAggregatedConsumption(q)
<1>1. /\ HandleGetDailyConsumption(q).status = 200 => HandleGetDailyConsumption(q).body = days
      /\ HandleGetAggregatedConsumption(q).status = 200 => HandleGetAggregatedConsumption(q).body = report
  BY DEF HandleGetDailyConsumption, HandleGetAggregatedConsumption, Dated, Answer, BadRequest
<1>2. Metering(Untyped(q))
  BY TypedRows
<1>3. SumOf("kwh", days) = Total(Untyped(q)) /\ SumOf("kwh", report.rows) = Total(Untyped(q))
  BY <1>2, DailySums, PeriodSums DEF GetDailyConsumption, GetAggregatedConsumption
<1> HIDE DEF days, report
<1> QED
  BY <1>1, <1>3 DEF Given

\* For every set of parameters the daily and the periodic report of a type
\* (Get...DailyConsumption, Get...AggregatedConsumption) and the general ones have
\* the same sums of the same readings, however often a number is registered; no report has more active meters than were read,
\* nor those more than there are; and each end of a pair of express feeders shows
\* its own consumption, once for every reading of the other end.
THEOREM ConsumptionReportsAgree == Spec => []ConsumptionAgrees
<1>1. TablesInv => ConsumptionAgrees
  <2> SUFFICES ASSUME TablesInv, NEW q \in Queries
               PROVE
    /\ TypeAgrees(q, "BSP", HandleGetBSPDailyConsumption(q), HandleGetBSPAggregatedConsumption(q))
    /\ TypeAgrees(q, "PSS", HandleGetPSSDailyConsumption(q), HandleGetPSSAggregatedConsumption(q))
    /\ TypeAgrees(q, "SS", HandleGetSSDailyConsumption(q), HandleGetSSAggregatedConsumption(q))
    /\ Given(HandleGetDTXDailyConsumption(q), LAMBDA days :
         Given(HandleGetDTXAggregatedConsumption(q), LAMBDA report :
           SameSums(q, "DTX", days, report.rows)))
    /\ Given(HandleGetFeederDailyConsumption(q), LAMBDA days :
         Given(HandleGetFeederAggregatedConsumption(q), LAMBDA report :
           /\ CountsNest(report)
           /\ \A s \in Kilowatts :
                SumOf("kwh", InSystem(days, s)) = SumOf("kwh", InSystem(report.rows, s))))
    /\ Given(HandleGetRegionalBoundaryDailyConsumption(q), LAMBDA days :
         Given(HandleGetRegionalBoundaryAggregatedConsumption(q), LAMBDA report :
           SameSums(q, "REGIONAL_BOUNDARY", days, report.rows)))
    /\ Given(HandleGetDistrictBoundaryDailyConsumption(q), LAMBDA days :
         Given(HandleGetDistrictBoundaryAggregatedConsumption(q), LAMBDA report :
           SameSums(q, "DISTRICT_BOUNDARY", days, report.rows)))
    /\ Given(HandleGetDailyConsumption(q), LAMBDA days :
         Given(HandleGetAggregatedConsumption(q), LAMBDA report :
           SumOf("kwh", days) = SumOf("kwh", report.rows)))
    /\ FeedersAgree(q)
    BY DEF ConsumptionAgrees
  <2>1. /\ "BSP" \in MeterTypes /\ "PSS" \in MeterTypes /\ "SS" \in MeterTypes /\ "DTX" \in MeterTypes
        /\ "REGIONAL_BOUNDARY" \in MeterTypes /\ "DISTRICT_BOUNDARY" \in MeterTypes
    BY DEF MeterTypes
  <2>2. TypeAgrees(q, "BSP", HandleGetBSPDailyConsumption(q), HandleGetBSPAggregatedConsumption(q))
    <3>1. HandleGetBSPDailyConsumption(q).status = 200
            => HandleGetBSPDailyConsumption(q).body = DailyReport(Typed(q, {"BSP"}), PlaceColumns)
      BY DEF HandleGetBSPDailyConsumption, GetBSPDailyConsumption, Dated, Answer, BadRequest
    <3>2. HandleGetBSPAggregatedConsumption(q).status = 200
            => HandleGetBSPAggregatedConsumption(q).body = StationReport(q, {"BSP"}, {"site"}, q.groups)
      BY DEF HandleGetBSPAggregatedConsumption, GetBSPAggregatedConsumption, Dated, Answer, BadRequest
    <3>3. OfStations(q, "BSP", HandleGetBSPDailyConsumption(q), HandleGetBSPAggregatedConsumption(q))
      BY <3>1, <3>2 DEF OfStations
    <3> QED
      BY <2>1, <3>3, StationsAgree
  <2>3. TypeAgrees(q, "PSS", HandleGetPSSDailyConsumption(q), HandleGetPSSAggregatedConsumption(q))
    <3>1. HandleGetPSSDailyConsumption(q).status = 200
            => HandleGetPSSDailyConsumption(q).body = DailyReport(Typed(q, {"PSS"}), PlaceColumns)
      BY DEF HandleGetPSSDailyConsumption, GetPSSDailyConsumption, Dated, Answer, BadRequest
    <3>2. HandleGetPSSAggregatedConsumption(q).status = 200
            => HandleGetPSSAggregatedConsumption(q).body = StationReport(q, {"PSS"}, {"site"}, q.groups)
      BY DEF HandleGetPSSAggregatedConsumption, GetPSSAggregatedConsumption, Dated, Answer, BadRequest
    <3>3. OfStations(q, "PSS", HandleGetPSSDailyConsumption(q), HandleGetPSSAggregatedConsumption(q))
      BY <3>1, <3>2 DEF OfStations
    <3> QED
      BY <2>1, <3>3, StationsAgree
  <2>4. TypeAgrees(q, "SS", HandleGetSSDailyConsumption(q), HandleGetSSAggregatedConsumption(q))
    <3>1. HandleGetSSDailyConsumption(q).status = 200
            => HandleGetSSDailyConsumption(q).body = DailyReport(Typed(q, {"SS"}), PlaceColumns)
      BY DEF HandleGetSSDailyConsumption, GetSSDailyConsumption, Dated, Answer, BadRequest
    <3>2. HandleGetSSAggregatedConsumption(q).status = 200
            => HandleGetSSAggregatedConsumption(q).body = StationReport(q, {"SS"}, {"site"}, q.groups)
      BY DEF HandleGetSSAggregatedConsumption, GetSSAggregatedConsumption, Dated, Answer, BadRequest
    <3>3. OfStations(q, "SS", HandleGetSSDailyConsumption(q), HandleGetSSAggregatedConsumption(q))
      BY <3>1, <3>2 DEF OfStations
    <3> QED
      BY <2>1, <3>3, StationsAgree
  <2>5. Given(HandleGetDTXDailyConsumption(q), LAMBDA days :
         Given(HandleGetDTXAggregatedConsumption(q), LAMBDA report :
           SameSums(q, "DTX", days, report.rows)))
    <3>1. HandleGetDTXDailyConsumption(q).status = 200
            => HandleGetDTXDailyConsumption(q).body = DailyReport(Typed(q, {"DTX"}), PlaceColumns)
      BY DEF HandleGetDTXDailyConsumption, GetDTXDailyConsumption, Dated, Answer, BadRequest
    <3>2. HandleGetDTXAggregatedConsumption(q).status = 200
            => HandleGetDTXAggregatedConsumption(q).body = GetDTXAggregatedConsumption(q)
      BY DEF HandleGetDTXAggregatedConsumption, Dated, Answer, BadRequest
    <3>3. GetDTXAggregatedConsumption(q).rows = PeriodReport(q, Typed(q, {"DTX"}), {"region", "district", "site"}, q.groups)
      BY DEF GetDTXAggregatedConsumption, BoundaryReport
    <3> QED
      BY <2>1, <3>1, <3>2, <3>3, SumsAgree DEF Given
  <2>6. Given(HandleGetRegionalBoundaryDailyConsumption(q), LAMBDA days :
         Given(HandleGetRegionalBoundaryAggregatedConsumption(q), LAMBDA report :
           SameSums(q, "REGIONAL_BOUNDARY", days, report.rows)))
    <3>1. HandleGetRegionalBoundaryDailyConsumption(q).status = 200
            => HandleGetRegionalBoundaryDailyConsumption(q).body = DailyReport(Typed(q, {"REGIONAL_BOUNDARY"}), PlaceColumns \cup {"point"})
      BY DEF HandleGetRegionalBoundaryDailyConsumption, GetRegionalBoundaryDailyConsumption, Dated, Answer, BadRequest
    <3>2. HandleGetRegionalBoundaryAggregatedConsumption(q).status = 200
            => HandleGetRegionalBoundaryAggregatedConsumption(q).body = GetRegionalBoundaryAggregatedConsumption(q)
      BY DEF HandleGetRegionalBoundaryAggregatedConsumption, Dated, Answer, BadRequest
    <3>3. GetRegionalBoundaryAggregatedConsumption(q).rows = PeriodReport(q, Typed(q, {"REGIONAL_BOUNDARY"}), {"point", "site"}, q.groups)
      BY DEF GetRegionalBoundaryAggregatedConsumption, BoundaryReport
    <3> QED
      BY <2>1, <3>1, <3>2, <3>3, SumsAgree DEF Given
  <2>7. Given(HandleGetDistrictBoundaryDailyConsumption(q), LAMBDA days :
         Given(HandleGetDistrictBoundaryAggregatedConsumption(q), LAMBDA report :
           SameSums(q, "DISTRICT_BOUNDARY", days, report.rows)))
    <3>1. HandleGetDistrictBoundaryDailyConsumption(q).status = 200
            => HandleGetDistrictBoundaryDailyConsumption(q).body = DailyReport(Typed(q, {"DISTRICT_BOUNDARY"}), PlaceColumns \cup {"point"})
      BY DEF HandleGetDistrictBoundaryDailyConsumption, GetDistrictBoundaryDailyConsumption, Dated, Answer, BadRequest
    <3>2. HandleGetDistrictBoundaryAggregatedConsumption(q).status = 200
            => HandleGetDistrictBoundaryAggregatedConsumption(q).body = GetDistrictBoundaryAggregatedConsumption(q)
      BY DEF HandleGetDistrictBoundaryAggregatedConsumption, Dated, Answer, BadRequest
    <3>3. GetDistrictBoundaryAggregatedConsumption(q).rows = PeriodReport(q, Typed(q, {"DISTRICT_BOUNDARY"}), {"point", "site"}, q.groups)
      BY DEF GetDistrictBoundaryAggregatedConsumption, BoundaryReport
    <3> QED
      BY <2>1, <3>1, <3>2, <3>3, SumsAgree DEF Given
  <2> QED
    BY <2>2, <2>3, <2>4, <2>5, <2>6, <2>7, FeederStationsAgree, GeneralReportsAgree, FeedersHold
<1> QED
  BY <1>1, TablesStay, PTL

-----------------------------------------------------------------------------
(* Sums of columns, and the rows the balance is made of.                   *)

\* Parts under a set of keys, some of them without one.
LEMMA SumOver ==
  ASSUME NEW S, IsFiniteSet(S), NEW f, \A x \in S : f[x] \in Int,
         NEW h, NEW K, IsFiniteSet(K), Keys(S, h) \subseteq K,
         NEW p, \A k \in K : p[k] = Sum(f, Part(S, h, k))
  PROVE  (\A k \in K : p[k] \in Int) /\ Sum(p, K) = Sum(f, S)
<1> DEFINE C == Keys(S, h)
<1>1. /\ \A k \in C : p[k] \in Int
      /\ Sum(p, C) = Sum(f, S)
  <2>1. C = Keys(S, h) /\ \A k \in C : p[k] = Sum(f, Part(S, h, k))
    OBVIOUS
  <2> HIDE DEF C
  <2>2. IsFiniteSet(C) /\ (\A k \in C : p[k] \in Int) /\ Sum(p, C) = Sum(f, S)
    BY <2>1, SumParts
  <2> QED
    BY <2>2
<1>2. ASSUME NEW k \in K \ C PROVE p[k] = 0
  <2>1. Part(S, h, k) = {}
    BY DEF Part, Keys
  <2>2. Sum(f, {}) = 0
    BY SumStep
  <2> QED
    BY <2>1, <2>2
<1>3. \A k \in K : p[k] \in Int
  BY <1>1, <1>2
<1>4. Sum(p, K \ C) = 0
  <2>1. IsFiniteSet(K \ C) /\ \A k \in K \ C : p[k] \in Int /\ p[k] = p[k] * 0
    BY <1>2, <1>3, FS_Subset
  <2>2. Sum(p, K \ C) = Sum(p, K \ C) * 0
    BY <2>1, SumTimes
  <2>3. Sum(p, K \ C) \in Int
    BY <2>1, SumInt
  <2> QED
    BY <2>2, <2>3
<1>5. Sum(p, K) = Sum(p, C) + Sum(p, K \ C)
  BY <1>3, SumUnion
<1>6. Sum(f, S) \in Int
  BY SumInt
<1> QED
  BY <1>1, <1>3, <1>4, <1>5, <1>6

\* Records that a key tells apart.
LEMMA RecordsSum ==
  ASSUME NEW K, IsFiniteSet(K), NEW h, \A x, y \in K : h[x] = h[y] => x = y,
         NEW c, NEW p, \A k \in K : p[k] = h[k][c] /\ p[k] \in Int
  PROVE  SumOf(c, Keys(K, h)) = Sum(p, K)
<1> DEFINE f == [g \in Keys(K, h) |-> g[c]]
<1>1. \A k \in K : p[k] = f[h[k]] /\ p[k] \in Int
  BY DEF Keys
<1>2. SumOf(c, Keys(K, h)) = Sum(f, Keys(K, h))
  BY SumOfIs
<1> HIDE DEF f
<1>3. Sum(f, Keys(K, h)) = Sum(p, K)
  BY <1>1, SumImage
<1> QED
  BY <1>2, <1>3

LEMMA SumOfSet ==
  ASSUME NEW c, NEW S, IsFiniteSet(S), NEW f, \A x \in S : f[x] = x[c] /\ f[x] \in Int
  PROVE  SumOf(c, S) = Sum(f, S) /\ SumOf(c, S) \in Int
<1> DEFINE g == [x \in S |-> x[c]]
<1>1. \A x \in S : g[x] = f[x]
  OBVIOUS
<1>2. SumOf(c, S) = Sum(g, S)
  BY SumOfIs
<1> HIDE DEF g
<1>3. Sum(g, S) = Sum(f, S)
  BY <1>1, SumSame
<1> QED
  BY <1>2, <1>3, SumInt

LEMMA TotalInt ==
  ASSUME NEW rows, Metering(rows), NEW some \in SUBSET rows
  PROVE  Metering(some) /\ Total(some) \in Int
<1> DEFINE f == [r \in some |-> Kwh(r[1])]
<1>1. Metering(some) /\ IsFiniteSet(some)
  BY FS_Subset DEF Metering
<1>2. \A r \in some : f[r] \in Int
  BY <1>1 DEF Metering
<1>3. Total(some) = Sum(f, some)
  BY TotalIs
<1> HIDE DEF f
<1> QED
  BY <1>1, <1>2, <1>3, SumInt

-----------------------------------------------------------------------------
\* A set of values is finite when it is taken from a finite set.
LEMMA KeysFinite ==
  ASSUME NEW S, IsFiniteSet(S), NEW h
  PROVE  IsFiniteSet(Keys(S, h)) /\ Cardinality(Keys(S, h)) <= Cardinality(S)
<1> DEFINE g == [x \in S |-> h[x]]
<1>1. g \in [S -> Keys(S, h)] /\ \A y \in Keys(S, h) : \E x \in S : g[x] = y
  BY DEF Keys
<1> HIDE DEF g
<1> QED
  BY <1>1, ImageCount

LineOf(q, k) == Line(Internal(q), FlowEntries(q), k[1], k[2])
RowKey(r) == <<RegionOf(r[2]), r[1].day>>
EntryKey(e) == <<e.region, e.key.day>>
LineKeys(q) == FinalRegions(q, {RowKey(r) : r \in Internal(q)} \cup {EntryKey(e) : e \in FlowEntries(q)})

LEMMA MeteredRows ==
  ASSUME TablesInv, NEW q
  PROVE  /\ Metering(Internal(q)) /\ Metering(AtBoundary(q))
         /\ Internal(q) \subseteq daily \X MeterRows /\ AtBoundary(q) \subseteq daily \X MeterRows
<1>1. Metered(q) \subseteq daily \X MeterRows
  BY DEF Metered
<1>2. Internal(q) \subseteq Metered(q) /\ AtBoundary(q) \subseteq Metered(q)
  BY DEF Internal, AtBoundary
<1> QED
  BY <1>1, <1>2, MeteringRows

\* Flows come from rows at the boundary, one for each key.
FlowsOK(flows) ==
  /\ IsFiniteSet(flows)
  /\ \A f \in flows : f.in \in Int /\ f.out \in Int
  /\ \A f, g \in flows : f.key = g.key => f = g

LEMMA FlowsFine ==
  ASSUME TablesInv, NEW q
  PROVE  FlowsOK(Flows(q))
<1> DEFINE rows == AtBoundary(q)
           Key(r) == [day |-> r[1].day, number |-> r[2].number, point |-> r[2].point, site |-> r[2].site]
           group(k) == {r \in rows : Key(r) = k}
           flow(k) == [key |-> k, a |-> Lower[k.point[1]], b |-> Lower[k.point[2]],
                       in |-> Total(OfSystem(group(k), "import_kwh")), out |-> Total(OfSystem(group(k), "export_kwh"))]
           K == {Key(r) : r \in rows}
           key == [r \in rows |-> Key(r)]
           h == [k \in K |-> flow(k)]
<1>1. Metering(rows) /\ IsFiniteSet(rows)
  BY MeteredRows DEF Metering
<1>2. Flows(q) = {flow(k) : k \in K}
  BY DEF Flows
<1>3. IsFiniteSet(Flows(q))
  <2>1. K = Keys(rows, key)
    BY DEF Keys
  <2>2. Flows(q) = Keys(K, h)
    BY <1>2 DEF Keys
  <2> HIDE DEF K, h, key, rows
  <2> QED
    BY <1>1, <2>1, <2>2, KeysFinite
<1>4. \A k : flow(k).in \in Int /\ flow(k).out \in Int
  <2> SUFFICES ASSUME NEW k PROVE flow(k).in \in Int /\ flow(k).out \in Int
    OBVIOUS
  <2>1. \A s : OfSystem(group(k), s) \in SUBSET rows
    BY DEF OfSystem
  <2>2. \A s : Total(OfSystem(group(k), s)) \in Int
    <3> HIDE DEF rows, group
    <3> QED
      BY <1>1, <2>1, TotalInt
  <2> HIDE DEF rows, group
  <2> QED
    BY <2>2
<1>5. \A k : flow(k).key = k
  OBVIOUS
<1> HIDE DEF flow, K
<1> QED
  BY <1>2, <1>3, <1>4, <1>5 DEF FlowsOK

-----------------------------------------------------------------------------
(* Flows between regions: what is added for each end.                      *)

\* The entries of the flows: those of the first ends and those of the second.
EndsA(flows) == {f \in flows : f.a \in ValidRegions}
EndsB(flows) == {f \in flows : f.b \in ValidRegions}

LEMMA Entries ==
  ASSUME NEW q
  PROVE  FlowEntries(q) = {FromA(f) : f \in EndsA(Flows(q))} \cup {FromB(f) : f \in EndsB(Flows(q))}
<1>1. \A f : FromA(f).region = f.a /\ FromB(f).region = f.b
  BY DEF FromA, FromB
<1>2. ASSUME NEW f \in Flows(q)
      PROVE  \A e : e \in {x \in {FromA(f), FromB(f)} : x.region \in ValidRegions}
                     <=> (e = FromA(f) /\ f \in EndsA(Flows(q))) \/ (e = FromB(f) /\ f \in EndsB(Flows(q)))
  BY <1>1 DEF EndsA, EndsB
<1>3. \A e : e \in FlowEntries(q)
              <=> \E f \in Flows(q) : (e = FromA(f) /\ f \in EndsA(Flows(q))) \/ (e = FromB(f) /\ f \in EndsB(Flows(q)))
  BY <1>2 DEF FlowEntries
<1>4. EndsA(Flows(q)) \subseteq Flows(q) /\ EndsB(Flows(q)) \subseteq Flows(q)
  BY DEF EndsA, EndsB
<1> QED
  BY <1>3, <1>4

\* What an end adds to the flow of its region.
Amount(e) == e.in - e.out

LEMMA EntriesSum ==
  ASSUME TablesInv, NEW q, NEW E, E = FlowEntries(q), NEW p, \A e \in E : p[e] = Amount(e)
  PROVE  /\ IsFiniteSet(E) /\ \A e \in E : e.in \in Int /\ e.out \in Int /\ p[e] \in Int
         /\ Sum(p, E) = Sum([f \in EndsA(Flows(q)) |-> Amount(f)], EndsA(Flows(q)))
                          - Sum([f \in EndsB(Flows(q)) |-> Amount(f)], EndsB(Flows(q)))
         /\ Sum(p, E) \in Int
<1> DEFINE flows == Flows(q)
           A == EndsA(flows)
           B == EndsB(flows)
           hA == [f \in A |-> FromA(f)]
           hB == [f \in B |-> FromB(f)]
           net(S) == [f \in S |-> Amount(f)]
           minus == [f \in B |-> Amount(f) * (-1)]
           EA == Keys(A, hA)
           EB == Keys(B, hB)
<1>1. FlowsOK(flows)
  BY FlowsFine
<1>2. IsFiniteSet(A) /\ IsFiniteSet(B) /\ A \subseteq flows /\ B \subseteq flows
  BY <1>1, FS_Subset DEF FlowsOK, EndsA, EndsB
<1>3. \A f \in flows : f.in \in Int /\ f.out \in Int /\ Amount(f) \in Int
  BY <1>1 DEF FlowsOK, Amount
<1>4. E = EA \cup EB
  BY Entries DEF Keys
<1>5. EA \cap EB = {}
  <2>1. \A f : FromA(f).side = "a" /\ FromB(f).side = "b"
    BY DEF FromA, FromB
  <2> QED
    BY <2>1 DEF Keys
<1>6. IsFiniteSet(EA) /\ IsFiniteSet(EB)
  <2> HIDE DEF A, B, hA, hB
  <2> QED
    BY <1>2, KeysFinite
<1>7. /\ \A f \in A : hA[f].in = f.in /\ hA[f].out = f.out
      /\ \A f \in B : hB[f].in = f.out /\ hB[f].out = f.in
  BY DEF FromA, FromB
<1>8. \A e \in E : e.in \in Int /\ e.out \in Int /\ p[e] \in Int
  <2>1. \A e \in E : e.in \in Int /\ e.out \in Int
    <3>1. /\ \A f \in A : hA[f].in \in Int /\ hA[f].out \in Int
          /\ \A f \in B : hB[f].in \in Int /\ hB[f].out \in Int
      BY <1>2, <1>3, <1>7
    <3> HIDE DEF A, B, hA, hB
    <3> QED
      BY <1>4, <3>1 DEF Keys
  <2> QED
    BY <2>1 DEF Amount
<1>9. Sum(p, EA) = Sum(net(A), A)
  <2>1. \A x, y \in A : hA[x] = hA[y] => x = y
    <3>1. \A f \in A : hA[f].key = f.key
      BY DEF FromA
    <3> HIDE DEF hA, A
    <3> QED
      BY <1>1, <1>2, <3>1 DEF FlowsOK
  <2>2. \A f \in A : net(A)[f] = p[hA[f]] /\ net(A)[f] \in Int
    <3> SUFFICES ASSUME NEW f \in A PROVE net(A)[f] = p[hA[f]] /\ net(A)[f] \in Int
      OBVIOUS
    <3>1. hA[f] \in E
      BY <1>4 DEF Keys
    <3>2. net(A)[f] = Amount(f) /\ Amount(f) \in Int
      BY <1>2, <1>3
    <3>3. p[hA[f]] = Amount(f)
      BY <1>7, <3>1 DEF Amount
    <3> QED
      BY <3>2, <3>3
  <2> HIDE DEF A, hA, net
  <2> QED
    BY <1>2, <2>1, <2>2, SumImage
<1>10. Sum(p, EB) = Sum(minus, B)
  <2>1. \A x, y \in B : hB[x] = hB[y] => x = y
    <3>1. \A f \in B : hB[f].key = f.key
      BY DEF FromB
    <3> HIDE DEF hB, B
    <3> QED
      BY <1>1, <1>2, <3>1 DEF FlowsOK
  <2>2. \A f \in B : minus[f] = p[hB[f]] /\ minus[f] \in Int
    <3> SUFFICES ASSUME NEW f \in B PROVE minus[f] = p[hB[f]] /\ minus[f] \in Int
      OBVIOUS
    <3>1. hB[f] \in E
      BY <1>4 DEF Keys
    <3>2. minus[f] = Amount(f) * (-1) /\ Amount(f) \in Int
      BY <1>2, <1>3
    <3>3. f.in \in Int /\ f.out \in Int
      BY <1>2, <1>3
    <3>4. p[hB[f]] = f.out - f.in
      BY <1>7, <3>1 DEF Amount
    <3>5. (f.in - f.out) * (-1) = f.out - f.in
      BY <3>3
    <3> HIDE DEF minus
    <3> QED
      BY <3>2, <3>4, <3>5 DEF Amount
  <2> HIDE DEF B, hB, minus
  <2> QED
    BY <1>2, <2>1, <2>2, SumImage
<1>11. Sum(minus, B) = Sum(net(B), B) * (-1)
  <2>1. \A f \in B : net(B)[f] \in Int /\ minus[f] = net(B)[f] * (-1)
    BY <1>2, <1>3
  <2> HIDE DEF B, net, minus
  <2> QED
    BY <1>2, <2>1, SumTimes
<1>12. Sum(p, E) = Sum(p, EA) + Sum(p, EB)
  <2>1. EA \in SUBSET E /\ E \ EA = EB
    BY <1>4, <1>5
  <2>2. IsFiniteSet(E)
    BY <1>4, <1>6, FS_Union
  <2> HIDE DEF EA, EB
  <2> QED
    BY <1>8, <2>1, <2>2, SumUnion
<1>13. Sum(net(A), A) \in Int /\ Sum(net(B), B) \in Int
  <2>1. (\A f \in A : net(A)[f] \in Int) /\ (\A f \in B : net(B)[f] \in Int)
    BY <1>2, <1>3
  <2> HIDE DEF A, B, net
  <2> QED
    BY <1>2, <2>1, SumInt
<1>14. IsFiniteSet(E)
  BY <1>4, <1>6, FS_Union
<1>15. Sum(p, E) = Sum(net(A), A) - Sum(net(B), B) /\ Sum(p, E) \in Int
  <2> HIDE DEF A, B, EA, EB, net, minus
  <2> QED
    BY <1>9, <1>10, <1>11, <1>12, <1>13
<1> QED
  BY <1>8, <1>14, <1>15

LEMMA NetIs ==
  ASSUME NEW S
  PROVE  Net(S) = Sum([f \in S |-> Amount(f)], S)
<1> DEFINE g == [f \in S |-> Amount(f)]
           first(s) == CHOOSE x \in s : TRUE
<1>1. Net(S) = (CHOOSE iter : iter = [s \in SUBSET S |-> IF s = {} THEN 0
                  ELSE Amount(first(s)) + iter[s \ {first(s)}]])[S]
  BY DEF Net, MapThenSumSet, MapThenFoldSet, Amount
<1>2. ASSUME NEW s \in SUBSET S, s # {} PROVE g[first(s)] = Amount(first(s))
  <2>1. first(s) \in S
    BY <1>2
  <2> HIDE DEF first
  <2> QED
    BY <2>1
<1> HIDE DEF g
<1>3. ASSUME NEW iter
      PROVE  Folds(iter, g, SUBSET S)
               <=> iter = [s \in SUBSET S |-> IF s = {} THEN 0
                             ELSE Amount(first(s)) + iter[s \ {first(s)}]]
  BY <1>2 DEF Folds
<1>4. Sum(g, S) = (CHOOSE iter : Folds(iter, g, SUBSET S))[S]
  BY SumIs
<1> QED
  BY <1>1, <1>3, <1>4, ZenonT(60) DEF g

LEMMA EndsCancel ==
  ASSUME TablesInv, NEW q
  PROVE  Net(EndsA(Flows(q))) - Net(EndsB(Flows(q)))
           = Net({f \in Flows(q) : f.a \in ValidRegions /\ f.b \notin ValidRegions})
               - Net({f \in Flows(q) : f.b \in ValidRegions /\ f.a \notin ValidRegions})
<1> DEFINE flows == Flows(q)
           A == EndsA(flows)
           B == EndsB(flows)
           leftA == {f \in flows : f.a \in ValidRegions /\ f.b \notin ValidRegions}
           leftB == {f \in flows : f.b \in ValidRegions /\ f.a \notin ValidRegions}
           both == A \cap B
           net == [f \in flows |-> Amount(f)]
<1>1. FlowsOK(flows)
  BY FlowsFine
<1>2. IsFiniteSet(flows) /\ \A f \in flows : net[f] \in Int
  BY <1>1 DEF FlowsOK, Amount
<1>3. ASSUME NEW S \in SUBSET flows PROVE Net(S) = Sum(net, S) /\ Net(S) \in Int
  <2> DEFINE g == [f \in S |-> Amount(f)]
  <2>1. IsFiniteSet(S) /\ \A f \in S : net[f] \in Int /\ g[f] = net[f]
    BY <1>2, FS_Subset
  <2>2. Net(S) = Sum(g, S)
    BY NetIs
  <2> HIDE DEF net, g
  <2>3. Sum(g, S) = Sum(net, S)
    BY <2>1, SumSame
  <2> QED
    BY <2>1, <2>2, <2>3, SumInt
<1>4. /\ A \in SUBSET flows /\ B \in SUBSET flows /\ both \in SUBSET A /\ both \in SUBSET B
      /\ A \ both = leftA /\ B \ both = leftB
  BY DEF EndsA, EndsB
<1>5. /\ Sum(net, A) = Sum(net, both) + Sum(net, leftA) /\ Sum(net, B) = Sum(net, both) + Sum(net, leftB)
  <2> HIDE DEF A, B, both, leftA, leftB, net, flows
  <2>1. IsFiniteSet(A) /\ IsFiniteSet(B) /\ (\A f \in A : net[f] \in Int) /\ \A f \in B : net[f] \in Int
    BY <1>2, <1>4, FS_Subset
  <2>2. Sum(net, A) = Sum(net, both) + Sum(net, A \ both)
    BY <1>4, <2>1, SumUnion
  <2>3. Sum(net, B) = Sum(net, both) + Sum(net, B \ both)
    BY <1>4, <2>1, SumUnion
  <2> QED
    BY <1>4, <2>2, <2>3
<1>6. {A, B, both, leftA, leftB} \subseteq SUBSET flows
  BY <1>4
<1> HIDE DEF A, B, both, leftA, leftB, net, flows
<1>7. Net(A) - Net(B) = Net(leftA) - Net(leftB)
  <2>1. /\ Net(A) = Sum(net, A) /\ Net(B) = Sum(net, B) /\ Net(leftA) = Sum(net, leftA)
        /\ Net(leftB) = Sum(net, leftB) /\ Net(both) = Sum(net, both)
        /\ {Net(A), Net(B), Net(leftA), Net(leftB), Net(both)} \subseteq Int
    BY <1>3, <1>6
  <2> QED
    BY <1>5, <2>1
<1> QED
  BY <1>7 DEF A, B, leftA, leftB, flows

-----------------------------------------------------------------------------
(* The lines of the balance: a region and a day.                           *)

LEMMA LineKeysFinite ==
  ASSUME TablesInv, NEW q
  PROVE  /\ IsFiniteSet(LineKeys(q)) /\ IsFiniteSet(FlowEntries(q)) /\ Metering(Internal(q))
         /\ \A k \in LineKeys(q) : k = <<k[1], k[2]>>
         /\ Lines(q) = {LineOf(q, k) : k \in LineKeys(q)}
         /\ \A e \in FlowEntries(q) : e.in \in Int /\ e.out \in Int
<1> DEFINE rows == Internal(q)
           E == FlowEntries(q)
           hr == [r \in rows |-> RowKey(r)]
           he == [e \in E |-> EntryKey(e)]
           p == [e \in E |-> Amount(e)]
<1>1. Metering(rows) /\ IsFiniteSet(rows)
  BY MeteredRows DEF Metering
<1>2. IsFiniteSet(E) /\ \A e \in E : e.in \in Int /\ e.out \in Int
  <2>1. E = FlowEntries(q) /\ \A e \in E : p[e] = Amount(e)
    OBVIOUS
  <2> HIDE DEF E, p
  <2>2. IsFiniteSet(E) /\ \A e \in E : e.in \in Int /\ e.out \in Int /\ p[e] \in Int
    BY <2>1, EntriesSum
  <2> QED
    BY <2>2
<1>3. IsFiniteSet(Keys(rows, hr)) /\ IsFiniteSet(Keys(E, he))
  <2> HIDE DEF rows, E, hr, he
  <2> QED
    BY <1>1, <1>2, KeysFinite
<1>4. Keys(rows, hr) = {RowKey(r) : r \in rows} /\ Keys(E, he) = {EntryKey(e) : e \in E}
  BY DEF Keys
<1>5. LineKeys(q) \subseteq {RowKey(r) : r \in rows} \cup {EntryKey(e) : e \in E}
  BY DEF LineKeys, FinalRegions
<1>6. IsFiniteSet(LineKeys(q))
  BY <1>3, <1>4, <1>5, FS_Union, FS_Subset
<1>7. \A k \in LineKeys(q) : k = <<k[1], k[2]>>
  BY <1>5 DEF RowKey, EntryKey
<1>8. Lines(q) = {LineOf(q, k) : k \in LineKeys(q)}
  BY DEF Lines, LineOf, LineKeys, RowKey, EntryKey
<1> QED
  BY <1>1, <1>2, <1>6, <1>7, <1>8

\* What is inside a region on a day, and what crosses its boundaries.
Here(q, k, t) == {r \in Internal(q) : RowKey(r) = k /\ r[2].type = t}
Across(q, k) == {e \in FlowEntries(q) : EntryKey(e) = k}

LEMMA LineFigures ==
  ASSUME TablesInv, NEW q, NEW k, k = <<k[1], k[2]>>
  PROVE  LET l == LineOf(q, k) IN
         /\ l.region = k[1] /\ l.day = k[2]
         /\ l.bsp = Total(Here(q, k, "BSP")) /\ l.dtx = Total(Here(q, k, "DTX"))
         /\ l.internal = l.bsp - l.dtx
         /\ l.in = SumOf("in", Across(q, k)) /\ l.out = SumOf("out", Across(q, k)) /\ l.net = l.in - l.out
         /\ l.total = l.internal + l.net
         /\ {l.bsp, l.dtx, l.internal, l.in, l.out, l.net, l.total} \subseteq Int
<1> DEFINE l == LineOf(q, k)
           here == {r \in Internal(q) : RegionOf(r[2]) = k[1] /\ r[1].day = k[2]}
           across == {e \in FlowEntries(q) : e.region = k[1] /\ e.key.day = k[2]}
<1>1. across = Across(q, k) /\ \A t : {r \in here : r[2].type = t} = Here(q, k, t)
  <2>1. \A x, y : <<x, y>> = k <=> x = k[1] /\ y = k[2]
    BY SMTT(30)
  <2> QED
    BY <2>1 DEF Across, EntryKey, Here, RowKey
<1>2. /\ l.region = k[1] /\ l.day = k[2]
      /\ l.bsp = Total({r \in here : r[2].type = "BSP"}) /\ l.dtx = Total({r \in here : r[2].type = "DTX"})
      /\ l.internal = Total({r \in here : r[2].type = "BSP"}) - Total({r \in here : r[2].type = "DTX"})
      /\ l.in = SumOf("in", across) /\ l.out = SumOf("out", across) /\ l.net = SumOf("in", across) - SumOf("out", across)
      /\ l.total = Total({r \in here : r[2].type = "BSP"}) - Total({r \in here : r[2].type = "DTX"})
                     + SumOf("in", across) - SumOf("out", across)
  BY DEF LineOf, Line, FlowOf
<1>3. \A t : Total(Here(q, k, t)) \in Int
  <2>1. \A t : Here(q, k, t) \in SUBSET Internal(q)
    BY DEF Here
  <2> QED
    BY <2>1, LineKeysFinite, TotalInt
<1>4. SumOf("in", Across(q, k)) \in Int /\ SumOf("out", Across(q, k)) \in Int
  <2> DEFINE S == Across(q, k)
             f == [e \in S |-> e.in]
             g == [e \in S |-> e.out]
  <2>1. IsFiniteSet(S) /\ \A e \in S : e.in \in Int /\ e.out \in Int
    BY LineKeysFinite, FS_Subset DEF Across
  <2>2. (\A e \in S : f[e] = e["in"] /\ f[e] \in Int) /\ \A e \in S : g[e] = e["out"] /\ g[e] \in Int
    BY <2>1
  <2> HIDE DEF S, f, g
  <2>3. SumOf("in", S) \in Int /\ SumOf("out", S) \in Int
    BY <2>1, <2>2, SumOfSet
  <2> QED
    BY <2>3 DEF S
<1> HIDE DEF l, here, across
<1>5. /\ l.bsp = Total(Here(q, k, "BSP")) /\ l.dtx = Total(Here(q, k, "DTX"))
      /\ l.in = SumOf("in", Across(q, k)) /\ l.out = SumOf("out", Across(q, k))
      /\ l.internal = l.bsp - l.dtx /\ l.net = l.in - l.out /\ l.total = l.bsp - l.dtx + l.in - l.out
  BY <1>1, <1>2
<1>6. l.bsp \in Int /\ l.dtx \in Int /\ l.in \in Int /\ l.out \in Int
  BY <1>3, <1>4, <1>5
<1>7. l.total = l.internal + l.net /\ l.internal \in Int /\ l.net \in Int /\ l.total \in Int
  BY <1>5, <1>6
<1> QED
  BY <1>2, <1>5, <1>6, <1>7 DEF l

\* The lines are told apart by region and day, so a column of theirs is summed up
\* by region and day.
LEMMA LinesSum ==
  ASSUME TablesInv, NEW q, NEW c, NEW p, \A k \in LineKeys(q) : p[k] = LineOf(q, k)[c] /\ p[k] \in Int
  PROVE  SumOf(c, Lines(q)) = Sum(p, LineKeys(q))
<1> DEFINE K == LineKeys(q)
           h == [k \in K |-> LineOf(q, k)]
<1>1. IsFiniteSet(K) /\ Lines(q) = Keys(K, h)
  BY LineKeysFinite DEF Keys
<1>2. \A x, y \in K : h[x] = h[y] => x = y
  <2> SUFFICES ASSUME NEW x \in K, NEW y \in K, LineOf(q, x) = LineOf(q, y) PROVE x = y
    OBVIOUS
  <2>1. x = <<x[1], x[2]>> /\ y = <<y[1], y[2]>>
    BY LineKeysFinite
  <2>2. /\ LineOf(q, x).region = x[1] /\ LineOf(q, x).day = x[2]
        /\ LineOf(q, y).region = y[1] /\ LineOf(q, y).day = y[2]
    BY <2>1, LineFigures
  <2> QED
    BY <2>1, <2>2
<1>3. \A k \in K : p[k] = h[k][c] /\ p[k] \in Int
  OBVIOUS
<1> HIDE DEF K, h
<1> QED
  BY <1>1, <1>2, <1>3, RecordsSum DEF K

-----------------------------------------------------------------------------
(* The balance and the flows, and the transformers.                        *)

LEMMA AcrossNet ==
  ASSUME TablesInv, NEW q, NEW k, NEW E, E = FlowEntries(q), NEW net, \A e \in E : net[e] = Amount(e)
  PROVE  SumOf("in", Across(q, k)) - SumOf("out", Across(q, k)) = Sum(net, Across(q, k))
<1> DEFINE S == Across(q, k)
           f == [e \in S |-> e.in]
           g == [e \in S |-> e.out]
<1>1. IsFiniteSet(S) /\ \A e \in S : e.in \in Int /\ e.out \in Int
  BY LineKeysFinite, FS_Subset DEF Across
<1>2. (\A e \in S : f[e] = e["in"] /\ f[e] \in Int) /\ \A e \in S : g[e] = e["out"] /\ g[e] \in Int
  BY <1>1
<1>3. \A e \in S : net[e] \in Int /\ f[e] = net[e] + g[e]
  BY <1>1 DEF Amount, Across
<1> HIDE DEF S, f, g
<1>4. SumOf("in", S) = Sum(f, S) /\ SumOf("out", S) = Sum(g, S)
  BY <1>1, <1>2, SumOfSet
<1>5. Sum(f, S) = Sum(net, S) + Sum(g, S)
  BY <1>1, <1>2, <1>3, SumPlus
<1>6. Sum(net, S) \in Int /\ Sum(g, S) \in Int
  BY <1>1, <1>2, <1>3, SumInt
<1> QED
  BY <1>4, <1>5, <1>6 DEF S

LEMMA FlowsCancelHold ==
  ASSUME TablesInv, NEW q, q.regions = {}
  PROVE  SumOf("net", Lines(q))
           = Net({f \in Flows(q) : f.a \in ValidRegions /\ f.b \notin ValidRegions})
               - Net({f \in Flows(q) : f.b \in ValidRegions /\ f.a \notin ValidRegions})
<1> DEFINE E == FlowEntries(q)
           K == LineKeys(q)
           he == [e \in E |-> EntryKey(e)]
           net == [e \in E |-> Amount(e)]
           p == [k \in K |-> LineOf(q, k).net]
<1>1. E = FlowEntries(q) /\ \A e \in E : net[e] = Amount(e)
  OBVIOUS
<1>2. IsFiniteSet(K) /\ \A k \in K : k = <<k[1], k[2]>>
  BY LineKeysFinite
<1>3. Keys(E, he) \subseteq K
  BY DEF Keys, LineKeys, FinalRegions, Passes, LowerAll
<1>4. \A k : Part(E, he, k) = Across(q, k)
  BY DEF Part, Across
<1>5. \A k \in K : p[k] = LineOf(q, k)["net"] /\ p[k] \in Int
  BY <1>2, LineFigures
<1>6. ASSUME NEW k \in K PROVE p[k] = Sum(net, Part(E, he, k))
  <2>1. p[k] = SumOf("in", Across(q, k)) - SumOf("out", Across(q, k))
    BY <1>2, LineFigures
  <2> HIDE DEF E, net, p, K, he
  <2>2. SumOf("in", Across(q, k)) - SumOf("out", Across(q, k)) = Sum(net, Across(q, k))
    BY <1>1, AcrossNet
  <2> QED
    BY <1>4, <2>1, <2>2
<1> DEFINE A == EndsA(Flows(q))
           B == EndsB(Flows(q))
           netA == [f \in A |-> Amount(f)]
           netB == [f \in B |-> Amount(f)]
<1>7. Net(A) = Sum(netA, A) /\ Net(B) = Sum(netB, B)
  BY NetIs
<1>8. /\ IsFiniteSet(E) /\ \A e \in E : e.in \in Int /\ e.out \in Int /\ net[e] \in Int
      /\ Sum(net, E) = Sum(netA, A) - Sum(netB, B)
      /\ Sum(net, E) \in Int
  <2> HIDE DEF E, net
  <2> QED
    BY <1>1, EntriesSum
<1> HIDE DEF E, K, he, net, p, A, B, netA, netB
<1>9. SumOf("net", Lines(q)) = Sum(p, K)
  BY <1>5, LinesSum DEF K
<1>10. Sum(p, K) = Sum(net, E)
  <2>1. \A e \in E : net[e] \in Int
    BY <1>8
  <2>2. (\A k \in K : p[k] \in Int) /\ Sum(p, K) = Sum(net, E)
    BY <1>2, <1>3, <1>6, <1>8, <2>1, SumOver
  <2> QED
    BY <2>2
<1>11. SumOf("net", Lines(q)) = Net(A) - Net(B)
  BY <1>7, <1>8, <1>9, <1>10
<1> QED
  BY <1>11, EndsCancel DEF A, B

LEMMA TotalOver ==
  ASSUME NEW rows, Metering(rows), NEW h, NEW K, IsFiniteSet(K), Keys(rows, h) \subseteq K,
         NEW p, \A k \in K : p[k] = Total(Part(rows, h, k))
  PROVE  (\A k \in K : p[k] \in Int) /\ Sum(p, K) = Total(rows)
<1> DEFINE f == [r \in rows |-> Kwh(r[1])]
<1>1. IsFiniteSet(rows) /\ \A r \in rows : f[r] \in Int
  BY DEF Metering
<1>2. ASSUME NEW k \in K PROVE p[k] = Sum(f, Part(rows, h, k))
  <2> DEFINE g == [r \in Part(rows, h, k) |-> Kwh(r[1])]
  <2>1. IsFiniteSet(Part(rows, h, k)) /\ Part(rows, h, k) \subseteq rows
    BY <1>1, FS_Subset DEF Part
  <2>2. \A r \in Part(rows, h, k) : g[r] = f[r] /\ f[r] \in Int
    BY <1>1, <2>1
  <2>3. Sum(g, Part(rows, h, k)) = Total(Part(rows, h, k))
    BY TotalIs
  <2> HIDE DEF f, g
  <2>4. Sum(g, Part(rows, h, k)) = Sum(f, Part(rows, h, k))
    BY <2>1, <2>2, SumSame
  <2> QED
    BY <2>3, <2>4
<1>3. Sum(f, rows) = Total(rows)
  BY TotalIs
<1> HIDE DEF f
<1>4. (\A k \in K : p[k] \in Int) /\ Sum(p, K) = Sum(f, rows)
  BY <1>1, <1>2, SumOver
<1> QED
  BY <1>3, <1>4

\* The transformers of the balance are those of their own report.
LEMMA TransformerRows ==
  ASSUME NEW q, q.points = {}, q.types = {}
  PROVE  {r \in Internal(q) : r[2].type = "DTX"} = OfMapping(Typed(q, {"DTX"}), "import_kwh")
<1> DEFINE L == {r \in Internal(q) : r[2].type = "DTX"}
           R == OfMapping(Typed(q, {"DTX"}), "import_kwh")
<1>1. \A m : PlaceFilters(q, m) <=> /\ Passes(LowerAll(q.regions), Lower[m.region])
                                    /\ Passes(LowerAll(q.districts), Lower[m.district])
                                    /\ Passes(LowerAll(q.sites), Lower[m.site])
  BY DEF PlaceFilters, AtPoint
<1>2. "DTX" # Null /\ "import_kwh" # Null
  BY NamesAssumption, TablesAssumption DEF MeterTypes, Kilowatts
<1>3. ASSUME NEW r \in L PROVE r \in R
  <2>1. /\ r[2].type = "DTX" /\ r = <<r[1], r[2]>> /\ r[1] \in daily /\ r[2] \in MeterRows
        /\ r[2].number = r[1].number /\ r[1].item \in DOMAIN Mapping /\ ReadingFilters(q, r[1])
        /\ PlaceFilters(q, r[2]) /\ System(r[1]) = "import_kwh"
    BY <1>1 DEF Internal, Metered
  <2>2. r \in Joined(q) /\ Mapping[r[1].item] = "import_kwh"
    BY <2>1, JoinedRows DEF System
  <2> QED
    BY <2>1, <2>2 DEF OfMapping, Typed
<1>4. ASSUME NEW r \in R PROVE r \in L
  <2>1. r \in Joined(q) /\ r[2].type = "DTX" /\ Mapping[r[1].item] = "import_kwh"
    BY DEF OfMapping, Typed
  <2>2. /\ r = <<r[1], r[2]>> /\ r[1] \in daily /\ r[1].item \in DOMAIN Mapping /\ ReadingFilters(q, r[1])
        /\ PlaceFilters(q, r[2]) /\ r[2] \in MeterRows /\ r[2].number = r[1].number
    BY <1>2, <2>1, JoinedRows
  <2>3. r[1].item # NoData /\ System(r[1]) = "import_kwh"
    BY <2>1, <2>2, TablesAssumption DEF System
  <2>4. r \in Metered(q)
    BY <1>1, <2>2, <2>3 DEF Metered
  <2> QED
    BY <1>1, <2>1, <2>2, <2>3, <2>4 DEF Internal
<1> QED
  BY <1>3, <1>4

\* A meter inside that passes the filter of the regions is in a line that does.
LEMMA InsideIsShown ==
  ASSUME NEW q, NEW r \in Internal(q)
  PROVE  RowKey(r) \in LineKeys(q)
<1>1. Passes(LowerAll(q.regions), Lower[r[2].region])
  BY DEF Internal
<1>2. Passes(LowerAll(q.regions), RegionOf(r[2]))
  BY <1>1, NamesAssumption DEF Passes, RegionOf
<1>3. RowKey(r)[1] = RegionOf(r[2])
  BY DEF RowKey
<1> QED
  BY <1>2, <1>3 DEF LineKeys, FinalRegions

LEMMA TransformersHold ==
  ASSUME TablesInv, NEW q, q.points = {}, q.types = {}
  PROVE  SumOf("dtx", Lines(q)) = Total(OfMapping(Typed(q, {"DTX"}), "import_kwh"))
<1> DEFINE rows == {r \in Internal(q) : r[2].type = "DTX"}
           K == LineKeys(q)
           h == [r \in Internal(q) |-> RowKey(r)]
           p == [k \in K |-> LineOf(q, k).dtx]
<1>1. Metering(rows)
  BY MeteredRows, TotalInt
<1>2. IsFiniteSet(K) /\ \A k \in K : k = <<k[1], k[2]>>
  BY LineKeysFinite
<1>3. Keys(rows, h) \subseteq K
  BY InsideIsShown DEF Keys
<1>4. \A k \in K : p[k] = LineOf(q, k)["dtx"] /\ p[k] \in Int /\ p[k] = Total(Here(q, k, "DTX"))
  BY <1>2, LineFigures
<1>5. \A k : Here(q, k, "DTX") = Part(rows, h, k)
  BY DEF Here, Part
<1>6. rows = OfMapping(Typed(q, {"DTX"}), "import_kwh")
  BY TransformerRows
<1> HIDE DEF rows, K, h, p
<1>7. SumOf("dtx", Lines(q)) = Sum(p, K)
  BY <1>4, LinesSum DEF K
<1>8. \A k \in K : p[k] = Total(Part(rows, h, k))
  BY <1>4, <1>5
<1>9. (\A k \in K : p[k] \in Int) /\ Sum(p, K) = Total(rows)
  BY <1>1, <1>2, <1>3, <1>8, TotalOver
<1> QED
  BY <1>6, <1>7, <1>9

-----------------------------------------------------------------------------
(* The balance of some regions, and its summary.                           *)

\* The lines of some regions are those lines of the whole balance.
LEMMA LinesOfRegions ==
  ASSUME TablesInv, NEW q \in Queries, UnknownRegion \notin LowerAll(q.regions),
         NEW p, p = [q EXCEPT !.regions = {}]
  PROVE  Lines(q) = {l \in Lines(p) : Passes(LowerAll(q.regions), l.region)}
<1> DEFINE In(x) == Passes(LowerAll(q.regions), x)
<1>1. /\ p.regions = {} /\ p.from = q.from /\ p.to = q.to /\ p.numbers = q.numbers
      /\ p.districts = q.districts /\ p.sites = q.sites /\ p.points = q.points /\ p.types = q.types
      /\ p.byStation = q.byStation
  BY HandlersAssumption DEF Parameters
<1>2. Metered(p) = Metered(q) /\ InternalTypes(p) = InternalTypes(q)
  BY <1>1 DEF Metered, ReadingFilters, InDates, InternalTypes
<1>3. AtBoundary(p) = AtBoundary(q)
  BY <1>1, <1>2 DEF AtBoundary, AtWholePoint
<1>4. FlowEntries(p) = FlowEntries(q)
  <2>1. Flows(p) = Flows(q)
    BY <1>3, ZenonT(60) DEF Flows
  <2> QED
    BY <2>1 DEF FlowEntries
<1>5. Internal(q) = {r \in Internal(p) : In(Lower[r[2].region])}
  BY <1>1, <1>2 DEF Internal, Passes, LowerAll
<1>6. ASSUME NEW r \in Internal(p), In(RegionOf(r[2])) PROVE r \in Internal(q)
  <2>1. In(Lower[r[2].region])
    BY <1>6 DEF Passes, RegionOf
  <2> QED
    BY <1>5, <2>1
<1>7. ASSUME NEW r \in Internal(q) PROVE r \in Internal(p) /\ In(RegionOf(r[2]))
  <2>1. r \in Internal(p) /\ In(Lower[r[2].region])
    BY <1>5
  <2> QED
    BY <2>1, NamesAssumption DEF Passes, RegionOf
<1> HIDE DEF In
<1>8. LineKeys(q) = {k \in LineKeys(p) : In(k[1])}
  <2>1. LineKeys(p) = {RowKey(r) : r \in Internal(p)} \cup {EntryKey(e) : e \in FlowEntries(q)}
    BY <1>1, <1>4 DEF LineKeys, FinalRegions, Passes, LowerAll
  <2>2. LineKeys(q) = {k \in {RowKey(r) : r \in Internal(q)} \cup {EntryKey(e) : e \in FlowEntries(q)} : In(k[1])}
    BY DEF LineKeys, FinalRegions, In
  <2>3. \A r : RowKey(r)[1] = RegionOf(r[2])
    BY DEF RowKey
  <2>4. \A r \in Internal(p) : In(RowKey(r)[1]) => r \in Internal(q)
    BY <1>6, <2>3
  <2>5. Internal(q) \subseteq Internal(p)
    BY <1>7
  <2> QED
    BY <2>1, <2>2, <2>4, <2>5
<1>9. ASSUME NEW k, In(k[1]) PROVE LineOf(q, k) = LineOf(p, k)
  <2>1. {r \in Internal(q) : RegionOf(r[2]) = k[1] /\ r[1].day = k[2]}
          = {r \in Internal(p) : RegionOf(r[2]) = k[1] /\ r[1].day = k[2]}
    BY <1>6, <1>7, <1>9
  <2> QED
    BY <1>4, <2>1, ZenonT(60) DEF LineOf, Line
<1>10. \A k \in LineKeys(p) : LineOf(p, k).region = k[1]
  BY LineKeysFinite, LineFigures
<1>11. /\ Lines(q) = {LineOf(q, k) : k \in LineKeys(q)} /\ Lines(p) = {LineOf(p, k) : k \in LineKeys(p)}
  <2>1. Lines(q) = {LineOf(q, k) : k \in LineKeys(q)}
    BY LineKeysFinite
  <2>2. \A x : Lines(x) = {LineOf(x, k) : k \in LineKeys(x)}
    BY DEF Lines, LineOf, LineKeys, RowKey, EntryKey
  <2> QED
    BY <2>1, <2>2
<1>12. Lines(q) = {l \in Lines(p) : In(l.region)}
  <2>1. ASSUME NEW l \in Lines(q) PROVE l \in Lines(p) /\ In(l.region)
    <3>1. PICK k \in LineKeys(q) : l = LineOf(q, k)
      BY <1>11
    <3>2. k \in LineKeys(p) /\ In(k[1])
      BY <1>8
    <3>3. l = LineOf(p, k) /\ l.region = k[1]
      BY <1>9, <1>10, <3>1, <3>2
    <3> QED
      BY <1>11, <3>2, <3>3
  <2>2. ASSUME NEW l \in Lines(p), In(l.region) PROVE l \in Lines(q)
    <3>1. PICK k \in LineKeys(p) : l = LineOf(p, k)
      BY <1>11
    <3>2. In(k[1])
      BY <1>10, <2>2, <3>1
    <3>3. k \in LineKeys(q) /\ l = LineOf(q, k)
      BY <1>8, <1>9, <3>1, <3>2
    <3> QED
      BY <1>11, <3>3
  <2> QED
    BY <2>1, <2>2
<1> QED
  BY <1>12 DEF In

\* The columns that are added up.
Sums == {"bsp", "dtx", "internal", "net", "total"}

LEMMA LinesFine ==
  ASSUME TablesInv, NEW q
  PROVE  IsFiniteSet(Lines(q)) /\ \A l \in Lines(q) : \A c \in Sums : l[c] \in Int
<1> DEFINE K == LineKeys(q)
           h == [k \in K |-> LineOf(q, k)]
<1>1. IsFiniteSet(K) /\ Lines(q) = Keys(K, h) /\ Lines(q) = {LineOf(q, k) : k \in K}
  BY LineKeysFinite DEF Keys
<1>2. \A k \in K : \A c \in Sums : LineOf(q, k)[c] \in Int
  BY LineKeysFinite, LineFigures DEF Sums
<1> HIDE DEF K, h
<1>3. IsFiniteSet(Lines(q))
  BY <1>1, KeysFinite
<1> QED
  BY <1>1, <1>2, <1>3

\* The summary, region by region.
LEMMA SummarySums ==
  ASSUME NEW lines, IsFiniteSet(lines), \A l \in lines : \A c \in Sums : l[c] \in Int,
         NEW summary,
         summary = {RegionSums({l \in lines : l.region = region}, region) : region \in {l.region : l \in lines}}
  PROVE  /\ \A c \in Sums : SumOf(c, summary) = SumOf(c, lines)
         /\ SumOf("days", summary) = Cardinality(lines)
<1> DEFINE h == [l \in lines |-> l.region]
           K == Keys(lines, h)
           s == [k \in K |-> RegionSums(Part(lines, h, k), k)]
<1>1. IsFiniteSet(K)
  <2> HIDE DEF h
  <2> QED
    BY KeysFinite
<1>2. summary = Keys(K, s)
  <2>1. K = {l.region : l \in lines}
    BY DEF Keys
  <2>2. \A k : Part(lines, h, k) = {l \in lines : l.region = k}
    BY DEF Part
  <2>3. \A k \in K : s[k] = RegionSums({l \in lines : l.region = k}, k)
    BY <2>2
  <2> HIDE DEF K, h, s
  <2> QED
    BY <2>1, <2>3 DEF Keys
<1>3. \A x, y \in K : s[x] = s[y] => x = y
  <2>1. \A k \in K : s[k].region = k
    BY DEF RegionSums
  <2> HIDE DEF K, s
  <2> QED
    BY <2>1
<1>4. \A k \in K : s[k].days = Cardinality(Part(lines, h, k))
  BY DEF RegionSums
<1>5. \A k \in K : \A c \in Sums : s[k][c] = SumOf(c, Part(lines, h, k))
  BY DEF RegionSums, Sums
<1>6. \A k : Part(lines, h, k) \in SUBSET lines /\ IsFiniteSet(Part(lines, h, k))
  BY FS_Subset DEF Part
<1>7. ASSUME NEW c \in Sums PROVE SumOf(c, summary) = SumOf(c, lines)
  <2> DEFINE f == [l \in lines |-> l[c]]
             p == [k \in K |-> s[k][c]]
  <2>1. \A l \in lines : f[l] = l[c] /\ f[l] \in Int
    OBVIOUS
  <2>2. \A k \in K : p[k] = s[k][c] /\ p[k] = SumOf(c, Part(lines, h, k))
    BY <1>5
  <2>3. K = Keys(lines, h)
    OBVIOUS
  <2> HIDE DEF f, p, K, s, h
  <2>4. \A k \in K : p[k] = Sum(f, Part(lines, h, k))
    BY <1>6, <2>1, <2>2, SumOfSet
  <2>5. IsFiniteSet(K) /\ (\A k \in K : p[k] \in Int) /\ Sum(p, K) = Sum(f, lines)
    BY <2>1, <2>3, <2>4, SumParts
  <2>6. SumOf(c, Keys(K, s)) = Sum(p, K)
    BY <1>1, <1>3, <2>2, <2>5, RecordsSum
  <2>7. SumOf(c, lines) = Sum(f, lines)
    BY <2>1, SumOfSet
  <2> QED
    BY <1>2, <2>5, <2>6, <2>7
<1>8. SumOf("days", summary) = Cardinality(lines)
  <2> DEFINE f == [l \in lines |-> 1]
             p == [k \in K |-> s[k].days]
  <2>1. \A l \in lines : f[l] = 1 /\ f[l] \in Int
    OBVIOUS
  <2>2. \A k \in K : p[k] = s[k]["days"] /\ p[k] = Cardinality(Part(lines, h, k))
    BY <1>4
  <2>3. K = Keys(lines, h)
    OBVIOUS
  <2> HIDE DEF f, p, K, s, h
  <2>4. \A k \in K : p[k] = Sum(f, Part(lines, h, k))
    <3> SUFFICES ASSUME NEW k \in K PROVE p[k] = Sum(f, Part(lines, h, k))
      OBVIOUS
    <3>1. \A l \in Part(lines, h, k) : f[l] = 1
      BY <1>6, <2>1
    <3> QED
      BY <1>6, <2>2, <3>1, SumOnes
  <2>5. IsFiniteSet(K) /\ (\A k \in K : p[k] \in Int) /\ Sum(p, K) = Sum(f, lines)
    BY <2>1, <2>3, <2>4, SumParts
  <2>6. SumOf("days", Keys(K, s)) = Sum(p, K)
    BY <1>1, <1>3, <2>2, <2>5, RecordsSum
  <2>7. Cardinality(lines) = Sum(f, lines)
    BY <2>1, SumOnes
  <2> QED
    BY <1>2, <2>5, <2>6, <2>7
<1> QED
  BY <1>7, <1>8

LEMMA BalanceIs ==
  ASSUME NEW q, HandleGetRegionalEnergyBalance(q).status = 200
  PROVE  /\ HandleGetRegionalEnergyBalance(q).body = BalanceOf(Lines(q))
         /\ GetRegionalEnergyBalance(q) = BalanceOf(Lines(q)) /\ BalanceOf(Lines(q)) # Failed
<1>1. /\ GetRegionalEnergyBalance(q) # Failed
      /\ HandleGetRegionalEnergyBalance(q).body = GetRegionalEnergyBalance(q)
  BY DEF HandleGetRegionalEnergyBalance, Ranged, Answer, BadRequest
<1> QED
  BY <1>1 DEF GetRegionalEnergyBalance

\* Exports and imports of the lines of GetRegionalEnergyBalance cancel but for the
\* flows that have a region at one end only; asked for some regions it has the lines
\* of those in the whole balance; its transformers deliver what
\* GetDTXDailyConsumption says; GetRegionalEnergyBalanceSummary adds up to it.
THEOREM BalancesAgree == Spec => []BalanceAgrees
<1>1. TablesInv => BalanceAgrees
  <2> SUFFICES ASSUME TablesInv, NEW q \in Queries, HandleGetRegionalEnergyBalance(q).status = 200
               PROVE  LET balance == HandleGetRegionalEnergyBalance(q).body IN
      /\ q.regions = {} => FlowsCancel(q, balance)
      /\ UnknownRegion \notin LowerAll(q.regions) =>
           Given(HandleGetRegionalEnergyBalance([q EXCEPT !.regions = {}]), LAMBDA whole :
             balance.data = {l \in whole.data : Passes(LowerAll(q.regions), l.region)})
      /\ q.points = {} /\ q.types = {} => Given(HandleGetDTXDailyConsumption(q), LAMBDA days :
           balance.dtx = SumOf("kwh", InSystem(days, "import_kwh")))
      /\ Given(HandleGetRegionalEnergyBalanceSummary(q), LAMBDA summary :
           \A f \in {"days", "bsp", "dtx", "internal", "net", "total"} : SumOf(f, summary) = balance[f])
    BY DEF BalanceAgrees, Given
  <2> DEFINE lines == Lines(q)
             balance == BalanceOf(lines)
             p == [q EXCEPT !.regions = {}]
  <2>1. /\ HandleGetRegionalEnergyBalance(q).body = balance
        /\ GetRegionalEnergyBalance(q) = balance /\ balance # Failed
    BY BalanceIs
  <2>2. /\ balance.data = lines /\ balance.days = Cardinality(lines)
        /\ balance.dtx = SumOf("dtx", lines) /\ balance.net = SumOf("net", lines)
        /\ \A c \in Sums : balance[c] = SumOf(c, lines)
    BY DEF BalanceOf, Sums
  <2>3. q.regions = {} => FlowsCancel(q, balance)
    BY <2>2, FlowsCancelHold DEF FlowsCancel
  <2>4. ASSUME UnknownRegion \notin LowerAll(q.regions), HandleGetRegionalEnergyBalance(p).status = 200
        PROVE  balance.data = {l \in HandleGetRegionalEnergyBalance(p).body.data : Passes(LowerAll(q.regions), l.region)}
    <3>1. HandleGetRegionalEnergyBalance(p).body.data = Lines(p)
      <4>1. HandleGetRegionalEnergyBalance(p).body = BalanceOf(Lines(p))
        <5> HIDE DEF p
        <5> QED
          BY <2>4, BalanceIs
      <4>2. BalanceOf(Lines(p)).data = Lines(p)
        <5> HIDE DEF p
        <5> QED
          BY DEF BalanceOf
      <4> QED
        BY <4>1, <4>2
    <3>2. p = [q EXCEPT !.regions = {}]
      OBVIOUS
    <3> HIDE DEF p, balance, lines
    <3>3. Lines(q) = {l \in Lines(p) : Passes(LowerAll(q.regions), l.region)}
      BY <2>4, <3>2, LinesOfRegions
    <3> QED
      BY <2>2, <3>1, <3>3 DEF lines
  <2>5. ASSUME q.points = {}, q.types = {}, HandleGetDTXDailyConsumption(q).status = 200
        PROVE  balance.dtx = SumOf("kwh", InSystem(HandleGetDTXDailyConsumption(q).body, "import_kwh"))
    <3> DEFINE rows == Typed(q, {"DTX"})
    <3>1. HandleGetDTXDailyConsumption(q).body = DailyReport(rows, PlaceColumns)
      BY <2>5 DEF HandleGetDTXDailyConsumption, Dated, Answer, BadRequest, GetDTXDailyConsumption
    <3>2. SumOf("kwh", InSystem(DailyReport(rows, PlaceColumns), "import_kwh")) = Total(OfMapping(rows, "import_kwh"))
      BY TypedRows, DailySums
    <3>3. SumOf("dtx", lines) = Total(OfMapping(rows, "import_kwh"))
      BY <2>5, TransformersHold
    <3> HIDE DEF rows, balance, lines
    <3> QED
      BY <2>2, <3>1, <3>2, <3>3
  <2>6. ASSUME HandleGetRegionalEnergyBalanceSummary(q).status = 200,
               NEW f \in {"days", "bsp", "dtx", "internal", "net", "total"}
        PROVE  SumOf(f, HandleGetRegionalEnergyBalanceSummary(q).body) = balance[f]
    <3> DEFINE summary == {RegionSums({l \in lines : l.region = region}, region) : region \in {l.region : l \in lines}}
    <3>1. GetRegionalEnergyBalanceSummary(q) = summary
      BY <2>1, <2>2 DEF GetRegionalEnergyBalanceSummary, SummaryOf
    <3>2. HandleGetRegionalEnergyBalanceSummary(q).body = GetRegionalEnergyBalanceSummary(q)
      BY <2>6 DEF HandleGetRegionalEnergyBalanceSummary, Ranged, Answer, BadRequest
    <3>3. IsFiniteSet(lines) /\ \A l \in lines : \A c \in Sums : l[c] \in Int
      BY LinesFine
    <3>4. /\ \A c \in Sums : SumOf(c, summary) = SumOf(c, lines)
          /\ SumOf("days", summary) = Cardinality(lines)
      <4> HIDE DEF lines
      <4> QED
        BY <3>3, SummarySums
    <3>5. f \in Sums \/ f = "days"
      BY DEF Sums
    <3> HIDE DEF summary, balance, lines
    <3> QED
      BY <2>2, <3>1, <3>2, <3>4, <3>5
  <2> HIDE DEF balance
  <2> QED
    BY <2>1, <2>3, <2>4, <2>5, <2>6, ZenonT(60) DEF Given
<1> QED
  BY <1>1, TablesStay, PTL

-----------------------------------------------------------------------------
(* Places: the names of a meter and the areas it lies in stay known.       *)

LEMMA PlacesSubmitted ==
  ASSUME NEW id, NEW in \in MeterInputs
  PROVE  PlaceOK([in EXCEPT !.id = id])
<1>1. PlaceOK(in) /\ DOMAIN in = DOMAIN NoMeter \cup {"deleted"}
  BY MapAssumption, RowsAssumption
<1> QED
  BY <1>1 DEF PlaceOK, NoMeter

LEMMA PlacesRetired ==
  ASSUME NEW id, NEW m, MeterOK(m, id), PlaceOK(m)
  PROVE  PlaceOK([m EXCEPT !.deleted = TRUE])
BY DEF PlaceOK, MeterOK, NoMeter

\* Every row of app.meters is well placed in the sense of MapAssumption.
PlacesInv == \A id \in DOMAIN meters : PlaceOK(meters[id])

LEMMA InitPlaces == Init => PlacesInv
BY MapAssumption DEF Init, PlacesInv

LEMMA NextPlaces == TablesInv /\ PlacesInv /\ [Next]_vars => PlacesInv'
<1> SUFFICES ASSUME TablesInv, PlacesInv, [Next]_vars PROVE PlacesInv'
  OBVIOUS
<1>0. PlacesInv' <=> \A id \in DOMAIN meters' : PlaceOK(meters'[id])
  BY DEF PlacesInv
<1>1. ASSUME NEW in \in MeterInputs, CreateMeter(in)
      PROVE  PlacesInv'
  <2>1. \A id : PlaceOK([in EXCEPT !.id = id])
    BY PlacesSubmitted
  <2>2. \A id \in DOMAIN meters' : \/ id \in DOMAIN meters /\ meters'[id] = meters[id]
                                   \/ meters'[id] = [in EXCEPT !.id = id]
    BY <1>1, AddedRow DEF CreateMeter, TablesInv
  <2> QED
    BY <1>0, <2>1, <2>2 DEF PlacesInv
<1>2. ASSUME NEW in \in MeterInputs, NEW id \in DOMAIN meters, UpdateMeter(id, in)
      PROVE  PlacesInv'
  <2> DEFINE x == [in EXCEPT !.id = id]
  <2>1. PlaceOK(x)
    BY PlacesSubmitted
  <2>2. meters' = [meters EXCEPT ![id] = x]
    BY <1>2 DEF UpdateMeter
  <2> HIDE DEF x
  <2>3. \A i \in DOMAIN meters' : PlaceOK(meters'[i])
    BY <2>1, <2>2 DEF PlacesInv
  <2> QED
    BY <1>0, <2>3
<1>3. ASSUME NEW id \in DOMAIN meters, SoftDeleteMeter(id)
      PROVE  PlacesInv'
  <2> DEFINE x == [meters[id] EXCEPT !.deleted = TRUE]
  <2>1. PlaceOK(x)
    BY PlacesRetired, TablesByRow DEF PlacesInv
  <2>2. meters' = [meters EXCEPT ![id] = x]
    BY <1>3 DEF SoftDeleteMeter
  <2> HIDE DEF x
  <2>3. \A i \in DOMAIN meters' : PlaceOK(meters'[i])
    BY <2>1, <2>2 DEF PlacesInv
  <2> QED
    BY <1>0, <2>3
<1>4. UNCHANGED meters => PlacesInv'
  BY <1>0 DEF PlacesInv
<1>5. ASSUME NEW in \in FeederInputs, CreateExpressFeeder(in) PROVE PlacesInv'
  BY <1>4, <1>5 DEF CreateExpressFeeder
<1>6. ASSUME NEW in \in FeederInputs, NEW id \in DOMAIN feeders, UpdateExpressFeeder(id, in)
      PROVE  PlacesInv'
  BY <1>4, <1>6 DEF UpdateExpressFeeder
<1>7. ASSUME NEW id \in DOMAIN feeders, SoftDeleteExpressFeeder(id) PROVE PlacesInv'
  BY <1>4, <1>7 DEF SoftDeleteExpressFeeder
<1>8. ASSUME NEW r \in Readings, Load(r) PROVE PlacesInv'
  BY <1>4, <1>8 DEF Load
<1>9. CASE UNCHANGED vars
  BY <1>4, <1>9 DEF vars
<1> QED
  BY <1>1, <1>2, <1>3, <1>5, <1>6, <1>7, <1>8, <1>9
  DEF Next, PostMeter, PutMeter, DeleteMeter, PostExpressFeeder, PutExpressFeeder, DeleteExpressFeeder

LEMMA PlacesStay == Spec => []PlacesInv
BY InitPlaces, NextPlaces, TablesStay, PTL DEF Spec

-----------------------------------------------------------------------------
(* The lists of values a filter can be given.                              *)

\* No set of names or of areas, and none of the reports of the map, is Failed.
FailedIsNoReport ==
  /\ FailedIsNoPage
  /\ Failed \notin SUBSET (DOMAIN Lower) /\ Failed \notin SUBSET Seq(DOMAIN Lower)
  /\ \A d, t, m : Failed # [data |-> d, total |-> t, mismatched |-> m]
  /\ \A t, p, u, i, o, r, d :
       Failed # [total |-> t, placed |-> p, unplaced |-> u, inArea |-> i, outside |-> o,
                 ofRegion |-> r, ofDistrict |-> d]

\* A meter that the filters let through is counted.
LEMMA Found ==
  ASSUME TablesInv, NEW q, NEW m \in StatusRows(q)
  PROVE  Finds(q)
<1>1. IsFiniteSet(StatusRows(q)) /\ IsFiniteSet(Numbers(StatusRows(q)))
  BY RowsFinite, NumbersCount
<1>2. m.number \in Numbers(StatusRows(q))
  BY DEF Numbers
<1>3. HowMany(StatusRows(q)) # 0 /\ HowMany(StatusRows(q)) \in Nat
  BY <1>1, <1>2, FS_CardinalityType, FS_EmptySet DEF HowMany
<1>4. HandleGetMeterStatusSummary(q).status = 200
        => HandleGetMeterStatusSummary(q).body.total = HowMany(StatusRows(q))
  BY SummaryIs
<1> QED
  BY <1>3, <1>4 DEF Finds, Given

LEMMA Lowered ==
  ASSUME NEW n \in DOMAIN Lower, n # Null
  PROVE  Lower[n] # Null /\ Passes(LowerAll({Lower[n]}), Lower[n])
<1>1. Lower[n] # Null /\ Lower[Lower[n]] = Lower[n]
  BY NamesAssumption
<1>2. Lower[n] \in LowerAll({Lower[n]})
  BY <1>1 DEF LowerAll
<1> QED
  BY <1>1, <1>2 DEF Passes

LEMMA FoundAtSite ==
  ASSUME TablesInv, PlacesInv, NEW p \in Queries, NEW n \in MeterSites(OnePlace([p EXCEPT !.numbers = {}, !.sites = {}, !.points = {}]))
  PROVE  Finds([OnePlace([p EXCEPT !.numbers = {}, !.sites = {}, !.points = {}]) EXCEPT !.sites = {n}])
<1> DEFINE o == OnePlace([p EXCEPT !.numbers = {}, !.sites = {}, !.points = {}])
           q == [o EXCEPT !.sites = {n}]
<1>1. PICK m \in MeterRows : Named(m.site) /\ InPlaces(o, m) /\ n = Lower[m.site]
  BY DEF MeterSites
<1>2. PlaceOK(m)
  BY DEF MeterRows, PlacesInv
<1>3. /\ q.regions = o.regions /\ q.districts = o.districts /\ q.types = o.types
      /\ q.numbers = {} /\ q.points = {} /\ q.sites = {n}
  BY HandlersAssumption DEF OnePlace, Parameters
<1> HIDE DEF q, o
<1>4. Passes(LowerAll({n}), Lower[m.site])
  BY <1>1, <1>2, Lowered DEF PlaceOK, Named
<1>5. m \in StatusRows(q)
  BY <1>1, <1>3, <1>4 DEF StatusRows, PlaceFilters, InPlaces, AtPoint, TypeFilter, Passes
<1> QED
  BY <1>5, Found DEF q, o

LEMMA LoweredPoint ==
  ASSUME NEW s \in Seq(DOMAIN Lower)
  PROVE  /\ LowerPoint(s) \in Seq(DOMAIN Lower)
         /\ LowerPoint(LowerPoint(s)) = LowerPoint(s)
         /\ Len(LowerPoint(s)) \in Nat
         /\ SubSeq(LowerPoint(s), 1, Len(LowerPoint(s))) = LowerPoint(s)
<1>1. Len(s) \in Nat /\ DOMAIN s = 1 .. Len(s) /\ \A i \in 1 .. Len(s) : s[i] \in DOMAIN Lower
  OBVIOUS
<1> DEFINE l == LowerPoint(s)
<1>2. /\ l = [i \in 1 .. Len(s) |-> Lower[s[i]]]
      /\ \A i \in 1 .. Len(s) : l[i] \in DOMAIN Lower /\ Lower[l[i]] = l[i]
  BY <1>1, NamesAssumption DEF LowerPoint
<1>3. l \in [1 .. Len(s) -> DOMAIN Lower]
  BY <1>2
<1>4. l \in Seq(DOMAIN Lower) /\ Len(l) = Len(s)
  BY <1>1, <1>2, <1>3
<1>5. LowerPoint(l) = [i \in 1 .. Len(s) |-> Lower[l[i]]]
  BY <1>2 DEF LowerPoint
<1>6. LowerPoint(l) = l
  BY <1>2, <1>5
<1> HIDE DEF l
<1>7. SubSeq(l, 1, Len(l)) = l
  BY <1>1, <1>4
<1> QED
  BY <1>1, <1>4, <1>6, <1>7 DEF l

LEMMA FoundAtPoint ==
  ASSUME TablesInv, PlacesInv, NEW p \in Queries,
         NEW n \in GetUniqueBoundaryPoints(OnePlace([p EXCEPT !.numbers = {}, !.sites = {}, !.points = {}]))
  PROVE  Finds([OnePlace([p EXCEPT !.numbers = {}, !.sites = {}, !.points = {}]) EXCEPT !.points = {n}])
<1> DEFINE o == OnePlace([p EXCEPT !.numbers = {}, !.sites = {}, !.points = {}])
           q == [o EXCEPT !.points = {n}]
<1>1. PICK m \in MeterRows : m.point # Null /\ InPlaces(o, m) /\ n = LowerPoint(m.point)
  BY DEF GetUniqueBoundaryPoints
<1>2. m.point \in Seq(DOMAIN Lower)
  BY <1>1 DEF MeterRows, PlacesInv, PlaceOK
<1>3. /\ q.regions = o.regions /\ q.districts = o.districts /\ q.types = o.types
      /\ q.numbers = {} /\ q.sites = {} /\ q.points = {n}
  BY HandlersAssumption DEF OnePlace, Parameters
<1> HIDE DEF q, o
<1>4. LowerPoint(n) = n /\ Len(n) \in Nat /\ SubSeq(n, 1, Len(n)) = n /\ Len(m.point) = Len(n)
  <2> DEFINE s == m.point
  <2>1. s \in Seq(DOMAIN Lower) /\ n = LowerPoint(s)
    BY <1>1, <1>2
  <2> HIDE DEF s
  <2>2. Len(LowerPoint(s)) = Len(s)
    BY <2>1 DEF LowerPoint
  <2> QED
    BY <2>1, <2>2, LoweredPoint DEF s
<1>5. AtPoint(q, m)
  <2>1. 1 \in 1 .. Len(m.point) - Len(n) + 1 /\ 1 + Len(n) - 1 = Len(n)
    BY <1>4
  <2>2. LowerPoint(n) = SubSeq(LowerPoint(m.point), 1, 1 + Len(n) - 1)
    BY <1>1, <1>4, <2>1
  <2> QED
    BY <1>1, <1>3, <2>1, <2>2 DEF AtPoint
<1>6. m \in StatusRows(q)
  BY <1>1, <1>3, <1>5 DEF StatusRows, PlaceFilters, InPlaces, TypeFilter, Passes, LowerAll
<1> QED
  BY <1>6, Found DEF q, o

\* A name of a column that areas and meters share.
LEMMA FoundByName ==
  ASSUME TablesInv, PlacesInv, NEW q, NEW o, NEW col \in {"region", "district"}, NEW n \in AreaNames(col, o),
         o.types # {}, q.types = o.types, q.numbers = {}, q.sites = {}, q.points = {},
         q.regions = IF col = "region" THEN {n} ELSE {}, q.districts = IF col = "district" THEN {n} ELSE {}
  PROVE  Finds(q)
<1>1. PICK a \in ServiceAreas : /\ Named(a[col]) /\ n = Lower[a[col]]
                               /\ \E m \in MeterRows : Lower[m[col]] = Lower[a[col]] /\ TypeFilter(o, m)
  BY DEF AreaNames
<1>2. PICK m \in MeterRows : Lower[m[col]] = n /\ TypeFilter(o, m)
  BY <1>1
<1>3. a[col] \in DOMAIN Lower
  BY MapAssumption
<1>4. n # Null /\ Passes(LowerAll({n}), n)
  BY <1>1, <1>3, Lowered DEF Named
<1>5. CASE col = "region"
  <2>1. m \in StatusRows(q)
    BY <1>2, <1>4, <1>5 DEF StatusRows, PlaceFilters, AtPoint, TypeFilter, Passes, LowerAll
  <2> QED
    BY <2>1, Found
<1>6. CASE col = "district"
  <2>1. m \in StatusRows(q)
    BY <1>2, <1>4, <1>6 DEF StatusRows, PlaceFilters, AtPoint, TypeFilter, Passes, LowerAll
  <2> QED
    BY <2>1, Found
<1> QED
  BY <1>5, <1>6

-----------------------------------------------------------------------------
(* The join of the meters with the areas, and what is counted of it.       *)

\* Those of a set that are in C, part by part.
LEMMA PartCounts ==
  ASSUME NEW S, IsFiniteSet(S), NEW key, NEW K, K = Keys(S, key), NEW C \in SUBSET S,
         NEW p, \A k \in K : p[k] = Cardinality({x \in Part(S, key, k) : x \in C})
  PROVE  IsFiniteSet(K) /\ (\A k \in K : p[k] \in Int) /\ Sum(p, K) = Cardinality(C)
<1> DEFINE f == [x \in S |-> IF x \in C THEN 1 ELSE 0]
<1>1. \A x \in S : f[x] \in Int /\ (x \in C => f[x] = 1) /\ (x \notin C => f[x] = 0)
  OBVIOUS
<1> HIDE DEF f
<1>2. ASSUME NEW T \in SUBSET S
      PROVE  Sum(f, T) = Cardinality({x \in T : x \in C})
  <2> DEFINE A == {x \in T : x \in C}
  <2>1. IsFiniteSet(T) /\ A \in SUBSET T /\ IsFiniteSet(A) /\ IsFiniteSet(T \ A)
    BY FS_Subset
  <2>2. /\ \A x \in T : f[x] \in Int
        /\ \A x \in A : f[x] = 1
        /\ \A x \in T \ A : f[x] \in Int /\ f[x] = f[x] * 0
    BY <1>1
  <2> HIDE DEF A
  <2>3. Sum(f, T) = Sum(f, A) + Sum(f, T \ A)
    BY <2>1, <2>2, SumUnion
  <2>4. Sum(f, A) = Cardinality(A) /\ Cardinality(A) \in Int
    BY <2>1, <2>2, SumOnes, FS_CardinalityType
  <2>5. Sum(f, T \ A) = 0
    <3> DEFINE R == T \ A
    <3>1. IsFiniteSet(R) /\ (\A x \in R : f[x] \in Int) /\ \A x \in R : f[x] = f[x] * 0
      BY <2>1, <2>2
    <3> HIDE DEF R
    <3>2. Sum(f, R) \in Int
      BY <3>1, SumInt
    <3>3. Sum(f, R) = Sum(f, R) * 0
      BY <3>1, 0 \in Int, SumTimes
    <3> QED
      BY <3>2, <3>3 DEF R
  <2> QED
    BY <2>3, <2>4, <2>5 DEF A
<1>3. \A k \in K : p[k] = Sum(f, Part(S, key, k))
  BY <1>2 DEF Part
<1>4. IsFiniteSet(K) /\ (\A k \in K : p[k] \in Int) /\ Sum(p, K) = Sum(f, S)
  BY <1>1, <1>3, SumParts
<1>5. {x \in S : x \in C} = C
  OBVIOUS
<1> QED
  BY <1>2, <1>4, <1>5

\* The parts of a set count what the set does.
LEMMA AllPartCounts ==
  ASSUME NEW S, IsFiniteSet(S), NEW key, NEW K, K = Keys(S, key),
         NEW p, \A k \in K : p[k] = Cardinality(Part(S, key, k))
  PROVE  IsFiniteSet(K) /\ (\A k \in K : p[k] \in Int) /\ Sum(p, K) = Cardinality(S)
<1>1. \A k : {x \in Part(S, key, k) : x \in S} = Part(S, key, k)
  BY DEF Part
<1>2. PICK C : C = S
  OBVIOUS
<1>3. C \in SUBSET S /\ \A k \in K : p[k] = Cardinality({x \in Part(S, key, k) : x \in C})
  BY <1>1, <1>2
<1>4. IsFiniteSet(K) /\ (\A k \in K : p[k] \in Int) /\ Sum(p, K) = Cardinality(C)
  BY <1>3, PartCounts
<1> QED
  BY <1>2, <1>4

LEMMA LocatedFinite ==
  ASSUME TablesInv, PlacesInv
  PROVE  IsFiniteSet(Located)
<1> DEFINE of(m) == {Shown(m)} \X (IF m.place \in {Null, {}} THEN {NoArea} ELSE m.place)
           h == [m \in MeterRows |-> of(m)]
<1>1. IsFiniteSet(MeterRows)
  BY RowsFinite
<1>2. IsFiniteSet(Keys(MeterRows, h)) /\ Keys(MeterRows, h) = {of(m) : m \in MeterRows}
  <2>1. Keys(MeterRows, h) = {of(m) : m \in MeterRows}
    BY DEF Keys
  <2> HIDE DEF h, of
  <2> QED
    BY <1>1, <2>1, KeysFinite
<1>3. ASSUME NEW m \in MeterRows
      PROVE  IsFiniteSet(of(m))
  <2> DEFINE areas == IF m.place \in {Null, {}} THEN {NoArea} ELSE m.place
  <2>1. PlaceOK(m)
    BY DEF MeterRows, PlacesInv
  <2>2. IsFiniteSet({NoArea}) /\ IsFiniteSet({Shown(m)})
    BY FS_Singleton
  <2>3. IsFiniteSet(areas)
    BY <2>1, <2>2, MapAssumption, FS_Subset DEF PlaceOK
  <2> HIDE DEF areas
  <2>4. IsFiniteSet({Shown(m)} \X areas)
    BY <2>2, <2>3, FS_Product
  <2> QED
    BY <2>4 DEF areas
<1>4. \A S \in {of(m) : m \in MeterRows} : IsFiniteSet(S)
  BY <1>3
<1>5. Located = UNION {of(m) : m \in MeterRows}
  BY DEF Located
<1> HIDE DEF of, h
<1> QED
  BY <1>2, <1>4, <1>5, FS_UNION

\* What the join finds of a meter.
LEMMA LocatedRows ==
  ASSUME TablesInv, PlacesInv, NEW l \in Located
  PROVE  /\ l[2].region # Null \/ l[2].district # Null => HasPlace(l[1])
         /\ Areas = ServiceAreas => (l[2].region = Null <=> l[2].district = Null)
<1>1. PICK m \in MeterRows : l \in {Shown(m)} \X (IF m.place \in {Null, {}} THEN {NoArea} ELSE m.place)
  BY DEF Located
<1>2. PlaceOK(m) /\ DOMAIN m = DOMAIN NoMeter \cup {"deleted"}
  BY TablesByRow DEF MeterRows, PlacesInv, MeterOK
<1>3. Shown(m).place = m.place
  BY <1>2 DEF Shown, NoMeter
<1>4. l[1] = Shown(m) /\ l[2] \in (IF m.place \in {Null, {}} THEN {NoArea} ELSE m.place)
  BY <1>1
<1>5. CASE m.place \in {Null, {}}
  <2>1. l[2] = NoArea
    BY <1>4, <1>5
  <2> QED
    BY <2>1 DEF NoArea
<1>6. CASE m.place \notin {Null, {}}
  <2>1. l[2] \in ServiceAreas /\ HasPlace(l[1])
    BY <1>2, <1>3, <1>4, <1>6 DEF PlaceOK, HasPlace
  <2>2. Areas = ServiceAreas => l[2].region # Null /\ l[2].district # Null
    BY <2>1 DEF Areas
  <2> QED
    BY <2>1, <2>2
<1> QED
  BY <1>5, <1>6

\* The meters of every group, and those that are elsewhere than their record says.
LEMMA CountsAre ==
  ASSUME TablesInv, PlacesInv, NEW by, NEW counts, counts = GetMeterSpatialCounts(by, {}, {}, {})
  PROVE  /\ counts.total = Cardinality(Located)
         /\ counts.mismatched = Cardinality({l \in Located : Mismatched(l)})
         /\ \E data : counts = [data |-> data, total |-> counts.total, mismatched |-> counts.mismatched]
<1> DEFINE S == Located
           key == [l \in S |-> SpatialKey(by, l)]
           K == Keys(S, key)
           group(k) == {l \in S : SpatialKey(by, l) = k}
           count(k) == [key |-> k, total |-> Cardinality(group(k)),
                        placed |-> Cardinality({l \in group(k) : HasPlace(l[1])}),
                        inArea |-> Cardinality({l \in group(k) : l[2].region # Null}),
                        mismatched |-> Cardinality({l \in group(k) : Mismatched(l)})]
           h == [k \in K |-> count(k)]
           wrong == {l \in S : Mismatched(l)}
           p == [k \in K |-> Cardinality({l \in Part(S, key, k) : l \in S})]
           w == [k \in K |-> Cardinality({l \in Part(S, key, k) : l \in wrong})]
<1>1. IsFiniteSet(S)
  BY LocatedFinite
<1>2. {l \in S : Passes({}, l[1].type) /\ Passes(LowerAll({}), Lower[l[1].region])
                   /\ Passes(LowerAll({}), Lower[l[1].district])} = S
  BY DEF Passes, LowerAll
<1>3. K = {SpatialKey(by, l) : l \in S}
  BY DEF Keys
<1>4. \A k \in K : /\ group(k) = Part(S, key, k)
                   /\ {l \in Part(S, key, k) : l \in S} = group(k)
                   /\ {l \in Part(S, key, k) : l \in wrong} = {l \in group(k) : Mismatched(l)}
  BY DEF Part
<1>5. Keys(K, h) = {count(k) : k \in K}
  BY DEF Keys
<1>6. counts = [data |-> Keys(K, h), total |-> SumOf("total", Keys(K, h)),
                mismatched |-> SumOf("mismatched", Keys(K, h))]
  <2>1. GetMeterSpatialCounts(by, {}, {}, {}) =
          LET data == {count(k) : k \in {SpatialKey(by, l) : l \in S}}
          IN  [data |-> data, total |-> SumOf("total", data), mismatched |-> SumOf("mismatched", data)]
    BY <1>2 DEF GetMeterSpatialCounts, HowManyOf
  <2> HIDE DEF S, key, K, h, count
  <2> QED
    BY <1>3, <1>5, <2>1
<1>7. /\ \A k \in K : p[k] = Cardinality({l \in Part(S, key, k) : l \in S}) /\ h[k].total = p[k]
      /\ \A k \in K : w[k] = Cardinality({l \in Part(S, key, k) : l \in wrong}) /\ h[k].mismatched = w[k]
      /\ \A k \in K : h[k].key = k
  BY <1>4
<1>8. wrong \in SUBSET S /\ S \in SUBSET S /\ K = Keys(S, key)
  OBVIOUS
<1>9. wrong = {l \in Located : Mismatched(l)} /\ S = Located
  OBVIOUS
<1> HIDE DEF S, key, h, p, w, wrong, group, count, K
<1>10. IsFiniteSet(K) /\ (\A k \in K : p[k] \in Int) /\ Sum(p, K) = Cardinality(S)
  <2>1. \A k : {l \in Part(S, key, k) : l \in S} = Part(S, key, k)
    BY DEF Part
  <2>2. \A k \in K : p[k] = Cardinality(Part(S, key, k))
    BY <1>7, <2>1
  <2> QED
    BY <1>1, <1>8, <2>2, AllPartCounts
<1>11. IsFiniteSet(K) /\ (\A k \in K : w[k] \in Int) /\ Sum(w, K) = Cardinality(wrong)
  <2>1. \A k \in K : w[k] = Cardinality({l \in Part(S, key, k) : l \in wrong})
    BY <1>7
  <2> QED
    BY <1>1, <1>8, <2>1, PartCounts
<1>12. \A x, y \in K : h[x] = h[y] => x = y
  BY <1>7
<1>13. /\ \A k \in K : p[k] = h[k]["total"] /\ p[k] \in Int
       /\ \A k \in K : w[k] = h[k]["mismatched"] /\ w[k] \in Int
  BY <1>7, <1>10, <1>11
<1>14. SumOf("total", Keys(K, h)) = Sum(p, K)
  BY <1>10, <1>12, <1>13, RecordsSum
<1>15. SumOf("mismatched", Keys(K, h)) = Sum(w, K)
  BY <1>11, <1>12, <1>13, RecordsSum
<1> QED
  BY <1>6, <1>9, <1>10, <1>11, <1>14, <1>15

LEMMA NoneAsked ==
  ASSUME NEW q \in Queries
  PROVE  LET u == Unfiltered(q) IN
         /\ u.types = {} /\ u.numbers = {} /\ u.regions = {} /\ u.districts = {} /\ u.areaRegions = {}
         /\ AsOne({}) = {} /\ LowerAll({}) = {}
         /\ \A has : LET v == [u EXCEPT !.hasPlace = has] IN
              /\ v.types = {} /\ v.numbers = {} /\ v.regions = {} /\ v.districts = {} /\ v.areaRegions = {}
              /\ v.hasPlace = has
<1>1. DOMAIN q = Parameters
  BY HandlersAssumption
<1>2. AsOne({}) = {}
  BY FS_EmptySet DEF AsOne
<1> QED
  BY <1>1, <1>2 DEF Unfiltered, Parameters, LowerAll

LEMMA PlacesAre ==
  ASSUME FailedIsNoReport, NEW q \in Queries, NEW has \in BOOLEAN
  PROVE  HandleGetMetersWithServiceArea([Unfiltered(q) EXCEPT !.hasPlace = has]).body
           = Listed({l \in Located : HasPlace(l[1]) = has})
<1> DEFINE v == [Unfiltered(q) EXCEPT !.hasPlace = has]
<1>1. /\ v.types = {} /\ v.numbers = {} /\ v.regions = {} /\ v.districts = {} /\ v.areaRegions = {}
      /\ v.hasPlace = has /\ LowerAll({}) = {}
  BY NoneAsked
<1> HIDE DEF v
<1>2. \A l : v.hasPlace \in {Null, HasPlace(l[1])} <=> HasPlace(l[1]) = has
  <2>1. has # Null
    BY MapAssumption
  <2> QED
    BY <1>1, <2>1
<1>3. {l \in Located : /\ Passes(v.types, l[1].type) /\ Passes(v.numbers, l[1].number)
                       /\ Passes(LowerAll(v.regions), Lower[l[1].region])
                       /\ Passes(LowerAll(v.districts), Lower[l[1].district])
                       /\ Passes(LowerAll(v.areaRegions), Lower[l[2].region])
                       /\ v.hasPlace \in {Null, HasPlace(l[1])}} = {l \in Located : HasPlace(l[1]) = has}
  BY <1>1, <1>2 DEF Passes
<1>4. GetMetersWithServiceArea(v) = Listed({l \in Located : HasPlace(l[1]) = has})
  BY <1>3 DEF GetMetersWithServiceArea
<1>5. Listed({l \in Located : HasPlace(l[1]) = has}) # Failed
  BY DEF Listed, FailedIsNoReport, FailedIsNoPage
<1> QED
  BY <1>4, <1>5 DEF HandleGetMetersWithServiceArea, Answer, v

LEMMA MismatchesAre ==
  ASSUME FailedIsNoReport, NEW q \in Queries
  PROVE  HandleGetMeterSpatialMismatch(Unfiltered(q)).body = Listed({l \in Located : Misplaced(l)})
<1> DEFINE v == Unfiltered(q)
<1>1. v.types = {} /\ v.numbers = {}
  BY NoneAsked
<1> HIDE DEF v
<1>2. {l \in Located : Misplaced(l) /\ Passes(v.types, l[1].type) /\ Passes(v.numbers, l[1].number)}
        = {l \in Located : Misplaced(l)}
  BY <1>1 DEF Passes
<1>3. GetMeterSpatialMismatch(v) = Listed({l \in Located : Misplaced(l)})
  BY <1>2 DEF GetMeterSpatialMismatch
<1>4. Listed({l \in Located : Misplaced(l)}) # Failed
  BY DEF Listed, FailedIsNoReport, FailedIsNoPage
<1> QED
  BY <1>3, <1>4 DEF HandleGetMeterSpatialMismatch, Answer, v

\* What is counted of the rows of the join.
LEMMA StatsAre ==
  ASSUME TablesInv, PlacesInv
  PROVE  LET placed == {l \in Located : HasPlace(l[1])}
             unplaced == {l \in Located : ~HasPlace(l[1])}
             inArea == {l \in Located : l[2].region # Null}
             outside == {l \in Located : HasPlace(l[1]) /\ l[2].region = Null}
             wrong == {l \in Located : Mismatched(l)}
             misplaced == {l \in Located : Misplaced(l)}
         IN  /\ Cardinality(placed) + Cardinality(unplaced) = Cardinality(Located)
             /\ Cardinality(inArea) + Cardinality(outside) = Cardinality(placed)
             /\ Areas = ServiceAreas =>
                  Cardinality(wrong) + Cardinality(outside) = Cardinality(misplaced)
<1> DEFINE placed == {l \in Located : HasPlace(l[1])}
           unplaced == {l \in Located : ~HasPlace(l[1])}
           inArea == {l \in Located : l[2].region # Null}
           outside == {l \in Located : HasPlace(l[1]) /\ l[2].region = Null}
           wrong == {l \in Located : Mismatched(l)}
           misplaced == {l \in Located : Misplaced(l)}
<1>1. IsFiniteSet(Located) /\ IsFiniteSet(placed) /\ IsFiniteSet(misplaced)
  BY LocatedFinite, FS_Subset
<1>2. Located = placed \cup unplaced /\ placed \cap unplaced = {}
  OBVIOUS
<1>3. placed = inArea \cup outside /\ inArea \cap outside = {}
  BY LocatedRows
<1>4. Areas = ServiceAreas => misplaced = wrong \cup outside /\ wrong \cap outside = {}
  <2>1. ASSUME NEW l \in Located
        PROVE  Mismatched(l) => HasPlace(l[1])
    BY LocatedRows DEF Mismatched, Differ
  <2>2. ASSUME Areas = ServiceAreas, NEW l \in Located
        PROVE  /\ Misplaced(l) <=> Mismatched(l) \/ (HasPlace(l[1]) /\ l[2].region = Null)
               /\ ~(Mismatched(l) /\ l[2].region = Null)
    BY <2>1, <2>2, LocatedRows DEF Misplaced, Mismatched, Differ
  <2> QED
    BY <2>2
<1> HIDE DEF placed, unplaced, inArea, outside, wrong, misplaced
<1>5. Cardinality(placed) + Cardinality(unplaced) = Cardinality(Located)
  BY <1>1, <1>2, RowsAddUp
<1>6. Cardinality(inArea) + Cardinality(outside) = Cardinality(placed)
  BY <1>1, <1>3, RowsAddUp
<1>7. Areas = ServiceAreas => Cardinality(wrong) + Cardinality(outside) = Cardinality(misplaced)
  BY <1>1, <1>4, RowsAddUp
<1> QED
  BY <1>5, <1>6, <1>7 DEF placed, unplaced, inArea, outside, wrong, misplaced

\* Every count is a count of all rows of the join.
LEMMA AllCounts ==
  ASSUME TablesInv, PlacesInv, FailedIsNoReport, NEW q \in Queries, NEW counts,
         counts \in {HandleGetMeterSpatialCounts(Unfiltered(q), by) :
                       by \in {"region", "district", "meter_type", "region_meter_type", "district_meter_type"}}
                     \cup {HandleGetMeterSpatialCountsByRegion(Unfiltered(q)),
                           HandleGetMeterSpatialCountsByDistrict(Unfiltered(q)),
                           HandleGetMeterSpatialCountsByType}
  PROVE  /\ counts.body.total = Cardinality(Located)
         /\ counts.body.mismatched = Cardinality({l \in Located : Mismatched(l)})
<1> DEFINE u == Unfiltered(q)
<1>1. /\ u.types = {} /\ u.regions = {} /\ u.districts = {} /\ AsOne({}) = {}
  BY NoneAsked
<1> HIDE DEF u
<1>2. \E by : counts = Answer(GetMeterSpatialCounts(by, {}, {}, {}))
  <2>1. CASE \E by : counts = HandleGetMeterSpatialCounts(u, by)
    BY <1>1, <2>1 DEF HandleGetMeterSpatialCounts
  <2>2. CASE counts = HandleGetMeterSpatialCountsByRegion(u)
    BY <1>1, <2>2 DEF HandleGetMeterSpatialCountsByRegion, GetMeterSpatialCountsByRegion
  <2>3. CASE counts = HandleGetMeterSpatialCountsByDistrict(u)
    BY <1>1, <2>3 DEF HandleGetMeterSpatialCountsByDistrict, GetMeterSpatialCountsByDistrict
  <2>4. CASE counts = HandleGetMeterSpatialCountsByType
    BY <2>4 DEF HandleGetMeterSpatialCountsByType, GetMeterSpatialCountsByType
  <2> QED
    BY <2>1, <2>2, <2>3, <2>4 DEF u
<1>3. PICK by : counts = Answer(GetMeterSpatialCounts(by, {}, {}, {}))
  BY <1>2
<1> DEFINE all == GetMeterSpatialCounts(by, {}, {}, {})
<1>4. /\ all.total = Cardinality(Located)
      /\ all.mismatched = Cardinality({l \in Located : Mismatched(l)})
      /\ \E data : all = [data |-> data, total |-> all.total, mismatched |-> all.mismatched]
  BY CountsAre
<1> HIDE DEF all
<1>5. all # Failed
  BY <1>4 DEF FailedIsNoReport
<1> QED
  BY <1>3, <1>4, <1>5 DEF Answer, all

LEMMA SpatialHolds ==
  ASSUME TablesInv, PlacesInv, FailedIsNoReport, NEW q \in Queries
  PROVE  SpatialAgrees(q)
<1> DEFINE placed == {l \in Located : HasPlace(l[1])}
           unplaced == {l \in Located : ~HasPlace(l[1])}
           inArea == {l \in Located : l[2].region # Null}
           outside == {l \in Located : HasPlace(l[1]) /\ l[2].region = Null}
           wrong == {l \in Located : Mismatched(l)}
           misplaced == {l \in Located : Misplaced(l)}
           u == Unfiltered(q)
           stats == HandleGetMeterSpatialStats.body
           mismatches == HandleGetMeterSpatialMismatch(u).body
           places(has) == HandleGetMetersWithServiceArea([u EXCEPT !.hasPlace = has]).body
<1>1. /\ Cardinality(placed) + Cardinality(unplaced) = Cardinality(Located)
      /\ Cardinality(inArea) + Cardinality(outside) = Cardinality(placed)
      /\ Areas = ServiceAreas => Cardinality(wrong) + Cardinality(outside) = Cardinality(misplaced)
  BY StatsAre
<1>2. /\ stats.total = Cardinality(Located) /\ stats.placed = Cardinality(placed)
      /\ stats.unplaced = Cardinality(unplaced) /\ stats.inArea = Cardinality(inArea)
      /\ stats.outside = Cardinality(outside)
  <2> DEFINE all == GetMeterSpatialStats
  <2>1. all = [total |-> Cardinality(Located), placed |-> Cardinality(placed), unplaced |-> Cardinality(unplaced),
               inArea |-> Cardinality(inArea), outside |-> Cardinality(outside),
               ofRegion |-> all.ofRegion, ofDistrict |-> all.ofDistrict]
    BY DEF GetMeterSpatialStats, HowManyOf
  <2> HIDE DEF all, placed, unplaced, inArea, outside
  <2>2. all # Failed
    BY <2>1 DEF FailedIsNoReport
  <2>3. stats = all
    BY <2>2 DEF HandleGetMeterSpatialStats, Answer, all
  <2> QED
    BY <2>1, <2>3
<1>3. mismatches.list = misplaced /\ mismatches.total = Cardinality(misplaced)
  <2>1. mismatches = Listed(misplaced)
    BY MismatchesAre
  <2> HIDE DEF mismatches, misplaced
  <2> QED
    BY <2>1 DEF Listed
<1>4. /\ places(TRUE).list = placed /\ places(TRUE).total = Cardinality(placed)
      /\ places(FALSE).total = Cardinality(unplaced)
  <2>1. places(TRUE) = Listed({l \in Located : HasPlace(l[1]) = TRUE})
    BY PlacesAre
  <2>2. places(FALSE) = Listed({l \in Located : HasPlace(l[1]) = FALSE})
    BY PlacesAre
  <2>3. {l \in Located : HasPlace(l[1]) = TRUE} = placed /\ {l \in Located : HasPlace(l[1]) = FALSE} = unplaced
    BY DEF HasPlace
  <2>4. places(TRUE) = Listed(placed) /\ places(FALSE) = Listed(unplaced)
    BY <2>1, <2>2, <2>3
  <2> HIDE DEF placed, unplaced, places
  <2>5. /\ Listed(placed).list = placed /\ Listed(placed).total = Cardinality(placed)
        /\ Listed(unplaced).total = Cardinality(unplaced)
    BY DEF Listed
  <2> QED
    BY <2>4, <2>5
<1>5. misplaced \subseteq placed
  BY DEF Misplaced
<1>6. \A counts \in {HandleGetMeterSpatialCounts(u, by) :
                       by \in {"region", "district", "meter_type", "region_meter_type", "district_meter_type"}}
                     \cup {HandleGetMeterSpatialCountsByRegion(u), HandleGetMeterSpatialCountsByDistrict(u),
                           HandleGetMeterSpatialCountsByType} :
        counts.body.total = Cardinality(Located) /\ counts.body.mismatched = Cardinality(wrong)
  BY AllCounts
<1> HIDE DEF placed, unplaced, inArea, outside, wrong, misplaced, u, stats, mismatches, places
<1>7. /\ stats.placed + stats.unplaced = stats.total /\ stats.inArea + stats.outside = stats.placed
      /\ places(TRUE).total = stats.placed /\ places(FALSE).total = stats.unplaced
      /\ mismatches.list \subseteq places(TRUE).list
  BY <1>1, <1>2, <1>3, <1>4, <1>5
<1> QED
  BY <1>1, <1>2, <1>3, <1>6, <1>7 DEF SpatialAgrees, u, stats, mismatches, places

-----------------------------------------------------------------------------
(* The lists of values, and the areas that are drawn.                      *)

\* The lists are sets of names, so their answers are these sets.
LEMMA NamesListed ==
  ASSUME PlacesInv, FailedIsNoReport, NEW o
  PROVE  /\ Answer(MeterSites(o)).body = MeterSites(o)
         /\ Answer(GetUniqueBoundaryPoints(o)).body = GetUniqueBoundaryPoints(o)
         /\ \A col \in {"region", "district"} : AreaNames(col, o) \subseteq DOMAIN Lower
         /\ Answer(GetUniqueRegions(o)).body = AreaNames("region", o)
         /\ Answer(GetUniqueDistricts(o)).body \subseteq AreaNames("district", o)
<1>1. \A m \in MeterRows : PlaceOK(m)
  BY DEF PlacesInv, MeterRows
<1>2. MeterSites(o) \subseteq DOMAIN Lower
  BY <1>1, NamesAssumption DEF MeterSites, PlaceOK
<1>3. GetUniqueBoundaryPoints(o) \subseteq Seq(DOMAIN Lower)
  <2>1. ASSUME NEW m \in MeterRows, m.point # Null
        PROVE  LowerPoint(m.point) \in Seq(DOMAIN Lower)
    <3> DEFINE s == m.point
    <3>1. s \in Seq(DOMAIN Lower)
      BY <1>1, <2>1 DEF PlaceOK
    <3> HIDE DEF s
    <3>2. LowerPoint(s) \in Seq(DOMAIN Lower)
      BY <3>1, LoweredPoint
    <3> QED
      BY <3>2 DEF s
  <2> QED
    BY <2>1 DEF GetUniqueBoundaryPoints
<1>4. \A col \in {"region", "district"} : AreaNames(col, o) \subseteq DOMAIN Lower
  BY MapAssumption, NamesAssumption DEF AreaNames
<1>5. GetUniqueDistricts(o) \subseteq AreaNames("district", o)
  BY DEF GetUniqueDistricts
<1>6. /\ MeterSites(o) # Failed /\ GetUniqueBoundaryPoints(o) # Failed
      /\ AreaNames("region", o) # Failed /\ GetUniqueDistricts(o) # Failed
  BY <1>2, <1>3, <1>4, <1>5 DEF FailedIsNoReport
<1> QED
  BY <1>4, <1>5, <1>6 DEF Answer, GetUniqueRegions

LEMMA ListsHold ==
  ASSUME TablesInv, PlacesInv, FailedIsNoReport, NEW q \in Queries
  PROVE  ListsAgree(q)
<1> DEFINE p == [q EXCEPT !.numbers = {}, !.sites = {}, !.points = {}]
           o == OnePlace(p)
<1>1. /\ HandleGetStations(p).body = MeterSites(o) /\ HandleGetLocations(p).body = MeterSites(o)
      /\ HandleGetVoltages(p).body = MeterSites(o)
      /\ HandleGetBoundaryPoints(p).body = GetUniqueBoundaryPoints(o)
      /\ HandleGetRegions(p).body = AreaNames("region", p)
      /\ HandleGetDistricts(p).body \subseteq AreaNames("district", o)
  <2> HIDE DEF p
  <2> QED
    BY NamesListed DEF HandleGetStations, HandleGetLocations, HandleGetVoltages, HandleGetBoundaryPoints,
       HandleGetRegions, HandleGetDistricts, GetUniqueStations, GetUniqueLocations, GetUniqueVoltages
<1>2. /\ p.numbers = {} /\ p.sites = {} /\ p.points = {} /\ o.types = p.types
      /\ DOMAIN p = Parameters
  BY HandlersAssumption DEF OnePlace, Parameters
<1>3. \A n \in MeterSites(o) : Finds([o EXCEPT !.sites = {n}])
  BY FoundAtSite
<1>4. \A n \in GetUniqueBoundaryPoints(o) : Finds([o EXCEPT !.points = {n}])
  BY FoundAtPoint
<1>5. ASSUME p.types # {}, NEW n \in AreaNames("region", p)
      PROVE  Finds([p EXCEPT !.regions = {n}, !.districts = {}])
  <2> DEFINE r == [p EXCEPT !.regions = {n}, !.districts = {}]
  <2>1. /\ r.types = p.types /\ r.numbers = {} /\ r.sites = {} /\ r.points = {}
        /\ r.regions = {n} /\ r.districts = {}
    BY <1>2 DEF Parameters
  <2> HIDE DEF p, o, r
  <2>2. Finds(r)
    BY <1>5, <2>1, FoundByName
  <2> QED
    BY <2>2 DEF r
<1>6. ASSUME p.types # {}, NEW n \in AreaNames("district", o)
      PROVE  Finds([p EXCEPT !.regions = {}, !.districts = {n}])
  <2> DEFINE r == [p EXCEPT !.regions = {}, !.districts = {n}]
  <2>1. /\ r.types = o.types /\ o.types # {} /\ r.numbers = {} /\ r.sites = {} /\ r.points = {}
        /\ r.regions = {} /\ r.districts = {n}
    BY <1>2, <1>6 DEF Parameters
  <2> HIDE DEF p, o, r
  <2>2. Finds(r)
    BY <2>1, FoundByName
  <2> QED
    BY <2>2 DEF r
<1> HIDE DEF p, o
<1> QED
  BY <1>1, <1>3, <1>4, <1>5, <1>6 DEF ListsAgree, p, o

-----------------------------------------------------------------------------
(* The map and the series: a number is a meter, a meter is in one area.    *)

\* Where no number is registered twice, a number is a meter.
LEMMA OneMeter ==
  ASSUME TablesInv, UniqueNumbers, NEW m \in MeterRows, NEW other \in MeterRows, m.number = other.number
  PROVE  m = other
<1> DEFINE f == [id \in DOMAIN meters |-> meters[id].number]
<1>1. Len(meters) \in Nat /\ DOMAIN meters = 1 .. Len(meters)
  BY TableRows DEF TablesInv
<1>2. IsFiniteSet(DOMAIN meters) /\ Cardinality(DOMAIN meters) = Len(meters)
  <2> DEFINE n == Len(meters)
  <2>1. n \in Nat /\ DOMAIN meters = 1 .. n /\ 1 \in Int /\ n \in Int
    BY <1>1
  <2> HIDE DEF n
  <2>2. IsFiniteSet(1 .. n) /\ Cardinality(1 .. n) = IF 1 > n THEN 0 ELSE n - 1 + 1
    BY <2>1, FS_Interval
  <2>3. Cardinality(1 .. n) = n
    BY <2>1, <2>2
  <2> QED
    BY <2>1, <2>2, <2>3 DEF n
<1>3. f \in Surjection(DOMAIN meters, Numbers(MeterRows))
  BY DEF Surjection, Numbers, MeterRows
<1>4. f \in Injection(DOMAIN meters, Numbers(MeterRows))
  BY <1>2, <1>3, FS_Surjection DEF UniqueNumbers
<1>5. \A i, j \in DOMAIN meters : meters[i].number = meters[j].number => i = j
  BY <1>4 DEF Injection, IsInjective
<1> QED
  BY <1>5 DEF MeterRows

\* The one area of a meter whose record agrees with its coordinates.
LEMMA OneArea ==
  ASSUME TablesInv, PlacesInv, NEW m \in MeterRows, WellPlaced(m)
  PROVE  \E a \in Areas :
           /\ AreasOf(m) = {a}
           /\ Lower[a.region] = Lower[m.region] /\ Lower[a.district] = Lower[m.district]
           /\ \A b \in Areas : /\ BySpace(b, m) <=> m.place # Null /\ b = a
                               /\ ByDistrict(b, m) <=> m.place = Null /\ b = a
                               /\ ~ByRegion(b, m)
<1>1. PICK a \in Areas : /\ Lower[a.district] = Lower[m.district] /\ Lower[a.region] = Lower[m.region]
                         /\ m.place \in {Null, {a}}
                         /\ \A b \in Areas : Lower[b.district] = Lower[m.district] => b = a
  BY DEF WellPlaced
<1>2. m.district # Null /\ m.region # Null /\ {m.district, m.region} \subseteq DOMAIN Lower
  BY DEF WellPlaced, MeterRows, PlacesInv, PlaceOK
<1>3. Lower[m.district] # Null /\ Lower[m.region] # Null /\ Lower[Null] = Null
  BY <1>2, NamesAssumption
<1> DEFINE named == {b \in ServiceAreas : /\ m.district # Null /\ m.region # Null
                                          /\ Lower[b.district] = Lower[m.district]
                                          /\ Lower[b.region] = Lower[m.region]}
<1>4. named = {a}
  <2>1. a \in named
    BY <1>1, <1>2 DEF Areas
  <2>2. ASSUME NEW b \in named PROVE b = a
    <3>1. b.district # Null /\ b.region # Null
      BY <1>3
    <3>2. b \in Areas
      BY <3>1 DEF Areas
    <3> QED
      BY <1>1, <3>2
  <2> QED
    BY <2>1, <2>2
<1>5. AreasOf(m) = {a}
  BY <1>1, <1>4 DEF AreasOf
<1>6. \A b \in Areas : /\ BySpace(b, m) <=> m.place # Null /\ b = a
                       /\ ByDistrict(b, m) <=> m.place = Null /\ b = a
                       /\ ~ByRegion(b, m)
  BY <1>1, <1>2 DEF BySpace, ByDistrict, ByRegion
<1> QED
  BY <1>1, <1>5, <1>6

\* An area that is drawn for a list of names is one of them: a list that is read
\* whole names no area.
LEMMA OneIsMany ==
  ASSUME NEW q \in Queries, NEW o, o = OnePlace(q), NEW a \in AreasAsked(o)
  PROVE  /\ Passes(LowerAll(q.regions), Lower[a.region]) /\ Passes(LowerAll(q.districts), Lower[a.district])
         /\ a \in Areas
         /\ o.types = q.types /\ \A d : InDates(o, d) <=> InDates(q, d)
<1>1. /\ o.regions = AsOne(q.regions) /\ o.districts = AsOne(q.districts)
      /\ o.types = q.types /\ o.from = q.from /\ o.to = q.to
  BY HandlersAssumption DEF OnePlace, Parameters
<1>2. /\ a \in Areas /\ Passes(LowerAll(o.regions), Lower[a.region])
      /\ Passes(LowerAll(o.districts), Lower[a.district])
  BY DEF AreasAsked
<1>3. Lower[Unknown] # Lower[a.region] /\ Lower[Unknown] # Lower[a.district]
  BY <1>2, MapAssumption
<1>4. ~Passes(LowerAll({Unknown}), Lower[a.region]) /\ ~Passes(LowerAll({Unknown}), Lower[a.district])
  BY <1>3 DEF Passes, LowerAll
<1>5. o.regions = q.regions /\ o.districts = q.districts
  BY <1>1, <1>2, <1>4 DEF AsOne
<1> QED
  BY <1>1, <1>2, <1>5 DEF InDates

\* The rows of the map: a branch, an area, a meter, and one of its readings.
MapRow(q, r) ==
  /\ r = <<r[1], r[2], r[3], r[4]>>
  /\ r[2] \in AreasAsked(q) /\ r[3] \in MeterRows /\ r[3].type # Null /\ TypeFilter(q, r[3])
  /\ \/ r[1] = "spatial" /\ BySpace(r[2], r[3])
     \/ r[1] = "district_name" /\ ByDistrict(r[2], r[3])
     \/ r[1] = "region_name" /\ ByRegion(r[2], r[3])
  /\ r[4] \in ReadingsOf(q, r[3])

LEMMA MapRowsAre ==
  ASSUME NEW q, NEW r
  PROVE  r \in MapRows(q) <=> MapRow(q, r)
<1> DEFINE typed == {m \in MeterRows : m.type # Null /\ TypeFilter(q, m)}
           pairs == AreasAsked(q) \X typed
           rows(name, p) == {name} \X {p[1]} \X {p[2]} \X ReadingsOf(q, p[2])
           spatial == {p \in pairs : BySpace(p[1], p[2])}
           byDistrict == {p \in pairs : ByDistrict(p[1], p[2])}
           byRegion == {p \in pairs : ByRegion(p[1], p[2])}
<1>1. MapRows(q) = (UNION {rows("spatial", p) : p \in spatial})
                     \cup (UNION {rows("district_name", p) : p \in byDistrict})
                     \cup (UNION {rows("region_name", p) : p \in byRegion})
  BY DEF MapRows
<1>2. \A name, p : r \in rows(name, p) <=> r = <<name, p[1], p[2], r[4]>> /\ r[4] \in ReadingsOf(q, p[2])
  OBVIOUS
<1>3. \A p \in pairs : p[1] \in AreasAsked(q) /\ p[2] \in typed
  OBVIOUS
<1>4. \A a \in AreasAsked(q), m \in typed :
        LET p == <<a, m>> IN /\ p \in pairs /\ p[1] = a /\ p[2] = m
  OBVIOUS
<1> HIDE DEF rows, pairs
<1>5. r \in MapRows(q) <=> \/ \E p \in spatial : r \in rows("spatial", p)
                           \/ \E p \in byDistrict : r \in rows("district_name", p)
                           \/ \E p \in byRegion : r \in rows("region_name", p)
  BY <1>1
<1>6. ASSUME r \in MapRows(q) PROVE MapRow(q, r)
  <2>1. PICK p \in pairs, name \in {"spatial", "district_name", "region_name"} :
          /\ r \in rows(name, p)
          /\ \/ name = "spatial" /\ BySpace(p[1], p[2])
             \/ name = "district_name" /\ ByDistrict(p[1], p[2])
             \/ name = "region_name" /\ ByRegion(p[1], p[2])
    BY <1>5, <1>6
  <2>2. r = <<name, p[1], p[2], r[4]>> /\ r[4] \in ReadingsOf(q, p[2])
    BY <1>2, <2>1
  <2>3. r[1] = name /\ r[2] = p[1] /\ r[3] = p[2]
    BY <2>2
  <2> QED
    BY <1>3, <2>1, <2>2, <2>3 DEF MapRow
<1>7. ASSUME MapRow(q, r) PROVE r \in MapRows(q)
  <2> DEFINE p == <<r[2], r[3]>>
  <2>1. r[2] \in AreasAsked(q) /\ r[3] \in typed
    BY <1>7 DEF MapRow
  <2>2. p \in pairs /\ p[1] = r[2] /\ p[2] = r[3]
    BY <1>4, <2>1
  <2> HIDE DEF p, typed
  <2>3. r \in rows(r[1], p)
    BY <1>2, <1>7, <2>2 DEF MapRow
  <2>4. CASE r[1] = "spatial" /\ BySpace(r[2], r[3])
    BY <1>5, <2>2, <2>3, <2>4
  <2>5. CASE r[1] = "district_name" /\ ByDistrict(r[2], r[3])
    BY <1>5, <2>2, <2>3, <2>5
  <2>6. CASE r[1] = "region_name" /\ ByRegion(r[2], r[3])
    BY <1>5, <2>2, <2>3, <2>6
  <2> QED
    BY <1>7, <2>4, <2>5, <2>6 DEF MapRow
<1> QED
  BY <1>6, <1>7

-----------------------------------------------------------------------------
(* What the map and the series add up to.                                  *)

LEMMA MapRowsFinite ==
  ASSUME TablesInv, NEW q
  PROVE  IsFiniteSet(MapRows(q))
<1> DEFINE branches == {"spatial", "district_name", "region_name"}
           areas == AreasAsked(q)
           some == daily \cup {NoReading}
           S == (branches \X areas) \X (MeterRows \X some)
           h == [x \in S |-> <<x[1][1], x[1][2], x[2][1], x[2][2]>>]
<1>1. IsFiniteSet(branches)
  <2>1. branches = ({"spatial"} \cup {"district_name"}) \cup {"region_name"}
    OBVIOUS
  <2>2. IsFiniteSet({"spatial"} \cup {"district_name"})
    BY FS_Singleton, FS_AddElement
  <2>3. IsFiniteSet(({"spatial"} \cup {"district_name"}) \cup {"region_name"})
    BY <2>2, FS_AddElement
  <2> QED
    BY <2>1, <2>3
<1>2. IsFiniteSet(areas)
  BY MapAssumption, FS_Subset DEF AreasAsked, Areas
<1>3. IsFiniteSet(MeterRows) /\ IsFiniteSet(some)
  BY RowsFinite, FS_AddElement DEF TablesInv
<1> HIDE DEF branches, areas, some
<1>4. IsFiniteSet(branches \X areas) /\ IsFiniteSet(MeterRows \X some)
  BY <1>1, <1>2, <1>3, FS_Product
<1>5. IsFiniteSet(S)
  BY <1>4, FS_Product
<1>6. IsFiniteSet(Keys(S, h))
  <2> HIDE DEF S, h
  <2> QED
    BY <1>5, KeysFinite
<1>7. ASSUME NEW r \in MapRows(q) PROVE r \in Keys(S, h)
  <2>1. MapRow(q, r)
    BY MapRowsAre
  <2>2. /\ r[1] \in branches /\ r[2] \in areas /\ r[3] \in MeterRows /\ r[4] \in some
        /\ r = <<r[1], r[2], r[3], r[4]>>
    BY <2>1 DEF MapRow, branches, areas, some, ReadingsOf
  <2> DEFINE x == <<<<r[1], r[2]>>, <<r[3], r[4]>>>>
  <2>3. x \in S
    BY <2>2
  <2>4. h[x] = <<r[1], r[2], r[3], r[4]>>
    BY <2>3
  <2> HIDE DEF x, S, h
  <2> QED
    BY <2>2, <2>3, <2>4 DEF Keys
<1> HIDE DEF S, h
<1> QED
  BY <1>6, <1>7, FS_Subset

\* The column of a system, summed up over groups.
LEMMA KwhSumIs ==
  ASSUME NEW S, NEW s
  PROVE  MapThenSumSet(LAMBDA r : r.kwh[s], S) = Sum([r \in S |-> r.kwh[s]], S)
<1> DEFINE f == [r \in S |-> r.kwh[s]]
           first(x) == CHOOSE y \in x : TRUE
<1>1. MapThenSumSet(LAMBDA r : r.kwh[s], S)
        = (CHOOSE iter : iter = [x \in SUBSET S |-> IF x = {} THEN 0
                       ELSE first(x).kwh[s] + iter[x \ {first(x)}]])[S]
  BY DEF MapThenSumSet, MapThenFoldSet
<1>2. ASSUME NEW x \in SUBSET S, x # {} PROVE f[first(x)] = first(x).kwh[s]
  <2>1. first(x) \in S
    BY <1>2
  <2> HIDE DEF first
  <2> QED
    BY <2>1
<1> HIDE DEF f
<1>3. ASSUME NEW iter
      PROVE  Folds(iter, f, SUBSET S)
               <=> iter = [x \in SUBSET S |-> IF x = {} THEN 0
                             ELSE first(x).kwh[s] + iter[x \ {first(x)}]]
  BY <1>2 DEF Folds
<1>4. Sum(f, S) = (CHOOSE iter : Folds(iter, f, SUBSET S))[S]
  BY SumIs
<1> QED
  BY <1>1, <1>3, <1>4, ZenonT(60) DEF f

\* The rows of an area, a day and a system, and what they add up to.
Shows(q, a, day, s) == {r \in MapRows(q) : r[2] = a /\ r[4].day = day /\ System(r[4]) = s}

LEMMA ReadingShown ==
  ASSUME NEW q, NEW a, NEW day, NEW s \in Kilowatts, NEW r \in Shows(q, a, day, s)
  PROVE  MapRow(q, r) /\ r[4] \in daily /\ r[4].number = r[3].number /\ InDates(q, r[4])
<1>1. MapRow(q, r) /\ System(r[4]) = s
  BY MapRowsAre DEF Shows
<1>2. r[4] # NoReading
  BY <1>1, TablesAssumption DEF System, NoReading
<1>3. r[4] \in ReadingsOf(q, r[3])
  BY <1>1 DEF MapRow
<1> QED
  BY <1>1, <1>2, <1>3 DEF ReadingsOf

LEMMA MapSums ==
  ASSUME TablesInv, NEW q, NEW a \in AreasAsked(q), NEW day, NEW s \in Kilowatts
  PROVE  MapThenSumSet(LAMBDA r : r.kwh[s], {r \in GetRegionalMapConsumption(q)[a] : r.key.day = day})
           = Sum([r \in Shows(q, a, day, s) |-> Kwh(r[4])], Shows(q, a, day, s))
<1> DEFINE rows == {r \in MapRows(q) : r[2] = a}
           key == [r \in rows |-> [branch |-> r[1], meter |-> Columns(r[3], MapColumns), day |-> r[4].day]]
           ofKey(k) == {r \in rows : key[r] = k}
           group(k) == [key |-> k, kwh |-> [t \in Kilowatts |->
                          MapThenSumSet(LAMBDA r : Kwh(r[4]), {r \in ofKey(k) : System(r[4]) = t})]]
           K == {k \in Keys(rows, key) : k.day = day}
           h == [k \in K |-> group(k)]
           T == Shows(q, a, day, s)
           f == [r \in T |-> Kwh(r[4])]
           keyT == [r \in T |-> key[r]]
           p == [k \in K |-> group(k).kwh[s]]
           G == {g \in GetRegionalMapConsumption(q)[a] : g.key.day = day}
           c == [g \in G |-> g.kwh[s]]
<1>1. GetRegionalMapConsumption(q)[a] = {group(k) : k \in Keys(rows, key)}
  <2> DEFINE Key(r) == [branch |-> r[1], meter |-> Columns(r[3], MapColumns), day |-> r[4].day]
             figures(k) == [key |-> k, kwh |-> [t \in Kilowatts |->
                 MapThenSumSet(LAMBDA r : Kwh(r[4]), {r \in {x \in rows : Key(x) = k} : System(r[4]) = t})]]
  <2>1. GetRegionalMapConsumption(q)[a] = {figures(k) : k \in {Key(r) : r \in rows}}
    BY DEF GetRegionalMapConsumption
  <2>2. \A r \in rows : key[r] = Key(r)
    OBVIOUS
  <2> HIDE DEF Key, rows, key
  <2>3. Keys(rows, key) = {Key(r) : r \in rows} /\ \A k : ofKey(k) = {x \in rows : Key(x) = k}
    BY <2>2 DEF Keys
  <2>4. \A k : group(k) = figures(k)
    BY <2>3
  <2> HIDE DEF group, figures, ofKey
  <2> QED
    BY <2>1, <2>3, <2>4
<1>2. IsFiniteSet(rows) /\ IsFiniteSet(T)
  BY MapRowsFinite, FS_Subset DEF Shows
<1>3. /\ \A r \in T : r \in rows /\ f[r] \in Int /\ keyT[r] = key[r] /\ key[r].day = day
      /\ T = {r \in rows : key[r].day = day /\ System(r[4]) = s}
  <2>1. \A r \in T : r \in rows /\ Kwh(r[4]) \in Int
    BY ReadingShown, KwhIsNumber DEF Shows
  <2>2. T = {r \in rows : key[r].day = day /\ System(r[4]) = s}
    BY DEF Shows
  <2> QED
    BY <2>1, <2>2
<1>4. /\ \A k : group(k).key = k
      /\ \A k \in K :
                   /\ k.day = day /\ k \in Keys(rows, key)
                   /\ group(k).kwh[s] = MapThenSumSet(LAMBDA r : Kwh(r[4]), {r \in ofKey(k) : System(r[4]) = s})
  OBVIOUS
<1> HIDE DEF group
<1>5. \A k \in K : {r \in ofKey(k) : System(r[4]) = s} = Part(T, keyT, k)
  <2> HIDE DEF T, key, keyT, f
  <2> QED
    BY <1>3, <1>4 DEF Part
<1>6. Keys(T, keyT) \subseteq K
  <2> HIDE DEF T, key, keyT, f, rows
  <2> QED
    BY <1>3 DEF Keys
<1>7. IsFiniteSet(K)
  <2>1. IsFiniteSet(Keys(rows, key))
    <3> HIDE DEF rows, key
    <3> QED
      BY <1>2, KeysFinite
  <2> QED
    BY <2>1, FS_Subset
<1>8. \A k \in K : p[k] = Sum(f, Part(T, keyT, k))
  <2> SUFFICES ASSUME NEW k \in K PROVE p[k] = Sum(f, Part(T, keyT, k))
    OBVIOUS
  <2> DEFINE P == Part(T, keyT, k)
  <2>1. p[k] = MapThenSumSet(LAMBDA r : Kwh(r[4]), P)
    BY <1>4, <1>5
  <2>2. MapThenSumSet(LAMBDA r : Kwh(r[4]), P) = Sum([r \in P |-> Kwh(r[4])], P)
    BY EndIs
  <2>3. IsFiniteSet(P) /\ P \subseteq T
    BY <1>2, FS_Subset DEF Part
  <2>4. /\ \A r \in P : f[r] \in Int
        /\ \A r \in P : [x \in P |-> Kwh(x[4])][r] = f[r]
    BY <1>3, <2>3
  <2> HIDE DEF P, f, T, keyT
  <2>5. Sum([r \in P |-> Kwh(r[4])], P) = Sum(f, P)
    BY <2>3, <2>4, SumSame
  <2> QED
    BY <2>1, <2>2, <2>5 DEF P
<1>9. (\A k \in K : p[k] \in Int) /\ Sum(p, K) = Sum(f, T)
  <2>1. \A r \in T : f[r] \in Int
    BY <1>3
  <2> HIDE DEF T, f, keyT, K, p
  <2> QED
    BY <1>2, <1>6, <1>7, <1>8, <2>1, SumOver
<1>10. G = Keys(K, h)
  <2>1. G = {group(k) : k \in K}
    <3> DEFINE all == GetRegionalMapConsumption(q)[a]
               keys == Keys(rows, key)
    <3>1. all = {group(k) : k \in keys}
      BY <1>1
    <3> HIDE DEF all, keys
    <3>2. G = {g \in all : g.key.day = day} /\ K = {k \in keys : k.day = day}
      BY DEF all, keys
    <3> HIDE DEF G, K
    <3> QED
      BY <1>4, <3>1, <3>2
  <2> HIDE DEF G, K
  <2> QED
    BY <2>1 DEF Keys
<1>11. /\ \A x, y \in K : h[x] = h[y] => x = y
       /\ \A k \in K : p[k] = c[h[k]]
  <2>1. \A k \in K : h[k] = group(k) /\ h[k] \in G /\ h[k].key = k
    BY <1>4, <1>10 DEF Keys
  <2> HIDE DEF G, K, h
  <2> QED
    BY <2>1
<1>12. Sum(c, Keys(K, h)) = Sum(p, K)
  <2> HIDE DEF G, K, h, c, p
  <2> QED
    BY <1>7, <1>9, <1>11, SumImage
<1>13. MapThenSumSet(LAMBDA r : r.kwh[s], G) = Sum(c, G)
  <2> HIDE DEF G
  <2> QED
    BY KwhSumIs DEF c
<1> QED
  BY <1>9, <1>10, <1>12, <1>13

\* The rows behind a line of the series.
Counted(q, a, day, s) ==
  {r \in DistrictMeters(q) \X daily :
     /\ r[2].number = r[1][2] /\ InDates(q, r[2])
     /\ r[1][1] = a /\ r[2].day = day /\ System(r[2]) = s}

LEMMA SeriesSums ==
  ASSUME NEW q, NEW g \in GetDistrictTimeseriesConsumption(q), NEW s \in Kilowatts
  PROVE  LET U == Counted(q, g.key.area, g.key.day, s) IN g.kwh[s] = Sum([r \in U |-> Kwh(r[2])], U)
<1> DEFINE rows == {r \in DistrictMeters(q) \X daily : r[2].number = r[1][2] /\ InDates(q, r[2])}
           Key(r) == [area |-> r[1][1], day |-> r[2].day]
           of(k, t) == {r \in {x \in rows : Key(x) = k} : System(r[2]) = t}
           figures(k) == [key |-> k, kwh |-> [t \in Kilowatts |->
                            MapThenSumSet(LAMBDA r : Kwh(r[2]), of(k, t))]]
<1>1. GetDistrictTimeseriesConsumption(q) = {figures(k) : k \in {Key(r) : r \in rows}}
  BY DEF GetDistrictTimeseriesConsumption
<1>2. PICK k \in {Key(r) : r \in rows} : g = figures(k)
  <2> HIDE DEF figures, rows, Key
  <2> QED
    BY <1>1
<1>3. g.key = k /\ g.kwh[s] = MapThenSumSet(LAMBDA r : Kwh(r[2]), of(k, s))
  BY <1>2
<1>4. of(k, s) = Counted(q, k.area, k.day, s)
  <2>1. k = [area |-> k.area, day |-> k.day]
    <3>1. PICK r \in rows : k = Key(r)
      OBVIOUS
    <3> QED
      BY <3>1
  <2> QED
    BY <2>1 DEF Counted
<1> HIDE DEF of
<1>5. MapThenSumSet(LAMBDA r : Kwh(r[2]), of(k, s)) = Sum([r \in of(k, s) |-> Kwh(r[2])], of(k, s))
  BY EndIs
<1> QED
  BY <1>3, <1>4, <1>5

\* A reading shown once for each of some rows adds up to the same as the readings.
LEMMA OneRowEach ==
  ASSUME TablesInv, NEW T, NEW i, \A r \in T : r[i] \in daily,
         \A x, y \in T : x[i] = y[i] => x = y, NEW D, D = {r[i] : r \in T}
  PROVE  Sum([r \in T |-> Kwh(r[i])], T) = Sum([d \in D |-> Kwh(d)], D)
<1> DEFINE h == [r \in T |-> r[i]]
           g == [r \in T |-> Kwh(r[i])]
           f == [d \in D |-> Kwh(d)]
<1>1. h \in Injection(T, daily)
  BY DEF Injection, IsInjective
<1>2. IsFiniteSet(T)
  BY <1>1, FS_Injection DEF TablesInv
<1>3. Keys(T, h) = D
  BY DEF Keys
<1>4. (\A x, y \in T : h[x] = h[y] => x = y) /\ \A x \in T : g[x] = f[h[x]] /\ g[x] \in Int
  BY KwhIsNumber
<1> HIDE DEF h, g, f
<1>5. Sum(f, Keys(T, h)) = Sum(g, T)
  BY <1>2, <1>4, SumImage
<1> QED
  BY <1>3, <1>5 DEF f, g

\* Two joins that show the same readings, each of them once.
OnceEach(T, U) ==
  /\ {r[4] : r \in T} = {r[2] : r \in U}
  /\ \A r \in T : r[4] \in daily
  /\ \A x, y \in T : x[4] = y[4] => x = y
  /\ \A r \in U : r[2] \in daily
  /\ \A x, y \in U : x[2] = y[2] => x = y

\* Where every number is one meter and every meter in one area, the map and the
\* series show the same readings.
LEMMA SameReadings ==
  ASSUME TablesInv, PlacesInv, UniqueNumbers, \A m \in MeterRows : WellPlaced(m),
         NEW q \in Queries, NEW o, o = OnePlace(q), NEW a \in AreasAsked(o), NEW day, NEW s \in Kilowatts
  PROVE  OnceEach(Shows(o, a, day, s), Counted(q, a, day, s))
<1> DEFINE T == Shows(o, a, day, s)
           U == Counted(q, a, day, s)
<1>1. /\ Passes(LowerAll(q.regions), Lower[a.region]) /\ Passes(LowerAll(q.districts), Lower[a.district])
      /\ a \in Areas /\ o.types = q.types /\ \A d : InDates(o, d) <=> InDates(q, d)
  BY OneIsMany
<1>2. \A m : TypeFilter(o, m) <=> TypeFilter(q, m)
  BY <1>1 DEF TypeFilter
<1>3. ASSUME NEW m \in MeterRows
      PROVE  /\ a \in AreasOf(m) <=> AreasOf(m) = {a}
             /\ ~ByRegion(a, m)
             /\ BySpace(a, m) <=> m.place # Null /\ a \in AreasOf(m)
             /\ ByDistrict(a, m) <=> m.place = Null /\ a \in AreasOf(m)
             /\ a \in AreasOf(m) => Lower[a.region] = Lower[m.region] /\ Lower[a.district] = Lower[m.district]
  BY <1>1, OneArea
<1>4. ASSUME NEW r \in T
      PROVE  /\ r[2] = a /\ r[3] \in MeterRows /\ a \in AreasOf(r[3]) /\ r[4] \in daily
             /\ r[4].number = r[3].number /\ r[4].day = day /\ System(r[4]) = s
             /\ r[1] = IF r[3].place = Null THEN "district_name" ELSE "spatial"
             /\ r = <<r[1], r[2], r[3], r[4]>>
             /\ r[3].type # Null /\ TypeFilter(q, r[3]) /\ InDates(q, r[4])
  <2>1. MapRow(o, r) /\ r[4] \in daily /\ r[4].number = r[3].number /\ InDates(o, r[4])
    BY ReadingShown
  <2>2. r[2] = a /\ r[4].day = day /\ System(r[4]) = s
    BY DEF Shows
  <2>3. /\ r[3] \in MeterRows /\ r[3].type # Null /\ TypeFilter(q, r[3]) /\ r = <<r[1], r[2], r[3], r[4]>>
        /\ \/ r[1] = "spatial" /\ BySpace(a, r[3])
           \/ r[1] = "district_name" /\ ByDistrict(a, r[3])
           \/ r[1] = "region_name" /\ ByRegion(a, r[3])
    BY <1>2, <2>1, <2>2 DEF MapRow
  <2>4. a \in AreasOf(r[3]) /\ r[1] = IF r[3].place = Null THEN "district_name" ELSE "spatial"
    BY <1>3, <2>3
  <2> QED
    BY <1>1, <2>1, <2>2, <2>3, <2>4
<1>5. ASSUME NEW x \in T, NEW y \in T, x[4] = y[4] PROVE x = y
  <2>1. x[3] = y[3]
    BY <1>4, <1>5, OneMeter
  <2>2. x[1] = y[1] /\ x[2] = y[2]
    BY <1>4, <2>1
  <2> QED
    BY <1>4, <1>5, <2>1, <2>2
<1>6. ASSUME NEW r \in U
      PROVE  /\ r[2] \in daily /\ r[2].day = day /\ System(r[2]) = s /\ InDates(q, r[2])
             /\ r = <<<<a, r[2].number>>, r[2]>>
             /\ \E m \in MeterRows : /\ m.type # Null /\ TypeFilter(q, m) /\ a \in AreasOf(m)
                                     /\ m.number = r[2].number
  <2>1. /\ r[1] \in DistrictMeters(q) /\ r[2] \in daily /\ r = <<r[1], r[2]>>
        /\ r[2].number = r[1][2] /\ InDates(q, r[2]) /\ r[1][1] = a /\ r[2].day = day /\ System(r[2]) = s
    BY DEF Counted
  <2>2. PICK m \in MeterRows : m.type # Null /\ TypeFilter(q, m) /\ r[1] \in AreasOf(m) \X {m.number}
    BY <2>1 DEF DistrictMeters
  <2>3. r[1] = <<r[1][1], r[1][2]>> /\ r[1][1] \in AreasOf(m) /\ r[1][2] = m.number
    BY <2>2
  <2> QED
    BY <2>1, <2>2, <2>3
<1>7. ASSUME NEW r \in T PROVE <<<<a, r[4].number>>, r[4]>> \in U
  <2> DEFINE m == r[3]
             x == <<<<a, r[4].number>>, r[4]>>
  <2>1. /\ m \in MeterRows /\ m.type # Null /\ TypeFilter(q, m) /\ a \in AreasOf(m) /\ r[4].number = m.number
        /\ Passes(LowerAll(q.regions), Lower[m.region]) /\ Passes(LowerAll(q.districts), Lower[m.district])
    BY <1>1, <1>3, <1>4
  <2> HIDE DEF m
  <2>2. <<a, r[4].number>> \in AreasOf(m) \X {m.number}
    BY <2>1
  <2>3. <<a, r[4].number>> \in DistrictMeters(q)
    BY <2>1, <2>2 DEF DistrictMeters
  <2> QED
    BY <1>4, <2>3 DEF Counted
<1>8. ASSUME NEW r \in U PROVE \E x \in T : x[4] = r[2]
  <2>1. PICK m \in MeterRows : m.type # Null /\ TypeFilter(q, m) /\ a \in AreasOf(m) /\ m.number = r[2].number
    BY <1>6
  <2> DEFINE x == <<IF m.place = Null THEN "district_name" ELSE "spatial", a, m, r[2]>>
  <2>2. r[2] \in ReadingsOf(o, m)
    BY <1>1, <1>6, <2>1 DEF ReadingsOf
  <2>3. TypeFilter(o, m) /\ (m.place = Null => ByDistrict(a, m)) /\ (m.place # Null => BySpace(a, m))
    BY <1>2, <1>3, <2>1
  <2>4. MapRow(o, x) /\ x[2] = a /\ x[4] = r[2]
    BY <2>1, <2>2, <2>3 DEF MapRow
  <2>5. x[4].day = day /\ System(x[4]) = s
    BY <1>6, <2>4
  <2> HIDE DEF x
  <2>6. x \in T
    BY <2>4, <2>5, MapRowsAre DEF Shows
  <2> QED
    BY <2>4, <2>6
<1>9. \A x, y \in U : x[2] = y[2] => x = y
  BY <1>6
<1>10. {r[4] : r \in T} = {r[2] : r \in U}
  <2> HIDE DEF T, U
  <2>1. \A r \in T : \E x \in U : x[2] = r[4]
    BY <1>7
  <2> QED
    BY <1>8, <2>1
<1> HIDE DEF T, U
<1>11. (\A r \in T : r[4] \in daily) /\ (\A r \in U : r[2] \in daily) /\ \A x, y \in T : x[4] = y[4] => x = y
  BY <1>4, <1>5, <1>6
<1> QED
  BY <1>9, <1>10, <1>11 DEF OnceEach, T, U

LEMMA MapHolds ==
  ASSUME TablesInv, PlacesInv, UniqueNumbers, \A m \in MeterRows : WellPlaced(m), NEW q \in Queries
  PROVE  MapAgrees(q)
<1> DEFINE o == OnePlace(q)
           map == HandleGetRegionalMapConsumption(q)
           series == HandleGetDistrictTimeseriesConsumption(q)
<1>1. /\ map.status = 200 => map.body = GetRegionalMapConsumption(o)
      /\ series.status = 200 => series.body = GetDistrictTimeseriesConsumption(q)
  BY DEF HandleGetRegionalMapConsumption, HandleGetDistrictTimeseriesConsumption, Ranged, Answer, BadRequest
<1>2. DOMAIN GetRegionalMapConsumption(o) = AreasAsked(o)
  BY DEF GetRegionalMapConsumption
<1>3. ASSUME NEW g \in GetDistrictTimeseriesConsumption(q), g.key.area \in AreasAsked(o), NEW s \in Kilowatts
      PROVE  g.kwh[s] = MapThenSumSet(LAMBDA r : r.kwh[s],
                          {r \in GetRegionalMapConsumption(o)[g.key.area] : r.key.day = g.key.day})
  <2> DEFINE a == g.key.area
             day == g.key.day
             T == Shows(o, a, day, s)
             U == Counted(q, a, day, s)
             D == {r[4] : r \in T}
  <2>1. g.kwh[s] = Sum([r \in U |-> Kwh(r[2])], U)
    BY SeriesSums
  <2>2. MapThenSumSet(LAMBDA r : r.kwh[s], {r \in GetRegionalMapConsumption(o)[a] : r.key.day = day})
          = Sum([r \in T |-> Kwh(r[4])], T)
    <3> HIDE DEF o, a, day
    <3> QED
      BY <1>3, MapSums DEF a
  <2>3. /\ D = {r[2] : r \in U} /\ (\A r \in T : r[4] \in daily) /\ (\A x, y \in T : x[4] = y[4] => x = y)
        /\ (\A r \in U : r[2] \in daily) /\ (\A x, y \in U : x[2] = y[2] => x = y)
    <3>1. a \in AreasAsked(o) /\ o = OnePlace(q)
      BY <1>3
    <3> HIDE DEF a, day, o, D
    <3>2. OnceEach(T, U)
      BY <3>1, SameReadings
    <3> HIDE DEF T, U
    <3> QED
      BY <3>2 DEF OnceEach, D
  <2> HIDE DEF a, day, T, U, o
  <2>4. Sum([r \in T |-> Kwh(r[4])], T) = Sum([d \in D |-> Kwh(d)], D)
    BY <2>3, OneRowEach
  <2>5. Sum([r \in U |-> Kwh(r[2])], U) = Sum([d \in D |-> Kwh(d)], D)
    <3> HIDE DEF D
    <3> QED
      BY <2>3, OneRowEach
  <2> QED
    BY <2>1, <2>2, <2>4, <2>5 DEF a, day
<1> HIDE DEF o, map, series
<1> QED
  BY <1>1, <1>2, <1>3 DEF MapAgrees, Given, map, series

\* Where every number is one meter and every meter is in the area its record names,
\* GetRegionalMapConsumption and GetDistrictTimeseriesConsumption show the same sums
\* of a day; always, GetMeterSpatialStats, every GetMeterSpatialCounts and the list
\* of GetMeterSpatialMismatch count the same rows, and a value that
\* GetUniqueStations and its like offer as a filter finds a meter.
THEOREM MapReportsAgree ==
  ASSUME FailedIsNoReport
  PROVE  Spec => []MapsAgree
<1>1. ASSUME TablesInv, PlacesInv PROVE MapsAgree
  BY <1>1, MapHolds, SpatialHolds, ListsHold DEF MapsAgree
<1>2. TablesInv /\ PlacesInv => MapsAgree
  BY <1>1
<1> QED
  BY <1>2, TablesStay, PlacesStay, PTL

-----------------------------------------------------------------------------
(* Retiring.                                                               *)

LEMMA RetiringRow ==
  ASSUME TablesInv, NEW id \in DOMAIN meters, SoftDeleteMeter(id)
  PROVE  /\ UNCHANGED feeders
         /\ DOMAIN meters' = DOMAIN meters
         /\ \A i \in DOMAIN meters : i # id => meters'[i] = meters[i]
         /\ meters'[id].deleted = TRUE
         /\ \A i \in DOMAIN meters : /\ meters[i].id = i /\ meters'[i].id = i
                                     /\ meters'[i].number = meters[i].number
<1> DEFINE x == [meters[id] EXCEPT !.deleted = TRUE]
<1>1. \A i \in DOMAIN meters : MeterOK(meters[i], i)
  BY TablesByRow
<1>2. x.id = id /\ x.number = meters[id].number /\ x.deleted = TRUE
  BY <1>1 DEF MeterOK, NoMeter
<1>3. meters' = [meters EXCEPT ![id] = x] /\ feeders' = feeders
  BY DEF SoftDeleteMeter
<1> HIDE DEF x
<1> QED
  BY <1>1, <1>2, <1>3 DEF MeterOK

\* What the lists of the administration show: the meter is gone from them, the
\* others and the ends of the pairs stay.
LEMMA RetiringUnlists ==
  ASSUME TablesInv, FailedIsNoPage, NEW c \in Callers, NEW id \in DOMAIN meters, DeleteMeter(c, id)
  PROVE  RetiredIsUnlisted(c, id)
<1>1. /\ UNCHANGED feeders
      /\ DOMAIN meters' = DOMAIN meters
      /\ \A i \in DOMAIN meters : i # id => meters'[i] = meters[i]
      /\ meters'[id].deleted = TRUE
      /\ \A i \in DOMAIN meters : /\ meters[i].id = i /\ meters'[i].id = i
                                  /\ meters'[i].number = meters[i].number
  BY RetiringRow DEF DeleteMeter
<1>2. HandleGetMeterByID(id)'.status = 404
  <2>1. GetMeterByID(id)' = {}
    BY <1>1 DEF GetMeterByID, MeterRows
  <2> QED
    BY <2>1 DEF HandleGetMeterByID
<1>3. HandleListExpressFeeders(c)' = HandleListExpressFeeders(c)
  <2>1. \A f \in FeederRows : {f.sending, f.receiving} \subseteq DOMAIN meters
    BY DEF TablesInv, FeederOK, FeederRows
  <2>2. FeederRows' = FeederRows
    BY <1>1 DEF FeederRows
  <2>3. \A f \in FeederRows : /\ meters'[f.sending].number = meters[f.sending].number
                              /\ meters'[f.receiving].number = meters[f.receiving].number
    BY <1>1, <2>1
  <2> DEFINE Ends(f) == [id |-> f.id, sending |-> meters[f.sending].number,
                         receiving |-> meters[f.receiving].number]
  <2>4. \A f \in FeederRows : Ends(f)' = Ends(f)
    BY <2>3
  <2>5. /\ ListExpressFeeders = Listed({Ends(f) : f \in {g \in FeederRows : ~g.deleted}})
        /\ ListExpressFeeders' = Listed({Ends(f)' : f \in {g \in FeederRows : ~g.deleted}})
    BY <2>2 DEF ListExpressFeeders, Listed
  <2> HIDE DEF Ends
  <2>6. ListExpressFeeders' = ListExpressFeeders
    BY <2>4, <2>5
  <2> QED
    BY <2>6 DEF HandleListExpressFeeders, Answer
<1>4. ASSUME NEW q \in Queries
      PROVE  {m \in HandleQueryMeters(q).body.list : m.id # id} = HandleQueryMeters(q)'.body.list
  <2> DEFINE Asked(m) ==
        /\ Passes(LowerAll(q.regions), Lower[m.region])
        /\ Passes(LowerAll(q.districts), Lower[m.district])
        /\ Passes(LowerAll(q.sites), Lower[m.site])
        /\ Passes(q.types, m.type)
        /\ AtWholePoint(q, m)
  <2>1. /\ HandleQueryMeters(q).body.list = {m \in MeterRows : ~m.deleted /\ Asked(m)}
        /\ HandleQueryMeters(q)'.body.list = {m \in MeterRows' : ~m.deleted /\ Asked(m)}
    BY FailedIsNoPage DEF HandleQueryMeters, QueryMeters, Listed, Answer, FailedIsNoPage
  <2> HIDE DEF Asked
  <2>2. {m \in MeterRows : ~m.deleted /\ m.id # id} = {m \in MeterRows' : ~m.deleted}
    BY <1>1 DEF MeterRows
  <2> QED
    BY <2>1, <2>2
<1> QED
  BY <1>2, <1>3, <1>4 DEF RetiredIsUnlisted

-----------------------------------------------------------------------------
(* The same rows with a meter retired.  Rows whose first part is a reading  *)
(* keep their sums when what follows it is renamed.                         *)

\* U is T renamed by h, one to one, each row with the reading it had.
Renamed(T, U, h) ==
  /\ U = Keys(T, h)
  /\ \A x, y \in T : h[x] = h[y] => x = y
  /\ \A x \in T : h[x][1] = x[1]

\* Grouped by columns that stay, the groups are renamed too.
LEMMA RenamedParts ==
  ASSUME NEW T, NEW U, NEW h, Renamed(T, U, h), NEW k, NEW l, \A x \in T : l[h[x]] = k[x]
  PROVE  /\ Keys(U, l) = Keys(T, k)
         /\ \A c : Renamed(Part(T, k, c), Part(U, l, c), h)
<1>1. U = {h[x] : x \in T}
  BY DEF Renamed, Keys
<1>2. Keys(U, l) = Keys(T, k)
  BY <1>1 DEF Keys
<1>3. \A c : Part(U, l, c) = {h[x] : x \in {y \in T : k[y] = c}}
  BY <1>1 DEF Part
<1> QED
  BY <1>2, <1>3 DEF Renamed, Keys, Part

\* Renamed rows sum to the same, and are of the same numbers.
LEMMA RenamedTotal ==
  ASSUME NEW T, NEW U, NEW h, Metering(T), Renamed(T, U, h)
  PROVE  Total(U) = Total(T) /\ {r[1].number : r \in U} = {r[1].number : r \in T}
<1> DEFINE f == [r \in U |-> Kwh(r[1])]
           g == [r \in T |-> Kwh(r[1])]
<1>1. Total(U) = Sum(f, U) /\ Total(T) = Sum(g, T)
  BY TotalIs
<1>2. U = Keys(T, h) /\ U = {h[x] : x \in T}
  BY DEF Renamed, Keys
<1>3. /\ IsFiniteSet(T) /\ \A x, y \in T : h[x] = h[y] => x = y
      /\ \A x \in T : g[x] = f[h[x]] /\ g[x] \in Int
  BY <1>2 DEF Renamed, Metering
<1>4. {r[1].number : r \in U} = {r[1].number : r \in T}
  BY <1>2 DEF Renamed
<1> HIDE DEF f, g
<1>5. Sum(f, Keys(T, h)) = Sum(g, T)
  BY <1>3, SumImage
<1> QED
  BY <1>1, <1>2, <1>4, <1>5

\* Grouped gives of renamed rows the same groups with the same figures.
LEMMA RenamedGroups ==
  ASSUME NEW T, NEW U, NEW h, Metering(T), Renamed(T, U, h),
         NEW k, NEW l, \A x \in T : l[h[x]] = k[x]
  PROVE  Groups(U, l) = Groups(T, k)
<1>1. ASSUME NEW c PROVE GroupOf(U, l, c) = GroupOf(T, k, c)
  <2>1. Metering(Part(T, k, c)) /\ Renamed(Part(T, k, c), Part(U, l, c), h)
    <3>1. Metering(Part(T, k, c))
      BY FS_Subset DEF Metering, Part
    <3> QED
      BY <3>1, RenamedParts
  <2>2. /\ Total(Part(U, l, c)) = Total(Part(T, k, c))
        /\ {r[1].number : r \in Part(U, l, c)} = {r[1].number : r \in Part(T, k, c)}
    BY <2>1, RenamedTotal
  <2> QED
    BY <2>2 DEF GroupOf
<1>2. Keys(U, l) = Keys(T, k)
  BY RenamedParts
<1> QED
  BY <1>1, <1>2 DEF Groups

\* What retiring does to the rows: a column more or less, and no other.
Retiring(g) ==
  /\ daily' = daily /\ feeders' = feeders
  /\ MeterRows' = {g[m] : m \in MeterRows}
  /\ \A m, n \in MeterRows \cup {NoMeter} : g[m] = g[n] => m = n
  /\ \A m \in MeterRows : /\ g[m].id = m.id /\ g[m].number = m.number /\ g[m].type = m.type
                          /\ g[m].region = m.region /\ g[m].district = m.district /\ g[m].site = m.site
                          /\ g[m].point = m.point /\ g[m].place = m.place
                          /\ Profile(g[m]) = Profile(m)
                          /\ \A c \in DOMAIN NoMeter : g[m][c] = m[c]
  /\ g[NoMeter] = NoMeter

\* SoftDeleteMeter does that.
LEMMA RetiringRenames ==
  ASSUME TablesInv, NEW id \in DOMAIN meters, SoftDeleteMeter(id)
  PROVE  \E g : Retiring(g)
<1>1. /\ UNCHANGED <<feeders, daily>>
      /\ DOMAIN meters' = DOMAIN meters
      /\ meters' = [meters EXCEPT ![id] = [meters[id] EXCEPT !.deleted = TRUE]]
      /\ \A i \in DOMAIN meters : MeterOK(meters[i], i)
  BY RetiringRow, TablesByRow DEF SoftDeleteMeter
<1> DEFINE new(m) == IF m = NoMeter THEN NoMeter ELSE meters'[m.id]
           g == [m \in MeterRows \cup {NoMeter} |-> new(m)]
<1>2. \A i \in DOMAIN meters : /\ meters[i].id = i /\ meters'[i].id = i /\ meters[i] # NoMeter /\ meters'[i] # NoMeter
                               /\ new(meters[i]) = meters'[i]
  <2>1. \A i \in DOMAIN meters : /\ DOMAIN meters[i] = DOMAIN NoMeter \cup {"deleted"} /\ DOMAIN meters'[i] = DOMAIN NoMeter \cup {"deleted"}
                                 /\ meters[i].id = i /\ meters'[i].id = i
    BY <1>1 DEF MeterOK, NoMeter
  <2>2. "deleted" \notin DOMAIN NoMeter
    BY DEF NoMeter
  <2> QED
    BY <2>1, <2>2
<1>3. ASSUME NEW i \in DOMAIN meters
      PROVE  LET m == meters[i] n == meters'[i] IN
          /\ n.id = m.id /\ n.number = m.number /\ n.type = m.type
          /\ n.region = m.region /\ n.district = m.district /\ n.site = m.site
          /\ n.point = m.point /\ n.place = m.place
          /\ Profile(n) = Profile(m)
          /\ \A c \in DOMAIN NoMeter : n[c] = m[c]
  <2> DEFINE m == meters[i]
             x == [m EXCEPT !.deleted = TRUE]
  <2>1. meters'[i] = m \/ meters'[i] = x
    BY <1>1
  <2>2. DOMAIN m = DOMAIN NoMeter \cup {"deleted"} /\ "deleted" \notin DOMAIN NoMeter
    BY <1>1 DEF MeterOK, NoMeter
  <2>3. \A c \in DOMAIN NoMeter : x[c] = m[c]
    BY <2>2
  <2>4. Profile(x) = Profile(m)
    BY <2>2 DEF Profile, NoMeter
  <2>5. {"id", "number", "type", "region", "district", "site", "point", "place"} = DOMAIN NoMeter
    BY DEF NoMeter
  <2> HIDE DEF m, x
  <2>6. /\ x.id = m.id /\ x.number = m.number /\ x.type = m.type
        /\ x.region = m.region /\ x.district = m.district /\ x.site = m.site
        /\ x.point = m.point /\ x.place = m.place
    BY <2>3, <2>5
  <2> QED
    BY <2>1, <2>3, <2>4, <2>6 DEF m
<1>4. /\ MeterRows = {meters[i] : i \in DOMAIN meters}
      /\ MeterRows' = {meters'[i] : i \in DOMAIN meters}
  BY <1>1 DEF MeterRows
<1>5. Retiring(g)
  <2>4. \A i \in DOMAIN meters : g[meters[i]] = meters'[i]
    BY <1>2, <1>4
  <2>1. MeterRows' = {g[m] : m \in MeterRows} /\ g[NoMeter] = NoMeter
    <3>1. g[NoMeter] = NoMeter
      OBVIOUS
    <3> HIDE DEF g
    <3> QED
      BY <1>4, <2>4, <3>1
  <2>2. \A m, n \in MeterRows \cup {NoMeter} : g[m] = g[n] => m = n
    BY <1>2, <1>4
  <2>3. \A m \in MeterRows : \E i \in DOMAIN meters : m = meters[i] /\ g[m] = meters'[i]
    BY <1>2, <1>4
  <2> HIDE DEF g
  <2>5. ASSUME NEW m \in MeterRows
        PROVE  /\ g[m].id = m.id /\ g[m].number = m.number /\ g[m].type = m.type
               /\ g[m].region = m.region /\ g[m].district = m.district /\ g[m].site = m.site
               /\ g[m].point = m.point /\ g[m].place = m.place
               /\ Profile(g[m]) = Profile(m)
               /\ \A c \in DOMAIN NoMeter : g[m][c] = m[c]
    <3>1. PICK i \in DOMAIN meters : m = meters[i] /\ g[m] = meters'[i]
      BY <2>3
    <3> QED
      BY <1>3, <3>1
  <2>6. daily' = daily /\ feeders' = feeders
    BY <1>1
  <2> QED
    BY <2>1, <2>2, <2>5, <2>6 DEF Retiring
<1> QED
  BY <1>5

\* The same for the pairs of a reading and a meter.
Pairs(g) == [r \in daily \X (MeterRows \cup {NoMeter}) |-> <<r[1], g[r[2]]>>]

LEMMA PairsRenamed ==
  ASSUME NEW g, Retiring(g), NEW T, T \subseteq daily \X (MeterRows \cup {NoMeter})
  PROVE  Renamed(T, Keys(T, Pairs(g)), Pairs(g))
<1>1. \A r \in T : r = <<r[1], r[2]>> /\ r[2] \in MeterRows \cup {NoMeter} /\ Pairs(g)[r] = <<r[1], g[r[2]]>>
  BY DEF Pairs
<1>2. \A x, y \in T : Pairs(g)[x] = Pairs(g)[y] => x = y
  BY <1>1 DEF Retiring
<1> QED
  BY <1>1, <1>2 DEF Renamed

LEMMA RetiringMeters ==
  ASSUME NEW g, Retiring(g)
  PROVE  \A n : MetersOf(n)' = {g[m] : m \in MetersOf(n)}
<1> SUFFICES ASSUME NEW n PROVE MetersOf(n)' = {g[m] : m \in MetersOf(n)}
  OBVIOUS
<1>1. MeterRows' = {g[m] : m \in MeterRows} /\ (\A m \in MeterRows : g[m].number = m.number) /\ g[NoMeter] = NoMeter
  BY DEF Retiring
<1>2. {m \in MeterRows' : m.number = n} = {g[m] : m \in {x \in MeterRows : x.number = n}}
  BY <1>1
<1> QED
  BY <1>1, <1>2 DEF MetersOf

\* The filters ask for no column that retiring changes.
LEMMA RetiringFilters ==
  ASSUME NEW g, Retiring(g)
  PROVE  \A q : \A m \in MeterRows \cup {NoMeter} :
           /\ PlaceFilters(q, g[m]) <=> PlaceFilters(q, m)
           /\ TypeFilter(q, g[m]) <=> TypeFilter(q, m)
           /\ g[m].type = m.type
<1> SUFFICES ASSUME NEW q, NEW m \in MeterRows \cup {NoMeter}
             PROVE  /\ PlaceFilters(q, g[m]) <=> PlaceFilters(q, m)
                    /\ TypeFilter(q, g[m]) <=> TypeFilter(q, m)
                    /\ g[m].type = m.type
  OBVIOUS
<1>1. /\ g[m].type = m.type /\ g[m].region = m.region /\ g[m].district = m.district
      /\ g[m].site = m.site /\ g[m].point = m.point
  BY DEF Retiring
<1> QED
  BY <1>1 DEF PlaceFilters, TypeFilter, AtPoint

\* What the reports join, filter and ask for, with a meter retired.
LEMMA JoinedRenamed ==
  ASSUME NEW g, Retiring(g), NEW q
  PROVE  Joined(q)' = Keys(Joined(q), Pairs(g))
<1> DEFINE D == {e \in daily : e.item \in DOMAIN Mapping /\ ReadingFilters(q, e)}
<1>1. Joined(q) = {r \in UNION {{d} \X MetersOf(d.number) : d \in D} : PlaceFilters(q, r[2])}
  BY DEF Joined
<1>2. Joined(q)' = {r \in UNION {{d} \X MetersOf(d.number)' : d \in D} : PlaceFilters(q, r[2])}
  BY DEF Retiring, Joined
<1>3. \A n : MetersOf(n)' = {g[m] : m \in MetersOf(n)}
  BY RetiringMeters
<1>4. \A n : MetersOf(n) \subseteq MeterRows \cup {NoMeter}
  BY DEF MetersOf
<1>5. \A m \in MeterRows \cup {NoMeter} : PlaceFilters(q, g[m]) <=> PlaceFilters(q, m)
  BY RetiringFilters
<1>6. D \subseteq daily
  OBVIOUS
<1> HIDE DEF D
<1>7. \A r : r \in Joined(q) <=> \E d \in D : \E m \in MetersOf(d.number) : r = <<d, m>> /\ PlaceFilters(q, m)
  BY <1>1
<1>8. \A r : r \in Joined(q)' <=> \E d \in D : \E m \in MetersOf(d.number) : r = <<d, g[m]>> /\ PlaceFilters(q, g[m])
  BY <1>2, <1>3
<1>9. \A d \in D : \A m \in MetersOf(d.number) : Pairs(g)[<<d, m>>] = <<d, g[m]>>
  BY <1>4, <1>6 DEF Pairs
<1>10. ASSUME NEW r \in Joined(q)' PROVE r \in Keys(Joined(q), Pairs(g))
  <2>3. PICK d \in D : \E m \in MetersOf(d.number) : r = <<d, g[m]>> /\ PlaceFilters(q, g[m])
    BY <1>8
  <2>1. PICK m \in MetersOf(d.number) : r = <<d, g[m]>> /\ PlaceFilters(q, g[m])
    BY <2>3
  <2>2. <<d, m>> \in Joined(q) /\ Pairs(g)[<<d, m>>] = r
    BY <1>4, <1>5, <1>7, <1>9, <2>1
  <2> QED
    BY <2>2 DEF Keys
<1>11. ASSUME NEW x \in Joined(q) PROVE Pairs(g)[x] \in Joined(q)'
  <2>3. PICK d \in D : \E m \in MetersOf(d.number) : x = <<d, m>> /\ PlaceFilters(q, m)
    BY <1>7
  <2>1. PICK m \in MetersOf(d.number) : x = <<d, m>> /\ PlaceFilters(q, m)
    BY <2>3
  <2> QED
    BY <1>4, <1>5, <1>8, <1>9, <2>1
<1> QED
  BY <1>10, <1>11 DEF Keys

LEMMA FilteredRenamed ==
  ASSUME NEW g, Retiring(g), NEW q, NEW types
  PROVE  /\ Typed(q, types)' = Keys(Typed(q, types), Pairs(g))
         /\ Untyped(q)' = Keys(Untyped(q), Pairs(g))
<1>1. Joined(q)' = Keys(Joined(q), Pairs(g)) /\ Joined(q) \subseteq daily \X (MeterRows \cup {NoMeter})
  BY JoinedRenamed, JoinedRows
<1>2. \A r \in Joined(q) : /\ Pairs(g)[r] = <<r[1], g[r[2]]>> /\ r[2] \in MeterRows \cup {NoMeter}
                           /\ g[r[2]].type = r[2].type /\ (TypeFilter(q, g[r[2]]) <=> TypeFilter(q, r[2]))
  BY <1>1, RetiringFilters DEF Pairs
<1>3. /\ Typed(q, types)' = {r \in Joined(q)' : r[2].type \in types}
      /\ Untyped(q)' = {r \in Joined(q)' : TypeFilter(q, r[2])}
  BY DEF Typed, Untyped
<1> DEFINE J == Joined(q)
           h == Pairs(g)
<1>4. /\ Typed(q, types)' = {r \in Keys(J, h) : r[2].type \in types}
      /\ Untyped(q)' = {r \in Keys(J, h) : TypeFilter(q, r[2])}
  BY <1>1, <1>3
<1>5. ASSUME NEW r \in J
      PROVE  h[r][2].type = r[2].type /\ (TypeFilter(q, h[r][2]) <=> TypeFilter(q, r[2]))
  <2>1. h[r][2] = g[r[2]]
    BY <1>2
  <2> QED
    BY <1>2, <2>1
<1>6. Typed(q, types) = {r \in J : r[2].type \in types} /\ Untyped(q) = {r \in J : TypeFilter(q, r[2])}
  BY DEF Typed, Untyped
<1> HIDE DEF J, h
<1>7. Typed(q, types)' = Keys(Typed(q, types), h)
  BY <1>4, <1>5, <1>6 DEF Keys
<1>8. Untyped(q)' = Keys(Untyped(q), h)
  BY <1>4, <1>5, <1>6 DEF Keys
<1> QED
  BY <1>7, <1>8 DEF h

LEMMA RetiringColumns ==
  ASSUME NEW g, Retiring(g), NEW m \in MeterRows \cup {NoMeter}, NEW cols \in SUBSET DOMAIN NoMeter
  PROVE  Columns(g[m], cols) = Columns(m, cols) /\ Extra(g[m], cols) = Extra(m, cols)
<1>1. \A c \in cols : g[m][c] = m[c]
  BY DEF Retiring
<1>2. \A c \in cols : (IF c = "type" THEN g[m][c] ELSE Lower[g[m][c]]) = (IF c = "type" THEN m[c] ELSE Lower[m[c]])
  BY <1>1
<1> QED
  BY <1>1, <1>2 DEF Columns, Extra

\* Reports of renamed rows.
LEMMA ReportsRenamed ==
  ASSUME TablesInv, NEW g, Retiring(g), NEW T, T \subseteq daily \X (MeterRows \cup {NoMeter}),
         NEW U, U = Keys(T, Pairs(g)), NEW cols \in SUBSET DOMAIN NoMeter, NEW q, NEW groups \in SUBSET DOMAIN NoMeter
  PROVE  /\ DailyReport(U, cols) = DailyReport(T, cols)
         /\ PeriodReport(q, U, cols, groups) = PeriodReport(q, T, cols, groups)
<1> DEFINE h == Pairs(g)
           day(S) == [r \in S |-> DayKey(r, cols)]
           period(S) == [r \in S |-> PeriodKey(q, r, cols, groups)]
<1>1. Metering(T) /\ Renamed(T, U, h)
  BY MeteringRows, PairsRenamed
<1>2. \A r \in T : h[r] \in U /\ h[r][1] = r[1] /\ h[r][2] = g[r[2]] /\ r[2] \in MeterRows \cup {NoMeter}
  BY DEF Pairs, Keys
<1>3. ASSUME NEW r \in T
      PROVE  /\ Columns(h[r][2], cols) = Columns(r[2], cols)
             /\ Extra(h[r][2], groups) = Extra(r[2], groups)
  BY <1>2, RetiringColumns
<1>4. \A r \in T : day(U)[h[r]] = day(T)[r] /\ period(U)[h[r]] = period(T)[r]
  <2> HIDE DEF h
  <2> QED
    BY <1>2, <1>3 DEF DayKey, PeriodKey
<1> HIDE DEF h, day, period
<1>5. Groups(U, day(U)) = Groups(T, day(T)) /\ Groups(U, period(U)) = Groups(T, period(T))
  BY <1>1, <1>4, RenamedGroups
<1> QED
  BY <1>5, DailyGroups, PeriodGroups DEF day, period

\* The report by day stays, and those by period with the figures next to them.
LEMMA NumbersStay ==
  ASSUME NEW g, Retiring(g), NEW T \in SUBSET MeterRows
  PROVE  Numbers({g[m] : m \in T}) = Numbers(T)
BY DEF Retiring, Numbers

LEMMA DailyStays ==
  ASSUME TablesInv, NEW g, Retiring(g), NEW q
  PROVE  HandleGetDailyConsumption(q)' = HandleGetDailyConsumption(q)
<1>1. GetDailyConsumption(q)' = DailyReport(Untyped(q)', PlaceColumns)
  BY DEF GetDailyConsumption
<1>2. Untyped(q)' = Keys(Untyped(q), Pairs(g)) /\ Untyped(q) \subseteq daily \X (MeterRows \cup {NoMeter})
  BY FilteredRenamed, JoinedRows DEF Untyped
<1>3. PlaceColumns \in SUBSET DOMAIN NoMeter /\ {} \in SUBSET DOMAIN NoMeter
  BY DEF PlaceColumns, NoMeter
<1>4. DailyReport(Untyped(q)', PlaceColumns) = DailyReport(Untyped(q), PlaceColumns)
  BY <1>2, <1>3, ReportsRenamed
<1> QED
  BY <1>1, <1>4 DEF HandleGetDailyConsumption, GetDailyConsumption, Dated, Answer

\* The figures next to the reports are numbers of meters.
LEMMA MetersStay ==
  ASSUME NEW g, Retiring(g), NEW q, NEW types
  PROVE  /\ AllMeters(types)' = AllMeters(types)
         /\ MetersRead(q, types)' = MetersRead(q, types)
         /\ Numbers({m \in MeterRows' : m.type = "DTX" /\ SameLetters(q, m)}) =
              Numbers({m \in MeterRows : m.type = "DTX" /\ SameLetters(q, m)})
         /\ Numbers({m \in MeterRows' : m.type = "REGIONAL_BOUNDARY" /\ SameLetters(q, m)}) =
              Numbers({m \in MeterRows : m.type = "REGIONAL_BOUNDARY" /\ SameLetters(q, m)})
         /\ \A c \in {"region", "district"} : \A n :
              Numbers({m \in MeterRows' : m.type = "DTX" /\ m[c] = n}) =
                Numbers({m \in MeterRows : m.type = "DTX" /\ m[c] = n})
<1> DEFINE Read(m) == PlaceFilters(q, m) /\ \E d \in daily : d.number = m.number /\ ReadingFilters(q, d)
<1>1. MeterRows' = {g[m] : m \in MeterRows}
  BY DEF Retiring
<1>2. \A m \in MeterRows : /\ g[m].type = m.type /\ g[m].number = m.number
                           /\ SameLetters(q, g[m]) <=> SameLetters(q, m)
                           /\ Read(g[m]) <=> Read(m)
                           /\ g[m]["region"] = m["region"] /\ g[m]["district"] = m["district"]
  <2> SUFFICES ASSUME NEW m \in MeterRows
               PROVE  /\ g[m].type = m.type /\ g[m].number = m.number
                      /\ SameLetters(q, g[m]) <=> SameLetters(q, m)
                      /\ Read(g[m]) <=> Read(m)
                      /\ g[m]["region"] = m["region"] /\ g[m]["district"] = m["district"]
    OBVIOUS
  <2>1. /\ g[m].type = m.type /\ g[m].number = m.number
        /\ g[m].region = m.region /\ g[m].district = m.district /\ g[m].site = m.site
    BY DEF Retiring
  <2>2. PlaceFilters(q, g[m]) <=> PlaceFilters(q, m)
    BY RetiringFilters
  <2> QED
    BY <2>1, <2>2 DEF SameLetters
<1>3. /\ AllMeters(types) = Cardinality(Numbers({m \in MeterRows : m.type \in types}))
      /\ AllMeters(types)' = Cardinality(Numbers({m \in MeterRows' : m.type \in types}))
  BY DEF AllMeters, Numbers
<1>4. /\ MetersRead(q, types) = Cardinality(Numbers({m \in MeterRows : m.type \in types /\ Read(m)}))
      /\ MetersRead(q, types)' = Cardinality(Numbers({m \in MeterRows' : m.type \in types /\ Read(m)}))
  BY DEF MetersRead, Numbers, Retiring
<1> HIDE DEF Read
<1>5. Numbers({m \in MeterRows' : m.type \in types}) = Numbers({m \in MeterRows : m.type \in types})
  BY <1>1, <1>2 DEF Numbers
<1>6. Numbers({m \in MeterRows' : m.type \in types /\ Read(m)}) = Numbers({m \in MeterRows : m.type \in types /\ Read(m)})
  BY <1>1, <1>2 DEF Numbers
<1>7. ASSUME NEW t
      PROVE  Numbers({m \in MeterRows' : m.type = t /\ SameLetters(q, m)}) =
               Numbers({m \in MeterRows : m.type = t /\ SameLetters(q, m)})
  BY <1>1, <1>2 DEF Numbers
<1>8. ASSUME NEW c \in {"region", "district"}, NEW n
      PROVE  Numbers({m \in MeterRows' : m.type = "DTX" /\ m[c] = n}) =
               Numbers({m \in MeterRows : m.type = "DTX" /\ m[c] = n})
  <2>1. \A m \in MeterRows : g[m][c] = m[c]
    BY <1>2
  <2> QED
    BY <1>1, <1>2, <2>1 DEF Numbers
<1> QED
  BY <1>3, <1>4, <1>5, <1>6, <1>7, <1>8

LEMMA PeriodsStay ==
  ASSUME TablesInv, NEW g, Retiring(g), NEW q \in Queries
  PROVE  /\ HandleGetDTXAggregatedConsumption(q)' = HandleGetDTXAggregatedConsumption(q)
         /\ HandleGetBSPAggregatedConsumption(q)' = HandleGetBSPAggregatedConsumption(q)
         /\ HandleGetFeederAggregatedConsumption(q)' = HandleGetFeederAggregatedConsumption(q)
         /\ HandleGetRegionalBoundaryAggregatedConsumption(q)' = HandleGetRegionalBoundaryAggregatedConsumption(q)
<1>1. ASSUME NEW types, NEW cols \in SUBSET DOMAIN NoMeter, NEW groups \in SUBSET DOMAIN NoMeter
      PROVE  PeriodReport(q, Typed(q, types)', cols, groups) = PeriodReport(q, Typed(q, types), cols, groups)
  <2>1. Typed(q, types)' = Keys(Typed(q, types), Pairs(g)) /\ Typed(q, types) \subseteq daily \X (MeterRows \cup {NoMeter})
    BY FilteredRenamed, JoinedRows DEF Typed
  <2> QED
    BY <2>1, ReportsRenamed
<1>2. q.groups \in SUBSET DOMAIN NoMeter /\ q.groups \ {"type"} \in SUBSET DOMAIN NoMeter
  BY HandlersAssumption
<1>3. {"region", "district", "site", "type", "point"} \subseteq DOMAIN NoMeter
  BY DEF NoMeter
<1>4. ASSUME NEW types, NEW cols \in SUBSET DOMAIN NoMeter, NEW groups \in SUBSET DOMAIN NoMeter
      PROVE  StationReport(q, types, cols, groups)' = StationReport(q, types, cols, groups)
  BY <1>1, <1>4, MetersStay DEF StationReport
<1>5. GetBSPAggregatedConsumption(q)' = GetBSPAggregatedConsumption(q)
  BY <1>2, <1>3, <1>4 DEF GetBSPAggregatedConsumption
<1>6. GetFeederAggregatedConsumption(q)' = GetFeederAggregatedConsumption(q)
  BY <1>2, <1>3, <1>4 DEF GetFeederAggregatedConsumption
<1>7. GetRegionalBoundaryAggregatedConsumption(q)' = GetRegionalBoundaryAggregatedConsumption(q)
  <2> DEFINE all == Cardinality(Numbers({m \in MeterRows : m.type = "REGIONAL_BOUNDARY" /\ SameLetters(q, m)}))
             rows == PeriodReport(q, Typed(q, {"REGIONAL_BOUNDARY"}), {"point", "site"}, q.groups)
  <2>1. rows' = rows
    BY <1>1, <1>2, <1>3
  <2>2. all' = all
    BY MetersStay DEF Numbers
  <2>3. /\ GetRegionalBoundaryAggregatedConsumption(q) = [rows |-> rows, total |-> all]
        /\ GetRegionalBoundaryAggregatedConsumption(q)' = [rows |-> rows', total |-> all']
    BY DEF GetRegionalBoundaryAggregatedConsumption, BoundaryReport, Numbers
  <2> HIDE DEF all, rows
  <2> QED
    BY <2>1, <2>2, <2>3
<1>8. GetDTXAggregatedConsumption(q)' = GetDTXAggregatedConsumption(q)
  <2> DEFINE count(c, n) == Cardinality(Numbers({m \in MeterRows : m.type = "DTX" /\ m[c] = n}))
             all == Cardinality(Numbers({m \in MeterRows : m.type = "DTX" /\ SameLetters(q, m)}))
             rows == PeriodReport(q, Typed(q, {"DTX"}), {"region", "district", "site"}, q.groups)
  <2>1. rows' = rows
    BY <1>1, <1>2, <1>3
  <2>2. all' = all
    BY MetersStay DEF Numbers
  <2>3. ASSUME NEW c \in {"region", "district"}, NEW n PROVE count(c, n)' = count(c, n)
    <3>1. count(c, n)' = Cardinality(Numbers({m \in MeterRows' : m.type = "DTX" /\ m[c] = n}))
      BY DEF Numbers
    <3>2. Numbers({m \in MeterRows' : m.type = "DTX" /\ m[c] = n}) = Numbers({m \in MeterRows : m.type = "DTX" /\ m[c] = n})
      BY MetersStay, ZenonT(60)
    <3> QED
      BY <3>1, <3>2
  <2>4. /\ GetDTXAggregatedConsumption(q) =
             [rows |-> rows, total |-> all,
              ofColumn |-> [c \in {"region", "district"} |-> [n \in DOMAIN Lower \ {Null} |-> count(c, n)]]]
        /\ GetDTXAggregatedConsumption(q)' =
             [rows |-> rows', total |-> all',
              ofColumn |-> [c \in {"region", "district"} |-> [n \in DOMAIN Lower \ {Null} |-> count(c, n)']]]
    BY DEF GetDTXAggregatedConsumption, Numbers
  <2> HIDE DEF count, all, rows
  <2> QED
    BY <2>1, <2>2, <2>3, <2>4
<1> QED
  BY <1>5, <1>6, <1>7, <1>8
  DEF HandleGetDTXAggregatedConsumption, HandleGetBSPAggregatedConsumption, HandleGetFeederAggregatedConsumption,
      HandleGetRegionalBoundaryAggregatedConsumption, Dated, Answer

\* The totals of GetAggregated: of all the rows, of a day, of a type.
LEMMA SomeRenamed ==
  ASSUME NEW T, NEW h, NEW U, U = Keys(T, h), NEW S \in SUBSET T, NEW V \in SUBSET U,
         \A r \in T : h[r] \in V <=> r \in S
  PROVE  V = Keys(S, h)
BY DEF Keys

\* Some of the renamed rows are those of some rows.
LEMMA SomePart ==
  ASSUME NEW T, NEW h, NEW U, Metering(T), Renamed(T, U, h), NEW S \in SUBSET T, NEW V \in SUBSET U,
         \A r \in T : h[r] \in V <=> r \in S
  PROVE  Metering(S) /\ Renamed(S, V, h)
<1>1. V = Keys(S, h)
  BY SomeRenamed DEF Renamed
<1>2. Metering(S)
  BY FS_Subset DEF Metering
<1> QED
  BY <1>1, <1>2 DEF Renamed

LEMMA TotalsRenamed ==
  ASSUME NEW T, NEW h, NEW U, Metering(T), Renamed(T, U, h)
  PROVE  /\ Totals(U) = Totals(T)
         /\ \A s : Total(OfSystem(U, s)) = Total(OfSystem(T, s))
<1>1. \A r \in T : h[r] \in U /\ h[r][1] = r[1]
  BY DEF Renamed, Keys
<1>2. ASSUME NEW s PROVE Total(OfSystem(U, s)) = Total(OfSystem(T, s))
  <2>1. \A r \in T : h[r] \in OfSystem(U, s) <=> r \in OfSystem(T, s)
    BY <1>1 DEF OfSystem
  <2>2. OfSystem(T, s) \in SUBSET T /\ OfSystem(U, s) \in SUBSET U
    BY DEF OfSystem
  <2>3. Metering(OfSystem(T, s)) /\ Renamed(OfSystem(T, s), OfSystem(U, s), h)
    BY <2>1, <2>2, SomePart
  <2> QED
    BY <2>3, RenamedTotal
<1>3. Totals(U) = Totals(T)
  BY <1>2 DEF Totals
<1> QED
  BY <1>2, <1>3

\* A row of GetAggregated is a register and a meter of its number.
LEMMA AggregableRenamed ==
  ASSUME NEW g, Retiring(g), NEW q
  PROVE  \E h : /\ Renamed(Aggregable(q), Aggregable(q)', h)
                /\ \A r \in Aggregable(q) : h[r][2].type = r[2].type
<1> DEFINE D == {e \in Registers : OpenDates(q, e)}
           ok(m) == /\ Passes(LowerAll(q.regions), Lower[m.region])
                    /\ Passes(LowerAll(q.districts), Lower[m.district])
                    /\ Passes(LowerAll(q.sites), Lower[m.site])
                    /\ AtWholePoint(q, m)
                    /\ Passes(LowerAll(q.types), Lower[m.type])
           h == [r \in Registers \X MeterRows |-> <<r[1], g[r[2]]>>]
<1>1. Aggregable(q) = {r \in UNION {{d} \X {m \in MeterRows : m.number = d.number} : d \in D} : ok(r[2])}
  BY DEF Aggregable
<1>2. Aggregable(q)' = {r \in UNION {{d} \X {m \in MeterRows' : m.number = d.number} : d \in D} : ok(r[2])}
  BY DEF Aggregable
<1>3. \A m \in MeterRows : (ok(g[m]) <=> ok(m)) /\ g[m].number = m.number /\ g[m].type = m.type
  <2> SUFFICES ASSUME NEW m \in MeterRows
               PROVE  (ok(g[m]) <=> ok(m)) /\ g[m].number = m.number /\ g[m].type = m.type
    OBVIOUS
  <2>1. /\ g[m].number = m.number /\ g[m].type = m.type /\ g[m].region = m.region
        /\ g[m].district = m.district /\ g[m].site = m.site /\ g[m].point = m.point
    BY DEF Retiring
  <2> QED
    BY <2>1 DEF AtWholePoint
<1>4. MeterRows' = {g[m] : m \in MeterRows} /\ \A m, n \in MeterRows : g[m] = g[n] => m = n
  BY DEF Retiring
<1>5. \A d \in D, m \in MeterRows : h[<<d, m>>] = <<d, g[m]>>
  OBVIOUS
<1> HIDE DEF D, ok, h
<1>6. \A r : r \in Aggregable(q) <=> \E d \in D, m \in MeterRows : r = <<d, m>> /\ m.number = d.number /\ ok(m)
  BY <1>1
<1>7. \A r : r \in Aggregable(q)' <=> \E d \in D, m \in MeterRows' : r = <<d, m>> /\ m.number = d.number /\ ok(m)
  BY <1>2
<1>8. ASSUME NEW r \in Aggregable(q)' PROVE r \in Keys(Aggregable(q), h)
  <2>1. PICK d \in D, n \in MeterRows' : r = <<d, n>> /\ n.number = d.number /\ ok(n)
    BY <1>7
  <2>2. PICK m \in MeterRows : n = g[m]
    BY <1>4
  <2>3. <<d, m>> \in Aggregable(q) /\ h[<<d, m>>] = r
    BY <1>3, <1>5, <1>6, <2>1, <2>2
  <2> QED
    BY <2>3 DEF Keys
<1>9. ASSUME NEW x \in Aggregable(q)
      PROVE  h[x] \in Aggregable(q)' /\ h[x][1] = x[1] /\ h[x][2].type = x[2].type
  <2>1. PICK d \in D, m \in MeterRows : x = <<d, m>> /\ m.number = d.number /\ ok(m)
    BY <1>6
  <2>2. g[m] \in MeterRows' /\ g[m].number = d.number /\ ok(g[m]) /\ g[m].type = m.type /\ h[x] = <<d, g[m]>>
    BY <1>3, <1>4, <1>5, <2>1
  <2> QED
    BY <1>7, <2>1, <2>2
<1>10. ASSUME NEW x \in Aggregable(q), NEW y \in Aggregable(q), h[x] = h[y] PROVE x = y
  <2>1. PICK d \in D, m \in MeterRows : x = <<d, m>>
    BY <1>6
  <2>2. PICK e \in D, n \in MeterRows : y = <<e, n>>
    BY <1>6
  <2>3. <<d, g[m]>> = <<e, g[n]>>
    BY <1>5, <1>10, <2>1, <2>2
  <2> QED
    BY <1>4, <2>1, <2>2, <2>3
<1>11. Aggregable(q)' = Keys(Aggregable(q), h)
  BY <1>8, <1>9 DEF Keys
<1>12. Renamed(Aggregable(q), Aggregable(q)', h)
  BY <1>9, <1>10, <1>11 DEF Renamed
<1> QED
  BY <1>9, <1>12

LEMMA RegistersMetered ==
  ASSUME TablesInv, NEW q
  PROVE  Metering(Aggregable(q))
<1>1. Aggregable(q) \subseteq Registers \X MeterRows
  BY DEF Aggregable
<1>2. IsFiniteSet(Aggregable(q))
  BY <1>1, RowsFinite, RegistersAssumption, FS_Product, FS_Subset
<1>3. \A r \in Aggregable(q) : r[1] \in Registers
  BY <1>1
<1>4. \A d \in Registers : Kwh(d) \in Int
  BY RegistersAssumption DEF Kwh
<1> QED
  BY <1>2, <1>3, <1>4 DEF Metering

\* What GetAggregated makes of rows.
TotalsOf(rows) ==
  LET on(day) == {r \in rows : r[1].day = day}
      of(type) == {r \in rows : r[2].type = type}
  IN  [totals |-> Totals(rows),
       meters |-> Cardinality({r[1].number : r \in rows}),
       series |-> [day \in {r[1].day : r \in rows} |-> Totals(on(day))],
       stacked |-> [day \in {r[1].day : r \in rows} |->
                      [t \in {r[2].type : r \in on(day)} |-> Totals(on(day) \cap of(t))]],
       byType |-> [t \in {r[2].type : r \in rows} |-> Totals(of(t))]]

LEMMA AggregatedRenamed ==
  ASSUME NEW T, NEW h, NEW U, Metering(T), Renamed(T, U, h), \A r \in T : h[r][2].type = r[2].type
  PROVE  TotalsOf(U) = TotalsOf(T)
<1> DEFINE on(S, day) == {r \in S : r[1].day = day}
           of(S, type) == {r \in S : r[2].type = type}
<1>1. \A r \in T : h[r] \in U /\ h[r][1] = r[1] /\ h[r][2].type = r[2].type
  BY DEF Renamed, Keys
<1>2. \A x \in U : \E r \in T : x = h[r]
  BY DEF Renamed, Keys
<1>3. ASSUME NEW S \in SUBSET T, NEW V \in SUBSET U, \A r \in T : h[r] \in V <=> r \in S
      PROVE  Totals(V) = Totals(S)
  <2>1. Metering(S) /\ Renamed(S, V, h)
    BY <1>3, SomePart
  <2> QED
    BY <2>1, TotalsRenamed
<1>4. Totals(U) = Totals(T)
  BY TotalsRenamed
<1>5. {r[1].number : r \in U} = {r[1].number : r \in T}
  BY <1>1, <1>2
<1>6. {r[1].day : r \in U} = {r[1].day : r \in T}
  BY <1>1, <1>2
<1>7. {r[2].type : r \in U} = {r[2].type : r \in T}
  BY <1>1, <1>2
<1>8. \A day : {r[2].type : r \in on(U, day)} = {r[2].type : r \in on(T, day)}
  BY <1>1, <1>2
<1>9. ASSUME NEW day, NEW t
      PROVE  /\ Totals(on(U, day)) = Totals(on(T, day))
             /\ Totals(of(U, t)) = Totals(of(T, t))
             /\ Totals(on(U, day) \cap of(U, t)) = Totals(on(T, day) \cap of(T, t))
  <2>1. \A r \in T : /\ h[r] \in on(U, day) <=> r \in on(T, day)
                     /\ h[r] \in of(U, t) <=> r \in of(T, t)
    BY <1>1
  <2>2. /\ on(T, day) \in SUBSET T /\ on(U, day) \in SUBSET U
        /\ of(T, t) \in SUBSET T /\ of(U, t) \in SUBSET U
    OBVIOUS
  <2> HIDE DEF on, of
  <2>3. Totals(on(U, day)) = Totals(on(T, day))
    BY <1>3, <2>1, <2>2
  <2>4. Totals(of(U, t)) = Totals(of(T, t))
    BY <1>3, <2>1, <2>2
  <2>5. /\ on(T, day) \cap of(T, t) \in SUBSET T /\ on(U, day) \cap of(U, t) \in SUBSET U
        /\ \A r \in T : h[r] \in on(U, day) \cap of(U, t) <=> r \in on(T, day) \cap of(T, t)
    BY <2>1, <2>2
  <2> QED
    BY <1>3, <2>3, <2>4, <2>5
<1>10. \A S : TotalsOf(S) =
      [totals |-> Totals(S),
       meters |-> Cardinality({r[1].number : r \in S}),
       series |-> [day \in {r[1].day : r \in S} |-> Totals(on(S, day))],
       stacked |-> [day \in {r[1].day : r \in S} |->
                      [t \in {r[2].type : r \in on(S, day)} |-> Totals(on(S, day) \cap of(S, t))]],
       byType |-> [t \in {r[2].type : r \in S} |-> Totals(of(S, t))]]
  BY DEF TotalsOf
<1> HIDE DEF on, of
<1>11. [day \in {r[1].day : r \in U} |-> Totals(on(U, day))] = [day \in {r[1].day : r \in T} |-> Totals(on(T, day))]
  BY <1>6, <1>9
<1>12. [t \in {r[2].type : r \in U} |-> Totals(of(U, t))] = [t \in {r[2].type : r \in T} |-> Totals(of(T, t))]
  BY <1>7, <1>9
<1>13. \A day : [t \in {r[2].type : r \in on(U, day)} |-> Totals(on(U, day) \cap of(U, t))]
                  = [t \in {r[2].type : r \in on(T, day)} |-> Totals(on(T, day) \cap of(T, t))]
  BY <1>8, <1>9
<1>14. [day \in {r[1].day : r \in U} |-> [t \in {r[2].type : r \in on(U, day)} |-> Totals(on(U, day) \cap of(U, t))]]
         = [day \in {r[1].day : r \in T} |-> [t \in {r[2].type : r \in on(T, day)} |-> Totals(on(T, day) \cap of(T, t))]]
  BY <1>6, <1>13
<1> QED
  BY <1>4, <1>5, <1>10, <1>11, <1>12, <1>14

LEMMA AggregatedStays ==
  ASSUME TablesInv, NEW g, Retiring(g), NEW q
  PROVE  HandleGetAggregatedReadings(q)' = HandleGetAggregatedReadings(q)
<1>1. GetAggregated(q) = TotalsOf(Aggregable(q)) /\ GetAggregated(q)' = TotalsOf(Aggregable(q)')
  BY DEF GetAggregated, TotalsOf
<1>2. TotalsOf(Aggregable(q)') = TotalsOf(Aggregable(q))
  <2>1. PICK h : /\ Renamed(Aggregable(q), Aggregable(q)', h)
                 /\ \A r \in Aggregable(q) : h[r][2].type = r[2].type
    BY AggregableRenamed
  <2> QED
    BY <2>1, RegistersMetered, AggregatedRenamed
<1> QED
  BY <1>1, <1>2 DEF HandleGetAggregatedReadings, Answer

\* What the report of the express feeders asks of the end of a pair.
Alike(m, n) ==
  /\ n.type = m.type /\ n.region = m.region /\ n.district = m.district
  /\ n.site = m.site /\ n.point = m.point

\* The ends of an express feeder: their numbers and places.
LEMMA FeedersStay ==
  ASSUME TablesInv, NEW id \in DOMAIN meters, SoftDeleteMeter(id), NEW q
  PROVE  HandleGetExpressFeederAggregatedConsumption(q)' = HandleGetExpressFeederAggregatedConsumption(q)
<1>1. /\ feeders' = feeders /\ daily' = daily /\ DOMAIN meters' = DOMAIN meters
      /\ \A i \in DOMAIN meters : i # id => meters'[i] = meters[i]
      /\ meters' = [meters EXCEPT ![id] = [meters[id] EXCEPT !.deleted = TRUE]]
      /\ \A i \in DOMAIN meters : MeterOK(meters[i], i)
  BY RetiringRow, TablesByRow DEF SoftDeleteMeter
<1>2. \A i \in DOMAIN meters :
        /\ meters'[i].number = meters[i].number /\ meters'[i].type = meters[i].type
        /\ meters'[i].region = meters[i].region /\ meters'[i].district = meters[i].district
        /\ meters'[i].site = meters[i].site /\ meters'[i].point = meters[i].point
  BY <1>1 DEF MeterOK, NoMeter
<1>3. ASSUME NEW p, NEW i \in DOMAIN meters, NEW j \in DOMAIN meters
      PROVE  /\ ReadingsOf(p, meters[i])' = ReadingsOf(p, meters[i])
             /\ EitherEnd(p, meters[i], meters[j])' <=> EitherEnd(p, meters[i], meters[j])
  <2>1. ReadingsOf(p, meters[i])' = ReadingsOf(p, meters[i])
    <3> DEFINE rows(n) == {d \in daily : d.number = n /\ InDates(p, d)}
               picked(S) == IF S = {} THEN {NoReading} ELSE S
    <3>1. ReadingsOf(p, meters[i]) = picked(rows(meters[i].number))
      BY DEF ReadingsOf
    <3>2. ReadingsOf(p, meters[i])' = picked(rows(meters'[i].number))
      BY <1>1 DEF ReadingsOf
    <3> HIDE DEF rows, picked
    <3> QED
      BY <1>2, <3>1, <3>2
  <2>2. \A m, n, x, y : Alike(m, x) /\ Alike(n, y) => (EitherEnd(p, x, y) <=> EitherEnd(p, m, n))
    BY DEF Alike, EitherEnd, AtPoint, TypeFilter
  <2>3. Alike(meters[i], meters'[i]) /\ Alike(meters[j], meters'[j])
    BY <1>2 DEF Alike
  <2>4. EitherEnd(p, meters[i], meters[j])' <=> EitherEnd(p, meters'[i], meters'[j])
    BY DEF EitherEnd, AtPoint, TypeFilter
  <2> QED
    BY <2>1, <2>2, <2>3, <2>4
<1>4. \A f \in FeederRows : {f.sending, f.receiving} \subseteq DOMAIN meters
  BY DEF TablesInv, FeederOK, FeederRows
<1>5. FeederRows' = FeederRows
  BY <1>1 DEF FeederRows
<1>6. ASSUME NEW p PROVE FeederPairs(p)' = FeederPairs(p)
  <2> DEFINE asked(f) == /\ ~f.deleted
                         /\ EitherEnd(p, meters[f.sending], meters[f.receiving])
                         /\ Passes(LowerAll(p.sendingRegions), Lower[f.sendingRegion])
                         /\ Passes(LowerAll(p.receivingRegions), Lower[f.receivingRegion])
             pairs(f) == {f} \X ReadingsOf(p, meters[f.sending]) \X ReadingsOf(p, meters[f.receiving])
  <2>1. FeederPairs(p) = UNION {pairs(f) : f \in {x \in FeederRows : asked(x)}}
    BY DEF FeederPairs
  <2>2. FeederPairs(p)' = UNION {pairs(f)' : f \in {x \in FeederRows : asked(x)'}}
    BY <1>5 DEF FeederPairs
  <2>3. \A f \in FeederRows : pairs(f)' = pairs(f) /\ (asked(f)' <=> asked(f))
    BY <1>3, <1>4
  <2> HIDE DEF pairs, asked
  <2> QED
    BY <2>1, <2>2, <2>3
<1>7. ASSUME NEW p, NEW kind PROVE FeederReport(p, kind)' = FeederReport(p, kind)
  BY <1>6 DEF FeederReport
<1> QED
  BY <1>7 DEF HandleGetExpressFeederAggregatedConsumption, GetExpressFeederAggregatedConsumption, Dated, Answer, FeederQuery

\* Readings paired with the meters of their number.
PairsAsked(q, D) == {r \in UNION {{d} \X MetersOf(d.number) : d \in D} : PlaceFilters(q, r[2])}

\* Readings with the meters of their number, as the reports by region pair them.
LEMMA AskedRenamed ==
  ASSUME NEW g, Retiring(g), NEW q, NEW D, D \subseteq daily
  PROVE  /\ {r \in UNION {{d} \X MetersOf(d.number)' : d \in D} : PlaceFilters(q, r[2])} = Keys(PairsAsked(q, D), Pairs(g))
         /\ PairsAsked(q, D) \subseteq daily \X (MeterRows \cup {NoMeter})
<1> DEFINE new == {r \in UNION {{d} \X MetersOf(d.number)' : d \in D} : PlaceFilters(q, r[2])}
           old == PairsAsked(q, D)
<1>3. \A n : MetersOf(n)' = {g[m] : m \in MetersOf(n)}
  BY RetiringMeters
<1>4. \A n : MetersOf(n) \subseteq MeterRows \cup {NoMeter}
  BY DEF MetersOf
<1>5. \A m \in MeterRows \cup {NoMeter} : PlaceFilters(q, g[m]) <=> PlaceFilters(q, m)
  BY RetiringFilters
<1>7. \A r : r \in old <=> \E d \in D : \E m \in MetersOf(d.number) : r = <<d, m>> /\ PlaceFilters(q, m)
  BY DEF PairsAsked
<1>8. \A r : r \in new <=> \E d \in D : \E m \in MetersOf(d.number) : r = <<d, g[m]>> /\ PlaceFilters(q, g[m])
  BY <1>3
<1>9. \A d \in D : \A m \in MetersOf(d.number) : Pairs(g)[<<d, m>>] = <<d, g[m]>>
  BY <1>4 DEF Pairs
<1> HIDE DEF new, old
<1>10. ASSUME NEW r \in new PROVE r \in Keys(old, Pairs(g))
  <2>3. PICK d \in D : \E m \in MetersOf(d.number) : r = <<d, g[m]>> /\ PlaceFilters(q, g[m])
    BY <1>8
  <2>1. PICK m \in MetersOf(d.number) : r = <<d, g[m]>> /\ PlaceFilters(q, g[m])
    BY <2>3
  <2>2. <<d, m>> \in old /\ Pairs(g)[<<d, m>>] = r
    BY <1>4, <1>5, <1>7, <1>9, <2>1
  <2> QED
    BY <2>2 DEF Keys
<1>11. ASSUME NEW x \in old PROVE Pairs(g)[x] \in new
  <2>3. PICK d \in D : \E m \in MetersOf(d.number) : x = <<d, m>> /\ PlaceFilters(q, m)
    BY <1>7
  <2>1. PICK m \in MetersOf(d.number) : x = <<d, m>> /\ PlaceFilters(q, m)
    BY <2>3
  <2> QED
    BY <1>4, <1>5, <1>8, <1>9, <2>1
<1>12. new = Keys(old, Pairs(g))
  BY <1>10, <1>11 DEF Keys
<1>13. old \subseteq daily \X (MeterRows \cup {NoMeter})
  BY <1>4, <1>7
<1> QED
  BY <1>12, <1>13 DEF new, old

\* The names and the place of a renamed pair.
LEMMA RenamedColumns ==
  ASSUME NEW g, Retiring(g), NEW r \in daily \X (MeterRows \cup {NoMeter})
  PROVE  LET x == Pairs(g)[r] IN
         /\ x[1] = r[1] /\ x[2] = g[r[2]]
         /\ x[2].type = r[2].type /\ x[2].region = r[2].region /\ Profile(x[2]) = Profile(r[2])
         /\ \A q : TypeFilter(q, x[2]) <=> TypeFilter(q, r[2])
<1>1. Pairs(g)[r] = <<r[1], g[r[2]]>> /\ r[2] \in MeterRows \cup {NoMeter}
  BY DEF Pairs
<1>2. g[r[2]].type = r[2].type /\ g[r[2]].region = r[2].region /\ Profile(g[r[2]]) = Profile(r[2])
  BY <1>1 DEF Retiring
<1> QED
  BY <1>1, <1>2, RetiringFilters

-----------------------------------------------------------------------------
\* GetConsumptionByRegion as a function of its rows, which stays as they are renamed.
KindOf(q) == IF q.period \in {"week", "month", "year"} THEN q.period ELSE "day"

RegionKey(r, kind) == [date |-> PeriodStart[kind][r[1].day], region |-> r[2].region]

RegionRows(q) ==
  {r \in UNION {{d} \X MetersOf(d.number) : d \in {e \in daily : e.kwh # Null /\ ReadingFilters(q, e)}} :
     PlaceFilters(q, r[2]) /\ TypeFilter(q, r[2])}

RegionGroups(rows, kind) == Grouped(rows, LAMBDA r : RegionKey(r, kind))

RegionFigures(data) ==
  [data |-> data, kwh |-> MapThenSumSet(LAMBDA g : g.kwh, data),
   regions |-> Cardinality({g.key.region : g \in data} \ {Null})]

LEMMA RegionsAre ==
  \A q : GetConsumptionByRegion(q) = RegionFigures(RegionGroups(RegionRows(q), KindOf(q)))
BY DEF GetConsumptionByRegion, RegionFigures, RegionGroups, RegionKey, RegionRows, KindOf

LEMMA RegionsWillBe ==
  (\A q : GetConsumptionByRegion(q) = RegionFigures(RegionGroups(RegionRows(q), KindOf(q))))'
BY RegionsAre, PTL

LEMMA RegionGroupsAre ==
  ASSUME NEW rows, NEW kind
  PROVE  RegionGroups(rows, kind) = Groups(rows, [r \in rows |-> RegionKey(r, kind)])
<1> DEFINE key == [r \in rows |-> RegionKey(r, kind)]
<1>1. RegionGroups(rows, kind) =
        {[key |-> k, kwh |-> Total({r \in rows : RegionKey(r, kind) = k}),
          active |-> Cardinality({r[1].number : r \in {x \in rows : RegionKey(x, kind) = k}})] :
           k \in {RegionKey(r, kind) : r \in rows}}
  BY DEF RegionGroups, Grouped
<1>2. {RegionKey(r, kind) : r \in rows} = Keys(rows, key)
  BY DEF Keys
<1>3. \A k : {r \in rows : RegionKey(r, kind) = k} = Part(rows, key, k)
  BY DEF Part
<1> HIDE DEF key
<1>4. ASSUME NEW k
      PROVE  [key |-> k, kwh |-> Total({r \in rows : RegionKey(r, kind) = k}),
              active |-> Cardinality({r[1].number : r \in {x \in rows : RegionKey(x, kind) = k}})] = GroupOf(rows, key, k)
  <2>1. {r \in rows : RegionKey(r, kind) = k} = Part(rows, key, k) /\ {x \in rows : RegionKey(x, kind) = k} = Part(rows, key, k)
    BY <1>3
  <2> QED
    BY <2>1 DEF GroupOf
<1>5. RegionGroups(rows, kind) = Groups(rows, key)
  BY <1>1, <1>2, <1>4 DEF Groups
<1> QED
  BY <1>5 DEF key

LEMMA RegionRowsRenamed ==
  ASSUME NEW g, Retiring(g), NEW q
  PROVE  /\ RegionRows(q)' = Keys(RegionRows(q), Pairs(g))
         /\ RegionRows(q) \subseteq daily \X (MeterRows \cup {NoMeter})
<1> DEFINE D == {e \in daily : e.kwh # Null /\ ReadingFilters(q, e)}
           old == PairsAsked(q, D)
           new == {r \in UNION {{d} \X MetersOf(d.number)' : d \in D} : PlaceFilters(q, r[2])}
           h == Pairs(g)
<1>1. new = Keys(old, h) /\ old \subseteq daily \X (MeterRows \cup {NoMeter})
  BY AskedRenamed
<1>2. RegionRows(q) = {r \in old : TypeFilter(q, r[2])}
  BY DEF RegionRows, PairsAsked
<1>3. RegionRows(q)' = {r \in new : TypeFilter(q, r[2])}
  BY DEF RegionRows, Retiring
<1>4. \A r \in old : TypeFilter(q, h[r][2]) <=> TypeFilter(q, r[2])
  BY <1>1, RenamedColumns
<1> HIDE DEF old, new, h
<1>5. RegionRows(q)' = Keys(RegionRows(q), h)
  BY <1>1, <1>2, <1>3, <1>4 DEF Keys
<1> QED
  BY <1>1, <1>2, <1>5 DEF h

LEMMA RegionsStay ==
  ASSUME TablesInv, NEW g, Retiring(g), NEW q
  PROVE  HandleGetConsumptionByRegion(q)' = HandleGetConsumptionByRegion(q)
<1> DEFINE T == RegionRows(q)
           U == RegionRows(q)'
           h == Pairs(g)
           key(S) == [r \in S |-> RegionKey(r, KindOf(q))]
<1>1. U = Keys(T, h) /\ T \subseteq daily \X (MeterRows \cup {NoMeter})
  BY RegionRowsRenamed
<1>2. Metering(T) /\ Renamed(T, U, h)
  BY <1>1, MeteringRows, PairsRenamed
<1>3. \A r \in T : h[r][1] = r[1] /\ h[r][2].region = r[2].region /\ h[r] \in U
  BY <1>1, RenamedColumns DEF Keys
<1> HIDE DEF T, U, h
<1>4. \A r \in T : key(U)[h[r]] = key(T)[r]
  BY <1>3 DEF RegionKey
<1> HIDE DEF key
<1>5. Groups(U, key(U)) = Groups(T, key(T))
  BY <1>2, <1>4, RenamedGroups
<1>6. RegionGroups(U, KindOf(q)) = RegionGroups(T, KindOf(q))
  BY <1>5, RegionGroupsAre DEF key
<1>7. /\ GetConsumptionByRegion(q) = RegionFigures(RegionGroups(T, KindOf(q)))
      /\ GetConsumptionByRegion(q)' = RegionFigures(RegionGroups(U, KindOf(q)))
  BY RegionsAre, RegionsWillBe DEF T, U
<1>8. GetConsumptionByRegion(q)' = GetConsumptionByRegion(q)
  BY <1>6, <1>7
<1> QED
  BY <1>8 DEF HandleGetConsumptionByRegion, ByPeriod, Ranged, Answer

-----------------------------------------------------------------------------
\* GetTopBottomConsumers as a function of its rows, which stays as they are renamed.
Consumers(rows, t) == {[number |-> r[1].number, profile |-> Profile(r[2])] : r \in {x \in rows : x[2].type = t}}

RowsOf(rows, c, s) == {r \in OfSystem(rows, s) : r[1].number = c.number /\ Profile(r[2]) = c.profile}

TopOf(rows) ==
  [t \in {r[2].type : r \in rows} |->
     [count |-> Cardinality(Consumers(rows, t)),
      top |-> [s \in Kilowatts |-> Max({Total(RowsOf(rows, c, s)) : c \in Consumers(rows, t)})],
      bottom |-> [s \in Kilowatts |-> Min({Total(RowsOf(rows, c, s)) : c \in Consumers(rows, t)})]]]

RankedRows(q) == {r \in Untyped(q) : r[2].type # Null}

LEMMA TopIs == \A q : GetTopBottomConsumers(q) = TopOf(RankedRows(q))
BY DEF GetTopBottomConsumers, TopOf, RankedRows, Consumers, RowsOf

LEMMA TopWillBe == (\A q : GetTopBottomConsumers(q) = TopOf(RankedRows(q)))'
BY TopIs, PTL

LEMMA TopRenamed ==
  ASSUME TablesInv, NEW g, Retiring(g), NEW T, T \subseteq daily \X (MeterRows \cup {NoMeter}),
         NEW U, U = Keys(T, Pairs(g))
  PROVE  TopOf(U) = TopOf(T)
<1> DEFINE h == Pairs(g)
<1>1. \A r \in T : /\ h[r] \in U /\ h[r][1] = r[1] /\ h[r][2].type = r[2].type
                   /\ Profile(h[r][2]) = Profile(r[2])
  BY RenamedColumns DEF Keys
<1>2. \A x \in U : \E r \in T : x = h[r]
  BY DEF Keys
<1> HIDE DEF h
<1>3. {r[2].type : r \in U} = {r[2].type : r \in T}
  BY <1>1, <1>2
<1>4. ASSUME NEW t PROVE Consumers(U, t) = Consumers(T, t)
  BY <1>1, <1>2 DEF Consumers
<1>5. ASSUME NEW c, NEW s PROVE Total(RowsOf(U, c, s)) = Total(RowsOf(T, c, s))
  <2>1. \A r \in T : h[r] \in RowsOf(U, c, s) <=> r \in RowsOf(T, c, s)
    BY <1>1 DEF RowsOf, OfSystem
  <2>2. RowsOf(T, c, s) \in SUBSET T /\ RowsOf(U, c, s) \in SUBSET U
    BY DEF RowsOf, OfSystem
  <2>3. RowsOf(U, c, s) = Keys(RowsOf(T, c, s), h)
    BY <2>1, <2>2, SomeRenamed DEF h
  <2>4. RowsOf(T, c, s) \subseteq daily \X (MeterRows \cup {NoMeter})
    BY <2>2
  <2>5. Metering(RowsOf(T, c, s)) /\ Renamed(RowsOf(T, c, s), RowsOf(U, c, s), h)
    BY <2>3, <2>4, MeteringRows, PairsRenamed DEF h
  <2> QED
    BY <2>5, RenamedTotal
<1> DEFINE sums(S, t, s) == {Total(RowsOf(S, c, s)) : c \in Consumers(S, t)}
           line(S, t) ==
             [count |-> Cardinality(Consumers(S, t)),
              top |-> [s \in Kilowatts |-> Max(sums(S, t, s))],
              bottom |-> [s \in Kilowatts |-> Min(sums(S, t, s))]]
<1>6. ASSUME NEW t, NEW s PROVE sums(U, t, s) = sums(T, t, s)
  BY <1>4, <1>5
<1>7. \A S : TopOf(S) = [t \in {r[2].type : r \in S} |-> line(S, t)]
  BY DEF TopOf
<1> HIDE DEF sums
<1>8. \A t : line(U, t) = line(T, t)
  BY <1>4, <1>6
<1> HIDE DEF line
<1> QED
  BY <1>3, <1>7, <1>8

LEMMA TopStays ==
  ASSUME TablesInv, NEW g, Retiring(g), NEW q
  PROVE  HandleGetTopBottomConsumers(q)' = HandleGetTopBottomConsumers(q)
<1> DEFINE T == RankedRows(q)
           h == Pairs(g)
<1>1. Untyped(q)' = Keys(Untyped(q), h) /\ Untyped(q) \subseteq daily \X (MeterRows \cup {NoMeter})
  BY FilteredRenamed, JoinedRows DEF Untyped
<1>2. RankedRows(q)' = {r \in Untyped(q)' : r[2].type # Null}
  BY DEF RankedRows
<1>3. \A r \in Untyped(q) : h[r][2].type = r[2].type
  BY <1>1, RenamedColumns
<1> HIDE DEF h
<1>4. RankedRows(q)' = Keys(T, h) /\ T \subseteq daily \X (MeterRows \cup {NoMeter})
  BY <1>1, <1>2, <1>3 DEF RankedRows, Keys
<1> HIDE DEF T
<1>5. TopOf(RankedRows(q)') = TopOf(T)
  BY <1>4, TopRenamed DEF h
<1>6. GetTopBottomConsumers(q)' = GetTopBottomConsumers(q)
  BY <1>5, TopIs, TopWillBe DEF T
<1> QED
  BY <1>6 DEF HandleGetTopBottomConsumers, Ranged, Answer

\* Reports that sum over meters, what they recorded or how many days they answered.
SumOfKwh(readings) == MapThenSumSet(Kwh, readings)

LEMMA KwhSum ==
  ASSUME NEW D
  PROVE  SumOfKwh(D) = Sum([d \in D |-> Kwh(d)], D)
<1> DEFINE f == [d \in D |-> Kwh(d)]
           first(t) == CHOOSE x \in t : TRUE
<1>1. SumOfKwh(D)
        = (CHOOSE iter : iter = [t \in SUBSET D |-> IF t = {} THEN 0
                       ELSE Kwh(first(t)) + iter[t \ {first(t)}]])[D]
  BY DEF SumOfKwh, MapThenSumSet, MapThenFoldSet
<1>2. ASSUME NEW t \in SUBSET D, t # {} PROVE f[first(t)] = Kwh(first(t))
  <2>1. first(t) \in D
    BY <1>2
  <2> HIDE DEF first
  <2> QED
    BY <2>1
<1> HIDE DEF f
<1>3. ASSUME NEW iter
      PROVE  Folds(iter, f, SUBSET D)
               <=> iter = [t \in SUBSET D |-> IF t = {} THEN 0
                             ELSE Kwh(first(t)) + iter[t \ {first(t)}]]
  BY <1>2 DEF Folds
<1>4. Sum(f, D) = (CHOOSE iter : Folds(iter, f, SUBSET D))[D]
  BY SumIs
<1> QED
  BY <1>1, <1>3, <1>4, ZenonT(60) DEF f

\* Every renamed meter of S is in T.
RenamedMeters(S, T, g) ==
  /\ IsFiniteSet(S) /\ T = {g[m] : m \in S}
  /\ \A m, n \in S : g[m] = g[n] => m = n
  /\ \A m \in S : g[m].number = m.number /\ g[m].type = m.type

LEMMA SomeMetersRenamed ==
  ASSUME NEW S, NEW T, NEW g, RenamedMeters(S, T, g), NEW A \in SUBSET S, NEW B \in SUBSET T,
         \A m \in S : g[m] \in B <=> m \in A
  PROVE  /\ RenamedMeters(A, B, g) /\ HowMany(B) = HowMany(A) /\ Cardinality(B) = Cardinality(A)
<1>1. IsFiniteSet(A)
  BY FS_Subset DEF RenamedMeters
<1>2. B = {g[m] : m \in A}
  BY DEF RenamedMeters
<1>3. RenamedMeters(A, B, g)
  BY <1>1, <1>2 DEF RenamedMeters
<1>4. Numbers(B) = Numbers(A)
  BY <1>3 DEF Numbers, RenamedMeters
<1>5. Cardinality(B) = Cardinality(A)
  <2> DEFINE j == [m \in A |-> g[m]]
  <2>1. /\ j \in [A -> B] /\ DOMAIN j = A
        /\ \A x \in B : \E m \in A : j[m] = x
        /\ \A m, n \in A : j[m] = j[n] => m = n
    BY <1>3 DEF RenamedMeters
  <2> HIDE DEF j
  <2>2. j \in Bijection(A, B)
    BY <2>1 DEF Bijection, Injection, Surjection, IsInjective
  <2> QED
    BY <1>1, <2>2, FS_Bijection DEF ExistsBijection
<1> QED
  BY <1>3, <1>4, <1>5 DEF HowMany

LEMMA MetersSum ==
  ASSUME NEW S, NEW T, NEW g, RenamedMeters(S, T, g), NEW f, NEW h,
         \A m \in S : f[m] \in Int /\ h[g[m]] = f[m]
  PROVE  Sum(h, T) = Sum(f, S)
<1>1. T = Keys(S, g)
  BY DEF RenamedMeters, Keys
<1> QED
  BY <1>1, SumImage DEF RenamedMeters

-----------------------------------------------------------------------------
\* The cards, of the meters, what is recorded of them and what they answered.
CardsOf(rows, rec, ans, of) ==
  [total |-> HowMany(rows), online |-> HowMany({m \in rows : ans[m] # {}}),
   noData |-> HowMany({m \in rows : rec[m] # {} /\ ans[m] = {}}),
   noRecord |-> HowMany({m \in rows : rec[m] = {}}),
   kwh |-> Sum([m \in rows |-> SumOfKwh(rec[m])], rows),
   uptime |-> [days |-> Sum([m \in rows |-> DaysOf(ans[m])], {m \in rows : rec[m] # {}}),
               meters |-> Cardinality({m \in rows : rec[m] # {}}), of |-> of]]

\* The sums of the cards as sums of functions of the meters.
LEMMA RecordedSum ==
  ASSUME NEW q, NEW rows
  PROVE  MapThenSumSet(LAMBDA m : MapThenSumSet(Kwh, Recorded(q, m)), rows)
           = Sum([m \in rows |-> SumOfKwh(Recorded(q, m))], rows)
<1> DEFINE f == [m \in rows |-> SumOfKwh(Recorded(q, m))]
           first(s) == CHOOSE x \in s : TRUE
<1>0. MapThenSumSet(LAMBDA m : MapThenSumSet(Kwh, Recorded(q, m)), rows)
        = MapThenSumSet(LAMBDA m : SumOfKwh(Recorded(q, m)), rows)
  BY DEF SumOfKwh
<1>1. MapThenSumSet(LAMBDA m : SumOfKwh(Recorded(q, m)), rows)
        = (CHOOSE iter : iter = [s \in SUBSET rows |-> IF s = {} THEN 0
                       ELSE SumOfKwh(Recorded(q, first(s))) + iter[s \ {first(s)}]])[rows]
  BY DEF MapThenSumSet, MapThenFoldSet
<1>2. ASSUME NEW s \in SUBSET rows, s # {} PROVE f[first(s)] = SumOfKwh(Recorded(q, first(s)))
  <2>1. first(s) \in rows
    BY <1>2
  <2> HIDE DEF first
  <2> QED
    BY <2>1
<1> HIDE DEF f
<1>3. ASSUME NEW iter
      PROVE  Folds(iter, f, SUBSET rows)
               <=> iter = [s \in SUBSET rows |-> IF s = {} THEN 0
                             ELSE SumOfKwh(Recorded(q, first(s))) + iter[s \ {first(s)}]]
  BY <1>2 DEF Folds
<1>4. Sum(f, rows) = (CHOOSE iter : Folds(iter, f, SUBSET rows))[rows]
  BY SumIs
<1>5. (CHOOSE iter : Folds(iter, f, SUBSET rows))
        = CHOOSE iter : iter = [s \in SUBSET rows |-> IF s = {} THEN 0
                          ELSE SumOfKwh(Recorded(q, first(s))) + iter[s \ {first(s)}]]
  BY <1>3
<1> HIDE DEF first
<1> QED
  BY <1>0, <1>1, <1>4, <1>5 DEF f

LEMMA AnsweredSum ==
  ASSUME NEW q, NEW rows, NEW known \in SUBSET rows
  PROVE  MapThenSumSet(LAMBDA m : DaysOf(Answered(q, m)), known)
           = Sum([m \in rows |-> DaysOf(Answered(q, m))], known)
<1> DEFINE f == [m \in rows |-> DaysOf(Answered(q, m))]
           first(s) == CHOOSE x \in s : TRUE
<1>1. MapThenSumSet(LAMBDA m : DaysOf(Answered(q, m)), known)
        = (CHOOSE iter : iter = [s \in SUBSET known |-> IF s = {} THEN 0
                       ELSE DaysOf(Answered(q, first(s))) + iter[s \ {first(s)}]])[known]
  BY DEF MapThenSumSet, MapThenFoldSet
<1>2. ASSUME NEW s \in SUBSET known, s # {} PROVE f[first(s)] = DaysOf(Answered(q, first(s)))
  <2>1. first(s) \in rows
    BY <1>2
  <2> HIDE DEF first
  <2> QED
    BY <2>1
<1> HIDE DEF f
<1>3. ASSUME NEW iter
      PROVE  Folds(iter, f, SUBSET known)
               <=> iter = [s \in SUBSET known |-> IF s = {} THEN 0
                             ELSE DaysOf(Answered(q, first(s))) + iter[s \ {first(s)}]]
  BY <1>2 DEF Folds
<1>4. Sum(f, known) = (CHOOSE iter : Folds(iter, f, SUBSET known))[known]
  BY SumIs
<1> QED
  BY <1>1, <1>3, <1>4, ZenonT(60) DEF f

\* GetMeterStatusSummary as a function of its meters and of what is read of them.
RecordsOf(q) == [m \in StatusRows(q) |-> Recorded(q, m)]
AnswersOf(q) == [m \in StatusRows(q) |-> Answered(q, m)]

LEMMA CardsAre ==
  \A q : GetMeterStatusSummary(q) = CardsOf(StatusRows(q), RecordsOf(q), AnswersOf(q), DaysInRange(q))
<1> TAKE q
<1> DEFINE rows == StatusRows(q)
           rec == RecordsOf(q)
           ans == AnswersOf(q)
           known == {m \in rows : Recorded(q, m) # {}}
           kwh == MapThenSumSet(LAMBDA m : MapThenSumSet(Kwh, Recorded(q, m)), rows)
           up == MapThenSumSet(LAMBDA m : DaysOf(Answered(q, m)), known)
<1>1. GetMeterStatusSummary(q) =
        [total |-> HowMany(rows), online |-> HowMany(Online(q, rows)),
         noData |-> HowMany(NoAnswer(q, rows)), noRecord |-> HowMany(NoRecord(q, rows)),
         kwh |-> kwh, uptime |-> [days |-> up, meters |-> Cardinality(known), of |-> DaysInRange(q)]]
  BY DEF GetMeterStatusSummary, MeanUptime
<1>2. kwh = Sum([m \in rows |-> SumOfKwh(Recorded(q, m))], rows)
  BY RecordedSum
<1>3. up = Sum([m \in rows |-> DaysOf(Answered(q, m))], known)
  BY AnsweredSum
<1> HIDE DEF kwh, up
<1>4. /\ [m \in rows |-> SumOfKwh(Recorded(q, m))] = [m \in rows |-> SumOfKwh(rec[m])]
      /\ [m \in rows |-> DaysOf(Answered(q, m))] = [m \in rows |-> DaysOf(ans[m])]
  BY DEF RecordsOf, AnswersOf
<1>5. /\ Online(q, rows) = {m \in rows : ans[m] # {}}
      /\ NoAnswer(q, rows) = {m \in rows : rec[m] # {} /\ ans[m] = {}}
      /\ NoRecord(q, rows) = {m \in rows : rec[m] = {}}
      /\ known = {m \in rows : rec[m] # {}}
  BY DEF RecordsOf, AnswersOf, Online, NoAnswer, NoRecord
<1> HIDE DEF rows, rec, ans, known
<1>6. GetMeterStatusSummary(q) = CardsOf(rows, rec, ans, DaysInRange(q))
  BY <1>1, <1>2, <1>3, <1>4, <1>5 DEF CardsOf
<1> QED
  BY <1>6 DEF rows, rec, ans

LEMMA CardsWillBe ==
  (\A q : GetMeterStatusSummary(q) = CardsOf(StatusRows(q), RecordsOf(q), AnswersOf(q), DaysInRange(q)))'
BY CardsAre, PTL

\* The cards count and sum the same for the renamed meters.
LEMMA CardsRenamed ==
  ASSUME NEW S, NEW T, NEW g, RenamedMeters(S, T, g), NEW rec, NEW ans, NEW rec2, NEW ans2, NEW of,
         \A m \in S : /\ rec2[g[m]] = rec[m] /\ ans2[g[m]] = ans[m]
                      /\ SumOfKwh(rec[m]) \in Int /\ DaysOf(ans[m]) \in Int
  PROVE  CardsOf(T, rec2, ans2, of) = CardsOf(S, rec, ans, of)
<1> DEFINE online == {m \in S : ans[m] # {}}
           online2 == {m \in T : ans2[m] # {}}
           noData == {m \in S : rec[m] # {} /\ ans[m] = {}}
           noData2 == {m \in T : rec2[m] # {} /\ ans2[m] = {}}
           noRecord == {m \in S : rec[m] = {}}
           noRecord2 == {m \in T : rec2[m] = {}}
           known == {m \in S : rec[m] # {}}
           known2 == {m \in T : rec2[m] # {}}
           kwh == [m \in S |-> SumOfKwh(rec[m])]
           kwh2 == [m \in T |-> SumOfKwh(rec2[m])]
           days == [m \in S |-> DaysOf(ans[m])]
           days2 == [m \in T |-> DaysOf(ans2[m])]
<1>1. \A m \in S : g[m] \in T
  BY DEF RenamedMeters
<1>2. S \in SUBSET S /\ T \in SUBSET T /\ \A m \in S : g[m] \in T <=> m \in S
  BY <1>1
<1>3. online \in SUBSET S /\ online2 \in SUBSET T /\ \A m \in S : g[m] \in online2 <=> m \in online
  BY <1>1
<1>4. noData \in SUBSET S /\ noData2 \in SUBSET T /\ \A m \in S : g[m] \in noData2 <=> m \in noData
  BY <1>1
<1>5. noRecord \in SUBSET S /\ noRecord2 \in SUBSET T /\ \A m \in S : g[m] \in noRecord2 <=> m \in noRecord
  BY <1>1
<1>6. known \in SUBSET S /\ known2 \in SUBSET T /\ \A m \in S : g[m] \in known2 <=> m \in known
  BY <1>1
<1>7. \A m \in S : kwh[m] \in Int /\ kwh2[g[m]] = kwh[m] /\ days[m] \in Int /\ days2[g[m]] = days[m]
  BY <1>1
<1> HIDE DEF online, online2, noData, noData2, noRecord, noRecord2, known, known2, kwh, kwh2, days, days2
<1>8. HowMany(T) = HowMany(S)
  BY <1>2, SomeMetersRenamed
<1>9. HowMany(online2) = HowMany(online)
  BY <1>3, SomeMetersRenamed
<1>10. HowMany(noData2) = HowMany(noData)
  BY <1>4, SomeMetersRenamed
<1>11. HowMany(noRecord2) = HowMany(noRecord)
  BY <1>5, SomeMetersRenamed
<1>12. RenamedMeters(known, known2, g) /\ Cardinality(known2) = Cardinality(known)
  <2>1. RenamedMeters(known, known2, g)
    BY <1>6, SomeMetersRenamed
  <2>2. Cardinality(known2) = Cardinality(known)
    BY <1>6, SomeMetersRenamed
  <2> QED
    BY <2>1, <2>2
<1>13. Sum(kwh2, T) = Sum(kwh, S)
  BY <1>7, MetersSum
<1>14. Sum(days2, known2) = Sum(days, known)
  <2>1. \A m \in known : days[m] \in Int /\ days2[g[m]] = days[m]
    BY <1>6, <1>7
  <2> QED
    BY <1>12, <2>1, MetersSum
<1>15. CardsOf(S, rec, ans, of) =
         [total |-> HowMany(S), online |-> HowMany(online), noData |-> HowMany(noData),
          noRecord |-> HowMany(noRecord), kwh |-> Sum(kwh, S),
          uptime |-> [days |-> Sum(days, known), meters |-> Cardinality(known), of |-> of]]
  BY DEF CardsOf, online, noData, noRecord, known, kwh, days
<1>16. CardsOf(T, rec2, ans2, of) =
         [total |-> HowMany(T), online |-> HowMany(online2), noData |-> HowMany(noData2),
          noRecord |-> HowMany(noRecord2), kwh |-> Sum(kwh2, T),
          uptime |-> [days |-> Sum(days2, known2), meters |-> Cardinality(known2), of |-> of]]
  BY DEF CardsOf, online2, noData2, noRecord2, known2, kwh2, days2
<1> QED
  BY <1>8, <1>9, <1>10, <1>11, <1>12, <1>13, <1>14, <1>15, <1>16

-----------------------------------------------------------------------------
\* The meters a status or a health report is about are renamed, and what is read
\* of them stays.
LEMMA StatusRenamed ==
  ASSUME TablesInv, NEW g, Retiring(g), NEW q
  PROVE  /\ RenamedMeters(StatusRows(q), StatusRows(q)', g)
         /\ StatusRows(q) \subseteq MeterRows
         /\ \A m : Recorded(q, m)' = Recorded(q, m) /\ Answered(q, m)' = Answered(q, m)
<1> DEFINE asked(m) == /\ PlaceFilters(q, m) /\ TypeFilter(q, m)
                       /\ Passes(q.numbers, IF Recorded(q, m) = {} THEN Null ELSE m.number)
<1>1. MeterRows' = {g[m] : m \in MeterRows} /\ daily' = daily
  BY DEF Retiring
<1>2. \A m : Recorded(q, m)' = Recorded(q, m)
  BY <1>1 DEF Recorded
<1>3. \A m : Answered(q, m)' = Answered(q, m)
  BY <1>2 DEF Answered
<1>4. \A m \in MeterRows : g[m].number = m.number /\ g[m].type = m.type /\ Recorded(q, g[m]) = Recorded(q, m)
  BY DEF Retiring, Recorded
<1>5. \A m \in MeterRows : asked(g[m]) <=> asked(m)
  BY <1>4, RetiringFilters
<1>6. StatusRows(q) = {m \in MeterRows : asked(m)} /\ StatusRows(q)' = {m \in MeterRows' : asked(m)}
  BY <1>2 DEF StatusRows
<1> HIDE DEF asked
<1>7. StatusRows(q)' = {g[m] : m \in StatusRows(q)}
  BY <1>1, <1>5, <1>6
<1>8. \A m, n \in StatusRows(q) : g[m] = g[n] => m = n
  BY <1>6 DEF Retiring
<1>9. IsFiniteSet(StatusRows(q)) /\ StatusRows(q) \subseteq MeterRows
  BY RowsFinite
<1> QED
  BY <1>2, <1>3, <1>4, <1>7, <1>8, <1>9 DEF RenamedMeters

LEMMA CardsStay ==
  ASSUME TablesInv, NEW g, Retiring(g), NEW q \in Queries
  PROVE  HandleGetMeterStatusSummary(q)' = HandleGetMeterStatusSummary(q)
<1> DEFINE S == StatusRows(q)
           T == StatusRows(q)'
<1>1. RenamedMeters(S, T, g) /\ S \subseteq MeterRows
  BY StatusRenamed
<1>2. \A m \in S : g[m] \in T /\ g[m].number = m.number
  BY <1>1 DEF RenamedMeters
<1>3. /\ RecordsOf(q)' = [m \in T |-> Recorded(q, m)]
      /\ AnswersOf(q)' = [m \in T |-> Answered(q, m)]
  BY StatusRenamed DEF RecordsOf, AnswersOf
<1>4. ASSUME NEW m \in S
      PROVE  /\ RecordsOf(q)'[g[m]] = RecordsOf(q)[m] /\ AnswersOf(q)'[g[m]] = AnswersOf(q)[m]
             /\ RecordsOf(q)[m] = Recorded(q, m) /\ AnswersOf(q)[m] = Answered(q, m)
  <2>1. Recorded(q, g[m]) = Recorded(q, m) /\ Answered(q, g[m]) = Answered(q, m)
    BY <1>2, SameNumber
  <2> QED
    BY <1>2, <1>3, <2>1 DEF RecordsOf, AnswersOf
<1>5. ASSUME NEW m \in S PROVE SumOfKwh(Recorded(q, m)) \in Int /\ DaysOf(Answered(q, m)) \in Int
  <2>1. Recorded(q, m) \subseteq daily /\ Answered(q, m) \in SUBSET daily
    BY DEF Recorded, Answered
  <2>2. DaysOf(Answered(q, m)) \in Nat
    BY <2>1, DaysCount
  <2>3. SumOfKwh(Recorded(q, m)) \in Int
    <3> DEFINE D == Recorded(q, m)
               f == [d \in D |-> Kwh(d)]
    <3>1. SumOfKwh(D) = Sum(f, D)
      BY KwhSum
    <3>2. IsFiniteSet(D) /\ \A d \in D : f[d] \in Int
      BY <2>1, FS_Subset, KwhIsNumber DEF TablesInv
    <3> HIDE DEF D, f
    <3>3. SumOfKwh(D) \in Int
      BY <3>1, <3>2, SumInt
    <3> QED
      BY <3>3 DEF D
  <2> QED
    BY <2>2, <2>3
<1>6. CardsOf(T, RecordsOf(q)', AnswersOf(q)', DaysInRange(q)) = CardsOf(S, RecordsOf(q), AnswersOf(q), DaysInRange(q))
  <2> DEFINE rec == RecordsOf(q)
             ans == AnswersOf(q)
             rec2 == RecordsOf(q)'
             ans2 == AnswersOf(q)'
  <2>1. \A m \in S : /\ rec2[g[m]] = rec[m] /\ ans2[g[m]] = ans[m]
                     /\ SumOfKwh(rec[m]) \in Int /\ DaysOf(ans[m]) \in Int
    BY <1>4, <1>5
  <2> HIDE DEF S, T, rec, ans, rec2, ans2
  <2>2. CardsOf(T, rec2, ans2, DaysInRange(q)) = CardsOf(S, rec, ans, DaysInRange(q))
    BY <1>1, <2>1, CardsRenamed
  <2> QED
    BY <2>2 DEF rec, ans, rec2, ans2
<1>7. GetMeterStatusSummary(q)' = GetMeterStatusSummary(q)
  BY <1>6, CardsAre, CardsWillBe
<1> QED
  BY <1>7 DEF HandleGetMeterStatusSummary, Ranged, Answer

\* The health report, of the meters, what they answered and their categories.
HealthOf(rows, ans, cat) ==
  LET up(some) == {m \in some : ans[m] # {}} IN
  [total |-> HowMany(rows), online |-> HowMany(up(rows)), offline |-> HowMany(rows \ up(rows)),
   distribution |-> [c \in {"excellent", "good", "poor", "critical"} |-> HowMany({m \in rows : cat[m] = c})],
   byType |-> [t \in TypesOf(rows) |->
                 [total |-> HowMany(OfType(rows, t)), offline |-> HowMany(OfType(rows, t) \ up(OfType(rows, t))),
                  online |-> HowMany(up(OfType(rows, t)))]]]

CategoriesOf(q) == [m \in StatusRows(q) |-> Category(q, m)]

LEMMA HealthIs ==
  \A q : GetMeterHealthSummary(q) = HealthOf(StatusRows(q), AnswersOf(q), CategoriesOf(q))
<1> TAKE q
<1> DEFINE rows == StatusRows(q)
           ans == AnswersOf(q)
           cat == CategoriesOf(q)
           up(some) == {m \in some : ans[m] # {}}
           offline(some) == HowMany(some \ Online(q, some))
<1>1. \A some \in SUBSET rows : Online(q, some) = up(some)
  BY DEF Online, AnswersOf
<1>2. \A c : {m \in rows : Category(q, m) = c} = {m \in rows : cat[m] = c}
  BY DEF CategoriesOf
<1>3. rows \in SUBSET rows /\ \A t : OfType(rows, t) \in SUBSET rows
  BY DEF OfType
<1>4. GetMeterHealthSummary(q) =
        [total |-> HowMany(rows), online |-> HowMany(Online(q, rows)), offline |-> offline(rows),
         distribution |-> [c \in {"excellent", "good", "poor", "critical"} |->
                             HowMany({m \in rows : Category(q, m) = c})],
         byType |-> [t \in TypesOf(rows) |->
                       [total |-> HowMany(OfType(rows, t)), offline |-> offline(OfType(rows, t)),
                        online |-> HowMany(Online(q, OfType(rows, t)))]]]
  BY DEF GetMeterHealthSummary
<1>5. HealthOf(rows, ans, cat) =
        [total |-> HowMany(rows), online |-> HowMany(up(rows)), offline |-> HowMany(rows \ up(rows)),
         distribution |-> [c \in {"excellent", "good", "poor", "critical"} |-> HowMany({m \in rows : cat[m] = c})],
         byType |-> [t \in TypesOf(rows) |->
                       [total |-> HowMany(OfType(rows, t)), offline |-> HowMany(OfType(rows, t) \ up(OfType(rows, t))),
                        online |-> HowMany(up(OfType(rows, t)))]]]
  BY DEF HealthOf
<1> HIDE DEF rows, ans, cat, up
<1>7. Online(q, rows) = up(rows) /\ offline(rows) = HowMany(rows \ up(rows))
  BY <1>1, <1>3
<1>8. [c \in {"excellent", "good", "poor", "critical"} |-> HowMany({m \in rows : Category(q, m) = c})]
        = [c \in {"excellent", "good", "poor", "critical"} |-> HowMany({m \in rows : cat[m] = c})]
  BY <1>2
<1>9. \A t : /\ Online(q, OfType(rows, t)) = up(OfType(rows, t))
             /\ offline(OfType(rows, t)) = HowMany(OfType(rows, t) \ up(OfType(rows, t)))
  BY <1>1, <1>3
<1> HIDE DEF offline
<1>6. GetMeterHealthSummary(q) = HealthOf(rows, ans, cat)
  BY <1>4, <1>5, <1>7, <1>8, <1>9
<1> QED
  BY <1>6 DEF rows, ans, cat

LEMMA HealthWillBe ==
  (\A q : GetMeterHealthSummary(q) = HealthOf(StatusRows(q), AnswersOf(q), CategoriesOf(q)))'
BY HealthIs, PTL

LEMMA HealthRenamed ==
  ASSUME NEW S, NEW T, NEW g, RenamedMeters(S, T, g), NEW ans, NEW cat, NEW ans2, NEW cat2,
         \A m \in S : ans2[g[m]] = ans[m] /\ cat2[g[m]] = cat[m]
  PROVE  HealthOf(T, ans2, cat2) = HealthOf(S, ans, cat)
<1> DEFINE up(some) == {m \in some : ans[m] # {}}
           up2(some) == {m \in some : ans2[m] # {}}
           of(t) == OfType(S, t)
           of2(t) == OfType(T, t)
<1>1. T = {g[m] : m \in S} /\ \A m \in S : g[m] \in T /\ g[m].type = m.type
  BY DEF RenamedMeters
<1>2. /\ HowMany(T) = HowMany(S) /\ HowMany(up2(T)) = HowMany(up(S))
      /\ HowMany(T \ up2(T)) = HowMany(S \ up(S))
  <2> DEFINE on == up(S)
             on2 == up2(T)
             off == S \ up(S)
             off2 == T \ up2(T)
  <2>1. S \in SUBSET S /\ T \in SUBSET T /\ \A m \in S : g[m] \in T <=> m \in S
    BY <1>1
  <2>2. on \in SUBSET S /\ on2 \in SUBSET T /\ \A m \in S : g[m] \in on2 <=> m \in on
    BY <1>1
  <2>3. off \in SUBSET S /\ off2 \in SUBSET T /\ \A m \in S : g[m] \in off2 <=> m \in off
    BY <1>1
  <2> HIDE DEF on, on2, off, off2
  <2>4. HowMany(T) = HowMany(S)
    BY <2>1, SomeMetersRenamed
  <2>5. HowMany(on2) = HowMany(on)
    BY <2>2, SomeMetersRenamed
  <2>6. HowMany(off2) = HowMany(off)
    BY <2>3, SomeMetersRenamed
  <2> QED
    BY <2>4, <2>5, <2>6 DEF on, on2, off, off2
<1>3. ASSUME NEW c PROVE HowMany({m \in T : cat2[m] = c}) = HowMany({m \in S : cat[m] = c})
  <2> DEFINE some == {m \in S : cat[m] = c}
             some2 == {m \in T : cat2[m] = c}
  <2>1. some \in SUBSET S /\ some2 \in SUBSET T /\ \A m \in S : g[m] \in some2 <=> m \in some
    BY <1>1
  <2> HIDE DEF some, some2
  <2>2. HowMany(some2) = HowMany(some)
    BY <2>1, SomeMetersRenamed
  <2> QED
    BY <2>2 DEF some, some2
<1>4. TypesOf(T) = TypesOf(S)
  BY <1>1 DEF TypesOf
<1>5. ASSUME NEW t
      PROVE  /\ HowMany(of2(t)) = HowMany(of(t)) /\ HowMany(up2(of2(t))) = HowMany(up(of(t)))
             /\ HowMany(of2(t) \ up2(of2(t))) = HowMany(of(t) \ up(of(t)))
  <2>1. RenamedMeters(of(t), of2(t), g) /\ HowMany(of2(t)) = HowMany(of(t))
    <3>1. of(t) \in SUBSET S /\ of2(t) \in SUBSET T /\ \A m \in S : g[m] \in of2(t) <=> m \in of(t)
      BY <1>1 DEF OfType
    <3> HIDE DEF of, of2
    <3> QED
      BY <3>1, SomeMetersRenamed
  <2>2. of(t) \subseteq S /\ \A m \in of(t) : g[m] \in of2(t)
    BY <1>1 DEF OfType
  <2> HIDE DEF of, of2
  <2> DEFINE on == up(of(t))
             on2 == up2(of2(t))
             off == of(t) \ up(of(t))
             off2 == of2(t) \ up2(of2(t))
  <2>3. on \in SUBSET of(t) /\ on2 \in SUBSET of2(t) /\ \A m \in of(t) : g[m] \in on2 <=> m \in on
    BY <2>2
  <2>4. off \in SUBSET of(t) /\ off2 \in SUBSET of2(t) /\ \A m \in of(t) : g[m] \in off2 <=> m \in off
    BY <2>2
  <2> HIDE DEF on, on2, off, off2
  <2>5. HowMany(on2) = HowMany(on)
    BY <2>1, <2>3, SomeMetersRenamed
  <2>6. HowMany(off2) = HowMany(off)
    BY <2>1, <2>4, SomeMetersRenamed
  <2> QED
    BY <2>1, <2>5, <2>6 DEF on, on2, off, off2
<1>6. /\ HealthOf(S, ans, cat) =
           [total |-> HowMany(S), online |-> HowMany(up(S)), offline |-> HowMany(S \ up(S)),
            distribution |-> [c \in {"excellent", "good", "poor", "critical"} |-> HowMany({m \in S : cat[m] = c})],
            byType |-> [t \in TypesOf(S) |->
                          [total |-> HowMany(of(t)), offline |-> HowMany(of(t) \ up(of(t))),
                           online |-> HowMany(up(of(t)))]]]
      /\ HealthOf(T, ans2, cat2) =
           [total |-> HowMany(T), online |-> HowMany(up2(T)), offline |-> HowMany(T \ up2(T)),
            distribution |-> [c \in {"excellent", "good", "poor", "critical"} |-> HowMany({m \in T : cat2[m] = c})],
            byType |-> [t \in TypesOf(T) |->
                          [total |-> HowMany(of2(t)), offline |-> HowMany(of2(t) \ up2(of2(t))),
                           online |-> HowMany(up2(of2(t)))]]]
  BY DEF HealthOf
<1> HIDE DEF up, up2, of, of2
<1>7. [c \in {"excellent", "good", "poor", "critical"} |-> HowMany({m \in T : cat2[m] = c})]
        = [c \in {"excellent", "good", "poor", "critical"} |-> HowMany({m \in S : cat[m] = c})]
  BY <1>3
<1> QED
  BY <1>2, <1>4, <1>5, <1>6, <1>7

LEMMA HealthStays ==
  ASSUME TablesInv, NEW g, Retiring(g), NEW q
  PROVE  HandleGetMeterHealthSummary(q)' = HandleGetMeterHealthSummary(q)
<1> DEFINE S == StatusRows(q)
           T == StatusRows(q)'
           ans == AnswersOf(q)
           cat == CategoriesOf(q)
           ans2 == AnswersOf(q)'
           cat2 == CategoriesOf(q)'
<1>1. RenamedMeters(S, T, g)
  BY StatusRenamed
<1>2. \A m \in S : g[m] \in T /\ g[m].number = m.number
  BY <1>1 DEF RenamedMeters
<1>3. \A m : Category(q, m)' = Category(q, m)
  BY StatusRenamed DEF Category, UpPercent
<1>4. ans2 = [m \in T |-> Answered(q, m)] /\ cat2 = [m \in T |-> Category(q, m)]
  BY <1>3, StatusRenamed DEF AnswersOf, CategoriesOf
<1>5. ASSUME NEW m \in S PROVE ans2[g[m]] = ans[m] /\ cat2[g[m]] = cat[m]
  <2>1. Category(q, g[m]) = Category(q, m) /\ Answered(q, g[m]) = Answered(q, m)
    BY <1>2, SameNumber
  <2> QED
    BY <1>2, <1>4, <2>1 DEF AnswersOf, CategoriesOf
<1> HIDE DEF S, T, ans, cat, ans2, cat2
<1>6. HealthOf(T, ans2, cat2) = HealthOf(S, ans, cat)
  BY <1>1, <1>5, HealthRenamed
<1>7. GetMeterHealthSummary(q)' = GetMeterHealthSummary(q)
  BY <1>6, HealthIs, HealthWillBe DEF S, T, ans, cat, ans2, cat2
<1> QED
  BY <1>7 DEF HandleGetMeterHealthSummary, Ranged, Answer

-----------------------------------------------------------------------------
\* GetRegionalMapConsumption as a function of its rows, which stays as they are renamed.
MapKey(r) == [branch |-> r[1], meter |-> Columns(r[3], MapColumns), day |-> r[4].day]

MapKwh(rows, s) == MapThenSumSet(LAMBDA r : Kwh(r[4]), {r \in rows : System(r[4]) = s})

MapGroup(rows, k) ==
  [key |-> k, kwh |-> [s \in Kilowatts |-> MapKwh({r \in rows : MapKey(r) = k}, s)]]

MapOf(all, areas) ==
  [area \in areas |->
     {MapGroup({r \in all : r[2] = area}, k) : k \in {MapKey(r) : r \in {x \in all : x[2] = area}}}]

LEMMA MapIs == \A q : GetRegionalMapConsumption(q) = MapOf(MapRows(q), AreasAsked(q))
BY DEF GetRegionalMapConsumption, MapOf, MapGroup, MapKwh, MapKey

LEMMA MapWillBe == (\A q : GetRegionalMapConsumption(q) = MapOf(MapRows(q), AreasAsked(q)))'
BY MapIs, PTL

LEMMA AllMapRows == \A q, r : r \in MapRows(q) <=> MapRow(q, r)
BY MapRowsAre

LEMMA MapRowsWillBe == (\A q, r : r \in MapRows(q) <=> MapRow(q, r))'
BY AllMapRows, PTL

\* A row of the map with its meter renamed.
Shifted(g, T) == [r \in T |-> <<r[1], r[2], g[r[3]], r[4]>>]

LEMMA MapRowsRenamed ==
  ASSUME NEW g, Retiring(g), NEW q
  PROVE  MapRows(q)' = Keys(MapRows(q), Shifted(g, MapRows(q)))
<1> DEFINE h == Shifted(g, MapRows(q))
<1>1. /\ MeterRows' = {g[m] : m \in MeterRows}
      /\ \A m, a : BySpace(a, m)' = BySpace(a, m) /\ ByDistrict(a, m)' = ByDistrict(a, m) /\ ByRegion(a, m)' = ByRegion(a, m)
  BY DEF Retiring, BySpace, ByDistrict, ByRegion
<1>2. \A m : ReadingsOf(q, m)' = ReadingsOf(q, m)
  BY DEF Retiring, ReadingsOf
<1>3. ASSUME NEW m \in MeterRows
      PROVE  /\ g[m].type = m.type /\ (TypeFilter(q, g[m]) <=> TypeFilter(q, m))
             /\ ReadingsOf(q, g[m]) = ReadingsOf(q, m)
             /\ \A a : /\ BySpace(a, g[m]) <=> BySpace(a, m)
                       /\ ByDistrict(a, g[m]) <=> ByDistrict(a, m)
                       /\ ByRegion(a, g[m]) <=> ByRegion(a, m)
  <2>1. /\ g[m].type = m.type /\ g[m].number = m.number /\ g[m].region = m.region
        /\ g[m].district = m.district /\ g[m].place = m.place
    BY DEF Retiring
  <2> QED
    BY <2>1, RetiringFilters DEF ReadingsOf, BySpace, ByDistrict, ByRegion
<1>4. ASSUME NEW r
      PROVE  MapRow(q, r)' <=>
               /\ r = <<r[1], r[2], r[3], r[4]>>
               /\ r[2] \in AreasAsked(q) /\ r[3] \in MeterRows' /\ r[3].type # Null /\ TypeFilter(q, r[3])
               /\ \/ r[1] = "spatial" /\ BySpace(r[2], r[3])
                  \/ r[1] = "district_name" /\ ByDistrict(r[2], r[3])
                  \/ r[1] = "region_name" /\ ByRegion(r[2], r[3])
               /\ r[4] \in ReadingsOf(q, r[3])
  BY <1>2 DEF MapRow
<1>5. ASSUME NEW r \in MapRows(q)' PROVE r \in Keys(MapRows(q), h)
  <2>1. MapRow(q, r)'
    BY MapRowsWillBe
  <2>2. PICK m \in MeterRows : r[3] = g[m]
    BY <1>1, <1>4, <2>1
  <2> DEFINE x == <<r[1], r[2], m, r[4]>>
  <2>3. x[1] = r[1] /\ x[2] = r[2] /\ x[3] = m /\ x[4] = r[4] /\ x = <<x[1], x[2], x[3], x[4]>>
    OBVIOUS
  <2> HIDE DEF x
  <2>4. MapRow(q, x)
    BY <1>3, <1>4, <2>1, <2>2, <2>3 DEF MapRow
  <2>5. x \in MapRows(q)
    BY <2>4, MapRowsAre
  <2>6. h[x] = r
    BY <1>4, <2>1, <2>2, <2>3, <2>5 DEF Shifted
  <2> QED
    BY <2>5, <2>6 DEF Keys
<1>6. ASSUME NEW x \in MapRows(q) PROVE h[x] \in MapRows(q)'
  <2>1. /\ x[2] \in AreasAsked(q) /\ x[3] \in MeterRows /\ x[3].type # Null /\ TypeFilter(q, x[3])
        /\ \/ x[1] = "spatial" /\ BySpace(x[2], x[3])
           \/ x[1] = "district_name" /\ ByDistrict(x[2], x[3])
           \/ x[1] = "region_name" /\ ByRegion(x[2], x[3])
        /\ x[4] \in ReadingsOf(q, x[3])
    BY MapRowsAre DEF MapRow
  <2>2. PICK r : r = <<x[1], x[2], g[x[3]], x[4]>>
    OBVIOUS
  <2>3. /\ r[1] = x[1] /\ r[2] = x[2] /\ r[3] = g[x[3]] /\ r[4] = x[4]
        /\ r = <<r[1], r[2], r[3], r[4]>> /\ h[x] = r
    BY <2>2 DEF Shifted
  <2>4. g[x[3]] \in MeterRows'
    BY <1>1, <2>1
  <2>5. MapRow(q, r)'
    BY <1>3, <1>4, <2>1, <2>3, <2>4
  <2>6. r \in MapRows(q)'
    BY <2>5, MapRowsWillBe
  <2> QED
    BY <2>3, <2>6
<1> HIDE DEF h
<1>7. MapRows(q)' = Keys(MapRows(q), h)
  BY <1>5, <1>6 DEF Keys
<1> QED
  BY <1>7 DEF h

LEMMA MapStays ==
  ASSUME TablesInv, NEW g, Retiring(g), NEW q
  PROVE  HandleGetRegionalMapConsumption(q)' = HandleGetRegionalMapConsumption(q)
<1> SUFFICES ASSUME NEW p PROVE GetRegionalMapConsumption(p)' = GetRegionalMapConsumption(p)
  BY DEF HandleGetRegionalMapConsumption, Ranged, Answer, OnePlace
<1> DEFINE T == MapRows(p)
           U == MapRows(p)'
           h == Shifted(g, T)
<1>1. U = Keys(T, h) /\ IsFiniteSet(T)
  BY MapRowsRenamed, MapRowsFinite
<1>2. ASSUME NEW r \in T
      PROVE  /\ r = <<r[1], r[2], r[3], r[4]>> /\ r[3] \in MeterRows /\ Kwh(r[4]) \in Int
             /\ h[r] = <<r[1], r[2], g[r[3]], r[4]>>
  <2>1. MapRow(p, r)
    BY MapRowsAre
  <2>2. Kwh(r[4]) \in Int
    BY <2>1, ReadingsFinite DEF MapRow
  <2> QED
    BY <2>1, <2>2 DEF MapRow, Shifted
<1>3. \A x, y \in T : h[x] = h[y] => x = y
  <2>1. ASSUME NEW x \in T, NEW y \in T, h[x] = h[y] PROVE x = y
    <3>1. x[1] = y[1] /\ x[2] = y[2] /\ g[x[3]] = g[y[3]] /\ x[4] = y[4]
      BY <1>2, <2>1
    <3>2. x[3] = y[3]
      BY <1>2, <3>1 DEF Retiring
    <3> QED
      BY <1>2, <3>1, <3>2
  <2> QED
    BY <2>1
<1>4. ASSUME NEW r \in T
      PROVE  /\ h[r] \in U /\ h[r][1] = r[1] /\ h[r][2] = r[2] /\ h[r][4] = r[4]
             /\ MapKey(h[r]) = MapKey(r)
  <2>1. h[r][1] = r[1] /\ h[r][2] = r[2] /\ h[r][3] = g[r[3]] /\ h[r][4] = r[4]
    BY <1>2
  <2>2. MapColumns \in SUBSET DOMAIN NoMeter /\ r[3] \in MeterRows \cup {NoMeter}
    BY <1>2 DEF MapColumns, NoMeter
  <2>3. Columns(g[r[3]], MapColumns) = Columns(r[3], MapColumns)
    BY <2>2, RetiringColumns
  <2> QED
    BY <1>1, <2>1, <2>3 DEF MapKey, Keys
<1>5. \A x \in U : \E r \in T : x = h[r]
  BY <1>1 DEF Keys
<1>6. /\ GetRegionalMapConsumption(p) = MapOf(T, AreasAsked(p))
      /\ GetRegionalMapConsumption(p)' = MapOf(U, AreasAsked(p))
  BY MapIs, MapWillBe
<1> HIDE DEF T, U, h
<1>7. ASSUME NEW A \in SUBSET T, NEW B \in SUBSET U, \A r \in T : h[r] \in B <=> r \in A, NEW s
      PROVE  MapKwh(B, s) = MapKwh(A, s)
  <2> DEFINE C == {r \in A : System(r[4]) = s}
             D == {r \in B : System(r[4]) = s}
             f == [r \in C |-> Kwh(r[4])]
             k == [r \in D |-> Kwh(r[4])]
  <2>1. \A r \in T : h[r] \in D <=> r \in C
    BY <1>4, <1>7
  <2>2. C \in SUBSET T /\ D \in SUBSET U
    OBVIOUS
  <2>3. MapKwh(B, s) = Sum(k, D) /\ MapKwh(A, s) = Sum(f, C)
    <3>1. MapThenSumSet(LAMBDA p_ : Kwh(p_[4]), D) = Sum([p_ \in D |-> Kwh(p_[4])], D)
      BY EndIs
    <3>2. MapThenSumSet(LAMBDA p_ : Kwh(p_[4]), C) = Sum([p_ \in C |-> Kwh(p_[4])], C)
      BY EndIs
    <3> QED
      BY <3>1, <3>2 DEF MapKwh
  <2>4. \A r \in C : f[r] = k[h[r]] /\ f[r] \in Int
    BY <1>2, <1>4, <2>1, <2>2
  <2> HIDE DEF C, D, f, k
  <2>5. D = Keys(C, h)
    BY <1>1, <2>1, <2>2, SomeRenamed
  <2>6. IsFiniteSet(C) /\ \A x, y \in C : h[x] = h[y] => x = y
    BY <1>1, <1>3, <2>2, FS_Subset
  <2>7. Sum(k, Keys(C, h)) = Sum(f, C)
    BY <2>4, <2>6, SumImage
  <2> QED
    BY <2>3, <2>5, <2>7
<1> DEFINE at(S, a) == {r \in S : r[2] = a}
           keys(S, a) == {MapKey(r) : r \in at(S, a)}
           some(S, a, k) == {r \in at(S, a) : MapKey(r) = k}
<1>8. \A a : keys(U, a) = keys(T, a)
  BY <1>4, <1>5
<1>9. ASSUME NEW a, NEW k, NEW s PROVE MapKwh(some(U, a, k), s) = MapKwh(some(T, a, k), s)
  <2>1. some(T, a, k) \in SUBSET T /\ some(U, a, k) \in SUBSET U
    OBVIOUS
  <2>2. \A r \in T : h[r] \in some(U, a, k) <=> r \in some(T, a, k)
    BY <1>4
  <2> HIDE DEF some
  <2> QED
    BY <1>7, <2>1, <2>2
<1>10. \A S, a, k : MapGroup(at(S, a), k) = [key |-> k, kwh |-> [s \in Kilowatts |-> MapKwh(some(S, a, k), s)]]
  BY DEF MapGroup
<1> HIDE DEF some, at, keys
<1>11. ASSUME NEW a, NEW k PROVE MapGroup(at(U, a), k) = MapGroup(at(T, a), k)
  <2>1. [s \in Kilowatts |-> MapKwh(some(U, a, k), s)] = [s \in Kilowatts |-> MapKwh(some(T, a, k), s)]
    BY <1>9
  <2> QED
    BY <1>10, <2>1
<1> DEFINE groups(S, a) == {MapGroup(at(S, a), k) : k \in keys(S, a)}
<1>12. \A S : MapOf(S, AreasAsked(p)) = [a \in AreasAsked(p) |-> groups(S, a)]
  BY DEF MapOf, at, keys
<1>13. \A a : groups(U, a) = groups(T, a)
  BY <1>8, <1>11
<1> HIDE DEF groups
<1>14. MapOf(U, AreasAsked(p)) = MapOf(T, AreasAsked(p))
  BY <1>12, <1>13
<1> QED
  BY <1>6, <1>14

-----------------------------------------------------------------------------
\* The series of the districts are made of numbers and areas, which stay.
SeriesRows(q) == {r \in DistrictMeters(q) \X daily : r[2].number = r[1][2] /\ InDates(q, r[2])}

SeriesOf(rows) ==
  LET Key(r) == [area |-> r[1][1], day |-> r[2].day]
  IN  {LET group == {r \in rows : Key(r) = k} IN
         [key |-> k, kwh |-> [s \in Kilowatts |->
            MapThenSumSet(LAMBDA r : Kwh(r[2]), {r \in group : System(r[2]) = s})]] :
       k \in {Key(r) : r \in rows}}

LEMMA SeriesIs == \A q : GetDistrictTimeseriesConsumption(q) = SeriesOf(SeriesRows(q))
BY DEF GetDistrictTimeseriesConsumption, SeriesOf, SeriesRows

LEMMA SeriesWillBe == (\A q : GetDistrictTimeseriesConsumption(q) = SeriesOf(SeriesRows(q)))'
BY SeriesIs, PTL

LEMMA SeriesStays ==
  ASSUME NEW g, Retiring(g), NEW q
  PROVE  HandleGetDistrictTimeseriesConsumption(q)' = HandleGetDistrictTimeseriesConsumption(q)
<1> DEFINE asked(m) == /\ m.type # Null /\ TypeFilter(q, m)
                       /\ Passes(LowerAll(q.regions), Lower[m.region])
                       /\ Passes(LowerAll(q.districts), Lower[m.district])
           places(m) == AreasOf(m) \X {m.number}
<1>1. MeterRows' = {g[m] : m \in MeterRows} /\ daily' = daily
  BY DEF Retiring
<1>2. \A m \in MeterRows : (asked(g[m]) <=> asked(m)) /\ places(g[m]) = places(m)
  BY RetiringFilters DEF Retiring, AreasOf
<1>3. /\ DistrictMeters(q) = UNION {places(m) : m \in {n \in MeterRows : asked(n)}}
      /\ DistrictMeters(q)' = UNION {places(m) : m \in {n \in MeterRows' : asked(n)}}
  BY DEF DistrictMeters
<1> HIDE DEF asked, places
<1>4. DistrictMeters(q)' = DistrictMeters(q)
  BY <1>1, <1>2, <1>3
<1>5. SeriesRows(q)' = SeriesRows(q)
  BY <1>1, <1>4 DEF SeriesRows
<1>6. GetDistrictTimeseriesConsumption(q)' = GetDistrictTimeseriesConsumption(q)
  BY <1>5, SeriesIs, SeriesWillBe
<1> QED
  BY <1>6 DEF HandleGetDistrictTimeseriesConsumption, Ranged, Answer

\* What the balance joins, with a meter retired.
LEMMA MeteredRenamed ==
  ASSUME NEW g, Retiring(g), NEW q
  PROVE  Metered(q)' = Keys(Metered(q), Pairs(g)) /\ Metered(q) \subseteq daily \X (MeterRows \cup {NoMeter})
<1> DEFINE D == {e \in daily : e.item # NoData /\ e.item \in DOMAIN Mapping /\ ReadingFilters(q, e)}
<1>1. Metered(q) = UNION {{d} \X {m \in MeterRows : m.number = d.number} : d \in D}
  BY DEF Metered
<1>2. Metered(q)' = UNION {{d} \X {m \in MeterRows' : m.number = d.number} : d \in D}
  BY DEF Retiring, Metered
<1>3. \A m \in MeterRows : g[m].number = m.number
  BY DEF Retiring
<1>4. MeterRows' = {g[m] : m \in MeterRows}
  BY DEF Retiring
<1>5. D \subseteq daily
  OBVIOUS
<1> HIDE DEF D
<1>6. \A r : r \in Metered(q) <=> \E d \in D, m \in MeterRows : r = <<d, m>> /\ m.number = d.number
  BY <1>1
<1>7. \A r : r \in Metered(q)' <=> \E d \in D, m \in MeterRows' : r = <<d, m>> /\ m.number = d.number
  BY <1>2
<1>8. \A d \in D, m \in MeterRows : Pairs(g)[<<d, m>>] = <<d, g[m]>>
  BY <1>5 DEF Pairs
<1>9. ASSUME NEW r \in Metered(q)' PROVE r \in Keys(Metered(q), Pairs(g))
  <2>1. PICK d \in D, n \in MeterRows' : r = <<d, n>> /\ n.number = d.number
    BY <1>7
  <2>2. PICK m \in MeterRows : n = g[m]
    BY <1>4
  <2>3. <<d, m>> \in Metered(q) /\ Pairs(g)[<<d, m>>] = r
    BY <1>3, <1>6, <1>8, <2>1, <2>2
  <2> QED
    BY <2>3 DEF Keys
<1>10. ASSUME NEW x \in Metered(q) PROVE Pairs(g)[x] \in Metered(q)'
  <2>1. PICK d \in D, m \in MeterRows : x = <<d, m>> /\ m.number = d.number
    BY <1>6
  <2>2. g[m] \in MeterRows' /\ g[m].number = d.number /\ Pairs(g)[x] = <<d, g[m]>>
    BY <1>3, <1>4, <1>8, <2>1
  <2> QED
    BY <1>7, <2>2
<1>11. Metered(q)' = Keys(Metered(q), Pairs(g))
  BY <1>9, <1>10 DEF Keys
<1>12. Metered(q) \subseteq daily \X (MeterRows \cup {NoMeter})
  BY <1>5, <1>6
<1> QED
  BY <1>11, <1>12

\* The columns of a pair that the balance reads.
LEMMA BalanceColumns ==
  ASSUME NEW g, Retiring(g), NEW r \in daily \X (MeterRows \cup {NoMeter})
  PROVE  LET x == Pairs(g)[r] IN
         /\ x[1] = r[1] /\ x[2].type = r[2].type /\ x[2].region = r[2].region /\ x[2].district = r[2].district
         /\ x[2].point = r[2].point /\ x[2].number = r[2].number /\ x[2].site = r[2].site
         /\ RegionOf(x[2]) = RegionOf(r[2])
<1>1. Pairs(g)[r] = <<r[1], g[r[2]]>> /\ r[2] \in MeterRows \cup {NoMeter}
  BY DEF Pairs
<1>2. /\ g[r[2]].type = r[2].type /\ g[r[2]].region = r[2].region /\ g[r[2]].district = r[2].district
      /\ g[r[2]].point = r[2].point /\ g[r[2]].number = r[2].number /\ g[r[2]].site = r[2].site
  BY <1>1 DEF Retiring
<1> QED
  BY <1>1, <1>2 DEF RegionOf

LEMMA HalvesRenamed ==
  ASSUME NEW g, Retiring(g), NEW q
  PROVE  /\ Internal(q)' = Keys(Internal(q), Pairs(g)) /\ Internal(q) \subseteq daily \X (MeterRows \cup {NoMeter})
         /\ AtBoundary(q)' = Keys(AtBoundary(q), Pairs(g)) /\ AtBoundary(q) \subseteq daily \X (MeterRows \cup {NoMeter})
<1> DEFINE M == Metered(q)
           N == Metered(q)'
           h == Pairs(g)
           inside(r) == /\ r[2].type \in (IF q.types = {} THEN {"BSP", "DTX"} ELSE InternalTypes(q))
                        /\ System(r[1]) = "import_kwh"
                        /\ Passes(LowerAll(q.regions), Lower[r[2].region])
                        /\ Passes(LowerAll(q.districts), Lower[r[2].district])
                        /\ Passes(LowerAll(q.sites), Lower[r[2].site])
           outside(r) == /\ r[2].type = "REGIONAL_BOUNDARY" /\ r[2].point # Null /\ Len(r[2].point) >= 2
                         /\ System(r[1]) \in Kilowatts
                         /\ q.byStation \/ Passes(LowerAll(q.sites), Lower[r[2].site])
                         /\ AtWholePoint(q, r[2])
<1>1. N = Keys(M, h) /\ M \subseteq daily \X (MeterRows \cup {NoMeter})
  BY MeteredRenamed
<1>2. /\ Internal(q) = {r \in M : inside(r)} /\ Internal(q)' = {r \in N : inside(r)}
      /\ AtBoundary(q) = {r \in M : outside(r)} /\ AtBoundary(q)' = {r \in N : outside(r)}
  BY DEF Internal, AtBoundary
<1>3. ASSUME NEW r \in M PROVE (inside(h[r]) <=> inside(r)) /\ (outside(h[r]) <=> outside(r))
  <2>1. /\ h[r][1] = r[1] /\ h[r][2].type = r[2].type /\ h[r][2].region = r[2].region
        /\ h[r][2].district = r[2].district /\ h[r][2].point = r[2].point
        /\ h[r][2].site = r[2].site
    BY <1>1, BalanceColumns
  <2> HIDE DEF h
  <2> QED
    BY <2>1 DEF AtWholePoint
<1> HIDE DEF M, N, h, inside, outside
<1>4. Internal(q)' = Keys(Internal(q), h)
  BY <1>1, <1>2, <1>3 DEF Keys
<1>5. AtBoundary(q)' = Keys(AtBoundary(q), h)
  BY <1>1, <1>2, <1>3 DEF Keys
<1> QED
  BY <1>1, <1>2, <1>4, <1>5 DEF h

LEMMA RegionsStayValid ==
  ASSUME NEW g, Retiring(g)
  PROVE  ValidRegions' = ValidRegions
<1> DEFINE valid(m) == Named(m.region) /\ m.type \in {"BSP", "DTX"}
<1>1. MeterRows' = {g[m] : m \in MeterRows}
  BY DEF Retiring
<1>2. \A m \in MeterRows : (valid(g[m]) <=> valid(m)) /\ g[m].region = m.region
  BY DEF Retiring
<1>3. /\ ValidRegions = {Lower[m.region] : m \in {n \in MeterRows : valid(n)}}
      /\ ValidRegions' = {Lower[m.region] : m \in {n \in MeterRows' : valid(n)}}
  BY DEF ValidRegions
<1> HIDE DEF valid
<1> QED
  BY <1>1, <1>2, <1>3

-----------------------------------------------------------------------------
\* The flows of the balance, the same of the renamed rows.
FlowKey(r) == [day |-> r[1].day, number |-> r[2].number, point |-> r[2].point, site |-> r[2].site]

FlowOn(rows, k) ==
  [key |-> k, a |-> Lower[k.point[1]], b |-> Lower[k.point[2]],
   in |-> Total(OfSystem({r \in rows : FlowKey(r) = k}, "import_kwh")),
   out |-> Total(OfSystem({r \in rows : FlowKey(r) = k}, "export_kwh"))]

FlowsOf(rows) == {FlowOn(rows, k) : k \in {FlowKey(r) : r \in rows}}

LEMMA FlowsAre == \A q : Flows(q) = FlowsOf(AtBoundary(q))
BY DEF Flows, FlowsOf, FlowOn, FlowKey

LEMMA FlowsWillBe == (\A q : Flows(q) = FlowsOf(AtBoundary(q)))'
BY FlowsAre, PTL

LEMMA EntriesStay ==
  ASSUME TablesInv, NEW g, Retiring(g), NEW q
  PROVE  FlowEntries(q)' = FlowEntries(q)
<1> DEFINE T == AtBoundary(q)
           U == AtBoundary(q)'
           h == Pairs(g)
           on(S, k) == {r \in S : FlowKey(r) = k}
           keys(S) == {FlowKey(r) : r \in S}
<1>1. U = Keys(T, h) /\ T \subseteq daily \X (MeterRows \cup {NoMeter})
  BY HalvesRenamed
<1>2. ASSUME NEW r \in T PROVE h[r] \in U /\ FlowKey(h[r]) = FlowKey(r)
  <2>1. /\ h[r][1] = r[1] /\ h[r][2].number = r[2].number
        /\ h[r][2].point = r[2].point /\ h[r][2].site = r[2].site
    BY <1>1, BalanceColumns
  <2> HIDE DEF h
  <2> QED
    BY <1>1, <2>1 DEF Keys, FlowKey
<1>3. \A x \in U : \E r \in T : x = h[r]
  BY <1>1 DEF Keys
<1>4. Flows(q) = FlowsOf(T) /\ Flows(q)' = FlowsOf(U)
  BY FlowsAre, FlowsWillBe
<1> HIDE DEF T, U, h
<1>5. keys(U) = keys(T)
  BY <1>2, <1>3
<1>6. ASSUME NEW k, NEW s PROVE Total(OfSystem(on(U, k), s)) = Total(OfSystem(on(T, k), s))
  <2>1. on(T, k) \in SUBSET T /\ on(U, k) \in SUBSET U /\ \A r \in T : h[r] \in on(U, k) <=> r \in on(T, k)
    BY <1>2
  <2> HIDE DEF on
  <2>2. on(U, k) = Keys(on(T, k), h)
    BY <1>1, <2>1, SomeRenamed
  <2>3. on(T, k) \subseteq daily \X (MeterRows \cup {NoMeter})
    BY <1>1, <2>1
  <2>4. Metering(on(T, k)) /\ Renamed(on(T, k), on(U, k), h)
    BY <2>2, <2>3, MeteringRows, PairsRenamed DEF h
  <2> QED
    BY <2>4, TotalsRenamed
<1>7. \A S, k : FlowOn(S, k) =
        [key |-> k, a |-> Lower[k.point[1]], b |-> Lower[k.point[2]],
         in |-> Total(OfSystem(on(S, k), "import_kwh")), out |-> Total(OfSystem(on(S, k), "export_kwh"))]
  BY DEF FlowOn
<1> HIDE DEF on
<1>8. \A k : FlowOn(U, k) = FlowOn(T, k)
  BY <1>6, <1>7
<1>9. \A S : FlowsOf(S) = {FlowOn(S, k) : k \in keys(S)}
  BY DEF FlowsOf
<1> HIDE DEF keys
<1>10. Flows(q)' = Flows(q)
  BY <1>4, <1>5, <1>8, <1>9
<1> QED
  BY <1>10, RegionsStayValid DEF FlowEntries

-----------------------------------------------------------------------------
\* A line of the balance from its sums and its entries, the same of the renamed rows.
LineFrom(bsp, dtx, bspMeters, dtxMeters, across, region, day) ==
  LET flow == FlowOf(across) IN
  [region |-> region, day |-> day, bsp |-> bsp, dtx |-> dtx, internal |-> bsp - dtx,
   bspMeters |-> bspMeters, dtxMeters |-> dtxMeters,
   in |-> flow.in, out |-> flow.out, net |-> flow.in - flow.out,
   boundaryMeters |-> HowMany({e.key : e \in across}),
   connected |-> [c \in {e.connected : e \in across} |-> FlowOf({e \in across : e.connected = c})],
   total |-> bsp - dtx + flow.in - flow.out]

LEMMA LineRenamed ==
  ASSUME TablesInv, NEW g, Retiring(g), NEW T, T \subseteq daily \X (MeterRows \cup {NoMeter}),
         NEW U, U = Keys(T, Pairs(g)), NEW E, NEW region, NEW day
  PROVE  Line(U, E, region, day) = Line(T, E, region, day)
<1> DEFINE h == Pairs(g)
           of(S, t) == {r \in {x \in S : RegionOf(x[2]) = region /\ x[1].day = day} : r[2].type = t}
           meters_(S, t) == HowMany({r[2] : r \in of(S, t)})
           across == {e \in E : e.region = region /\ e.key.day = day}
<1>1. ASSUME NEW r \in T
      PROVE  /\ h[r] \in U /\ h[r][1] = r[1] /\ h[r][2].type = r[2].type /\ RegionOf(h[r][2]) = RegionOf(r[2])
             /\ h[r][2].number = r[2].number
  <2>1. h[r] \in U
    BY DEF Keys
  <2> QED
    BY <2>1, BalanceColumns
<1>2. \A x \in U : \E r \in T : x = h[r]
  BY DEF Keys
<1> HIDE DEF h
<1>3. ASSUME NEW t PROVE Total(of(U, t)) = Total(of(T, t)) /\ meters_(U, t) = meters_(T, t)
  <2>1. of(T, t) \in SUBSET T /\ of(U, t) \in SUBSET U /\ \A r \in T : h[r] \in of(U, t) <=> r \in of(T, t)
    BY <1>1
  <2>2. \A S : Numbers({r[2] : r \in of(S, t)}) = {r[2].number : r \in of(S, t)}
    BY DEF Numbers
  <2> HIDE DEF of
  <2>3. of(U, t) = Keys(of(T, t), h)
    BY <2>1, SomeRenamed DEF h
  <2>4. of(T, t) \subseteq daily \X (MeterRows \cup {NoMeter})
    BY <2>1
  <2>5. Metering(of(T, t)) /\ Renamed(of(T, t), of(U, t), h)
    BY <2>3, <2>4, MeteringRows, PairsRenamed DEF h
  <2>6. {r[2].number : r \in of(U, t)} = {r[2].number : r \in of(T, t)}
    <3>1. \A x \in of(U, t) : \E r \in of(T, t) : x[2].number = r[2].number
      BY <1>1, <1>2, <2>1
    <3>2. \A r \in of(T, t) : h[r] \in of(U, t) /\ h[r][2].number = r[2].number
      BY <1>1, <2>1
    <3> QED
      BY <3>1, <3>2
  <2>7. Total(of(U, t)) = Total(of(T, t))
    BY <2>5, RenamedTotal
  <2> QED
    BY <2>2, <2>6, <2>7 DEF HowMany
<1>4. \A S : Line(S, E, region, day)
               = LineFrom(Total(of(S, "BSP")), Total(of(S, "DTX")), meters_(S, "BSP"), meters_(S, "DTX"), across, region, day)
  BY DEF Line, LineFrom
<1> HIDE DEF of, meters_, across
<1> QED
  BY <1>3, <1>4

LEMMA BalanceStays ==
  ASSUME TablesInv, NEW g, Retiring(g), NEW q
  PROVE  HandleGetRegionalEnergyBalance(q)' = HandleGetRegionalEnergyBalance(q)
<1> DEFINE T == Internal(q)
           U == Internal(q)'
           E == FlowEntries(q)
           keys(S) == {<<RegionOf(r[2]), r[1].day>> : r \in S} \cup {<<e.region, e.key.day>> : e \in E}
<1>1. U = Keys(T, Pairs(g)) /\ T \subseteq daily \X (MeterRows \cup {NoMeter})
  BY HalvesRenamed
<1>2. FlowEntries(q)' = E
  BY EntriesStay
<1>3. \A region, day : Line(U, E, region, day) = Line(T, E, region, day)
  <2> HIDE DEF T, U, E
  <2> QED
    BY <1>1, LineRenamed
<1>4. keys(U) = keys(T)
  <2>1. \A r \in T : /\ Pairs(g)[r] \in U
                     /\ Pairs(g)[r][1] = r[1] /\ RegionOf(Pairs(g)[r][2]) = RegionOf(r[2])
    <3>1. \A r \in T : Pairs(g)[r] \in U
      BY <1>1 DEF Keys
    <3> QED
      BY <1>1, <3>1, BalanceColumns
  <2>2. \A x \in U : \E r \in T : x = Pairs(g)[r]
    BY <1>1 DEF Keys
  <2> HIDE DEF T, U, E
  <2> QED
    BY <2>1, <2>2
<1>5. /\ Lines(q) = {Line(T, E, k[1], k[2]) : k \in FinalRegions(q, keys(T))}
      /\ Lines(q)' = {Line(U, E, k[1], k[2]) : k \in FinalRegions(q, keys(U))}
  BY <1>2 DEF Lines
<1> HIDE DEF T, U, E, keys
<1>6. Lines(q)' = Lines(q)
  BY <1>3, <1>4, <1>5
<1>7. KeyMissing(q)' = KeyMissing(q)
  BY <1>2 DEF KeyMissing, E
<1>8. GetRegionalEnergyBalance(q)' = GetRegionalEnergyBalance(q)
  BY <1>6, <1>7 DEF GetRegionalEnergyBalance
<1> QED
  BY <1>8 DEF HandleGetRegionalEnergyBalance, Ranged, Answer

-----------------------------------------------------------------------------
\* A step that retires a meter changes none of the reports.
LEMMA AnswersStay ==
  ASSUME TablesInv, NEW c \in Callers, NEW id \in DOMAIN meters, DeleteMeter(c, id), NEW q \in Queries
  PROVE  Answers(q)' = Answers(q)
<1>1. SoftDeleteMeter(id)
  BY DEF DeleteMeter
<1>2. PICK g : Retiring(g)
  BY <1>1, RetiringRenames
<1>3. HandleGetDailyConsumption(q)' = HandleGetDailyConsumption(q)
  BY <1>2, DailyStays
<1>4. /\ HandleGetDTXAggregatedConsumption(q)' = HandleGetDTXAggregatedConsumption(q)
      /\ HandleGetBSPAggregatedConsumption(q)' = HandleGetBSPAggregatedConsumption(q)
      /\ HandleGetFeederAggregatedConsumption(q)' = HandleGetFeederAggregatedConsumption(q)
      /\ HandleGetRegionalBoundaryAggregatedConsumption(q)' = HandleGetRegionalBoundaryAggregatedConsumption(q)
  BY <1>2, PeriodsStay
<1>5. HandleGetAggregatedReadings(q)' = HandleGetAggregatedReadings(q)
  BY <1>2, AggregatedStays
<1>6. HandleGetExpressFeederAggregatedConsumption(q)' = HandleGetExpressFeederAggregatedConsumption(q)
  BY <1>1, FeedersStay
<1>7. HandleGetConsumptionByRegion(q)' = HandleGetConsumptionByRegion(q)
  BY <1>2, RegionsStay
<1>8. HandleGetTopBottomConsumers(q)' = HandleGetTopBottomConsumers(q)
  BY <1>2, TopStays
<1>9. HandleGetMeterStatusSummary(q)' = HandleGetMeterStatusSummary(q)
  BY <1>2, CardsStay
<1>10. HandleGetMeterHealthSummary(q)' = HandleGetMeterHealthSummary(q)
  BY <1>2, HealthStays
<1>11. HandleGetRegionalMapConsumption(q)' = HandleGetRegionalMapConsumption(q)
  BY <1>2, MapStays
<1>12. HandleGetDistrictTimeseriesConsumption(q)' = HandleGetDistrictTimeseriesConsumption(q)
  BY <1>2, SeriesStays
<1>13. HandleGetRegionalEnergyBalance(q)' = HandleGetRegionalEnergyBalance(q)
  BY <1>2, BalanceStays
<1> QED
  BY <1>3, <1>4, <1>5, <1>6, <1>7, <1>8, <1>9, <1>10, <1>11, <1>12, <1>13 DEF Answers

\* A step that retires a meter (DeleteMeter, SoftDeleteMeter) takes it out of the
\* lists of the administration and no reading out of any of the fourteen reports:
\* the rows of app.meters they join and filter are the same but for deleted_at,
\* which none of their statements asks for.
THEOREM RetiringKeepsFigures ==
  ASSUME FailedIsNoPage
  PROVE  Spec => RetiringKeepsReports
<1>1. ASSUME TablesInv, NEW c \in Callers, NEW id \in DOMAIN meters, DeleteMeter(c, id)
      PROVE  RetiredIsUnlisted(c, id) /\ \A q \in Queries : Answers(q)' = Answers(q)
  BY <1>1, RetiringUnlists, AnswersStay
<1>2. TablesInv /\ [Next]_vars =>
        [\A c \in Callers : \A id \in DOMAIN meters : DeleteMeter(c, id) =>
           RetiredIsUnlisted(c, id) /\ \A q \in Queries : Answers(q)' = Answers(q)]_vars
  BY <1>1
<1> QED
  BY <1>2, TablesStay, PTL DEF Spec, RetiringKeepsReports

-----------------------------------------------------------------------------
(* Who may edit: app.notify_emails.                                        *)

CONSTANTS Emails, Seed, Requests, Nobody
VARIABLES emails, request

List == INSTANCE Allowlist

Served == [pc : {"idle", "add", "count", "remove"}, caller : Emails \cup {Nobody},
           target : Emails \cup {Nobody}, raced : BOOLEAN]

\* A removal that nobody overtook leaves an email on the list.
ListInv ==
  /\ emails \subseteq Emails /\ request \in [Requests -> Served]
  /\ \A q \in Requests :
       /\ request[q].pc # "idle" => request[q].target \in Emails
       /\ request[q].pc = "remove" /\ ~request[q].raced => \E e \in emails : e # request[q].target

\* The instance has a Cardinality of its own, with the same definition.
LEMMA SameCardinality ==
  ASSUME NEW S
  PROVE  List!Cardinality(S) = Cardinality(S)
BY DEF List!Cardinality, Cardinality

LEMMA AnotherEmail ==
  ASSUME NEW S, IsFiniteSet(S), Cardinality(S) > 1, NEW x
  PROVE  \E e \in S : e # x
<1> SUFFICES ASSUME S \subseteq {x} PROVE FALSE
  OBVIOUS
<1>1. IsFiniteSet({x}) /\ Cardinality({x}) = 1
  BY FS_Singleton
<1>2. Cardinality(S) <= 1 /\ Cardinality(S) \in Nat
  BY <1>1, FS_Subset, FS_CardinalityType
<1> QED
  BY <1>2

LEMMA ListStays ==
  ASSUME IsFiniteSet(Emails), Seed \subseteq Emails
  PROVE  /\ List!Init => ListInv
         /\ ListInv /\ [List!Next]_(List!vars) => ListInv'
<1>1. List!Init => ListInv
  BY DEF List!Init, List!Idle, ListInv, Served
<1>2. ASSUME ListInv, NEW q \in Requests, List!Enter(q, "add") \/ List!Enter(q, "count")
      PROVE  ListInv'
  <2>1. PICK pc \in {"add", "count"} : List!Enter(q, pc)
    BY <1>2
  <2>2. PICK c \in emails, e \in Emails :
          request' = [request EXCEPT ![q] = [List!Idle EXCEPT !.pc = pc, !.caller = c, !.target = e]]
    BY <2>1 DEF List!Enter
  <2> DEFINE r == [List!Idle EXCEPT !.pc = pc, !.caller = c, !.target = e]
  <2>3. List!Idle \in Served /\ c \in Emails
    BY <1>2 DEF List!Idle, ListInv, Served
  <2>4. r \in Served /\ r.pc = pc /\ r.target = e
    BY <2>3 DEF Served
  <2> HIDE DEF r
  <2> QED
    BY <1>2, <2>1, <2>2, <2>4, ZenonT(60) DEF List!Enter, ListInv, r
<1>3. ASSUME ListInv, NEW q \in Requests, List!Add(q)
      PROVE  ListInv'
  <2>1. request[q].target \in Emails \cup {Nobody}
    BY <1>3 DEF ListInv, Served
  <2> QED
    BY <1>3, <2>1 DEF List!Add, List!Leave, List!Idle, ListInv, Served
<1>4. ASSUME ListInv, NEW q \in Requests, List!Count(q)
      PROVE  ListInv'
  <2>1. IsFiniteSet(emails)
    BY <1>4, FS_Subset DEF ListInv
  <2>2. List!MayRemove => \E e \in emails : e # request[q].target
    BY <2>1, AnotherEmail, SameCardinality DEF List!MayRemove
  <2>3. CASE List!MayRemove
    BY <1>4, <2>2, <2>3 DEF List!Count, ListInv, Served
  <2>4. CASE ~List!MayRemove
    <3>1. request' = [request EXCEPT ![q] = List!Idle] /\ emails' = emails
      BY <1>4, <2>4 DEF List!Count, List!Leave
    <3>2. List!Idle \in Served /\ List!Idle.pc = "idle"
      BY DEF List!Idle, Served
    <3> QED
      BY <1>4, <3>1, <3>2 DEF ListInv
  <2> QED
    BY <2>3, <2>4
<1>5. ASSUME ListInv, NEW q \in Requests, List!Remove(q)
      PROVE  ListInv'
  BY <1>5, ZenonT(60) DEF List!Remove, List!Idle, ListInv, Served
<1>6. ASSUME ListInv, NEW e \in Emails, List!Tool(e)
      PROVE  ListInv'
  BY <1>6 DEF List!Tool, ListInv
<1>7. ASSUME ListInv, UNCHANGED List!vars
      PROVE  ListInv'
  BY <1>7 DEF List!vars, ListInv
<1> QED
  BY <1>1, <1>2, <1>3, <1>4, <1>5, <1>6, <1>7 DEF List!Next

\* Somebody can always reach the admin routes (notifyemail/service.go, Remove):
\* whoever the requests are from and however many there are, the list is emptied
\* only by a removal that another one overtook.
THEOREM SomebodyStays ==
  ASSUME IsFiniteSet(Emails), Seed \subseteq Emails
  PROVE  List!Spec => List!LastEmailStays
<1>1. ASSUME ListInv, List!Next, emails' = {}, emails' # emails
      PROVE  \E q \in Requests : request[q].pc = "remove" /\ request[q].raced
  <2>1. PICK q \in Requests : List!Remove(q)
    BY <1>1 DEF List!Next, List!Enter, List!Add, List!Count, List!Tool
  <2>2. request[q].pc = "remove" /\ emails \subseteq {request[q].target} /\ request[q].raced \in BOOLEAN
    BY <1>1, <2>1 DEF List!Remove, ListInv, Served
  <2>3. request[q].raced
    BY <1>1, <2>2 DEF ListInv
  <2> QED
    BY <2>2, <2>3
<1>2. ListInv /\ [List!Next]_(List!vars) =>
        [emails' = {} => \E q \in Requests : request[q].pc = "remove" /\ request[q].raced]_emails
  BY <1>1 DEF List!vars
<1> QED
  BY <1>2, ListStays, PTL DEF List!Spec, List!LastEmailStays

================================================================================
