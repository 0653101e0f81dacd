---------------------------- MODULE MmsSalesProofs ----------------------------
(***************************************************************************)
(* MmsSales for any meters, any number of months of any length, any        *)
(* overlap and any size of batch: what the accounting procedure has        *)
(* loaded, and what the summary and the activity say of it.                *)
(***************************************************************************)
EXTENDS MmsSales, TLAPS, FiniteSetTheorems, WellFoundedInduction

-----------------------------------------------------------------------------
(* Days and months.                                                        *)

LEMMA Division ==
  ASSUME NEW n \in Nat, NEW b \in Nat \ {0}
  PROVE  /\ n \div b \in Int /\ n % b \in 0..(b - 1)
         /\ n = b * (n \div b) + (n % b) /\ b * (n \div b) \in Int
OBVIOUS

LEMMA Quotient ==
  ASSUME NEW a \in Nat, NEW b \in Nat \ {0}, NEW c \in 0..(b - 1)
  PROVE  (a * b + c) \div b = a
<1> DEFINE q == (a * b + c) \div b
           r == (a * b + c) % b
<1>1. a * b \in Nat
  OBVIOUS
<1>2. q \in Int /\ r \in 0..(b - 1) /\ a * b + c = b * q + r
  BY <1>1
<1> HIDE DEF q, r
<1>3. b * (a - q) = r - c /\ a - q \in Int
  BY <1>1, <1>2
<1>4. a - q >= 1 => b * (a - q) >= b
  BY <1>3
<1>5. a - q <= -1 => b * (a - q) <= -b
  BY <1>3
<1>6. a - q = 0
  BY <1>2, <1>3, <1>4, <1>5
<1> QED BY <1>2, <1>6 DEF q

LEMMA Multiples ==
  ASSUME NEW a \in Nat, NEW c \in Nat, a <= c, NEW b \in Nat
  PROVE  a * b <= c * b /\ a * b \in Nat /\ c * b \in Nat
OBVIOUS

LEMMA DayTypes ==
  /\ Months \in Nat \ {0} /\ MonthLength \in Nat \ {0} /\ Months * MonthLength \in Nat
  /\ Days \subseteq Nat \ {0} /\ IsFiniteSet(Days)
  /\ \A d \in Days : MonthOf(d) \in 1..Months
<1>1. Months \in Nat \ {0} /\ MonthLength \in Nat \ {0}
  BY SalesAssumption
<1>2. Months * MonthLength \in Nat
  BY <1>1
<1>3. Days \subseteq Nat \ {0} /\ IsFiniteSet(Days)
  <2>1. \A n \in Nat : IsFiniteSet(1..n) /\ 1..n \subseteq Nat \ {0}
    BY FS_Interval
  <2> QED BY <1>2, <2>1 DEF Days
<1>4. ASSUME NEW d \in Days PROVE MonthOf(d) \in 1..Months
  <2> DEFINE q == (d - 1) \div MonthLength
             r == (d - 1) % MonthLength
  <2>1. d - 1 \in Nat /\ d <= Months * MonthLength
    <3> DEFINE n == Months * MonthLength
    <3>1. n \in Nat /\ d \in 1..n
      BY <1>2 DEF Days
    <3> HIDE DEF n
    <3>2. d - 1 \in Nat /\ d <= n
      BY <3>1
    <3> QED BY <3>2 DEF n
  <2>2. /\ q \in Int /\ r \in 0..(MonthLength - 1) /\ d - 1 = MonthLength * q + r
        /\ MonthLength * q \in Int
    BY <1>1, <2>1, Division
  <2> HIDE DEF q, r
  <2>3. q >= 0
    <3>1. q <= -1 => MonthLength * q <= -MonthLength
      BY <1>1, <2>2
    <3> QED BY <1>1, <2>1, <2>2, <3>1
  <2>4. q < Months
    <3>1. q >= Months => MonthLength * q >= Months * MonthLength
      BY <1>1, <2>2
    <3>2. ~(MonthLength * q >= Months * MonthLength)
      BY <1>1, <1>2, <1>3, <2>1, <2>2
    <3> QED BY <1>1, <2>2, <3>1, <3>2
  <2> QED BY <1>1, <2>2, <2>3, <2>4 DEF MonthOf, q
<1> QED BY <1>1, <1>2, <1>3, <1>4

LEMMA FirstDays ==
  ASSUME NEW mo \in 1..Months
  PROVE  /\ FirstOf(mo) \in Days /\ FirstOf(mo) \in Firsts /\ MonthOf(FirstOf(mo)) = mo
         /\ FirstOf(mo) <= mo * MonthLength /\ mo * MonthLength \in Nat
         /\ \A no \in 1..Months : mo <= no => /\ FirstOf(mo) <= FirstOf(no)
                                              /\ FirstOf(mo) <= no * MonthLength
<1>1. Months \in Nat \ {0} /\ MonthLength \in Nat \ {0} /\ mo \in Nat /\ mo - 1 \in Nat /\ mo <= Months
  BY DayTypes
<1>2. (mo - 1) * MonthLength \in Nat /\ mo * MonthLength \in Nat
  BY <1>1, Multiples
<1>3. (mo - 1) * MonthLength + MonthLength = mo * MonthLength
  BY <1>1
<1>4. FirstOf(mo) \in Nat /\ FirstOf(mo) >= 1 /\ FirstOf(mo) <= mo * MonthLength
  BY <1>1, <1>2, <1>3 DEF FirstOf
<1>5. mo * MonthLength <= Months * MonthLength
  BY <1>1, Multiples
<1>6. FirstOf(mo) \in Days /\ FirstOf(mo) \in Firsts
  BY <1>1, <1>2, <1>4, <1>5, DayTypes DEF Days, Firsts
<1>7. MonthOf(FirstOf(mo)) = mo
  <2>1. ((mo - 1) * MonthLength + 0) \div MonthLength = mo - 1
    BY <1>1, Quotient
  <2>2. FirstOf(mo) - 1 = (mo - 1) * MonthLength + 0
    BY <1>2 DEF FirstOf
  <2> QED BY <1>1, <2>1, <2>2 DEF MonthOf
<1>8. ASSUME NEW no \in 1..Months, mo <= no
      PROVE  FirstOf(mo) <= FirstOf(no) /\ FirstOf(mo) <= no * MonthLength
  <2>1. no \in Nat /\ no - 1 \in Nat /\ mo - 1 <= no - 1
    BY <1>1, <1>8
  <2>2. /\ (mo - 1) * MonthLength <= (no - 1) * MonthLength /\ (no - 1) * MonthLength \in Nat
        /\ mo * MonthLength <= no * MonthLength /\ no * MonthLength \in Nat
    BY <1>1, <1>8, <2>1, Multiples
  <2> QED BY <1>2, <1>4, <2>2 DEF FirstOf
<1> QED BY <1>2, <1>4, <1>6, <1>7, <1>8

\* The first days are the days the accounting rows are at.
LEMMA FirstsAreDays ==
  ASSUME NEW d \in Firsts
  PROVE  d \in Days /\ MonthOf(d) \in 1..Months /\ d = FirstOf(MonthOf(d))
BY FirstDays DEF Firsts

-----------------------------------------------------------------------------
(* The ends of a finite set.                                               *)

\* R is a strict order on K.
LEMMA MinimalElement ==
  ASSUME NEW K, IsFiniteSet(K), K # {}, NEW R,
         \A k \in K : <<k, k>> \notin R,
         \A k, l, m \in K : <<k, l>> \in R /\ <<l, m>> \in R => <<k, m>> \in R
  PROVE  \E k \in K : \A l \in K : <<l, k>> \notin R
<1> DEFINE Below(k) == {l \in K : <<l, k>> \in R}
           T == {Below(k) : k \in K}
           O == StrictSubsetOrdering(K)
<1>1. IsWellFoundedOn(O, FiniteSubsetsOf(K))
  BY FS_StrictSubsetOrderingWellFounded
<1>2. T \subseteq FiniteSubsetsOf(K) /\ T # {}
  <2>1. \A k \in K : Below(k) \in SUBSET K
    OBVIOUS
  <2>2. \A k \in K : IsFiniteSet(Below(k))
    BY <2>1, FS_Subset
  <2>3. \A k \in K : Below(k) \in FiniteSubsetsOf(K)
    BY <2>1, <2>2 DEF FiniteSubsetsOf
  <2>4. \E k : k \in K
    OBVIOUS
  <2> HIDE DEF Below
  <2> QED BY <2>3, <2>4
<1> HIDE DEF O, T
<1>3. \E x \in T : \A y \in T : ~(<<y, x>> \in O)
  BY <1>1, <1>2, WFMin
<1>4. PICK x \in T : \A y \in T : <<y, x>> \notin O
  BY <1>3
<1>5. PICK k \in K : x = Below(k)
  BY DEF T
<1>6. ASSUME NEW l \in K, <<l, k>> \in R PROVE FALSE
  <2>1. Below(l) \subseteq Below(k) /\ l \in Below(k) /\ l \notin Below(l)
    BY <1>6
  <2>2. <<Below(l), Below(k)>> \in O
    <3>1. \A A, B : A \subseteq K /\ B \subseteq K /\ A \subseteq B /\ A # B => <<A, B>> \in O
      BY DEF O, StrictSubsetOrdering
    <3>2. Below(l) \subseteq K /\ Below(k) \subseteq K
      OBVIOUS
    <3>3. Below(l) # Below(k)
      BY <2>1
    <3> HIDE DEF Below
    <3> QED BY <2>1, <3>1, <3>2, <3>3, Zenon
  <2>3. Below(l) \in T
    BY DEF T
  <2> QED BY <1>4, <1>5, <2>2, <2>3
<1> QED BY <1>6

LEMMA KeyOrder ==
  /\ IsFiniteSet(Keys) /\ Start \notin Keys
  /\ \A k \in Keys : /\ k[1] \in 1..Months /\ k[2] \in Meters /\ k[2] \in Nat \ {0} /\ k = <<k[1], k[2]>>
                     /\ Before(Start, k)
  /\ \A k, l \in Keys \cup {Start} :
       /\ ~Before(k, k)
       /\ Before(k, l) => ~Before(l, k) /\ k # l
       /\ Before(k, l) \/ Before(l, k) \/ k = l
  /\ \A k, l, m \in Keys \cup {Start} : Before(k, l) /\ Before(l, m) => Before(k, m)
<1>1. IsFiniteSet(Keys)
  <2>1. IsFiniteSet(1..Months) /\ IsFiniteSet(Meters)
    BY DayTypes, SalesAssumption, FS_Interval
  <2> QED BY <2>1, FS_Product DEF Keys
<1>2. ASSUME NEW k \in Keys
      PROVE  /\ k[1] \in 1..Months /\ k[2] \in Meters /\ k[2] \in Nat \ {0} /\ k = <<k[1], k[2]>>
             /\ k[1] \in Nat /\ k[1] > 0
  <2>1. PICK mo \in 1..Months, m \in Meters : k = <<mo, m>>
    BY DEF Keys
  <2>2. mo \in Nat /\ mo > 0 /\ m \in Nat \ {0}
    BY SalesAssumption
  <2>3. k[1] = mo /\ k[2] = m
    BY <2>1
  <2> QED BY <2>1, <2>2, <2>3
<1>3. Start[1] = 0 /\ Start[2] = 0 /\ Start = <<Start[1], Start[2]>>
  BY DEF Start
<1>4. \A k \in Keys : Before(Start, k) /\ k # Start
  BY <1>2, <1>3 DEF Before
<1>5. \A k \in Keys \cup {Start} : k[1] \in Nat /\ k[2] \in Nat /\ k = <<k[1], k[2]>>
  BY <1>2, <1>3
<1>6. ASSUME NEW k \in Keys \cup {Start}, NEW l \in Keys \cup {Start}
      PROVE  /\ ~Before(k, k)
             /\ Before(k, l) => ~Before(l, k) /\ k # l
             /\ Before(k, l) \/ Before(l, k) \/ k = l
  <2>1. k[1] \in Nat /\ k[2] \in Nat /\ l[1] \in Nat /\ l[2] \in Nat
    BY <1>5
  <2>2. ~Before(k, k) /\ (Before(k, l) => ~Before(l, k) /\ k # l)
    BY <2>1 DEF Before
  <2>3. Before(k, l) \/ Before(l, k) \/ (k[1] = l[1] /\ k[2] = l[2])
    BY <2>1 DEF Before
  <2>4. k = <<k[1], k[2]>> /\ l = <<l[1], l[2]>>
    BY <1>5
  <2>5. k[1] = l[1] /\ k[2] = l[2] => k = l
    BY <2>4, Zenon
  <2> QED BY <2>2, <2>3, <2>5
<1>7. ASSUME NEW k \in Keys \cup {Start}, NEW l \in Keys \cup {Start}, NEW m \in Keys \cup {Start},
             Before(k, l), Before(l, m)
      PROVE  Before(k, m)
  BY <1>5, <1>7 DEF Before
<1> QED BY <1>1, <1>2, <1>4, <1>6, <1>7

LEMMA FirstAndLast ==
  ASSUME NEW K \in SUBSET Keys, K # {}
  PROVE  /\ First(K) \in K /\ \A l \in K : ~Before(l, First(K))
         /\ Last(K) \in K /\ \A l \in K : ~Before(Last(K), l)
<1>1. IsFiniteSet(K)
  BY KeyOrder, FS_Subset
<1>2. \E k \in K : \A l \in K : ~Before(l, k)
  <2> DEFINE R == {e \in K \X K : Before(e[1], e[2])}
  <2>1. \A k, l \in K : <<k, l>> \in R <=> Before(k, l)
    OBVIOUS
  <2> HIDE DEF R
  <2>2. /\ \A k \in K : <<k, k>> \notin R
        /\ \A k, l, m \in K : <<k, l>> \in R /\ <<l, m>> \in R => <<k, m>> \in R
    BY <2>1, KeyOrder
  <2>3. \E k \in K : \A l \in K : <<l, k>> \notin R
    BY <1>1, <2>2, MinimalElement
  <2> QED BY <2>1, <2>3
<1>3. \E k \in K : \A l \in K : ~Before(k, l)
  <2> DEFINE R == {e \in K \X K : Before(e[2], e[1])}
  <2>1. \A k, l \in K : <<k, l>> \in R <=> Before(l, k)
    OBVIOUS
  <2> HIDE DEF R
  <2>2. /\ \A k \in K : <<k, k>> \notin R
        /\ \A k, l, m \in K : <<k, l>> \in R /\ <<l, m>> \in R => <<k, m>> \in R
    BY <2>1, KeyOrder
  <2>3. \E k \in K : \A l \in K : <<l, k>> \notin R
    BY <1>1, <2>2, MinimalElement
  <2> QED BY <2>1, <2>3
<1> QED BY <1>2, <1>3 DEF First, Last

LEMMA NewestAndOldest ==
  ASSUME Dated # {}
  PROVE  /\ Newest \in Dated /\ \A d \in Dated : d <= Newest
         /\ Oldest \in Dated /\ \A d \in Dated : Oldest <= d
         /\ Dated \subseteq Days
<1> DEFINE D == Dated
<1>1. Dated \subseteq Days
  BY DEF Dated
<1> HIDE DEF D
<1>2. D \subseteq Days /\ IsFiniteSet(D) /\ D # {} /\ \A d \in D : d \in Nat
  BY <1>1, DayTypes, FS_Subset DEF D
<1>3. \E d \in D : \A e \in D : d <= e
  <2> DEFINE R == {e \in D \X D : e[1] < e[2]}
  <2>1. \A k, l \in D : <<k, l>> \in R <=> k < l
    OBVIOUS
  <2> HIDE DEF R
  <2>2. /\ \A k \in D : <<k, k>> \notin R
        /\ \A k, l, m \in D : <<k, l>> \in R /\ <<l, m>> \in R => <<k, m>> \in R
    BY <1>2, <2>1
  <2>3. \E k \in D : \A l \in D : <<l, k>> \notin R
    BY <1>2, <2>2, MinimalElement
  <2>4. \A k, l \in D : ~(l < k) => k <= l
    BY <1>2
  <2> QED BY <2>1, <2>3, <2>4
<1>4. \E d \in D : \A e \in D : e <= d
  <2> DEFINE R == {e \in D \X D : e[1] > e[2]}
  <2>1. \A k, l \in D : <<k, l>> \in R <=> k > l
    OBVIOUS
  <2> HIDE DEF R
  <2>2. /\ \A k \in D : <<k, k>> \notin R
        /\ \A k, l, m \in D : <<k, l>> \in R /\ <<l, m>> \in R => <<k, m>> \in R
    BY <1>2, <2>1
  <2>3. \E k \in D : \A l \in D : <<l, k>> \notin R
    BY <1>2, <2>2, MinimalElement
  <2>4. \A k, l \in D : ~(l > k) => l <= k
    BY <1>2
  <2> QED BY <2>1, <2>3, <2>4
<1> QED BY <1>1, <1>3, <1>4 DEF D, Newest, Oldest

-----------------------------------------------------------------------------
(* What the steps compute.                                                 *)

SalesTables == [Meters -> [Days -> [kwh : Values \cup {Absent}, dup : BOOLEAN]]]

\* A later reading of the month with the same figure.
Again(m, d) ==
  \E e \in Days \ Firsts : e > d /\ MonthOf(e) = MonthOf(d) /\ sales[m][e].kwh = sales[m][d].kwh

Touches(m, from, to) == \E d \in Days \cap (from..to) : There(sales, m, d)

LEMMA FlaggedTable ==
  ASSUME sales \in SalesTables, NEW from, NEW to
  PROVE  /\ Flagged(sales, from, to) \in SalesTables
         /\ \A m \in Meters, d \in Days :
              /\ Flagged(sales, from, to)[m][d].kwh = sales[m][d].kwh
              /\ Flagged(sales, from, to)[m][d].dup =
                   IF Touches(m, from, to) /\ There(sales, m, d) THEN d \notin Firsts /\ Again(m, d)
                   ELSE sales[m][d].dup
<1> DEFINE touched == {m \in Meters : \E d \in Days \cap (from..to) : There(sales, m, d)}
           again(m, d) == \E e \in Days \ Firsts :
                            e > d /\ MonthOf(e) = MonthOf(d) /\ sales[m][e].kwh = sales[m][d].kwh
           cell(m, d) == IF m \in touched /\ There(sales, m, d)
                           THEN [sales[m][d] EXCEPT !.dup = d \notin Firsts /\ again(m, d)] ELSE sales[m][d]
<1>1. Flagged(sales, from, to) = [m \in Meters |-> [d \in Days |-> cell(m, d)]]
  BY DEF Flagged
<1>2. ASSUME NEW m \in Meters, NEW d \in Days
      PROVE  /\ cell(m, d) \in [kwh : Values \cup {Absent}, dup : BOOLEAN]
             /\ cell(m, d).kwh = sales[m][d].kwh
             /\ cell(m, d).dup = IF Touches(m, from, to) /\ There(sales, m, d) THEN d \notin Firsts /\ Again(m, d)
                                 ELSE sales[m][d].dup
  <2>1. sales[m][d] \in [kwh : Values \cup {Absent}, dup : BOOLEAN]
    BY DEF SalesTables
  <2>2. m \in touched <=> Touches(m, from, to)
    BY DEF Touches
  <2>3. again(m, d) <=> Again(m, d)
    BY DEF Again
  <2> HIDE DEF touched, again
  <2>4. CASE m \in touched /\ There(sales, m, d)
    <3>1. cell(m, d) = [sales[m][d] EXCEPT !.dup = d \notin Firsts /\ again(m, d)]
      BY <2>4
    <3>2. (d \notin Firsts /\ again(m, d)) \in BOOLEAN
      OBVIOUS
    <3> DEFINE b == d \notin Firsts /\ again(m, d)
    <3>3. b = (d \notin Firsts /\ Again(m, d))
      BY <2>3
    <3> HIDE DEF b
    <3>4. [sales[m][d] EXCEPT !.dup = b] = [kwh |-> sales[m][d].kwh, dup |-> b]
      BY <2>1
    <3>5. cell(m, d) = [kwh |-> sales[m][d].kwh, dup |-> b]
      BY <3>1, <3>4 DEF b
    <3>6. b \in BOOLEAN /\ sales[m][d].kwh \in Values \cup {Absent}
      BY <2>1, <3>2 DEF b
    <3> HIDE DEF cell
    <3>7. cell(m, d).kwh = sales[m][d].kwh /\ cell(m, d).dup = b
      BY <3>5
    <3> QED BY <2>2, <2>4, <3>3, <3>5, <3>6, <3>7
  <2>5. CASE ~(m \in touched /\ There(sales, m, d))
    BY <2>1, <2>2, <2>5
  <2> QED BY <2>4, <2>5
<1> HIDE DEF cell
<1> QED BY <1>1, <1>2 DEF SalesTables

\* The figures a batch carries.
LEMMA LoadedTable ==
  ASSUME sales \in SalesTables, staging \in [Keys -> Values \cup {Absent}], NEW K \in SUBSET Keys
  PROVE  /\ Loaded(K) \in SalesTables
         /\ \A m \in Meters, d \in Days : Loaded(K)[m][d].dup <=> sales[m][d].dup
         /\ \A m \in Meters, d \in Days :
              Loaded(K)[m][d].kwh = IF d \in Firsts /\ <<MonthOf(d), m>> \in K THEN staging[<<MonthOf(d), m>>]
                                    ELSE sales[m][d].kwh
<1> DEFINE cell(m, d) == IF d \in Firsts /\ <<MonthOf(d), m>> \in K
                           THEN [sales[m][d] EXCEPT !.kwh = staging[<<MonthOf(d), m>>]] ELSE sales[m][d]
<1>1. Loaded(K) = [m \in Meters |-> [d \in Days |-> cell(m, d)]]
  BY DEF Loaded
<1>2. ASSUME NEW m \in Meters, NEW d \in Days
      PROVE  /\ cell(m, d) \in [kwh : Values \cup {Absent}, dup : BOOLEAN]
             /\ cell(m, d).dup = sales[m][d].dup
             /\ cell(m, d).kwh = IF d \in Firsts /\ <<MonthOf(d), m>> \in K THEN staging[<<MonthOf(d), m>>]
                                 ELSE sales[m][d].kwh
  <2>1. sales[m][d] \in [kwh : Values \cup {Absent}, dup : BOOLEAN]
    BY DEF SalesTables
  <2>2. <<MonthOf(d), m>> \in K => staging[<<MonthOf(d), m>>] \in Values \cup {Absent}
    OBVIOUS
  <2> DEFINE k == <<MonthOf(d), m>>
             v == staging[k]
  <2>3. CASE d \in Firsts /\ k \in K
    <3>1. [sales[m][d] EXCEPT !.kwh = v] = [kwh |-> v, dup |-> sales[m][d].dup]
      BY <2>1
    <3> QED BY <2>1, <2>2, <2>3, <3>1
  <2>4. CASE ~(d \in Firsts /\ k \in K)
    BY <2>1, <2>4
  <2> QED BY <2>3, <2>4
<1> HIDE DEF cell
<1>3. Loaded(K) \in SalesTables
  <2>1. \A m \in Meters, d \in Days : cell(m, d) \in [kwh : Values \cup {Absent}, dup : BOOLEAN]
    BY <1>2
  <2> QED BY <1>1, <2>1 DEF SalesTables
<1>4. \A m \in Meters, d \in Days : Loaded(K)[m][d] = cell(m, d)
  BY <1>1
<1>5. ASSUME NEW m \in Meters, NEW d \in Days PROVE Loaded(K)[m][d].dup <=> sales[m][d].dup
  <2>1. cell(m, d).dup = sales[m][d].dup
    BY <1>2
  <2>2. Loaded(K)[m][d] = cell(m, d)
    BY <1>4
  <2>3. Loaded(K)[m][d].dup = sales[m][d].dup
    BY <2>1, <2>2
  <2> QED BY <2>3
<1>6. ASSUME NEW m \in Meters, NEW d \in Days
      PROVE  Loaded(K)[m][d].kwh = IF d \in Firsts /\ <<MonthOf(d), m>> \in K THEN staging[<<MonthOf(d), m>>]
                                   ELSE sales[m][d].kwh
  BY <1>2, <1>4
<1> QED BY <1>3, <1>5, <1>6

\* A window of the summary is what the table counts, the rest is as it was.
LEMMA SummedTable ==
  ASSUME summary \in [Days -> SUBSET (Meters \X Values)], NEW s \in SalesTables, NEW from, NEW to
  PROVE  /\ Summed(s, from, to) \in [Days -> SUBSET (Meters \X Values)]
         /\ \A d \in Days : d \notin from..to => Summed(s, from, to)[d] = summary[d]
         /\ \A d \in Days : d \in from..to =>
              /\ Summed(s, from, to)[d] = {<<m, s[m][d].kwh>> : m \in {n \in Meters : Counts(s, n, d)}}
              /\ \A m \in Meters, v \in Values :
                   <<m, v>> \in Summed(s, from, to)[d] <=> Counts(s, m, d) /\ s[m][d].kwh = v
              /\ \A m \in Meters : Counts(s, m, d) => <<m, s[m][d].kwh>> \in Summed(s, from, to)[d]
<1> DEFINE counted(d) == {<<m, s[m][d].kwh>> : m \in {n \in Meters : Counts(s, n, d)}}
<1>1. ASSUME NEW d \in Days
      PROVE  Summed(s, from, to)[d] = IF d \in from..to THEN counted(d) ELSE summary[d]
  BY DEF Summed
<1>2. ASSUME NEW d \in Days, NEW m \in Meters, Counts(s, m, d) PROVE s[m][d].kwh \in Values
  BY <1>2 DEF SalesTables, Counts, There
<1>3. \A d \in Days : counted(d) \in SUBSET (Meters \X Values)
  BY <1>2
<1>4. ASSUME NEW d \in Days, NEW m \in Meters, NEW v
      PROVE  <<m, v>> \in counted(d) <=> Counts(s, m, d) /\ s[m][d].kwh = v
  OBVIOUS
<1> HIDE DEF counted
<1>5. Summed(s, from, to) \in [Days -> SUBSET (Meters \X Values)]
  <2>1. Summed(s, from, to) = [d \in Days |-> IF d \in from..to THEN counted(d) ELSE summary[d]]
    BY DEF Summed, counted
  <2>2. \A d \in Days : (IF d \in from..to THEN counted(d) ELSE summary[d]) \in SUBSET (Meters \X Values)
    BY <1>3
  <2> QED BY <2>1, <2>2
<1>6. ASSUME NEW d \in Days, d \in from..to
      PROVE  /\ Summed(s, from, to)[d] = counted(d)
             /\ \A m \in Meters, v \in Values :
                   <<m, v>> \in Summed(s, from, to)[d] <=> Counts(s, m, d) /\ s[m][d].kwh = v
             /\ \A m \in Meters : Counts(s, m, d) => <<m, s[m][d].kwh>> \in Summed(s, from, to)[d]
  <2>1. Summed(s, from, to)[d] = counted(d)
    BY <1>1, <1>6
  <2> QED BY <1>4, <2>1
<1> QED BY <1>1, <1>5, <1>6 DEF counted

\* The months of the window are as the table has them.
LEMMA ActiveTable ==
  ASSUME activity \in [Meters -> SUBSET (1..Months)], NEW s, NEW from, NEW to
  PROVE  /\ Active(s, from, to) \in [Meters -> SUBSET (1..Months)]
         /\ \A m \in Meters, d \in Days \cap (from..to) :
              Counts(s, m, d) => MonthOf(d) \in Active(s, from, to)[m]
<1> DEFINE window == Days \cap (from..to)
           months(m) == (activity[m] \ {MonthOf(d) : d \in window})
                        \cup {MonthOf(d) : d \in {e \in window : Counts(s, m, e)}}
<1>1. Active(s, from, to) = [m \in Meters |-> months(m)]
  BY DEF Active
<1>2. \A m \in Meters : months(m) \in SUBSET (1..Months)
  BY DayTypes
<1>3. \A m \in Meters, d \in window : Counts(s, m, d) => MonthOf(d) \in months(m)
  OBVIOUS
<1> HIDE DEF months
<1> QED BY <1>1, <1>2, <1>3

-----------------------------------------------------------------------------
(* Batches.                                                                *)

LEMMA BatchKeys ==
  /\ Batch \subseteq Pending /\ Pending \subseteq Keys /\ Taken \in SUBSET Keys
  /\ \A k \in Taken : staging[k] # Absent /\ Before(lastKey, k) /\ ~Before(batchMax, k)
  /\ \A k \in Keys : k \notin Taken /\ staging[k] # Absent /\ ~Before(batchMax, k) => ~Before(lastKey, k)
BY DEF Batch, Pending, Taken

-----------------------------------------------------------------------------
(* Types.                                                                  *)

LEMMA TypeFacts ==
  ASSUME TypeOK
  PROVE  /\ sales \in SalesTables /\ staging \in [Keys -> Values \cup {Absent}]
         /\ summary \in [Days -> SUBSET (Meters \X Values)] /\ activity \in [Meters -> SUBSET (1..Months)]
         /\ lastKey \in Keys \cup {Start} /\ checkpoint \in Keys \cup {Start}
         /\ synced \in Int /\ OverlapDays \in Nat /\ WindowStart \in Int
         /\ synced # Never => synced \in Days
         /\ pc = "picked" => batchMin \in Keys /\ batchMax \in Keys
<1>1. synced \in Int /\ OverlapDays \in Nat
  BY DayTypes, SalesAssumption DEF TypeOK, Never
<1> QED BY <1>1 DEF TypeOK, SalesTables, WindowStart

LEMMA ResyncSteps ==
  ASSUME TypeOK, Resync
  PROVE  /\ Dated # {} /\ From \in Int /\ Newest \in Days /\ synced' = Newest /\ dirty' = {}
         /\ sales' = Flagged(sales, From, Newest) /\ sales' \in SalesTables
         /\ summary' = Summed(sales', From, Newest)
         /\ activity' = Active(sales', From, Newest)
         /\ slipped' = {k \in slipped : FirstOf(k[1]) \notin From..Newest}
         /\ UNCHANGED <<staging, checkpoint, pc, lastKey, batchMin, batchMax, late, arrivals>>
<1>1. Dated # {}
  BY DEF Resync
<1>2. Newest \in Days /\ Oldest \in Days
  BY <1>1, NewestAndOldest
<1>3. From \in Int
  BY <1>2, TypeFacts, DayTypes DEF From
<1>4. sales' = Flagged(sales, From, Newest) /\ sales' \in SalesTables
  BY TypeFacts, FlaggedTable DEF Resync
<1> QED BY <1>1, <1>2, <1>3, <1>4 DEF Resync

LEMMA PickBatchSteps ==
  ASSUME PickBatch
  PROVE  /\ Batch # {} /\ Batch \in SUBSET Keys /\ pc' = "picked"
         /\ batchMin' \in Batch /\ batchMax' \in Batch /\ \A l \in Batch : ~Before(l, batchMin')
         /\ UNCHANGED <<staging, sales, summary, activity, synced, checkpoint, lastKey, late, slipped,
                        dirty, arrivals>>
<1>1. Batch # {} /\ Batch \in SUBSET Keys
  BY BatchKeys DEF PickBatch
<1>2. First(Batch) \in Batch /\ Last(Batch) \in Batch /\ \A l \in Batch : ~Before(l, First(Batch))
  BY <1>1, FirstAndLast
<1> QED BY <1>1, <1>2 DEF PickBatch, ProcVars

LEMMA LoadBatchSteps ==
  ASSUME TypeOK, LoadBatch
  PROVE  /\ pc = "picked" /\ pc' = "loop" /\ batchMin' = Start /\ batchMax' = Start
         /\ sales' = Loaded(Taken) /\ sales' \in SalesTables
         /\ summary' = Summed(sales', Touched.from, Touched.to)
         /\ lastKey' = batchMax /\ checkpoint' = batchMax /\ batchMax \in Keys /\ batchMin \in Keys
         /\ late' = late \ Taken /\ dirty' = dirty \cup {k[2] : k \in Taken}
         /\ slipped' = {k \in slipped : k[1] \notin batchMin[1]..batchMax[1]}
                       \cup {k \in Taken : k[1] < batchMin[1]}
         /\ UNCHANGED <<staging, activity, synced, arrivals>>
<1>1. sales' = Loaded(Taken) /\ sales' \in SalesTables
  BY BatchKeys, TypeFacts, LoadedTable DEF LoadBatch
<1>2. batchMax \in Keys /\ batchMin \in Keys
  BY TypeFacts DEF LoadBatch
<1> QED BY <1>1, <1>2 DEF LoadBatch

LEMMA InitTypeOK == Init => TypeOK
<1> SUFFICES ASSUME Init PROVE TypeOK
  OBVIOUS
<1>1. arrivals \in 0..MaxArrivals
  BY SalesAssumption DEF Init
<1>2. sales \in [Meters -> [Days -> [kwh : Values \cup {Absent}, dup : BOOLEAN]]]
  <2>1. NoRow \in [kwh : Values \cup {Absent}, dup : BOOLEAN]
    BY DEF NoRow
  <2> QED BY <2>1 DEF Init
<1>3. staging \in [Keys -> Values \cup {Absent}]
  BY DEF Init
<1>4. summary \in [Days -> SUBSET (Meters \X Values)] /\ activity \in [Meters -> SUBSET (1..Months)]
  BY DEF Init
<1> QED BY <1>1, <1>2, <1>3, <1>4 DEF Init, TypeOK

LEMMA StepTypeOK == TypeOK /\ [Next]_vars => TypeOK'
<1> SUFFICES ASSUME TypeOK, [Next]_vars PROVE TypeOK'
  OBVIOUS
<1>1. ASSUME arrivals' = arrivals + 1, Arrives PROVE arrivals' \in 0..MaxArrivals
  BY <1>1, SalesAssumption DEF TypeOK, Arrives
<1>2. ASSUME NEW k \in Keys, NEW v \in Values, Deliver(k, v) PROVE TypeOK'
  <2>1. staging' \in [Keys -> Values \cup {Absent}]
    BY <1>2 DEF Deliver, TypeOK
  <2>2. late' \subseteq Keys
    BY <1>2 DEF Deliver, TypeOK
  <2>3. arrivals' \in 0..MaxArrivals
    BY <1>1, <1>2 DEF Deliver, Arrives
  <2> QED BY <1>2, <2>1, <2>2, <2>3 DEF Deliver, TypeOK
<1>3. ASSUME NEW m \in Meters, NEW d \in Days, NEW v \in Values, Ingest(m, d, v) PROVE TypeOK'
  <2>1. sales' \in [Meters -> [Days -> [kwh : Values \cup {Absent}, dup : BOOLEAN]]]
    <3>1. [kwh |-> v, dup |-> FALSE] \in [kwh : Values \cup {Absent}, dup : BOOLEAN]
      OBVIOUS
    <3> DEFINE row == [kwh |-> v, dup |-> FALSE]
    <3>2. sales' = [sales EXCEPT ![m][d] = row]
      BY <1>3 DEF Ingest
    <3> HIDE DEF row
    <3> QED BY <3>1, <3>2 DEF TypeOK, row
  <2>2. arrivals' \in 0..MaxArrivals
    BY <1>1, <1>3 DEF Ingest, Arrives
  <2> QED BY <1>3, <2>1, <2>2 DEF Ingest, TypeOK
<1>4. CASE Resync
  <2>1. summary' \in [Days -> SUBSET (Meters \X Values)]
    BY <1>4, ResyncSteps, TypeFacts, SummedTable
  <2>2. activity' \in [Meters -> SUBSET (1..Months)]
    BY <1>4, ResyncSteps, TypeFacts, ActiveTable
  <2>3. slipped' \subseteq Keys
    BY <1>4, ResyncSteps DEF TypeOK
  <2> QED BY <1>4, <2>1, <2>2, <2>3, ResyncSteps DEF TypeOK, SalesTables
<1>5. ASSUME NEW reset \in BOOLEAN, Call(reset) PROVE TypeOK'
  BY <1>5 DEF Call, ProcVars, TypeOK
<1>6. CASE LoadBatch
  <2>1. summary' \in [Days -> SUBSET (Meters \X Values)]
    BY <1>6, LoadBatchSteps, TypeFacts, SummedTable
  <2>2. dirty' \subseteq Meters
    BY <1>6, LoadBatchSteps, BatchKeys, KeyOrder DEF TypeOK
  <2>3. slipped' \subseteq Keys /\ late' \subseteq Keys
    BY <1>6, LoadBatchSteps, BatchKeys DEF TypeOK
  <2> QED BY <1>6, <2>1, <2>2, <2>3, LoadBatchSteps DEF TypeOK, SalesTables
<1>10. CASE PickBatch
  BY <1>10, PickBatchSteps DEF TypeOK
<1>7. CASE Return
  BY <1>7 DEF Return, ProcVars, TypeOK
<1>8. CASE Fail
  BY <1>8 DEF Fail, ProcVars, TypeOK
<1>9. CASE UNCHANGED vars
  BY <1>9 DEF vars, TypeOK
<1> QED BY <1>2, <1>3, <1>4, <1>5, <1>6, <1>7, <1>8, <1>9, <1>10 DEF Next

\* The variables keep their types, and between two batches the procedure is where
\* its checkpoint is (populate_mms_customer_sales_accounting).
THEOREM SalesTyped == Spec => []TypeOK
BY InitTypeOK, StepTypeOK, PTL DEF Spec

-----------------------------------------------------------------------------
(* What is loaded.                                                         *)

LEMMA KeyCell ==
  ASSUME NEW k \in Keys
  PROVE  /\ k[2] \in Meters /\ FirstOf(k[1]) \in Days /\ FirstOf(k[1]) \in Firsts
         /\ <<MonthOf(FirstOf(k[1])), k[2]>> = k
BY KeyOrder, FirstDays

LEMMA StepLoaded == TypeOK /\ LoadedUpToCheckpoint /\ [Next]_vars => LoadedUpToCheckpoint'
<1> SUFFICES ASSUME TypeOK, LoadedUpToCheckpoint, [Next]_vars,
                    NEW k \in Keys, k \notin late', staging'[k] # Absent, ~Before(checkpoint', k)
             PROVE  sales'[k[2]][FirstOf(k[1])].kwh = staging'[k]
  BY DEF LoadedUpToCheckpoint
<1> DEFINE cell(s) == s[k[2]][FirstOf(k[1])].kwh
<1>1. k \notin late /\ staging[k] # Absent /\ ~Before(checkpoint, k) => cell(sales) = staging[k]
  BY DEF LoadedUpToCheckpoint
<1>2. ASSUME UNCHANGED <<staging, late, sales, checkpoint>> PROVE cell(sales') = staging'[k]
  BY <1>1, <1>2
<1>3. ASSUME NEW l \in Keys, NEW v \in Values, Deliver(l, v) PROVE cell(sales') = staging'[k]
  <2>1. UNCHANGED <<sales, checkpoint>> /\ staging' = [staging EXCEPT ![l] = v]
        /\ late' = IF Before(checkpoint, l) THEN late ELSE late \cup {l}
    BY <1>3 DEF Deliver
  <2>2. k # l /\ k \notin late
    BY <2>1
  <2>3. staging'[k] = staging[k]
    BY <2>1, <2>2, TypeFacts
  <2> QED BY <1>1, <2>1, <2>2, <2>3
<1>4. ASSUME NEW m \in Meters, NEW d \in Days, NEW v \in Values, Ingest(m, d, v)
      PROVE  cell(sales') = staging'[k]
  <2>1. UNCHANGED <<staging, late, checkpoint>> /\ d \notin Firsts
        /\ sales' = [sales EXCEPT ![m][d] = [kwh |-> v, dup |-> FALSE]]
    BY <1>4 DEF Ingest
  <2>2. d # FirstOf(k[1])
    BY <2>1, KeyCell
  <2>3. sales'[k[2]][FirstOf(k[1])] = sales[k[2]][FirstOf(k[1])]
    BY <2>1, <2>2, KeyCell, TypeFacts DEF SalesTables
  <2> QED BY <1>1, <2>1, <2>3
<1>5. CASE Resync
  <2>1. cell(sales') = cell(sales)
    BY <1>5, ResyncSteps, KeyCell, TypeFacts, FlaggedTable
  <2> QED BY <1>1, <1>5, <2>1, ResyncSteps
<1>6. CASE LoadBatch
  <2>1. /\ Taken \in SUBSET Keys /\ sales' = Loaded(Taken) /\ checkpoint' = batchMax
        /\ late' = late \ Taken /\ staging' = staging
    BY <1>6, LoadBatchSteps, BatchKeys
  <2>2. cell(sales') = IF k \in Taken THEN staging[k] ELSE cell(sales)
    <3>1. k[2] \in Meters /\ FirstOf(k[1]) \in Days /\ FirstOf(k[1]) \in Firsts
          /\ <<MonthOf(FirstOf(k[1])), k[2]>> = k
      BY KeyCell
    <3> DEFINE m == k[2]
               d == FirstOf(k[1])
    <3>2. Loaded(Taken)[m][d].kwh = IF d \in Firsts /\ <<MonthOf(d), m>> \in Taken THEN staging[<<MonthOf(d), m>>]
                                    ELSE sales[m][d].kwh
      BY <2>1, <3>1, TypeFacts, LoadedTable
    <3> QED BY <2>1, <3>1, <3>2
  <2>3. CASE k \in Taken
    BY <2>1, <2>2, <2>3
  <2>4. CASE k \notin Taken
    \* It was not waiting when the batch was written, and the checkpoint had passed it.
    <3>1. ~Before(lastKey, k)
      BY <2>1, <2>4, BatchKeys
    <3>2. lastKey # Start
      BY <3>1, KeyOrder
    <3>3. ~Before(checkpoint, k)
      BY <3>1, <3>2 DEF TypeOK
    <3> QED BY <1>1, <2>1, <2>2, <2>4, <3>3
  <2> QED BY <2>3, <2>4
<1>7. CASE Return
  <2>1. UNCHANGED <<staging, late, sales>> /\ checkpoint' = lastKey
    BY <1>7 DEF Return, ProcVars
  <2>2. checkpoint' = checkpoint
    BY <2>1, KeyOrder DEF TypeOK
  <2> QED BY <1>2, <2>1, <2>2
<1>8. CASE \/ \E reset \in BOOLEAN : Call(reset)
           \/ PickBatch
           \/ Fail
           \/ UNCHANGED vars
  BY <1>2, <1>8 DEF Call, PickBatch, Fail, ProcVars, vars
<1> QED BY <1>3, <1>4, <1>5, <1>6, <1>7, <1>8 DEF Next

\* All that was delivered up to the checkpoint is in app.mms_customer_sales as it
\* was delivered, but for what came behind the checkpoint: with every size of
\* batch, after any number of breaks, resumptions and resets.
THEOREM NothingLeftBehind == Spec => []LoadedUpToCheckpoint
<1>1. Init => LoadedUpToCheckpoint
  BY DEF Init, LoadedUpToCheckpoint
<1> QED BY <1>1, SalesTyped, StepLoaded, PTL DEF Spec

-----------------------------------------------------------------------------
(* The figures of the new feed are summed.                                 *)

\* A row of the accounting feed is never a duplicate.
NeverFlagged == \A m \in Meters, d \in Firsts : ~sales[m][d].dup

\* Every figure came from the feed, and what slips into a batch is new to the table.
FirstLoaded == \A k \in Keys : Figure(k) # {} => staging[k] # Absent

NewBefore ==
  pc = "picked" => \A k \in Keys : Before(lastKey, k) /\ k[1] < batchMin[1] => Figure(k) = {}

AccountingInv == AccountingIsSummed /\ NeverFlagged /\ FirstLoaded /\ NewBefore

LEMMA SameFigure ==
  ASSUME NEW k \in Keys, sales'[k[2]][FirstOf(k[1])].kwh = sales[k[2]][FirstOf(k[1])].kwh
  PROVE  Figure(k)' = Figure(k)
BY DEF Figure

\* A day that is rebuilt shows what the table has.
LEMMA RebuiltFigure ==
  ASSUME TypeOK, NeverFlagged', NEW from, NEW to, sales' \in SalesTables, summary' = Summed(sales', from, to),
         NEW k \in Keys
  PROVE  /\ FirstOf(k[1]) \in from..to => SummedFor(k)' = Figure(k)'
         /\ FirstOf(k[1]) \notin from..to => SummedFor(k)' = SummedFor(k)
<1> DEFINE m == k[2]
           d == FirstOf(k[1])
           s == sales'
<1>1. m \in Meters /\ d \in Days /\ d \in Firsts
  BY KeyCell
<1>2. summary \in [Days -> SUBSET (Meters \X Values)] /\ ~s[m][d].dup /\ s[m][d].kwh \in Values \cup {Absent}
  BY <1>1, TypeFacts DEF NeverFlagged, SalesTables
<1>3. SummedFor(k)' = {v \in Values : <<m, v>> \in summary'[d]} /\ Figure(k)' = {s[m][d].kwh} \ {Absent}
      /\ SummedFor(k) = {v \in Values : <<m, v>> \in summary[d]}
  BY DEF SummedFor, Figure
<1> HIDE DEF m, d
<1>4. ASSUME d \in from..to PROVE SummedFor(k)' = Figure(k)'
  <2>1. \A v \in Values : <<m, v>> \in summary'[d] <=> Counts(s, m, d) /\ s[m][d].kwh = v
    <3> HIDE DEF s
    <3>1. s \in SalesTables /\ summary' = Summed(s, from, to)
      BY DEF s
    <3> QED BY <1>1, <1>2, <1>4, <3>1, SummedTable
  <2>2. Counts(s, m, d) <=> s[m][d].kwh # Absent
    BY <1>2 DEF Counts, There
  <2> HIDE DEF s
  <2>3. \A v : v \in {w \in Values : <<m, w>> \in summary'[d]} <=> v \in {s[m][d].kwh} \ {Absent}
    BY <1>2, <2>1, <2>2
  <2> QED BY <1>3, <2>3
<1>5. ASSUME d \notin from..to PROVE SummedFor(k)' = SummedFor(k)
  <2>1. summary'[d] = summary[d]
    BY <1>1, <1>2, <1>5, SummedTable
  <2> QED BY <1>3, <2>1
<1> QED BY <1>4, <1>5 DEF d

\* The months from the first to the last key of a batch are in the window it rebuilds.
LEMMA BatchIsTouched ==
  ASSUME batchMin \in Keys, batchMax \in Keys, NEW k \in Keys, batchMin[1] <= k[1], k[1] <= batchMax[1]
  PROVE  FirstOf(k[1]) \in Touched.from..Touched.to
<1> DEFINE a == batchMin[1]
           z == batchMax[1]
           c == k[1]
<1>1. a \in 1..Months /\ z \in 1..Months /\ c \in 1..Months /\ a <= c /\ c <= z
  BY KeyOrder
<1> HIDE DEF a, z, c
<1>2. FirstOf(a) <= FirstOf(c) /\ FirstOf(c) <= z * MonthLength
  BY <1>1, FirstDays
<1>3. FirstOf(a) \in Int /\ FirstOf(c) \in Int /\ z * MonthLength \in Int
  <2>1. \A d \in Days : d \in Int
    BY DayTypes
  <2>2. FirstOf(a) \in Days /\ FirstOf(c) \in Days /\ z * MonthLength \in Nat
    BY <1>1, FirstDays
  <2> QED BY <2>1, <2>2
<1>4. Touched.from = FirstOf(a) /\ Touched.to = z * MonthLength
  BY DEF Touched, a, z
<1> QED BY <1>2, <1>3, <1>4 DEF c

\* The months of the keys of a batch.
LEMMA TakenMonths ==
  ASSUME batchMin \in Keys, batchMax \in Keys, NEW k \in Taken
  PROVE  /\ k \in Keys /\ k[1] \in Nat /\ batchMin[1] \in Nat /\ batchMax[1] \in Nat
         /\ k[1] <= batchMax[1] /\ (k[1] < batchMin[1] \/ batchMin[1] <= k[1])
<1>1. k \in Keys /\ ~Before(batchMax, k)
  BY BatchKeys
<1>2. k[1] \in 1..Months /\ batchMin[1] \in 1..Months /\ batchMax[1] \in 1..Months
  BY <1>1, KeyOrder
<1> QED BY <1>1, <1>2 DEF Before

LEMMA LoadBatchFigures ==
  ASSUME TypeOK, LoadBatch, NEW k \in Keys
  PROVE  /\ k \notin Taken => Figure(k)' = Figure(k)
         /\ \A m \in Meters, d \in Days : sales'[m][d].dup <=> sales[m][d].dup
<1>1. sales' = Loaded(Taken) /\ Taken \in SUBSET Keys /\ sales \in SalesTables
      /\ staging \in [Keys -> Values \cup {Absent}]
  BY LoadBatchSteps, BatchKeys, TypeFacts
<1>2. k[2] \in Meters /\ FirstOf(k[1]) \in Days /\ <<MonthOf(FirstOf(k[1])), k[2]>> = k
  BY KeyCell
<1>3. ASSUME k \notin Taken PROVE Figure(k)' = Figure(k)
  <2>1. Loaded(Taken)[k[2]][FirstOf(k[1])].kwh = sales[k[2]][FirstOf(k[1])].kwh
    BY <1>1, <1>2, <1>3, LoadedTable
  <2> QED BY <1>1, <2>1, SameFigure
<1> QED BY <1>1, <1>3, LoadedTable

LEMMA LoadBatchAccounting == ASSUME TypeOK, AccountingInv, LoadBatch PROVE AccountingInv'
<1> USE DEF AccountingInv
<1>1. /\ pc = "picked" /\ pc' = "loop" /\ sales' \in SalesTables /\ batchMin \in Keys /\ batchMax \in Keys
      /\ summary' = Summed(sales', Touched.from, Touched.to) /\ staging' = staging
      /\ slipped' = {k \in slipped : k[1] \notin batchMin[1]..batchMax[1]} \cup {k \in Taken : k[1] < batchMin[1]}
  BY LoadBatchSteps
<1>2. NeverFlagged'
  <2> SUFFICES ASSUME NEW m \in Meters, NEW d \in Firsts PROVE ~sales'[m][d].dup
    BY DEF NeverFlagged
  <2>1. d \in Days /\ ~sales[m][d].dup
    BY FirstsAreDays DEF NeverFlagged
  <2>2. sales'[m][d].dup <=> sales[m][d].dup
    <3>1. sales' = Loaded(Taken) /\ Taken \in SUBSET Keys
      BY LoadBatchSteps, BatchKeys
    <3> QED BY <2>1, <3>1, TypeFacts, LoadedTable
  <2> QED BY <2>1, <2>2
<1>3. ASSUME NEW k \in Keys
      PROVE  SummedFor(k)' \subseteq Figure(k)' /\ (k \notin slipped' => Figure(k)' \subseteq SummedFor(k)')
  <2>1. /\ FirstOf(k[1]) \in Touched.from..Touched.to => SummedFor(k)' = Figure(k)'
        /\ FirstOf(k[1]) \notin Touched.from..Touched.to => SummedFor(k)' = SummedFor(k)
    BY <1>1, <1>2, RebuiltFigure
  <2>2. CASE FirstOf(k[1]) \in Touched.from..Touched.to
    BY <2>1, <2>2
  <2>3. CASE FirstOf(k[1]) \notin Touched.from..Touched.to /\ k \in Taken
    <3>1. k[1] < batchMin[1]
      BY <1>1, <2>3, TakenMonths, BatchIsTouched
    <3>2. Before(lastKey, k)
      BY <2>3, BatchKeys
    <3>3. SummedFor(k) \subseteq Figure(k) /\ Figure(k) = {}
      BY <1>1, <3>1, <3>2 DEF AccountingIsSummed, NewBefore
    <3>4. k \in slipped'
      BY <1>1, <2>3, <3>1
    <3> QED BY <2>1, <2>3, <3>3, <3>4
  <2>4. CASE FirstOf(k[1]) \notin Touched.from..Touched.to /\ k \notin Taken
    <3>1. Figure(k)' = Figure(k)
      BY <2>4, LoadBatchFigures
    <3>2. k[1] \notin batchMin[1]..batchMax[1]
      <4>1. k[1] \in 1..Months /\ batchMin[1] \in 1..Months /\ batchMax[1] \in 1..Months
        BY <1>1, KeyOrder
      <4> QED BY <1>1, <2>4, <4>1, BatchIsTouched
    <3>3. k \notin slipped' => k \notin slipped
      BY <1>1, <3>2
    <3> QED BY <2>1, <2>4, <3>1, <3>3 DEF AccountingIsSummed
  <2> QED BY <2>2, <2>3, <2>4
<1>4. AccountingIsSummed'
  BY <1>3 DEF AccountingIsSummed
<1>5. FirstLoaded'
  <2> SUFFICES ASSUME NEW k \in Keys, Figure(k)' # {} PROVE staging[k] # Absent
    BY <1>1 DEF FirstLoaded
  <2>1. k \in Taken => staging[k] # Absent
    BY BatchKeys
  <2>2. k \notin Taken => Figure(k) # {}
    BY LoadBatchFigures
  <2> QED BY <2>1, <2>2 DEF FirstLoaded
<1>6. NewBefore'
  BY <1>1 DEF NewBefore
<1> QED BY <1>2, <1>4, <1>5, <1>6

LEMMA ResyncAccounting == ASSUME TypeOK, AccountingInv, Resync PROVE AccountingInv'
<1> USE DEF AccountingInv
<1>1. /\ sales' = Flagged(sales, From, Newest) /\ sales' \in SalesTables
      /\ summary' = Summed(sales', From, Newest)
      /\ slipped' = {k \in slipped : FirstOf(k[1]) \notin From..Newest}
      /\ UNCHANGED <<staging, pc, lastKey, batchMin>>
  BY ResyncSteps
<1>2. ASSUME NEW m \in Meters, NEW d \in Firsts
      PROVE  sales'[m][d].kwh = sales[m][d].kwh /\ ~sales'[m][d].dup
  <2>1. d \in Days /\ sales \in SalesTables /\ ~sales[m][d].dup
    BY FirstsAreDays, TypeFacts DEF NeverFlagged
  <2>2. sales'[m][d].kwh = sales[m][d].kwh
    BY <1>1, <2>1, FlaggedTable
  <2>3. sales'[m][d].dup = IF Touches(m, From, Newest) /\ There(sales, m, d) THEN d \notin Firsts /\ Again(m, d)
                           ELSE sales[m][d].dup
    BY <1>1, <2>1, FlaggedTable
  <2> QED BY <2>1, <2>2, <2>3
<1>3. NeverFlagged'
  BY <1>2 DEF NeverFlagged
<1>4. \A k \in Keys : Figure(k)' = Figure(k)
  BY <1>2, KeyCell, SameFigure
<1>5. ASSUME NEW k \in Keys
      PROVE  SummedFor(k)' \subseteq Figure(k)' /\ (k \notin slipped' => Figure(k)' \subseteq SummedFor(k)')
  <2>1. /\ FirstOf(k[1]) \in From..Newest => SummedFor(k)' = Figure(k)'
        /\ FirstOf(k[1]) \notin From..Newest => SummedFor(k)' = SummedFor(k)
    BY <1>1, <1>3, RebuiltFigure
  <2>2. FirstOf(k[1]) \notin From..Newest /\ k \notin slipped' => k \notin slipped
    BY <1>1
  <2> QED BY <1>4, <2>1, <2>2 DEF AccountingIsSummed
<1>6. AccountingIsSummed'
  BY <1>5 DEF AccountingIsSummed
<1>7. FirstLoaded' /\ NewBefore'
  BY <1>1, <1>4 DEF FirstLoaded, NewBefore
<1> QED BY <1>3, <1>6, <1>7

\* What is picked begins at the first key that waits: nothing waits before it.
LEMMA PickBatchAccounting == ASSUME TypeOK, AccountingInv, PickBatch PROVE AccountingInv'
<1> USE DEF AccountingInv
<1>1. /\ Batch \in SUBSET Keys /\ batchMin' \in Batch /\ \A l \in Batch : ~Before(l, batchMin')
      /\ UNCHANGED <<staging, sales, summary, lastKey, slipped>>
  BY PickBatchSteps
<1>2. \A k \in Keys : Figure(k)' = Figure(k) /\ SummedFor(k)' = SummedFor(k)
  BY <1>1 DEF Figure, SummedFor
<1>3. AccountingIsSummed' /\ NeverFlagged' /\ FirstLoaded'
  BY <1>1, <1>2 DEF AccountingIsSummed, NeverFlagged, FirstLoaded
<1>4. ASSUME NEW k \in Keys, Before(lastKey, k), k[1] < batchMin'[1] PROVE Figure(k) = {}
  <2> DEFINE a == batchMin'
  <2>1. a \in Batch /\ a \in Keys /\ k # a /\ Before(k, a)
    <3>1. a \in Keys /\ k[1] \in 1..Months /\ a[1] \in 1..Months
      BY <1>1, KeyOrder
    <3> QED BY <1>1, <1>4, <3>1 DEF Before
  <2> HIDE DEF a
  <2>2. k \notin Pending
    <3> SUFFICES ASSUME k \in Pending PROVE FALSE
      OBVIOUS
    <3> DEFINE A(q) == {p \in Pending : Before(p, q)}
    <3>1. A(k) \subseteq A(a)
      BY <2>1, BatchKeys, KeyOrder
    <3>2. IsFiniteSet(Pending)
      BY BatchKeys, KeyOrder, FS_Subset
    <3>3. IsFiniteSet(A(a))
      BY <3>2, FS_Subset
    <3>4. IsFiniteSet(A(k)) /\ Cardinality(A(k)) <= Cardinality(A(a)) /\ Cardinality(A(k)) \in Nat
          /\ Cardinality(A(a)) \in Nat
      BY <3>1, <3>3, FS_Subset, FS_CardinalityType
    <3>5. Cardinality(A(a)) < BatchSize /\ BatchSize \in Nat
      BY <2>1, SalesAssumption DEF Batch
    <3>6. Cardinality(A(k)) < BatchSize
      BY <3>4, <3>5
    <3>7. k \in Batch
      BY <3>6 DEF Batch
    <3> QED BY <1>1, <2>1, <3>7 DEF a
  <2>3. staging[k] = Absent
    BY <1>4, <2>2 DEF Pending
  <2> QED BY <2>3 DEF FirstLoaded
<1>5. NewBefore'
  BY <1>1, <1>2, <1>4 DEF NewBefore
<1> QED BY <1>3, <1>5

LEMMA StepAccounting == TypeOK /\ AccountingInv /\ [Next]_vars => AccountingInv'
<1> SUFFICES ASSUME TypeOK, AccountingInv, [Next]_vars PROVE AccountingInv'
  OBVIOUS
<1> USE DEF AccountingInv
\* Neither the figures nor their sums change, and nothing is picked.
<1>1. ASSUME \A k \in Keys : Figure(k)' = Figure(k) /\ SummedFor(k)' = SummedFor(k), slipped' = slipped,
             NeverFlagged', \A k \in Keys : staging[k] # Absent => staging'[k] # Absent,
             pc' = "picked" => UNCHANGED <<pc, lastKey, batchMin>>
      PROVE  AccountingInv'
  BY <1>1 DEF AccountingIsSummed, FirstLoaded, NewBefore
<1>2. ASSUME UNCHANGED <<sales, summary>>
      PROVE  NeverFlagged' /\ \A k \in Keys : Figure(k)' = Figure(k) /\ SummedFor(k)' = SummedFor(k)
  BY <1>2 DEF NeverFlagged, Figure, SummedFor
<1>3. ASSUME NEW k \in Keys, NEW v \in Values, Deliver(k, v) PROVE AccountingInv'
  <2>1. UNCHANGED <<sales, summary, slipped, pc, lastKey, batchMin>> /\ staging' = [staging EXCEPT ![k] = v]
    BY <1>3 DEF Deliver
  <2>2. \A l \in Keys : staging[l] # Absent => staging'[l] # Absent
    BY <2>1, TypeFacts, SalesAssumption
  <2> QED BY <1>1, <1>2, <2>1, <2>2
<1>4. ASSUME NEW m \in Meters, NEW d \in Days, NEW v \in Values, Ingest(m, d, v) PROVE AccountingInv'
  <2>1. /\ d \notin Firsts /\ sales' = [sales EXCEPT ![m][d] = [kwh |-> v, dup |-> FALSE]]
        /\ UNCHANGED <<summary, slipped, staging, pc, lastKey, batchMin>>
    BY <1>4 DEF Ingest
  <2>2. \A n \in Meters, e \in Firsts : sales'[n][e] = sales[n][e]
    BY <2>1, FirstsAreDays, TypeFacts DEF SalesTables
  <2>3. NeverFlagged'
    BY <2>2 DEF NeverFlagged
  <2>4. \A k \in Keys : Figure(k)' = Figure(k) /\ SummedFor(k)' = SummedFor(k)
    BY <2>1, <2>2, KeyCell DEF Figure, SummedFor
  <2> QED BY <1>1, <2>1, <2>3, <2>4
<1>5. CASE \/ \E reset \in BOOLEAN : Call(reset)
           \/ Return
           \/ Fail
           \/ UNCHANGED vars
  <2>1. UNCHANGED <<sales, summary, slipped, staging>> /\ (pc' = "picked" => UNCHANGED <<pc, lastKey, batchMin>>)
    BY <1>5 DEF Call, Return, Fail, ProcVars, vars
  <2> QED BY <1>1, <1>2, <2>1
<1> QED BY <1>3, <1>4, <1>5, ResyncAccounting, PickBatchAccounting, LoadBatchAccounting DEF Next

LEMMA AlwaysAccounting == Spec => []AccountingInv
<1>1. Init => AccountingInv
  <2> SUFFICES ASSUME Init PROVE AccountingInv
    OBVIOUS
  <2>1. \A m \in Meters, d \in Days : sales[m][d] = NoRow
    BY DEF Init
  <2>2. \A m \in Meters, d \in Firsts : ~sales[m][d].dup /\ sales[m][d].kwh = Absent
    BY <2>1, FirstsAreDays DEF NoRow
  <2>3. \A k \in Keys : Figure(k) = {} /\ SummedFor(k) = {}
    BY <2>2, KeyCell DEF Init, Figure, SummedFor
  <2> QED BY <2>2, <2>3 DEF AccountingInv, AccountingIsSummed, NeverFlagged, FirstLoaded, NewBefore
<1> QED BY <1>1, SalesTyped, StepAccounting, PTL DEF Spec

\* The daily summary never shows another figure of the new feed than the table
\* does, and none is missing from it but those of rows that slipped into a batch
\* after it had been picked, in a month before its first one: whichever of the two
\* procedures rebuilds a day, and in whatever order.
THEOREM AccountingAlwaysSummed == Spec => []AccountingIsSummed
<1>1. AccountingInv => AccountingIsSummed
  BY DEF AccountingInv
<1> QED BY <1>1, AlwaysAccounting, PTL

-----------------------------------------------------------------------------
(* What counts after a resync.                                             *)

\* A flag has a reason: a later reading of the month with the same figure.
Justified ==
  \A m \in Meters, d \in Days \ Firsts : sales[m][d].dup => There(sales, m, d) /\ Again(m, d)

Right(m) == \A d \in Days \ Firsts : There(sales, m, d) /\ Again(m, d) => sales[m][d].dup

\* A reading that the next resync will find in its window.
Fresh(m) ==
  m \in dirty /\ \E d \in Days \ Firsts : There(sales, m, d) /\ (synced = Never \/ d >= WindowStart)

\* A flag is missing only where the next resync looks.
FlagsDue == \A m \in Meters : Right(m) \/ Fresh(m)

SummedAreThere ==
  \A m \in Meters, d \in Days, v \in Values : <<m, v>> \in summary[d] => There(sales, m, d)

\* A reading that counts is missing only where the next resync sums.
CountedAreSummed ==
  \A m \in Meters, d \in Days \ Firsts :
    Counts(sales, m, d) /\ (m \notin dirty \/ (synced # Never /\ d < WindowStart))
      => <<m, sales[m][d].kwh>> \in summary[d]

Exact ==
  \A m \in Meters \ dirty, d \in Days, v \in Values :
    d >= WindowStart /\ <<m, v>> \in summary[d] => Counts(sales, m, d) /\ sales[m][d].kwh = v

\* The watermark is the day of a reading, and readings are never deleted: the
\* window of the next resync starts no later than it would have.
SyncedDated == synced # Never => \E m \in Meters : There(sales, m, synced)

SummaryInv ==
  /\ Justified /\ FlagsDue
  /\ SummedAreThere /\ CountedAreSummed /\ Exact
  /\ RecentActivity /\ SyncedDated

\* No reading is deleted.
Kept == \A m \in Meters, d \in Days : There(sales, m, d) => There(sales', m, d)

LEMMA AgainStays ==
  ASSUME \A m \in Meters, d \in Days \ Firsts : There(sales, m, d) => sales'[m][d].kwh = sales[m][d].kwh,
         NEW m \in Meters, NEW d \in Days \ Firsts, There(sales, m, d), Again(m, d)
  PROVE  Again(m, d)'
<1>1. PICK e \in Days \ Firsts :
        e > d /\ MonthOf(e) = MonthOf(d) /\ sales[m][e].kwh = sales[m][d].kwh
  BY DEF Again
<1>2. There(sales, m, e)
  BY <1>1 DEF There
<1>3. sales'[m][e].kwh = sales'[m][d].kwh
  BY <1>1, <1>2
<1> QED BY <1>1, <1>3 DEF Again

LEMMA AgainSame ==
  ASSUME NEW m \in Meters, \A d \in Days \ Firsts : sales'[m][d].kwh = sales[m][d].kwh,
         NEW d \in Days \ Firsts
  PROVE  Again(m, d)' <=> Again(m, d)
BY DEF Again

LEMMA KeptDated == ASSUME Kept, SyncedDated, TypeOK, synced' = synced PROVE SyncedDated'
<1> SUFFICES ASSUME synced # Never PROVE \E m \in Meters : There(sales', m, synced)
  BY DEF SyncedDated, There
<1>1. PICK m \in Meters : There(sales, m, synced)
  BY DEF SyncedDated
<1> QED BY <1>1, TypeFacts DEF Kept

LEMMA IngestSummary ==
  ASSUME TypeOK, SummaryInv, NEW m \in Meters, NEW d \in Days, NEW v \in Values, Ingest(m, d, v)
  PROVE  SummaryInv'
<1>1. /\ d \notin Firsts /\ ~There(sales, m, d) /\ (synced # Never => d >= WindowStart)
      /\ sales' = [sales EXCEPT ![m][d] = [kwh |-> v, dup |-> FALSE]]
      /\ dirty' = dirty \cup {m} /\ UNCHANGED <<summary, activity, synced>>
  BY DEF Ingest
<1>2. \A n \in Meters, e \in Days : n # m \/ e # d => sales'[n][e] = sales[n][e]
  BY <1>1, TypeFacts DEF SalesTables
<1>3. sales'[m][d] = [kwh |-> v, dup |-> FALSE]
  BY <1>1, TypeFacts DEF SalesTables
<1>4. There(sales', m, d) /\ ~sales'[m][d].dup
  BY <1>3, SalesAssumption DEF There
<1>5. Kept
  BY <1>2, <1>4 DEF Kept, There
<1>6. \A n \in Meters, e \in Days : n \notin dirty' =>
        n \notin dirty /\ sales'[n][e] = sales[n][e]
  BY <1>1, <1>2
<1>7. WindowStart' = WindowStart
  BY <1>1 DEF WindowStart
<1>8. Justified'
  <2> SUFFICES ASSUME NEW n \in Meters, NEW e \in Days \ Firsts, sales'[n][e].dup
               PROVE  There(sales', n, e) /\ Again(n, e)'
    BY DEF Justified, There
  <2>1. n # m \/ e # d
    BY <1>4
  <2>2. There(sales, n, e) /\ Again(n, e)
    BY <1>2, <2>1 DEF SummaryInv, Justified
  <2>3. \A o \in Meters, f \in Days \ Firsts : There(sales, o, f) => sales'[o][f].kwh = sales[o][f].kwh
    BY <1>1, <1>2
  <2> QED BY <1>5, <2>2, <2>3, AgainStays DEF Kept
<1>9. FlagsDue'
  <2> SUFFICES ASSUME NEW n \in Meters PROVE Right(n)' \/ Fresh(n)'
    BY DEF FlagsDue
  <2>1. CASE n = m
    BY <1>1, <1>4, <1>7, <2>1 DEF Fresh, There
  <2>2. CASE n # m
    <3>1. \A e \in Days : sales'[n][e] = sales[n][e]
      BY <1>2, <2>2
    <3>2. CASE Right(n)
      <4> SUFFICES ASSUME NEW e \in Days \ Firsts, There(sales', n, e), Again(n, e)' PROVE sales'[n][e].dup
        BY DEF Right, There
      <4>1. There(sales, n, e) /\ Again(n, e)
        BY <3>1, AgainSame DEF There
      <4> QED BY <3>1, <3>2, <4>1 DEF Right
    <3>3. CASE Fresh(n)
      BY <1>1, <1>7, <3>1, <3>3 DEF Fresh, There
    <3> QED BY <3>2, <3>3 DEF SummaryInv, FlagsDue
  <2> QED BY <2>1, <2>2
<1>10. SummedAreThere'
  BY <1>1, <1>5 DEF SummaryInv, SummedAreThere, Kept, There
<1>11. CountedAreSummed'
  <2> SUFFICES ASSUME NEW n \in Meters, NEW e \in Days \ Firsts, Counts(sales', n, e),
                      n \notin dirty' \/ (synced # Never /\ e < WindowStart)
               PROVE  <<n, sales'[n][e].kwh>> \in summary[e]
    BY <1>1, <1>7 DEF CountedAreSummed, Counts, There
  <2>1. n # m \/ e # d
    BY <1>1, DayTypes, TypeFacts
  <2>2. sales'[n][e] = sales[n][e] /\ Counts(sales, n, e)
    BY <1>2, <2>1 DEF Counts, There
  <2>3. n \notin dirty \/ (synced # Never /\ e < WindowStart)
    BY <1>1
  <2> QED BY <2>2, <2>3 DEF SummaryInv, CountedAreSummed
<1>12. Exact'
  BY <1>1, <1>6, <1>7 DEF SummaryInv, Exact, Counts, There
<1>13. RecentActivity'
  BY <1>1, <1>6, <1>7 DEF SummaryInv, RecentActivity, Counts, There
<1>14. SyncedDated'
  BY <1>1, <1>5, KeptDated DEF SummaryInv
<1> QED BY <1>8, <1>9, <1>10, <1>11, <1>12, <1>13, <1>14 DEF SummaryInv

\* What a batch does to the meters and days it does not load.
LEMMA LoadBatchKeeps ==
  ASSUME TypeOK, LoadBatch
  PROVE  /\ \A m \in Meters, d \in Days \ Firsts : sales'[m][d].kwh = sales[m][d].kwh
         /\ \A m \in Meters, d \in Days : sales'[m][d].dup <=> sales[m][d].dup
         /\ \A m \in Meters : m \notin dirty' =>
              m \notin dirty /\ \A d \in Days : sales'[m][d].kwh = sales[m][d].kwh
         /\ Kept
<1>1. Taken \in SUBSET Keys /\ sales' = Loaded(Taken) /\ dirty' = dirty \cup {k[2] : k \in Taken}
  BY LoadBatchSteps, BatchKeys
<1>2. sales \in SalesTables /\ staging \in [Keys -> Values \cup {Absent}]
  BY TypeFacts
<1>3. \A m \in Meters, d \in Days : sales'[m][d].dup <=> sales[m][d].dup
  BY <1>1, <1>2, LoadedTable
<1>4. \A m \in Meters, d \in Days :
        sales'[m][d].kwh = IF d \in Firsts /\ <<MonthOf(d), m>> \in Taken THEN staging[<<MonthOf(d), m>>]
                           ELSE sales[m][d].kwh
  BY <1>1, <1>2, LoadedTable
<1>5. \A m \in Meters, d \in Days \ Firsts : sales'[m][d].kwh = sales[m][d].kwh
  BY <1>4
<1>6. ASSUME NEW m \in Meters, m \notin dirty', NEW d \in Days PROVE sales'[m][d].kwh = sales[m][d].kwh
  <2> DEFINE k == <<MonthOf(d), m>>
  <2>1. k[2] = m
    OBVIOUS
  <2> HIDE DEF k
  <2>2. k \notin Taken
    BY <1>1, <1>6, <2>1
  <2> QED BY <1>4, <2>2 DEF k
<1>7. \A k \in Taken : staging[k] # Absent
  BY BatchKeys
<1>8. Kept
  BY <1>4, <1>7 DEF Kept, There
<1> QED BY <1>1, <1>3, <1>5, <1>6, <1>8

\* A step that rebuilds a window of the summary.
LEMMA Rebuilt ==
  ASSUME TypeOK, NEW from, NEW to, sales' \in SalesTables, summary' = Summed(sales', from, to)
  PROVE  /\ \A d \in Days : d \notin from..to => summary'[d] = summary[d]
         /\ \A d \in Days, m \in Meters, v \in Values : d \in from..to =>
              (<<m, v>> \in summary'[d] <=> Counts(sales', m, d) /\ sales'[m][d].kwh = v)
         /\ \A d \in Days, m \in Meters :
              d \in from..to /\ Counts(sales', m, d) => <<m, sales'[m][d].kwh>> \in summary'[d]
<1> DEFINE s == sales'
           W == from..to
<1>1. summary \in [Days -> SUBSET (Meters \X Values)] /\ s \in SalesTables
  BY TypeFacts
<1>2. /\ \A d \in Days : d \notin W => Summed(s, from, to)[d] = summary[d]
      /\ \A d \in Days : d \in W =>
           /\ \A m \in Meters, v \in Values :
                <<m, v>> \in Summed(s, from, to)[d] <=> Counts(s, m, d) /\ s[m][d].kwh = v
           /\ \A m \in Meters : Counts(s, m, d) => <<m, s[m][d].kwh>> \in Summed(s, from, to)[d]
  BY <1>1, SummedTable
<1>3. summary' = Summed(s, from, to)
  OBVIOUS
<1> HIDE DEF s, W
<1>4. /\ \A d \in Days : d \notin W => summary'[d] = summary[d]
      /\ \A d \in Days, m \in Meters, v \in Values : d \in W =>
           (<<m, v>> \in summary'[d] <=> Counts(s, m, d) /\ s[m][d].kwh = v)
      /\ \A d \in Days, m \in Meters : d \in W /\ Counts(s, m, d) => <<m, s[m][d].kwh>> \in summary'[d]
  BY ONLY <1>2, <1>3
<1> QED BY <1>4 DEF s, W

LEMMA LoadBatchSummary == ASSUME TypeOK, SummaryInv, LoadBatch PROVE SummaryInv'
<1> DEFINE from == Touched.from
           to == Touched.to
<1>1. /\ sales' \in SalesTables /\ summary' = Summed(sales', from, to)
      /\ dirty \subseteq dirty' /\ UNCHANGED <<activity, synced>>
  BY LoadBatchSteps
<1>2. /\ \A m \in Meters, d \in Days \ Firsts : sales'[m][d].kwh = sales[m][d].kwh
      /\ \A m \in Meters, d \in Days : sales'[m][d].dup <=> sales[m][d].dup
      /\ \A m \in Meters : m \notin dirty' =>
           m \notin dirty /\ \A d \in Days : sales'[m][d].kwh = sales[m][d].kwh
      /\ Kept
  BY LoadBatchKeeps
<1>3. WindowStart' = WindowStart
  BY <1>1 DEF WindowStart
<1>4. \A d \in Days : d \notin from..to => summary'[d] = summary[d]
  BY <1>1, Rebuilt
<1>5. \A d \in Days, m \in Meters, v \in Values : d \in from..to =>
        (<<m, v>> \in summary'[d] <=> Counts(sales', m, d) /\ sales'[m][d].kwh = v)
  BY <1>1, Rebuilt
<1>6. \A d \in Days, m \in Meters : d \in from..to /\ Counts(sales', m, d) => <<m, sales'[m][d].kwh>> \in summary'[d]
  BY <1>1, Rebuilt
<1> HIDE DEF from, to
<1>7. \A m \in Meters, d \in Days \ Firsts : There(sales', m, d) <=> There(sales, m, d)
  BY <1>2 DEF There
<1>8. Justified'
  <2> SUFFICES ASSUME NEW n \in Meters, NEW e \in Days \ Firsts, sales'[n][e].dup
               PROVE  There(sales', n, e) /\ Again(n, e)'
    BY DEF Justified, There
  <2>1. There(sales, n, e) /\ Again(n, e)
    BY <1>2 DEF SummaryInv, Justified
  <2> QED BY <1>2, <1>7, <2>1, AgainSame
<1>9. FlagsDue'
  <2> SUFFICES ASSUME NEW n \in Meters PROVE Right(n)' \/ Fresh(n)'
    BY DEF FlagsDue
  <2>1. CASE Right(n)
    <3> SUFFICES ASSUME NEW e \in Days \ Firsts, There(sales', n, e), Again(n, e)' PROVE sales'[n][e].dup
      BY DEF Right, There
    <3>1. There(sales, n, e) /\ Again(n, e)
      BY <1>2, <1>7, AgainSame
    <3> QED BY <1>2, <2>1, <3>1 DEF Right
  <2>2. CASE Fresh(n)
    BY <1>1, <1>2, <1>3, <2>2 DEF Fresh, There
  <2> QED BY <2>1, <2>2 DEF SummaryInv, FlagsDue
<1>10. SummedAreThere'
  <2> SUFFICES ASSUME NEW n \in Meters, NEW e \in Days, NEW v \in Values, <<n, v>> \in summary'[e]
               PROVE  There(sales', n, e)
    BY DEF SummedAreThere, There
  <2>1. CASE e \in from..to
    BY <1>5, <2>1 DEF Counts
  <2>2. CASE e \notin from..to
    BY <1>2, <1>4, <2>2 DEF SummaryInv, SummedAreThere, Kept
  <2> QED BY <2>1, <2>2
<1>11. CountedAreSummed'
  <2> SUFFICES ASSUME NEW n \in Meters, NEW e \in Days \ Firsts, Counts(sales', n, e),
                      n \notin dirty' \/ (synced # Never /\ e < WindowStart)
               PROVE  <<n, sales'[n][e].kwh>> \in summary'[e]
    BY <1>1, <1>3 DEF CountedAreSummed, Counts, There
  <2>1. CASE e \in from..to
    BY <1>6, <2>1
  <2>2. CASE e \notin from..to
    <3>1. Counts(sales, n, e) /\ sales'[n][e].kwh = sales[n][e].kwh
      BY <1>2, <1>7 DEF Counts
    <3>2. n \notin dirty \/ (synced # Never /\ e < WindowStart)
      BY <1>1
    <3> QED BY <1>4, <2>2, <3>1, <3>2 DEF SummaryInv, CountedAreSummed
  <2> QED BY <2>1, <2>2
<1>12. \A n \in Meters, e \in Days : n \notin dirty' => (Counts(sales', n, e) <=> Counts(sales, n, e))
  BY <1>2 DEF Counts, There
<1>13. Exact'
  <2> SUFFICES ASSUME NEW n \in Meters, n \notin dirty', NEW e \in Days, NEW v \in Values,
                      e >= WindowStart, <<n, v>> \in summary'[e]
               PROVE  Counts(sales', n, e) /\ sales'[n][e].kwh = v
    BY <1>3 DEF Exact, Counts, There
  <2>1. CASE e \in from..to
    BY <1>5, <2>1
  <2>2. CASE e \notin from..to
    <3>1. Counts(sales, n, e) /\ sales[n][e].kwh = v
      BY <1>2, <1>4, <2>2 DEF SummaryInv, Exact
    <3> QED BY <1>2, <1>12, <3>1
  <2> QED BY <2>1, <2>2
<1>14. RecentActivity'
  <2> SUFFICES ASSUME NEW n \in Meters, n \notin dirty', NEW e \in Days, Counts(sales', n, e), e >= WindowStart
               PROVE  MonthOf(e) \in activity[n]
    BY <1>1, <1>3 DEF RecentActivity, Counts, There
  <2> QED BY <1>2, <1>12 DEF SummaryInv, RecentActivity
<1>15. SyncedDated'
  BY <1>1, <1>2, KeptDated DEF SummaryInv
<1> QED BY <1>8, <1>9, <1>10, <1>11, <1>13, <1>14, <1>15 DEF SummaryInv

\* A resync flags, and changes no figure.
LEMMA ResyncFlags ==
  ASSUME TypeOK, Resync
  PROVE  /\ \A m \in Meters, d \in Days : sales'[m][d].kwh = sales[m][d].kwh
         /\ \A m \in Meters, d \in Days : There(sales', m, d) <=> There(sales, m, d)
         /\ \A m \in Meters, d \in Days \ Firsts : Again(m, d)' <=> Again(m, d)
         /\ \A m \in Meters, d \in Days \ Firsts :
              Touches(m, From, Newest) /\ There(sales, m, d) => (sales'[m][d].dup <=> Again(m, d))
         /\ \A m \in Meters, d \in Days :
              ~(Touches(m, From, Newest) /\ There(sales, m, d)) => (sales'[m][d].dup <=> sales[m][d].dup)
<1>1. sales' = Flagged(sales, From, Newest) /\ sales \in SalesTables
  BY ResyncSteps, TypeFacts
<1>2. \A m \in Meters, d \in Days : sales'[m][d].kwh = sales[m][d].kwh
  BY <1>1, FlaggedTable
<1>3. \A m \in Meters, d \in Days :
        sales'[m][d].dup = IF Touches(m, From, Newest) /\ There(sales, m, d) THEN d \notin Firsts /\ Again(m, d)
                           ELSE sales[m][d].dup
  BY <1>1, FlaggedTable
<1>4. ASSUME NEW m \in Meters, NEW d \in Days \ Firsts, Touches(m, From, Newest), There(sales, m, d)
      PROVE  sales'[m][d].dup <=> Again(m, d)
  <2>1. sales'[m][d].dup = (d \notin Firsts /\ Again(m, d))
    BY <1>3, <1>4
  <2> QED BY <2>1
<1>5. ASSUME NEW m \in Meters, NEW d \in Days, ~(Touches(m, From, Newest) /\ There(sales, m, d))
      PROVE  sales'[m][d].dup <=> sales[m][d].dup
  <2>1. sales'[m][d].dup = sales[m][d].dup
    BY <1>3, <1>5
  <2> QED BY <2>1
<1>6. \A m \in Meters, d \in Days : There(sales', m, d) <=> There(sales, m, d)
  BY <1>2 DEF There
<1>7. \A m \in Meters, d \in Days \ Firsts : Again(m, d)' <=> Again(m, d)
  BY <1>2, AgainSame
<1> QED BY <1>2, <1>4, <1>5, <1>6, <1>7

\* Where the rows are: in the window of the resync, or behind it, and behind the
\* window of the next one too.
LEMMA ResyncWindow ==
  ASSUME TypeOK, SyncedDated, Resync
  PROVE  /\ \A m \in Meters, d \in Days : There(sales, m, d) =>
              d \in From..Newest \/ (synced # Never /\ d < WindowStart /\ d < WindowStart')
         /\ \A m \in Meters, d \in Days :
              There(sales, m, d) /\ (synced = Never \/ d >= WindowStart) => d \in From..Newest
<1>1. /\ Dated # {} /\ From \in Int /\ Newest \in Days /\ synced' = Newest /\ \A d \in Dated : d <= Newest
      /\ \A d \in Dated : Oldest <= d
  BY ResyncSteps, NewestAndOldest
<1>2. \A m \in Meters, d \in Days : There(sales, m, d) => d \in Dated
  BY DEF Dated
<1>3. WindowStart \in Int /\ OverlapDays \in Nat /\ Newest \in Int /\ (synced # Never => synced \in Days)
      /\ synced \in Int /\ \A d \in Days : d \in Int
  BY <1>1, TypeFacts, DayTypes
<1>4. WindowStart' = Newest - OverlapDays
  BY <1>1 DEF WindowStart
<1>5. synced # Never => synced <= Newest
  BY <1>1, <1>2, <1>3 DEF SyncedDated
<1>6. synced # Never => WindowStart <= WindowStart'
  BY <1>3, <1>4, <1>5 DEF WindowStart
<1>7. (synced = Never => From = Oldest) /\ (synced # Never => From = WindowStart)
  BY DEF From
<1>8. \A m \in Meters, d \in Days : There(sales, m, d) => d <= Newest /\ (synced = Never => From <= d)
  BY <1>1, <1>2, <1>7
<1>9. \A m \in Meters, d \in Days :
        There(sales, m, d) /\ (synced = Never \/ d >= WindowStart) => d \in From..Newest
  BY <1>1, <1>3, <1>7, <1>8
<1>10. WindowStart' \in Int
  BY <1>3, <1>4
<1>11. \A m \in Meters, d \in Days : There(sales, m, d) =>
         d \in From..Newest \/ (synced # Never /\ d < WindowStart /\ d < WindowStart')
  BY <1>3, <1>6, <1>9, <1>10
<1> QED BY <1>9, <1>11

LEMMA ResyncSummary == ASSUME TypeOK, SummaryInv, Resync PROVE SummaryInv'
<1> DEFINE W == From..Newest
<1>1. /\ Dated # {} /\ Newest \in Days /\ synced' = Newest /\ dirty' = {} /\ sales' \in SalesTables
      /\ summary' = Summed(sales', From, Newest) /\ activity' = Active(sales', From, Newest)
  BY ResyncSteps
<1>2. /\ \A m \in Meters, d \in Days : sales'[m][d].kwh = sales[m][d].kwh
      /\ \A m \in Meters, d \in Days : There(sales', m, d) <=> There(sales, m, d)
      /\ \A m \in Meters, d \in Days \ Firsts : Again(m, d)' <=> Again(m, d)
      /\ \A m \in Meters, d \in Days \ Firsts :
           Touches(m, From, Newest) /\ There(sales, m, d) => (sales'[m][d].dup <=> Again(m, d))
      /\ \A m \in Meters, d \in Days :
           ~(Touches(m, From, Newest) /\ There(sales, m, d)) => (sales'[m][d].dup <=> sales[m][d].dup)
  BY ResyncFlags
<1>3. /\ \A m \in Meters, d \in Days : There(sales, m, d) =>
           d \in W \/ (synced # Never /\ d < WindowStart /\ d < WindowStart')
      /\ \A m \in Meters, d \in Days :
           There(sales, m, d) /\ (synced = Never \/ d >= WindowStart) => d \in W
  BY ResyncWindow DEF SummaryInv
<1>4. \A d \in Days : d \notin W => summary'[d] = summary[d]
  BY <1>1, Rebuilt
<1>5. \A d \in Days, m \in Meters, v \in Values : d \in W =>
        (<<m, v>> \in summary'[d] <=> Counts(sales', m, d) /\ sales'[m][d].kwh = v)
  BY <1>1, Rebuilt
<1>6. \A d \in Days, m \in Meters : d \in W /\ Counts(sales', m, d) => <<m, sales'[m][d].kwh>> \in summary'[d]
  BY <1>1, Rebuilt
<1>7. \A m \in Meters, d \in Days : d \in W /\ Counts(sales', m, d) => MonthOf(d) \in activity'[m]
  BY <1>1, TypeFacts, ActiveTable
<1>8. \A m \in Meters, d \in Days : There(sales, m, d) /\ d \in W => Touches(m, From, Newest)
  BY DEF Touches
<1> HIDE DEF W
<1>9. Justified'
  <2> SUFFICES ASSUME NEW n \in Meters, NEW e \in Days \ Firsts, sales'[n][e].dup
               PROVE  There(sales', n, e) /\ Again(n, e)'
    BY DEF Justified, There
  <2> QED BY <1>2 DEF SummaryInv, Justified
<1>10. FlagsDue'
  <2> SUFFICES ASSUME NEW n \in Meters PROVE Right(n)'
    BY DEF FlagsDue
  <2> SUFFICES ASSUME NEW e \in Days \ Firsts, There(sales', n, e), Again(n, e)' PROVE sales'[n][e].dup
    BY DEF Right, There
  <2>1. CASE Touches(n, From, Newest)
    BY <1>2, <2>1
  <2>2. CASE ~Touches(n, From, Newest)
    <3>1. ~Fresh(n)
      BY <1>3, <1>8, <2>2 DEF Fresh
    <3>2. Right(n)
      BY <3>1 DEF SummaryInv, FlagsDue
    <3> QED BY <1>2, <2>2, <3>2 DEF Right
  <2> QED BY <2>1, <2>2
<1>11. ASSUME NEW n \in Meters, NEW e \in Days, NEW v \in Values, <<n, v>> \in summary'[e]
       PROVE  There(sales', n, e)
  <2>1. CASE e \in W
    BY <1>5, <1>11, <2>1 DEF Counts
  <2>2. CASE e \notin W
    BY <1>2, <1>4, <1>11, <2>2 DEF SummaryInv, SummedAreThere
  <2> QED BY <2>1, <2>2
<1>12. SummedAreThere'
  BY <1>11 DEF SummedAreThere, There
<1>13. CountedAreSummed'
  <2> SUFFICES ASSUME NEW n \in Meters, NEW e \in Days \ Firsts, Counts(sales', n, e)
               PROVE  <<n, sales'[n][e].kwh>> \in summary'[e]
    BY DEF CountedAreSummed, Counts, There
  <2>1. There(sales, n, e) /\ ~sales'[n][e].dup
    BY <1>2 DEF Counts
  <2>2. CASE e \in W
    BY <1>6, <2>2
  <2>3. CASE e \notin W
    <3>1. synced # Never /\ e < WindowStart
      BY <1>3, <2>1, <2>3
\* A flag that a resync sees is set again.
    <3>2. ~sales[n][e].dup
      BY <1>2, <2>1 DEF SummaryInv, Justified
    <3>3. Counts(sales, n, e) /\ sales'[n][e].kwh = sales[n][e].kwh
      BY <1>2, <2>1, <3>2 DEF Counts
    <3> QED BY <1>4, <2>3, <3>1, <3>3 DEF SummaryInv, CountedAreSummed
  <2> QED BY <2>2, <2>3
<1>14. \A n \in Meters, e \in Days : There(sales', n, e) /\ e >= WindowStart' => e \in W
  <2>1. \A e \in Days : e \in Int
    BY DayTypes
  <2>2. WindowStart' \in Int
    BY <1>1, <2>1, TypeFacts DEF WindowStart
  <2> QED BY <1>2, <1>3, <2>1, <2>2
<1>15. Exact'
  <2> SUFFICES ASSUME NEW n \in Meters, NEW e \in Days, NEW v \in Values, e >= WindowStart', <<n, v>> \in summary'[e]
               PROVE  Counts(sales', n, e) /\ sales'[n][e].kwh = v
    BY DEF Exact, Counts, There
  <2> QED BY <1>5, <1>11, <1>14
<1>16. RecentActivity'
  <2> SUFFICES ASSUME NEW n \in Meters, NEW e \in Days, Counts(sales', n, e), e >= WindowStart'
               PROVE  MonthOf(e) \in activity'[n]
    BY DEF RecentActivity, Counts, There
  <2> QED BY <1>7, <1>14 DEF Counts
<1>17. SyncedDated'
  <2>1. PICK m \in Meters : There(sales, m, Newest)
    BY <1>1, NewestAndOldest DEF Dated
  <2>2. There(sales', m, Newest)
    BY <1>1, <1>2, <2>1
  <2> QED BY <1>1, <2>2 DEF SyncedDated, There
<1> QED BY <1>9, <1>10, <1>12, <1>13, <1>15, <1>16, <1>17 DEF SummaryInv

LEMMA StepSummary == TypeOK /\ SummaryInv /\ [Next]_vars => SummaryInv'
<1> SUFFICES ASSUME TypeOK, SummaryInv, [Next]_vars PROVE SummaryInv'
  OBVIOUS
<1>1. ASSUME NEW m \in Meters, NEW d \in Days, NEW v \in Values, Ingest(m, d, v) PROVE SummaryInv'
  BY <1>1, IngestSummary
<1>2. CASE Resync
  BY <1>2, ResyncSummary
<1>3. CASE LoadBatch
  BY <1>3, LoadBatchSummary
<1>4. CASE \/ \E k \in Keys, v \in Values : Deliver(k, v)
           \/ \E reset \in BOOLEAN : Call(reset)
           \/ PickBatch
           \/ Return
           \/ Fail
           \/ UNCHANGED vars
  <2>1. UNCHANGED <<sales, summary, activity, synced, dirty>>
    BY <1>4 DEF Deliver, Call, PickBatch, Return, Fail, ProcVars, vars
  <2> QED BY <2>1 DEF SummaryInv, Justified, Right, Fresh, FlagsDue, SummedAreThere, CountedAreSummed, Exact,
                      RecentActivity, SyncedDated, Again, Counts, There, WindowStart
<1> QED BY <1>1, <1>2, <1>3, <1>4 DEF Next

LEMMA AlwaysSummary == Spec => []SummaryInv
<1>1. Init => SummaryInv
  <2> SUFFICES ASSUME Init PROVE SummaryInv
    OBVIOUS
  <2>1. \A m \in Meters, d \in Days : ~There(sales, m, d) /\ ~sales[m][d].dup
    BY DEF Init, NoRow, There
  <2>2. (\A d \in Days : summary[d] = {}) /\ synced = Never
    BY DEF Init
  <2> QED BY <2>1, <2>2 DEF SummaryInv, Justified, Right, FlagsDue, SummedAreThere, CountedAreSummed, Exact,
                            RecentActivity, SyncedDated, Counts
<1> QED BY <1>1, SalesTyped, StepSummary, PTL DEF Spec

\* After a resync, of the readings of a meter that are equal in one month the
\* latest counts and no other; what counts is in the daily summary, rows that
\* slipped into a batch excepted, and within the overlap nothing else is (resync_mms_duplicate_flags, resync_mms_sales_summary).
THEOREM WhatCountsIsSummed == Spec => []SummaryCounts
<1>1. ASSUME TypeOK, AccountingInv, SummaryInv PROVE SummaryCounts
  <2> SUFFICES ASSUME NEW m \in Meters, m \notin dirty, NEW d \in Days
               PROVE  /\ d \notin Firsts /\ There(sales, m, d) => (sales[m][d].dup <=> Again(m, d))
                      /\ Counts(sales, m, d) =>
                           <<m, sales[m][d].kwh>> \in summary[d] \/ (d \in Firsts /\ <<MonthOf(d), m>> \in slipped)
                      /\ d >= WindowStart => \A v \in Values :
                           <<m, v>> \in summary[d] => Counts(sales, m, d) /\ sales[m][d].kwh = v
    BY DEF SummaryCounts, Again
  <2>1. Right(m)
    BY <1>1 DEF SummaryInv, FlagsDue, Fresh
  <2>2. d \notin Firsts /\ There(sales, m, d) => (sales[m][d].dup <=> Again(m, d))
    BY <1>1, <2>1 DEF SummaryInv, Justified, Right
  <2>3. ASSUME Counts(sales, m, d)
        PROVE  <<m, sales[m][d].kwh>> \in summary[d] \/ (d \in Firsts /\ <<MonthOf(d), m>> \in slipped)
    <3>1. CASE d \in Firsts
      <4> DEFINE k == <<MonthOf(d), m>>
      <4>1. k \in Keys /\ FirstOf(k[1]) = d /\ k[2] = m
        BY <3>1, FirstsAreDays DEF Keys
      <4> HIDE DEF k
      <4>2. sales[m][d].kwh \in Figure(k)
        BY <2>3, <4>1 DEF Figure, Counts, There
      <4>3. k \notin slipped => sales[m][d].kwh \in SummedFor(k)
        BY <1>1, <4>1, <4>2 DEF AccountingInv, AccountingIsSummed
      <4> QED BY <3>1, <4>1, <4>3 DEF SummedFor, k
    <3>2. CASE d \notin Firsts
      BY <1>1, <2>3, <3>2 DEF SummaryInv, CountedAreSummed
    <3> QED BY <3>1, <3>2
  <2>4. d >= WindowStart => \A v \in Values :
          <<m, v>> \in summary[d] => Counts(sales, m, d) /\ sales[m][d].kwh = v
    BY <1>1 DEF SummaryInv, Exact
  <2> QED BY <2>2, <2>3, <2>4
<1> QED BY <1>1, SalesTyped, AlwaysAccounting, AlwaysSummary, PTL

\* Within the overlap, a customer that has a row is active in its month
\* (resync_mms_customer_activity, behind a procedure that does not touch it).
THEOREM RecentlyActive == Spec => []RecentActivity
<1>1. SummaryInv => RecentActivity
  BY DEF SummaryInv
<1> QED BY <1>1, AlwaysSummary, PTL

==============================================================================
