------------------------- MODULE ResponseCacheProofs -------------------------
(***************************************************************************)
(* That what ResponseCache stores is an answer to every request with its   *)
(* key, and does not outlive the day it was read on by more than Short,    *)
(* whatever the requests, the length of a day and the two lifetimes are.   *)
(***************************************************************************)
EXTENDS ResponseCache, TLAPS, FiniteSetTheorems

\* What was read is of the days up to dateTo, and of those that were over when it
\* was read it is complete but for readings that land late.
ReadBy(body, dateTo) ==
  /\ body.day \in Nat /\ body.day <= DayOf(now)
  /\ \A d \in DOMAIN body.sums :
       /\ d \in Days /\ d <= dateTo
       /\ d < body.day => d \in late \/ body.sums[d] = landed[d]

\* An entry that was stored on a day of its range has the short lifetime.
ShortLived(entry, dateTo) ==
  dateTo >= entry.day => entry.expires < (dateTo + 1) * DayLength + Short

StoredWell(k) ==
  LET entry == store[k] IN
  /\ entry.day \in Nat /\ entry.body.day <= entry.day
  /\ entry.expires \in Nat /\ now < entry.expires
  /\ entry.dateTo \in Nat
  /\ ReadBy(entry.body, entry.dateTo)
  /\ ShortLived(entry, entry.dateTo)

StoreInv == \A k \in Keys : store[k] # None /\ store[k].dateTo # None => StoredWell(k)

ThreadInv ==
  \A t \in Threads :
    /\ DOMAIN threads[t] = {"state", "request", "body"}
    /\ threads[t].state \in {"missed", "read"} => threads[t].request \in Requests
    /\ threads[t].state = "read" /\ threads[t].request.dateTo # None =>
         ReadBy(threads[t].body, threads[t].request.dateTo)

TypeInv ==
  /\ now \in Nat
  /\ landed \in [Days -> Nat]
  /\ late \subseteq Days
  /\ DOMAIN store = Keys
  /\ DOMAIN threads = Threads

CacheInv == TypeInv /\ StoreInv /\ ThreadInv

-----------------------------------------------------------------------------
(* Days and keys.                                                          *)

LEMMA DayOfIsNat == ASSUME NEW t \in Nat PROVE DayOf(t) \in Nat
BY CacheAssumption, SMTT(30) DEF DayOf

LEMMA DayOfGrows == ASSUME NEW t \in Nat PROVE DayOf(t) <= DayOf(t + 1)
BY CacheAssumption, SMTT(30) DEF DayOf

\* A tick of a day comes before the next day.
LEMMA DayEnds ==
  ASSUME NEW t \in Nat, NEW d \in Nat, DayOf(t) <= d
  PROVE  t < (d + 1) * DayLength
<1> DEFINE q == DayOf(t)
<1>1. q \in Nat /\ t < (q + 1) * DayLength
  BY CacheAssumption, SMTT(30) DEF DayOf
<1>2. (q + 1) * DayLength <= (d + 1) * DayLength
  <2> HIDE DEF q
  <2>1. q + 1 \in Int /\ d + 1 \in Int /\ q + 1 <= d + 1 /\ DayLength \in Nat
    BY <1>1, CacheAssumption DEF q
  <2> DEFINE a == q + 1  b == d + 1
  <2> HIDE DEF a, b
  <2>2. a \in Int /\ b \in Int /\ a <= b
    BY <2>1 DEF a, b
  <2>3. a * DayLength <= b * DayLength
    BY <2>1, <2>2, SMTT(30)
  <2> QED BY <2>3 DEF a, b
<1> QED
  <2> HIDE DEF q
  <2>1. (q + 1) * DayLength \in Int /\ (d + 1) * DayLength \in Int
    BY <1>1, CacheAssumption
  <2> QED BY <1>1, <1>2, <2>1, CacheAssumption

LEMMA DaysAreNat == Days \subseteq Nat
<1>1. DayOf(MaxNow) \in Nat
  BY DayOfIsNat, CacheAssumption
<1> QED BY <1>1 DEF Days

LEMMA KeysOfRequests == \A r \in Requests : Key[r] \in Keys /\ Key[r] = KeyOf(r)
BY DEF Key, Keys, Range

-----------------------------------------------------------------------------
(* Initially.                                                              *)

LEMMA InitCacheInv == Init => CacheInv
<1> SUFFICES ASSUME Init PROVE CacheInv
  OBVIOUS
<1>1. TypeInv
  BY DEF Init, TypeInv
<1>2. StoreInv
  BY DEF Init, StoreInv
<1>3. ThreadInv
  BY DEF Init, ThreadInv, Idle
<1> QED BY <1>1, <1>2, <1>3 DEF CacheInv

-----------------------------------------------------------------------------
(* What has been read stays as good as it was: days that are over get late  *)
(* readings only, and the clock does not go back.                          *)

LEMMA TickKeepsRead ==
  ASSUME TypeInv, Tick, NEW body, NEW dateTo, ReadBy(body, dateTo)
  PROVE  /\ body.day \in Nat /\ body.day <= DayOf(now')
         /\ \A d \in DOMAIN body.sums :
              /\ d \in Days /\ d <= dateTo
              /\ d < body.day => d \in late' \/ body.sums[d] = landed'[d]
<1>1. DayOf(now) <= DayOf(now') /\ DayOf(now) \in Nat /\ DayOf(now') \in Nat
  BY DayOfGrows, DayOfIsNat DEF Tick, TypeInv
<1> QED BY <1>1 DEF Tick, ReadBy

LEMMA LandKeepsRead ==
  ASSUME TypeInv, NEW e \in Days, Land(e), NEW body, NEW dateTo, ReadBy(body, dateTo)
  PROVE  /\ body.day \in Nat /\ body.day <= DayOf(now')
         /\ \A d \in DOMAIN body.sums :
              /\ d \in Days /\ d <= dateTo
              /\ d < body.day => d \in late' \/ body.sums[d] = landed'[d]
<1>1. body.day \in Nat /\ body.day <= DayOf(now')
  BY DEF Land, ReadBy
<1>2. ASSUME NEW d \in DOMAIN body.sums, d < body.day
      PROVE  d \in late' \/ body.sums[d] = landed'[d]
  <2>1. d \in Days /\ d < DayOf(now)
    <3>1. d \in Days /\ d \in Nat /\ body.day \in Nat /\ body.day <= DayOf(now)
      BY DaysAreNat DEF ReadBy
    <3>2. DayOf(now) \in Nat
      BY DayOfIsNat DEF TypeInv
    <3> QED BY <1>2, <3>1, <3>2
  <2>2. d \in late \/ body.sums[d] = landed[d]
    BY <1>2 DEF ReadBy
  <2>3. CASE d = e
    BY <2>1, <2>3 DEF Land
  <2>4. CASE d # e
    BY <2>1, <2>2, <2>4 DEF Land, TypeInv
  <2> QED BY <2>3, <2>4
<1> QED BY <1>1, <1>2 DEF ReadBy

\* An answer read now has every reading there is.
LEMMA BodyIsRead ==
  ASSUME TypeInv, NEW r \in Requests, r.dateTo # None
  PROVE  ReadBy(Body(r), r.dateTo)
<1>1. DayOf(now) \in Nat
  BY DayOfIsNat DEF TypeInv
<1>2. Body(r).day = DayOf(now) /\ Body(r).sums = [d \in Covered(r) |-> landed[d]]
  BY DEF Body
<1>3. \A d \in Covered(r) : d \in Days /\ d <= r.dateTo
  BY DEF Covered
<1> QED BY <1>1, <1>2, <1>3 DEF ReadBy

-----------------------------------------------------------------------------
(* The steps.                                                              *)

LEMMA StepTick == CacheInv /\ Tick => CacheInv'
<1> SUFFICES ASSUME CacheInv, Tick PROVE CacheInv'
  OBVIOUS
<1> USE DEF CacheInv
<1>1. TypeInv'
  BY DEF TypeInv, Tick
<1>2. StoreInv'
  <2> SUFFICES ASSUME NEW k \in Keys, store'[k] # None, store'[k].dateTo # None PROVE StoredWell(k)'
    BY DEF StoreInv
  <2>1. store'[k] = store[k] /\ store[k] # None /\ ~(store[k].expires <= now')
    BY DEF Tick
  <2>2. StoredWell(k)
    BY <2>1 DEF StoreInv
  <2>3. now' \in Nat /\ store[k].expires \in Nat
    BY <2>2 DEF StoredWell, Tick, TypeInv
  <2>4. now' < store'[k].expires
    BY <2>1, <2>3
  <2>5. ReadBy(store[k].body, store[k].dateTo)'
    <3>1. ReadBy(store[k].body, store[k].dateTo)
      BY <2>2 DEF StoredWell
    <3> DEFINE body == store[k].body
               dateTo == store[k].dateTo
    <3>2. /\ body.day \in Nat /\ body.day <= DayOf(now')
          /\ \A d \in DOMAIN body.sums :
               /\ d \in Days /\ d <= dateTo
               /\ d < body.day => d \in late' \/ body.sums[d] = landed'[d]
      <4>1. ReadBy(body, dateTo)
        BY <3>1
      <4> HIDE DEF body, dateTo
      <4> QED BY <4>1, TickKeepsRead
    <3> QED BY <2>1, <3>2 DEF ReadBy
  <2> QED BY <2>1, <2>2, <2>4, <2>5 DEF StoredWell, ShortLived
<1>3. ThreadInv'
  <2>1. threads' = threads
    BY DEF Tick
  <2> SUFFICES ASSUME NEW t \in Threads, threads[t].state = "read", threads[t].request.dateTo # None
               PROVE  ReadBy(threads[t].body, threads[t].request.dateTo)'
    BY <2>1 DEF ThreadInv
  <2> DEFINE body == threads[t].body
             dateTo == threads[t].request.dateTo
  <2>2. ReadBy(body, dateTo)
    BY DEF ThreadInv
  <2>3. /\ body.day \in Nat /\ body.day <= DayOf(now')
        /\ \A d \in DOMAIN body.sums :
             /\ d \in Days /\ d <= dateTo
             /\ d < body.day => d \in late' \/ body.sums[d] = landed'[d]
    <3> HIDE DEF body, dateTo
    <3> QED BY <2>2, TickKeepsRead
  <2> QED BY <2>1, <2>3 DEF ReadBy
<1> QED BY <1>1, <1>2, <1>3

LEMMA StepLand == ASSUME NEW e \in Days, CacheInv, Land(e) PROVE CacheInv'
<1> USE DEF CacheInv
<1>1. TypeInv'
  BY DEF TypeInv, Land
<1>2. StoreInv'
  <2> SUFFICES ASSUME NEW k \in Keys, store'[k] # None, store'[k].dateTo # None PROVE StoredWell(k)'
    BY DEF StoreInv
  <2>1. store' = store /\ now' = now
    BY DEF Land
  <2>2. StoredWell(k)
    BY <2>1 DEF StoreInv
  <2>3. ReadBy(store[k].body, store[k].dateTo)'
    <3>1. ReadBy(store[k].body, store[k].dateTo)
      BY <2>2 DEF StoredWell
    <3> DEFINE body == store[k].body
               dateTo == store[k].dateTo
    <3>2. /\ body.day \in Nat /\ body.day <= DayOf(now')
          /\ \A d \in DOMAIN body.sums :
               /\ d \in Days /\ d <= dateTo
               /\ d < body.day => d \in late' \/ body.sums[d] = landed'[d]
      <4>1. ReadBy(body, dateTo)
        BY <3>1
      <4> HIDE DEF body, dateTo
      <4> QED BY <4>1, LandKeepsRead
    <3> QED BY <2>1, <3>2 DEF ReadBy
  <2> QED BY <2>1, <2>2, <2>3 DEF StoredWell, ShortLived
<1>3. ThreadInv'
  <2>1. threads' = threads
    BY DEF Land
  <2> SUFFICES ASSUME NEW t \in Threads, threads[t].state = "read", threads[t].request.dateTo # None
               PROVE  ReadBy(threads[t].body, threads[t].request.dateTo)'
    BY <2>1 DEF ThreadInv
  <2> DEFINE body == threads[t].body
             dateTo == threads[t].request.dateTo
  <2>2. ReadBy(body, dateTo)
    BY DEF ThreadInv
  <2>3. /\ body.day \in Nat /\ body.day <= DayOf(now')
        /\ \A d \in DOMAIN body.sums :
             /\ d \in Days /\ d <= dateTo
             /\ d < body.day => d \in late' \/ body.sums[d] = landed'[d]
    <3> HIDE DEF body, dateTo
    <3> QED BY <2>2, LandKeepsRead
  <2> QED BY <2>1, <2>3 DEF ReadBy
<1> QED BY <1>1, <1>2, <1>3

\* What leaves the clock, the readings and the entries alone.
LEMMA StoreFrame ==
  ASSUME CacheInv, UNCHANGED <<now, landed, late, store>>
  PROVE  StoreInv'
BY DEF CacheInv, StoreInv, StoredWell, ReadBy, ShortLived

LEMMA StepHit ==
  ASSUME NEW t \in Threads, NEW r \in Requests, CacheInv, Hit(t, r) \/ Miss(t, r)
  PROVE  CacheInv'
<1> USE DEF CacheInv
<1>1. TypeInv'
  BY DEF TypeInv, Hit, Miss
<1>2. StoreInv'
  BY StoreFrame DEF Hit, Miss
<1>3. ThreadInv'
  <2> SUFFICES ASSUME NEW u \in Threads
               PROVE  /\ DOMAIN threads'[u] = {"state", "request", "body"}
                      /\ threads'[u].state \in {"missed", "read"} => threads'[u].request \in Requests
                      /\ threads'[u].state = "read" /\ threads'[u].request.dateTo # None =>
                           ReadBy(threads[u].body, threads[u].request.dateTo)'
    BY DEF ThreadInv
  <2>1. CASE u = t
    <3>1. threads'[u].state \in {"answered", "missed"} /\ threads'[u].request = r
      BY <2>1 DEF TypeInv, Hit, Miss
    <3>2. DOMAIN threads'[u] = {"state", "request", "body"}
      BY <2>1 DEF TypeInv, Hit, Miss
    <3> QED BY <3>1, <3>2
  <2>2. CASE u # t
    <3>1. threads'[u] = threads[u] /\ UNCHANGED <<now, landed, late>>
      BY <2>2 DEF TypeInv, Hit, Miss
    <3> QED BY <3>1 DEF ThreadInv, ReadBy
  <2> QED BY <2>1, <2>2
<1> QED BY <1>1, <1>2, <1>3

LEMMA StepServe == ASSUME NEW t \in Threads, CacheInv, ServeHTTP(t) PROVE CacheInv'
<1> USE DEF CacheInv
<1>1. TypeInv'
  BY DEF TypeInv, ServeHTTP
<1>2. StoreInv'
  BY StoreFrame DEF ServeHTTP
<1>3. ThreadInv'
  <2>1. ASSUME threads' = [threads EXCEPT ![t] = Idle] PROVE ThreadInv'
    BY <2>1 DEF ThreadInv, TypeInv, ReadBy, ServeHTTP, Idle
  <2>2. ASSUME threads' = [threads EXCEPT ![t].state = "read", ![t].body = Body(threads[t].request)]
        PROVE  ThreadInv'
    <3>1. threads[t].request \in Requests /\ DOMAIN threads[t] = {"state", "request", "body"}
      BY DEF ThreadInv, ServeHTTP
    <3>2. threads[t].request.dateTo # None => ReadBy(Body(threads[t].request), threads[t].request.dateTo)
      BY <3>1, BodyIsRead
    <3> QED BY <2>2, <3>1, <3>2 DEF ThreadInv, TypeInv, ReadBy, ServeHTTP
  <2> QED BY <2>1, <2>2 DEF ServeHTTP
<1> QED BY <1>1, <1>2, <1>3

LEMMA StepSet == ASSUME NEW t \in Threads, CacheInv, Set(t) PROVE CacheInv'
<1> DEFINE r == threads[t].request
           entry == [body |-> threads[t].body, dateTo |-> r.dateTo, day |-> DayOf(now),
                     expires |-> now + RecencyTTL(r)]
<1> USE DEF CacheInv
<1>1. TypeInv'
  BY DEF TypeInv, Set
<1>2. ThreadInv'
  BY DEF ThreadInv, TypeInv, ReadBy, Set
<1>3. r \in Requests /\ (r.dateTo # None => ReadBy(threads[t].body, r.dateTo))
  BY DEF ThreadInv, Set
<1>4. Key[r] \in Keys
  BY <1>3, KeysOfRequests
<1>5. ASSUME store' = [store EXCEPT ![Key[r]] = entry] PROVE StoreInv'
  <2> SUFFICES ASSUME NEW k \in Keys, store'[k] # None, store'[k].dateTo # None PROVE StoredWell(k)'
    BY DEF StoreInv
  <2>1. now' = now /\ landed' = landed /\ late' = late
    BY DEF Set
  <2>2. CASE k # Key[r]
    <3>1. store'[k] = store[k] /\ StoredWell(k)
      BY <1>5, <2>2 DEF StoreInv, TypeInv
    <3> QED BY <2>1, <3>1 DEF StoredWell, ReadBy, ShortLived
  <2>3. CASE k = Key[r]
    <3>1. store'[k] = entry /\ entry.dateTo = r.dateTo /\ r.dateTo \in Nat
      BY <1>3, <1>4, <1>5, <2>3, CacheAssumption DEF TypeInv
    <3>2. now \in Nat /\ DayOf(now) \in Nat /\ RecencyTTL(r) \in Nat /\ 0 < RecencyTTL(r)
      BY <3>1, DayOfIsNat, CacheAssumption DEF TypeInv, RecencyTTL
    <3>3. ReadBy(entry.body, r.dateTo) /\ entry.body.day <= DayOf(now)
      BY <1>3, <2>3, <3>1 DEF ReadBy
    <3>4. ASSUME r.dateTo >= DayOf(now)
          PROVE  now + RecencyTTL(r) < (r.dateTo + 1) * DayLength + Short
      <4>1. RecencyTTL(r) = Short
        BY <3>1, <3>4 DEF RecencyTTL
      <4>2. now < (r.dateTo + 1) * DayLength
        BY <3>1, <3>2, <3>4, DayEnds
      <4>3. (r.dateTo + 1) * DayLength \in Int /\ Short \in Nat
        BY <3>1, CacheAssumption
      <4> HIDE DEF r
      <4> QED BY <3>2, <4>1, <4>2, <4>3
    <3> QED BY <2>1, <3>1, <3>2, <3>3, <3>4 DEF StoredWell, ReadBy, ShortLived
  <2> QED BY <2>2, <2>3
<1>6. ASSUME UNCHANGED store PROVE StoreInv'
  BY <1>6, StoreFrame DEF Set
<1> QED BY <1>1, <1>2, <1>5, <1>6 DEF Set

LEMMA StepDrop == ASSUME NEW j \in Keys, CacheInv, Drop(j) PROVE CacheInv'
<1> USE DEF CacheInv
<1>1. TypeInv'
  BY DEF TypeInv, Drop
<1>2. StoreInv'
  BY DEF StoreInv, TypeInv, StoredWell, ReadBy, ShortLived, Drop
<1>3. ThreadInv'
  BY DEF ThreadInv, ReadBy, Drop
<1> QED BY <1>1, <1>2, <1>3

LEMMA StepNext == CacheInv /\ [Next]_vars => CacheInv'
<1> SUFFICES ASSUME CacheInv, [Next]_vars PROVE CacheInv'
  OBVIOUS
<1>1. CASE Tick
  BY <1>1, StepTick
<1>2. ASSUME NEW d \in Days, Land(d) PROVE CacheInv'
  BY <1>2, StepLand
<1>3. ASSUME NEW t \in Threads, NEW r \in Requests, Hit(t, r) \/ Miss(t, r) PROVE CacheInv'
  BY <1>3, StepHit
<1>4. ASSUME NEW t \in Threads, ServeHTTP(t) PROVE CacheInv'
  BY <1>4, StepServe
<1>5. ASSUME NEW t \in Threads, Set(t) PROVE CacheInv'
  BY <1>5, StepSet
<1>6. ASSUME NEW k \in Keys, Drop(k) PROVE CacheInv'
  BY <1>6, StepDrop
<1>7. CASE UNCHANGED vars
  BY <1>7 DEF vars, CacheInv, TypeInv, StoreInv, ThreadInv, StoredWell, ReadBy, ShortLived
<1> QED BY <1>1, <1>2, <1>3, <1>4, <1>5, <1>6, <1>7 DEF Next

-----------------------------------------------------------------------------
(* The theorem.                                                            *)

\* An entry of a range that is over was stored when the range was over: one that
\* was stored earlier has expired.  If it was read on the day it was stored, every
\* day of the range was over by then.
LEMMA InvImplies == CacheInv => OverIsComplete
<1> SUFFICES ASSUME CacheInv, NEW k \in Keys, store[k] # None, store[k].dateTo # None,
                    now >= (store[k].dateTo + 1) * DayLength + Short,
                    ~(store[k].body.day < store[k].day),
                    NEW d \in DOMAIN store[k].body.sums
             PROVE  d \in late \/ store[k].body.sums[d] = landed[d]
  BY DEF OverIsComplete
<1>1. StoredWell(k) /\ now \in Nat /\ store[k].dateTo \in Nat
  BY DEF CacheInv, StoreInv, TypeInv, StoredWell
<1>2. (store[k].dateTo + 1) * DayLength \in Int /\ Short \in Nat
  BY <1>1, CacheAssumption
<1>3. store[k].dateTo < store[k].day
  <2> DEFINE ends == (store[k].dateTo + 1) * DayLength
  <2>1. ends \in Int /\ now >= ends + Short
    BY <1>2
  <2>2. store[k].dateTo >= store[k].day => store[k].expires < ends + Short
    BY <1>1 DEF StoredWell, ShortLived
  <2>3. store[k].expires \in Nat /\ now < store[k].expires /\ store[k].day \in Nat
    BY <1>1 DEF StoredWell
  <2> HIDE DEF ends
  <2> QED BY <1>1, <1>2, <2>1, <2>2, <2>3
<1>4. d \in Nat /\ d <= store[k].dateTo /\ store[k].body.day \in Nat /\ store[k].day \in Nat
  BY <1>1, DaysAreNat DEF StoredWell, ReadBy
<1>5. d < store[k].body.day
  BY <1>1, <1>3, <1>4 DEF StoredWell
<1> QED BY <1>1, <1>5 DEF StoredWell, ReadBy

\* Once the last day of a range is over, and for Short more, what the cache still
\* holds of it is complete but for readings that came late, unless it was read
\* before midnight and stored after it (Middleware and RecencyTTL of
\* internal/cache/middleware.go).
THEOREM NothingUnfinishedLasts == Spec => []OverIsComplete
<1>1. Init => CacheInv
  BY InitCacheInv
<1>2. CacheInv /\ [Next]_vars => CacheInv'
  BY StepNext
<1>3. CacheInv => OverIsComplete
  BY InvImplies
<1> QED BY <1>1, <1>2, <1>3, PTL DEF Spec

-----------------------------------------------------------------------------
(* Requests with one key.                                                  *)

\* Lists that are equal once sorted have the same members.
LEMMA SortedMembers ==
  ASSUME NEW a, NEW b, Sorted(a) = Sorted(b)
  PROVE  Range(a) = Range(b)
<1>1. DOMAIN Sorted(a) = Range(a) /\ DOMAIN Sorted(b) = Range(b)
  BY DEF Sorted
<1> QED BY <1>1

LEMMA SortedCounts ==
  ASSUME NEW a, NEW v \in Range(a)
  PROVE  Sorted(a)[v] = Cardinality({i \in DOMAIN a : a[i] = v})
<1> DEFINE count(w) == Cardinality({i \in DOMAIN a : a[i] = w})
<1>1. Sorted(a) = [w \in Range(a) |-> count(w)]
  BY Zenon DEF Sorted
<1> HIDE DEF count
<1>2. Sorted(a)[v] = count(v)
  BY <1>1
<1> QED BY <1>2 DEF count

\* Nothing has the same members once sorted as a single one but a single one.
LEMMA SortedSingle ==
  ASSUME NEW n \in Nat, NEW a, DOMAIN a = 1..1, NEW b, DOMAIN b = 1..n, Sorted(a) = Sorted(b)
  PROVE  n = 1 /\ b[1] = a[1]
<1> DEFINE v == a[1]
<1>1. Range(a) = {v} /\ Range(b) = {v}
  <2>1. Range(a) = {v}
    BY DEF Range
  <2> QED BY <2>1, SortedMembers
<1>2. \A i \in 1..n : b[i] = v
  BY <1>1 DEF Range
<1>3. {i \in DOMAIN a : a[i] = v} = 1..1 /\ {i \in DOMAIN b : b[i] = v} = 1..n
  BY <1>2
<1>4. Sorted(a)[v] = Cardinality(1..1) /\ Sorted(b)[v] = Cardinality(1..n)
  <2>1. v \in Range(a) /\ v \in Range(b)
    BY <1>1
  <2>2. /\ Sorted(a)[v] = Cardinality({i \in DOMAIN a : a[i] = v})
        /\ Sorted(b)[v] = Cardinality({i \in DOMAIN b : b[i] = v})
    <3> HIDE DEF v
    <3> QED BY <2>1, SortedCounts
  <2> QED BY <1>3, <2>2, Zenon
<1>5. ASSUME NEW m \in Nat PROVE Cardinality(1..m) = m
  <2>1. Cardinality(1..m) = IF 1 > m THEN 0 ELSE m - 1 + 1
    BY FS_Interval
  <2> QED BY <2>1
<1>6. n = 1
  <2>1. Cardinality(1..1) = 1 /\ Cardinality(1..n) = n
    BY <1>5
  <2>2. Cardinality(1..1) = Cardinality(1..n)
    BY <1>4, Zenon
  <2> QED BY <2>1, <2>2, Zenon
<1> QED BY <1>2, <1>6

\* What a handler reads of a parameter that is given once at most is in the key.
LEMMA OneList ==
  ASSUME NEW p \in Seq(Seq(Places)), Len(p) = 1,
         NEW q \in Seq(Seq(Places)), SortedValues(p) = SortedValues(q)
  PROVE  Len(q) = 1 /\ Range(p[1]) = Range(q[1])
<1> DEFINE sp == [i \in DOMAIN p |-> Sorted(p[i])]
           sq == [i \in DOMAIN q |-> Sorted(q[i])]
<1>1. /\ DOMAIN p = 1..1 /\ DOMAIN q = 1..Len(q) /\ Len(q) \in Nat
      /\ DOMAIN sp = 1..1 /\ DOMAIN sq = 1..Len(q)
  OBVIOUS
<1>2. Sorted(sp) = Sorted(sq)
  BY DEF SortedValues
<1>3. Len(q) = 1 /\ sq[1] = sp[1]
  <2> HIDE DEF sp, sq
  <2> QED BY <1>1, <1>2, SortedSingle
<1>4. Sorted(p[1]) = Sorted(q[1])
  BY <1>1, <1>3
<1> QED BY <1>3, <1>4, SortedMembers

LEMMA RangeOfJoin ==
  ASSUME NEW S, NEW s \in Seq(S), NEW t \in Seq(S)
  PROVE  Range(s \o t) = Range(s) \cup Range(t)
<1>1. /\ DOMAIN s = 1..Len(s) /\ DOMAIN t = 1..Len(t) /\ Len(s) \in Nat /\ Len(t) \in Nat
      /\ DOMAIN (s \o t) = 1..(Len(s) + Len(t))
  OBVIOUS
<1>2. /\ \A i \in 1..Len(s) : i \in 1..(Len(s) + Len(t)) /\ (s \o t)[i] = s[i]
      /\ \A i \in 1..Len(t) : i + Len(s) \in 1..(Len(s) + Len(t)) /\ (s \o t)[i + Len(s)] = t[i]
  OBVIOUS
<1>3. \A i \in 1..(Len(s) + Len(t)) : i \in 1..Len(s) \/ (i - Len(s) \in 1..Len(t) /\ i = (i - Len(s)) + Len(s))
  BY <1>1
<1>4. Range(s) \cup Range(t) \subseteq Range(s \o t)
  BY <1>1, <1>2 DEF Range
<1>5. ASSUME NEW i \in 1..(Len(s) + Len(t)) PROVE (s \o t)[i] \in Range(s) \cup Range(t)
  <2>1. CASE i \in 1..Len(s)
    BY <1>1, <1>2, <2>1 DEF Range
  <2>2. CASE i - Len(s) \in 1..Len(t) /\ i = (i - Len(s)) + Len(s)
    BY <1>1, <1>2, <2>2 DEF Range
  <2> QED BY <1>3, <2>1, <2>2
<1> QED BY <1>1, <1>4, <1>5 DEF Range

\* A parameter with plain values, or none, is one section of the key, or none.
SectionOf(name, values) == IF values = <<>> THEN {} ELSE {<<name, Joined(values)>>}

LEMMA PlainSection ==
  ASSUME NEW name, NEW values \in Seq(Value), \A i \in DOMAIN values : Plain(values[i])
  PROVE  /\ Section(name, values) \in Seq(SectionOf(name, values))
         /\ Range(Section(name, values)) = SectionOf(name, values)
<1>1. CASE values = <<>>
  BY <1>1 DEF Section, SectionOf, Range
<1>2. CASE values # <<>>
  <2> DEFINE part == <<name, Joined(values)>>
             rest == [i \in DOMAIN values[1].rest |->
                        <<values[1].rest[i].name, SortedValues(<<values[1].rest[i].list>>)>>]
  <2>1. values[1].rest = <<>>
    BY <1>2 DEF Plain
  <2>2. rest = <<>>
    BY <2>1
  <2>3. Section(name, values) = <<part>> \o rest
    BY <1>2 DEF Section
  <2> HIDE DEF part, rest
  <2>4. Section(name, values) = <<part>>
    BY <2>2, <2>3
  <2>5. SectionOf(name, values) = {part}
    BY <1>2 DEF SectionOf, part
  <2> QED BY <2>4, <2>5 DEF Range
<1> QED BY <1>1, <1>2

DatedAs(r) == IF r.dateTo = None THEN {} ELSE {<<"dateTo", r.dateTo>>}

\* The sections of a plain request can be told apart by their names.
LEMMA PlainKey ==
  ASSUME NEW r \in Requests, PlainAsk(r)
  PROVE  Range(KeyOf(r)) = DatedAs(r) \cup SectionOf("district", r.district) \cup SectionOf("region", r.region)
<1> DEFINE d == Dated(r)
           p == Section("district", r.district)
           q == Section("region", r.region)
           D == DatedAs(r)
           P == SectionOf("district", r.district)
           Q == SectionOf("region", r.region)
           S == D \cup P \cup Q
<1>1. d \in Seq(D) /\ Range(d) = D
  <2>1. CASE r.dateTo = None
    <3>1. d = <<>> /\ D = {}
      BY <2>1 DEF Dated, DatedAs
    <3> HIDE DEF d, D
    <3> QED BY <3>1 DEF Range
  <2>2. CASE r.dateTo # None
    <3> DEFINE part == <<"dateTo", r.dateTo>>
    <3>1. d = <<part>> /\ D = {part}
      BY <2>2 DEF Dated, DatedAs
    <3> HIDE DEF d, D, part
    <3> QED BY <3>1 DEF Range
  <2> QED BY <2>1, <2>2
<1>2. p \in Seq(P) /\ Range(p) = P /\ q \in Seq(Q) /\ Range(q) = Q
  BY PlainSection, CacheAssumption DEF PlainAsk
<1>3. KeyOf(r) = d \o p \o q
  BY DEF KeyOf
<1> HIDE DEF d, p, q, D, P, Q
<1>4. d \in Seq(S) /\ p \in Seq(S) /\ q \in Seq(S)
  BY <1>1, <1>2
<1> DEFINE dp == d \o p
<1>5. dp \in Seq(S) /\ Range(dp) = D \cup P
  <2> HIDE DEF S
  <2>1. Range(dp) = Range(d) \cup Range(p)
    BY <1>4, RangeOfJoin
  <2> QED BY <1>1, <1>2, <1>4, <2>1
<1> HIDE DEF dp, S
<1>6. Range(dp \o q) = Range(dp) \cup Range(q)
  BY <1>4, <1>5, RangeOfJoin
<1>7. Range(KeyOf(r)) = D \cup P \cup Q
  BY <1>2, <1>3, <1>5, <1>6 DEF dp
<1> QED BY <1>7 DEF D, P, Q

LEMMA SectionsInKey ==
  ASSUME NEW r \in Requests, PlainAsk(r), NEW q \in Requests, PlainAsk(q), KeyOf(q) = KeyOf(r)
  PROVE  /\ DatedAs(q) = DatedAs(r)
         /\ SectionOf("district", q.district) = SectionOf("district", r.district)
         /\ SectionOf("region", q.region) = SectionOf("region", r.region)
<1> DEFINE named(name) == {part \in Range(KeyOf(r)) : part[1] = name}
<1>1. ASSUME NEW a \in Requests, PlainAsk(a), KeyOf(a) = KeyOf(r)
      PROVE  /\ DatedAs(a) = named("dateTo") /\ SectionOf("district", a.district) = named("district")
             /\ SectionOf("region", a.region) = named("region")
  <2>1. Range(KeyOf(r)) = DatedAs(a) \cup SectionOf("district", a.district) \cup SectionOf("region", a.region)
    BY <1>1, PlainKey
  <2>2. /\ \A part \in DatedAs(a) : part[1] = "dateTo"
        /\ \A part \in SectionOf("district", a.district) : part[1] = "district"
        /\ \A part \in SectionOf("region", a.region) : part[1] = "region"
    BY DEF DatedAs, SectionOf
  <2> QED BY <2>1, <2>2
<1> HIDE DEF named
<1> QED BY <1>1

\* What a handler reads of a parameter that is given once at most is in the key.
LEMMA NamesInKey ==
  ASSUME NEW name,
         NEW v \in Seq(Value), \A i \in DOMAIN v : Plain(v[i]), Len(v) <= 1,
         NEW w \in Seq(Value), \A i \in DOMAIN w : Plain(w[i]),
         SectionOf(name, w) = SectionOf(name, v)
  PROVE  Names(v) = Names(w)
<1>1. CASE v = <<>>
  <2>1. w = <<>>
    BY <1>1 DEF SectionOf
  <2> QED BY <1>1, <2>1
<1>2. CASE v # <<>>
  <2> DEFINE lv == [i \in DOMAIN v |-> v[i].lists[1]]
             lw == [i \in DOMAIN w |-> w[i].lists[1]]
  <2>1. w # <<>> /\ Joined(v) = Joined(w)
    <3>1. SectionOf(name, v) = {<<name, Joined(v)>>}
      BY <1>2 DEF SectionOf
    <3>2. w # <<>>
      BY <3>1 DEF SectionOf
    <3>3. SectionOf(name, w) = {<<name, Joined(w)>>}
      BY <3>2 DEF SectionOf
    <3>4. <<name, Joined(v)>> = <<name, Joined(w)>>
      BY <3>1, <3>3
    <3> QED BY <3>2, <3>4
  <2>2. DOMAIN v = 1..Len(v) /\ DOMAIN w = 1..Len(w) /\ Len(w) \in Nat /\ Len(v) = 1 /\ 1 \in DOMAIN w
    <3>1. DOMAIN v = 1..Len(v) /\ DOMAIN w = 1..Len(w) /\ Len(v) \in Nat /\ Len(w) \in Nat
      OBVIOUS
    <3>2. Len(v) # 0 /\ Len(w) # 0
      BY <1>2, <2>1
    <3> QED BY <3>1, <3>2
  <2>3. Joined(v) = SortedValues(lv) /\ Joined(w) = SortedValues(lw) /\ Plain(v[1]) /\ Plain(w[1])
    BY <2>2 DEF Joined
  <2>4. ASSUME NEW a \in Value, Plain(a) PROVE a.lists[1] \in Seq(Places)
    BY <2>4 DEF Value, Plain
  <2>5. lv \in Seq(Seq(Places)) /\ Len(lv) = 1 /\ lv[1] = v[1].lists[1]
    <3>1. v[1] \in Value /\ Plain(v[1])
      BY <2>2
    <3>2. v[1].lists[1] \in Seq(Places)
      BY <2>4, <3>1
    <3>3. lv = [i \in 1..1 |-> v[1].lists[1]]
      BY <2>2
    <3> QED BY <3>2, <3>3
  <2>6. lw \in Seq(Seq(Places)) /\ lw[1] = w[1].lists[1]
    <3>1. ASSUME NEW i \in 1..Len(w) PROVE w[i].lists[1] \in Seq(Places)
      <4>1. w[i] \in Value /\ Plain(w[i])
        BY <2>2, <3>1
      <4> QED BY <2>4, <4>1
    <3>2. lw = [i \in 1..Len(w) |-> w[i].lists[1]]
      BY <2>2
    <3> QED BY <2>2, <3>1, <3>2
  <2> HIDE DEF lv, lw
  <2>7. Range(lv[1]) = Range(lw[1])
    BY <2>1, <2>3, <2>5, <2>6, OneList
  <2> QED BY <1>2, <2>1, <2>3, <2>5, <2>6, <2>7 DEF Names
<1> QED BY <1>1, <1>2

\* An answer to what a request asks.
Answers(body, r) ==
  /\ body.regions = Names(r.region)
  /\ body.districts = Names(r.district)
  /\ DOMAIN body.sums = Covered(r)

AnswersKey(body, k) == \E r \in Requests : PlainAsk(r) /\ Key[r] = k /\ Answers(body, r)

LEMMA OneKeyOneAnswer ==
  ASSUME NEW body, NEW r \in Requests, PlainAsk(r), Len(r.region) <= 1, Len(r.district) <= 1,
         AnswersKey(body, Key[r])
  PROVE  Answers(body, r)
<1>1. PICK q \in Requests : PlainAsk(q) /\ Key[q] = Key[r] /\ Answers(body, q)
  BY DEF AnswersKey
<1>2. /\ DatedAs(q) = DatedAs(r)
      /\ SectionOf("district", q.district) = SectionOf("district", r.district)
      /\ SectionOf("region", q.region) = SectionOf("region", r.region)
  BY <1>1, KeysOfRequests, SectionsInKey
<1>3. /\ r.region \in Seq(Value) /\ q.region \in Seq(Value)
      /\ r.district \in Seq(Value) /\ q.district \in Seq(Value)
  BY CacheAssumption
<1>4. Names(r.region) = Names(q.region) /\ Names(r.district) = Names(q.district)
  BY <1>1, <1>2, <1>3, NamesInKey DEF PlainAsk
<1>5. q.dateTo = r.dateTo
  <2>1. CASE r.dateTo = None
    BY <1>2, <2>1 DEF DatedAs
  <2>2. CASE r.dateTo # None
    <3>1. DatedAs(r) = {<<"dateTo", r.dateTo>>} /\ q.dateTo # None
      BY <1>2, <2>2 DEF DatedAs
    <3>2. DatedAs(q) = {<<"dateTo", q.dateTo>>}
      BY <3>1 DEF DatedAs
    <3>3. <<"dateTo", q.dateTo>> = <<"dateTo", r.dateTo>>
      BY <1>2, <3>1, <3>2
    <3> QED BY <3>3
  <2> QED BY <2>1, <2>2
<1> QED BY <1>1, <1>4, <1>5 DEF Answers, Covered

-----------------------------------------------------------------------------
(* Every answer answers.                                                   *)

\* What a thread has read answers its request.  What is stored, under a key that no
\* spliced request used, and what was answered to a plain request with such a key,
\* answers some plain request with the key.
AnswerInv ==
  /\ \A k \in Keys \ spliced : store[k] # None => AnswersKey(store[k].body, k)
  /\ \A t \in Threads :
       LET r == threads[t].request IN
       /\ threads[t].state \in {"read", "answered"} => r \in Requests
       /\ threads[t].state = "read" => Answers(threads[t].body, r)
       /\ threads[t].state = "answered" /\ PlainAsk(r) /\ Key[r] \notin spliced =>
            AnswersKey(threads[t].body, Key[r])

LEMMA StepAnswers == CacheInv /\ AnswerInv /\ [Next]_vars => AnswerInv'
<1> SUFFICES ASSUME CacheInv, AnswerInv, [Next]_vars PROVE AnswerInv'
  OBVIOUS
<1> DEFINE Good(state, r, body) ==
             /\ state \in {"read", "answered"} => r \in Requests
             /\ state = "read" => Answers(body, r)
             /\ state = "answered" /\ PlainAsk(r) /\ Key[r] \notin spliced' => AnswersKey(body, Key[r])
<1>1. DOMAIN store = Keys /\ DOMAIN threads = Threads /\ ThreadInv
  BY DEF CacheInv, TypeInv
<1>2. spliced \subseteq spliced'
  BY DEF Next, Tick, Land, Hit, Miss, ServeHTTP, Set, Drop, vars
<1>3. ASSUME NEW k \in Keys \ spliced', store'[k] = store[k] \/ store'[k] = None, store'[k] # None
      PROVE  AnswersKey(store'[k].body, k)
  BY <1>2, <1>3 DEF AnswerInv
<1>4. ASSUME NEW t \in Threads PROVE Good(threads[t].state, threads[t].request, threads[t].body)
  BY <1>2 DEF AnswerInv
<1>5. ASSUME \A k \in Keys \ spliced' : store'[k] # None => AnswersKey(store'[k].body, k),
             \A t \in Threads : Good(threads'[t].state, threads'[t].request, threads'[t].body)
      PROVE  AnswerInv'
  BY <1>5 DEF AnswerInv
<1>6. CASE Tick \/ (\E d \in Days : Land(d)) \/ (\E k \in Keys : Drop(k)) \/ UNCHANGED vars
  <2>1. threads' = threads
    BY <1>6 DEF Tick, Land, Drop, vars
  <2>2. \A k \in Keys : store'[k] = store[k] \/ store'[k] = None
    BY <1>1, <1>6 DEF Tick, Land, Drop, vars
  <2> HIDE DEF Good
  <2> QED BY <1>3, <1>4, <1>5, <2>1, <2>2
<1>7. ASSUME NEW t \in Threads, NEW r \in Requests, Hit(t, r) PROVE AnswerInv'
  <2>1. store[Key[r]] # None /\ Key[r] \in Keys /\ store' = store /\ spliced' = spliced
    BY <1>7, KeysOfRequests DEF Hit
  <2>2. threads'[t] = [state |-> "answered", request |-> r, body |-> store[Key[r]].body]
        /\ \A u \in Threads \ {t} : threads'[u] = threads[u]
    BY <1>1, <1>7 DEF Hit
  <2>3. Key[r] \notin spliced' => AnswersKey(store[Key[r]].body, Key[r])
    BY <2>1 DEF AnswerInv
  <2>4. threads'[t].state = "answered" /\ threads'[t].request = r /\ threads'[t].body = store[Key[r]].body
    BY <2>2
  <2>5. Good(threads'[t].state, threads'[t].request, threads'[t].body)
    BY <2>3, <2>4
  <2> HIDE DEF Good
  <2> QED BY <1>3, <1>4, <1>5, <2>1, <2>2, <2>5
<1>8. ASSUME NEW t \in Threads, NEW r \in Requests, Miss(t, r) PROVE AnswerInv'
  <2>1. /\ threads'[t].state = "missed" /\ \A u \in Threads \ {t} : threads'[u] = threads[u]
        /\ store' = store
    BY <1>1, <1>8 DEF Miss
  <2>2. Good(threads'[t].state, threads'[t].request, threads'[t].body)
    BY <2>1
  <2> HIDE DEF Good
  <2> QED BY <1>3, <1>4, <1>5, <2>1, <2>2
<1>9. ASSUME NEW t \in Threads, ServeHTTP(t) PROVE AnswerInv'
  <2>1. store' = store /\ \A u \in Threads \ {t} : threads'[u] = threads[u]
    BY <1>1, <1>9 DEF ServeHTTP
  <2>2. threads[t].request \in Requests /\ DOMAIN threads[t] = {"state", "request", "body"}
    BY <1>1, <1>9 DEF ServeHTTP, ThreadInv
  <2>3. Good(threads'[t].state, threads'[t].request, threads'[t].body)
    <3>1. CASE threads' = [threads EXCEPT ![t] = Idle]
      BY <1>1, <3>1 DEF Idle
    <3>2. CASE threads' = [threads EXCEPT ![t].state = "read", ![t].body = Body(threads[t].request)]
      <4>1. /\ threads'[t].state = "read" /\ threads'[t].request = threads[t].request
            /\ threads'[t].body = Body(threads[t].request)
        BY <1>1, <2>2, <3>2
      <4>2. Answers(Body(threads[t].request), threads[t].request)
        BY DEF Answers, Body
      <4> QED BY <2>2, <4>1, <4>2
    <3> QED BY <1>9, <3>1, <3>2 DEF ServeHTTP
  <2> HIDE DEF Good
  <2> QED BY <1>3, <1>4, <1>5, <2>1, <2>3
<1>10. ASSUME NEW t \in Threads, Set(t) PROVE AnswerInv'
  <2> DEFINE r == threads[t].request
             entry == [body |-> threads[t].body, dateTo |-> r.dateTo, day |-> DayOf(now),
                       expires |-> now + RecencyTTL(r)]
  <2>1. threads[t].state = "read" /\ r \in Requests /\ Answers(threads[t].body, r) /\ Key[r] \in Keys
    BY <1>10, KeysOfRequests DEF Set, AnswerInv
  <2>2. PlainAsk(r) => AnswersKey(threads[t].body, Key[r])
    BY <2>1 DEF AnswersKey
  <2>3. \/ /\ store' = [store EXCEPT ![Key[r]] = entry]
           /\ ~PlainAsk(r) => Key[r] \in spliced'
        \/ store' = store
    BY <1>10 DEF Set
  <2>4. ASSUME NEW k \in Keys \ spliced', store'[k] # None PROVE AnswersKey(store'[k].body, k)
    <3>1. CASE store'[k] = store[k]
      BY <1>3, <2>4, <3>1
    <3>2. CASE store'[k] # store[k]
      <4>1. k = Key[r] /\ store'[k] = entry /\ PlainAsk(r)
        BY <1>1, <2>3, <2>4, <3>2
      <4>2. store'[k].body = threads[t].body
        BY <4>1
      <4> QED BY <2>2, <4>1, <4>2
    <3> QED BY <3>1, <3>2
  <2>5. /\ threads'[t].state = "answered" /\ threads'[t].request = r /\ threads'[t].body = threads[t].body
        /\ \A u \in Threads \ {t} : threads'[u] = threads[u]
    <3>1. DOMAIN threads[t] = {"state", "request", "body"}
      BY <1>1 DEF ThreadInv
    <3> QED BY <1>1, <1>10, <3>1 DEF Set
  <2>6. Good(threads'[t].state, threads'[t].request, threads'[t].body)
    BY <2>1, <2>2, <2>5
  <2> HIDE DEF Good
  <2> QED BY <1>4, <1>5, <2>4, <2>5, <2>6
<1> QED BY <1>6, <1>7, <1>8, <1>9, <1>10 DEF Next

\* An answer, stored by whichever request or not stored at all, is an answer to
\* what was asked, in whatever order a client lists names (buildKey of
\* internal/cache/middleware.go).  Left out are a parameter given twice, a value
\* with separators in it, and the keys under which such a value was stored:
\* AnswersTheQuestion.
THEOREM AnswersAsAsked == Spec => []AnswersTheQuestion
<1>1. Init => AnswerInv
  BY DEF Init, AnswerInv, Idle
<1>2. ASSUME AnswerInv PROVE AnswersTheQuestion
  <2> SUFFICES ASSUME NEW t \in Threads, threads[t].state = "answered", PlainAsk(threads[t].request),
                      Key[threads[t].request] \notin spliced,
                      Len(threads[t].request.region) <= 1, Len(threads[t].request.district) <= 1
               PROVE  Answers(threads[t].body, threads[t].request)
    BY DEF AnswersTheQuestion, Answers
  <2>1. threads[t].request \in Requests /\ AnswersKey(threads[t].body, Key[threads[t].request])
    BY <1>2 DEF AnswerInv
  <2> QED BY <2>1, OneKeyOneAnswer
<1> QED BY <1>1, <1>2, InitCacheInv, StepNext, StepAnswers, PTL DEF Spec

=============================================================================
