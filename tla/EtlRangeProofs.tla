---------------------------- MODULE EtlRangeProofs ----------------------------
(***************************************************************************)
(* EtlRange for any feed of readings, any meters, any rows of app.etl_jobs *)
(* and any number of runs that break: no slice is skipped, and no reading  *)
(* is written more often than its slice was attempted.                     *)
(***************************************************************************)
EXTENDS EtlRange, TLAPS, FiniteSetTheorems

Elements(s) == {s[i] : i \in 1..Len(s)}

Distinct(s) == \A i, k \in 1..Len(s) : i # k => s[i] # s[k]

Front(s, n) == {s[i] : i \in 1..(IF n < Len(s) THEN n ELSE Len(s))}

-----------------------------------------------------------------------------
(* Sequences.                                                              *)

LEMMA SeqOfMore == ASSUME NEW S, NEW T, S \subseteq T, NEW s \in Seq(S) PROVE s \in Seq(T)
OBVIOUS

\* What is left of a sequence when its first n elements are taken.
LEMMA Rest ==
  ASSUME NEW S, NEW s \in Seq(S), NEW n \in Nat
  PROVE  LET rest == SubSeq(s, n + 1, Len(s)) IN
         /\ rest \in Seq(S)
         /\ Len(rest) = IF n < Len(s) THEN Len(s) - n ELSE 0
         /\ \A i \in 1..Len(rest) : n + i \in 1..Len(s) /\ rest[i] = s[n + i]
<1> DEFINE rest == SubSeq(s, n + 1, Len(s))
<1>1. rest \in Seq(S)
  OBVIOUS
<1>2. Len(rest) = IF n < Len(s) THEN Len(s) - n ELSE 0
  OBVIOUS
<1>3. \A i \in 1..Len(rest) : n + i \in 1..Len(s)
  BY <1>2
<1>4. \A i \in 1..Len(rest) : rest[i] = s[n + i]
  BY <1>2
<1> QED BY <1>1, <1>2, <1>3, <1>4

\* Taken and rest make up the whole, and share nothing when it has no repeats.
LEMMA RestElements ==
  ASSUME NEW S, NEW s \in Seq(S), NEW n \in Nat
  PROVE  LET rest == SubSeq(s, n + 1, Len(s)) IN
         /\ Elements(s) = Front(s, n) \cup Elements(rest)
         /\ Distinct(s) => Distinct(rest) /\ Front(s, n) \cap Elements(rest) = {}
<1> DEFINE rest == SubSeq(s, n + 1, Len(s))
           m == IF n < Len(s) THEN n ELSE Len(s)
           taken == {s[i] : i \in 1..m}
<1>1. /\ Len(rest) = IF n < Len(s) THEN Len(s) - n ELSE 0
      /\ \A i \in 1..Len(rest) : n + i \in 1..Len(s) /\ rest[i] = s[n + i]
  BY Rest
<1>2. Len(s) \in Nat
  OBVIOUS
<1> HIDE DEF rest
<1>3. \A i \in 1..Len(s) : i \in 1..m \/ (i - n \in 1..Len(rest) /\ i = n + (i - n))
  BY <1>1, <1>2
<1>4. \A i \in 1..m : i \in 1..Len(s) /\ \A k \in 1..Len(rest) : i # n + k
  BY <1>1, <1>2
<1>5. Elements(s) \subseteq taken \cup Elements(rest)
  <2> SUFFICES ASSUME NEW i \in 1..Len(s) PROVE s[i] \in taken \cup Elements(rest)
    BY DEF Elements
  <2>1. CASE i \in 1..m
    BY <2>1
  <2>2. CASE i - n \in 1..Len(rest) /\ i = n + (i - n)
    <3>1. rest[i - n] = s[i]
      BY <1>1, <2>2
    <3> QED BY <2>2, <3>1 DEF Elements
  <2> QED BY <1>3, <2>1, <2>2
<1>6. taken \cup Elements(rest) \subseteq Elements(s)
  BY <1>1, <1>4 DEF Elements
<1>7. ASSUME Distinct(s) PROVE Distinct(rest)
  <2>1. \A i, k \in 1..Len(rest) : i # k => n + i # n + k
    BY <1>1, <1>2
  <2> QED BY <1>1, <1>7, <2>1 DEF Distinct
<1>8. ASSUME Distinct(s) PROVE taken \cap Elements(rest) = {}
  BY <1>1, <1>4, <1>8 DEF Distinct, Elements
<1> QED BY <1>5, <1>6, <1>7, <1>8 DEF rest, Front

\* A result has every row, once.
LEMMA OrdersAreComplete ==
  ASSUME NEW R, IsFiniteSet(R), NEW s \in Orders(R)
  PROVE  s \in Seq(R) /\ Elements(s) = R /\ Distinct(s) /\ (s = <<>> <=> R = {})
<1> DEFINE n == Cardinality(R)
<1>1. n \in Nat
  BY FS_CardinalityType
<1>2. s \in [1..n -> R] /\ \A i, k \in 1..n : i # k => s[i] # s[k]
  BY DEF Orders
<1>3. s \in Injection(1..n, R)
  BY <1>2 DEF Injection, IsInjective
<1>4. Cardinality(1..n) = n
  BY <1>1, FS_Interval
<1>5. s \in Surjection(1..n, R)
  BY <1>3, <1>4, FS_Injection
<1>6. s \in Seq(R) /\ Len(s) = n
  BY <1>1, <1>2
<1>7. \A r \in R : \E i \in 1..n : s[i] = r
  BY <1>5 DEF Surjection
<1>8. Elements(s) = R /\ Distinct(s)
  BY <1>2, <1>6, <1>7 DEF Elements, Distinct
<1>9. s = <<>> <=> R = {}
  <2>1. s = <<>> <=> n = 0
    BY <1>1, <1>6
  <2>2. n = 0 <=> R = {}
    BY FS_EmptySet
  <2> QED BY <2>1, <2>2
<1> QED BY <1>6, <1>8, <1>9

-----------------------------------------------------------------------------
(* The keyset order and its pages.                                         *)

Cursors == {Keyset(r) : r \in Feed} \cup {cursorSentinel}

SameKey(p, q) == p.dev = q.dev /\ p.tv = q.tv

LEMMA CursorTypes ==
  /\ \A r \in Cursors \cup Feed : r.dev \in Int /\ r.tv \in Int
  /\ \A r \in Feed : r.dev \in Devices /\ r.dev \in Nat /\ r.tv \in Nat /\ Before(cursorSentinel, r)
<1>1. ASSUME NEW r \in Feed
      PROVE  r.dev \in Devices /\ r.dev \in Nat /\ r.tv \in Nat
  <2>1. r \in [dev : Devices, tv : Nat, item : Nat] /\ Devices \subseteq Nat
    BY RangeAssumption
  <2> QED BY <2>1
<1>2. cursorSentinel.dev = -1 /\ cursorSentinel.tv = -1
  BY DEF cursorSentinel
<1>3. ASSUME NEW r \in Cursors PROVE r.dev \in Int /\ r.tv \in Int
  <2>1. ASSUME NEW q \in Feed, r = Keyset(q) PROVE r.dev \in Int /\ r.tv \in Int
    BY <1>1, <2>1 DEF Keyset
  <2> QED BY <1>2, <2>1 DEF Cursors
<1>4. \A r \in Feed : Before(cursorSentinel, r)
  BY <1>1, <1>2 DEF Before
<1> QED BY <1>1, <1>3, <1>4

\* A cursor behind a row is a cursor behind its key.
LEMMA KeysetFacts ==
  ASSUME NEW r, NEW q
  PROVE  /\ Keyset(r).dev = r.dev
         /\ Before(Keyset(r), q) <=> Before(r, q)
         /\ Keyset(r) = Keyset(q) <=> SameKey(r, q)
<1>1. Keyset(r).dev = r.dev /\ Keyset(r).tv = r.tv /\ Keyset(q).dev = q.dev /\ Keyset(q).tv = q.tv
  BY DEF Keyset
<1>2. Before(Keyset(r), q) <=> Before(r, q)
  BY <1>1 DEF Before
<1>3. Keyset(r) = Keyset(q) <=> SameKey(r, q)
  BY <1>1 DEF SameKey, Keyset
<1> QED BY <1>1, <1>2, <1>3

LEMMA BeforeIsAnOrder ==
  ASSUME NEW p \in Cursors \cup Feed, NEW q \in Cursors \cup Feed, NEW r \in Cursors \cup Feed
  PROVE  /\ ~Before(p, p)
         /\ Before(p, q) /\ Before(q, r) => Before(p, r)
         /\ SameKey(p, q) \/ Before(p, q) \/ Before(q, p)
BY CursorTypes DEF Before, SameKey

\* A page has nothing twice, is empty only when there is nothing, and what it
\* leaves comes after its last row or has its key; a result that is not paginated
\* leaves nothing.
LEMMA PagesTaken ==
  ASSUME NEW R, R \subseteq Feed, job \in Job, NEW s \in Pages(R)
  PROVE  /\ s \in Seq(R) /\ Distinct(s) /\ (s = <<>> <=> R = {})
         /\ ~job.paged => Elements(s) = R
         /\ job.paged => /\ \A i, k \in 1..Len(s) : i < k => ~Before(s[k], s[i])
                         /\ \A q \in R : \/ q \in Elements(s) \/ Before(s[Len(s)], q)
                                        \/ SameKey(s[Len(s)], q)
<1>1. IsFiniteSet(R)
  BY FS_Subset, RangeAssumption
<1>2. CASE ~job.paged
  BY <1>1, <1>2, OrdersAreComplete DEF Pages
<1>3. CASE job.paged
  <2>1. PICK P \in SUBSET R : s \in Orders(P)
    BY <1>3 DEF Pages
  <2>2. IsFiniteSet(P) /\ s \in Seq(P) /\ Elements(s) = P /\ Distinct(s) /\ (s = <<>> <=> P = {})
    BY <1>1, <2>1, FS_Subset, OrdersAreComplete
  <2>3. s \in Seq(R)
    BY <2>2, SeqOfMore
  <2>4. /\ Len(s) = Lesser(job.page, Cardinality(R))
        /\ \A i, k \in DOMAIN s : i < k => ~Before(s[k], s[i])
        /\ \A q \in R, i \in DOMAIN s : Before(q, s[i]) => \E k \in DOMAIN s : s[k] = q
    BY <1>3 DEF Pages
  <2>5. DOMAIN s = 1..Len(s) /\ Len(s) \in Nat
    BY <2>3
  <2>6. s = <<>> <=> R = {}
    <3>1. Cardinality(R) \in Nat /\ job.page \in Nat \ {0}
      BY <1>1, FS_CardinalityType DEF Job
    <3>2. s = <<>> => Cardinality(R) = 0
      BY <2>4, <3>1 DEF Lesser
    <3> QED BY <1>1, <2>2, <3>2, FS_EmptySet
  <2>7. ASSUME NEW q \in R, q \notin Elements(s) PROVE Before(s[Len(s)], q) \/ SameKey(s[Len(s)], q)
    <3>1. Len(s) \in DOMAIN s /\ s[Len(s)] \in R
      BY <2>3, <2>5, <2>6
    <3>2. ~Before(q, s[Len(s)])
      BY <2>4, <2>5, <2>7, <3>1 DEF Elements
    <3> QED BY <3>1, <3>2, BeforeIsAnOrder
  <2> QED BY <1>3, <2>2, <2>3, <2>4, <2>5, <2>6, <2>7
<1> QED BY <1>2, <1>3

-----------------------------------------------------------------------------
(* Types.                                                                  *)

LEMMA TypeFacts ==
  ASSUME TypeOK
  PROVE  /\ job \in Job /\ job.chunk \in Nat \ {0} /\ job.batch \in Nat \ {0} /\ job.step \in Nat
         /\ job.start \in Nat /\ job.paged \in BOOLEAN
         /\ From \in Nat /\ IsFiniteSet(meters) /\ Wanted \subseteq source /\ source \subseteq Feed
<1>1. job \in Job
  BY RangeAssumption DEF TypeOK
<1>2. From \in Nat
  BY <1>1 DEF TypeOK, From, Job
<1>3. IsFiniteSet(meters)
  BY FS_Subset, RangeAssumption DEF TypeOK
<1> QED BY <1>1, <1>2, <1>3 DEF TypeOK, Job, Wanted

\* The values of a slice are those of the chunk and those of the others.
LEMMA ChunkAndRest ==
  ASSUME NEW S, values \in Seq(S), job.chunk \in Nat
  PROVE  /\ Elements(values) = Chunk \cup Elements(Remaining) /\ Remaining \in Seq(S)
         /\ Chunk \subseteq S
         /\ Distinct(values) => Distinct(Remaining) /\ Chunk \cap Elements(Remaining) = {}
<1>1. Chunk = Front(values, job.chunk)
  BY DEF Chunk, Front
<1>2. Remaining \in Seq(S)
  BY Rest DEF Remaining
<1>3. Elements(values) \subseteq S
  BY DEF Elements
<1>4. /\ Elements(values) = Chunk \cup Elements(SubSeq(values, job.chunk + 1, Len(values)))
      /\ Distinct(values) => /\ Distinct(SubSeq(values, job.chunk + 1, Len(values)))
                             /\ Chunk \cap Elements(SubSeq(values, job.chunk + 1, Len(values))) = {}
  BY <1>1, RestElements
<1> QED BY <1>2, <1>3, <1>4 DEF Remaining

LEMMA InitTypeOK == Init => TypeOK
<1> SUFFICES ASSUME Init PROVE TypeOK
  OBVIOUS
<1>1. now \in Nat /\ faults \in Nat
  BY RangeAssumption DEF Init
<1>2. source \subseteq Feed /\ meters \subseteq Devices
  BY RangeAssumption DEF Init, OnTime
<1>3. win \in [from : Nat, to : Nat, last : BOOLEAN]
  BY DEF Init
<1> QED BY <1>1, <1>2, <1>3 DEF Init, TypeOK

LEMMA StartSliceTypes ==
  ASSUME TypeOK, NEW order \in Orders(meters), StartSlice(order)
  PROVE  TypeOK'
<1>1. win' \in [from : Nat, to : Nat, last : BOOLEAN]
  <2>1. From \in Nat /\ job.step \in Nat /\ now \in Nat
    BY TypeFacts DEF TypeOK
  <2>2. Lesser(From + job.step, now) \in Nat
    BY <2>1 DEF Lesser
  <2> QED BY <2>1, <2>2 DEF StartSlice, Slice
<1>2. values' \in Seq(asked')
  BY TypeFacts, OrdersAreComplete DEF StartSlice
<1>3. pc' \in {"idle", "slice", "query", "load", "save"}
  BY DEF StartSlice
<1>4. /\ job' \in Jobs /\ now' \in Nat /\ source' \subseteq Feed /\ meters' \subseteq Devices
      /\ dest' \in [Feed -> Nat] /\ checkpoint' \in Nat \cup {None} /\ asked' \subseteq Devices
      /\ rows' \in Seq(source') /\ faults' \in Nat /\ cursor' = cursorSentinel
  BY DEF TypeOK, StartSlice, world
<1> QED BY <1>1, <1>2, <1>3, <1>4 DEF TypeOK

LEMMA ChunkDoneTypes ==
  ASSUME TypeOK, ChunkDone
  PROVE  /\ pc' \in {"query", "save"} /\ values' \in Seq(asked) /\ cursor' = cursorSentinel
BY TypeFacts, ChunkAndRest DEF TypeOK, ChunkDone

LEMMA OpenQueryTypes ==
  ASSUME TypeOK, OpenQuery
  PROVE  TypeOK'
<1>1. rows' \in Seq(source)
  <2>1. rows' \in Seq(Wanted)
    BY TypeFacts, PagesTaken DEF OpenQuery
  <2> QED BY <2>1, TypeFacts, SeqOfMore
<1>2. /\ job' = job /\ UNCHANGED <<now, source, meters, dest, checkpoint, win, asked, faults>>
  BY DEF OpenQuery, world
<1>3. CASE ChunkDone
  BY <1>1, <1>2, <1>3, ChunkDoneTypes DEF TypeOK
<1>4. CASE pc' = "load" /\ UNCHANGED <<values, cursor>>
  <2>1. pc = "query" /\ Chunk' = Chunk
    BY <1>2, <1>4 DEF OpenQuery, Chunk
  <2> QED BY <1>1, <1>2, <1>4, <2>1 DEF TypeOK
<1> QED BY <1>3, <1>4 DEF OpenQuery

InSlice(r) == InRange(r, win.from, win.to)

\* While a page is being loaded: what is left of it lies in the slice and in the
\* chunk, without repeats and in keyset order.  That its meters are those of the
\* chunk is what keeps the cursor, its last row, within the chunk.
PageInv ==
  pc = "load" =>
    /\ rows # <<>>
    /\ \A i \in 1..Len(rows) : rows[i].dev \in Chunk /\ InSlice(rows[i])
    /\ Distinct(rows)
    /\ job.paged => \A i, k \in 1..Len(rows) : i < k => ~Before(rows[k], rows[i])

TypeInv == TypeOK /\ PageInv

\* One batch is taken off the front of the page.
Taken == Lesser(job.batch, Len(rows))

LEMMA BatchTaken ==
  ASSUME TypeInv, pc = "load"
  PROVE  LET rest == SubSeq(rows, Taken + 1, Len(rows)) IN
         /\ Len(rows) \in Nat /\ Taken \in 1..Len(rows)
         /\ rest \in Seq(source)
         /\ Len(rest) = Len(rows) - Taken
         /\ \A i \in 1..Len(rest) : Taken + i \in 1..Len(rows) /\ rest[i] = rows[Taken + i]
         /\ Taken = Len(rows) => rest = <<>>
<1> DEFINE rest == SubSeq(rows, Taken + 1, Len(rows))
<1>1. rows \in Seq(source) /\ rows # <<>> /\ job.batch \in Nat \ {0}
  BY TypeFacts DEF TypeInv, PageInv, TypeOK
<1>2. Len(rows) \in Nat /\ Taken \in 1..Len(rows) /\ Taken \in Nat
  BY <1>1 DEF Taken, Lesser
<1>3. /\ rest \in Seq(source)
      /\ Len(rest) = IF Taken < Len(rows) THEN Len(rows) - Taken ELSE 0
      /\ \A i \in 1..Len(rest) : Taken + i \in 1..Len(rows) /\ rest[i] = rows[Taken + i]
  BY <1>1, <1>2, Rest
<1>4. Len(rest) = Len(rows) - Taken
  BY <1>2, <1>3
<1>5. Taken = Len(rows) => rest = <<>>
  <2> HIDE DEF rest
  <2> QED BY <1>2, <1>3, <1>4
<1> QED BY <1>2, <1>3, <1>4, <1>5

\* The ways a batch that was committed can leave the run.
BatchMore == Taken < Len(rows) /\ rows' = SubSeq(rows, Taken + 1, Len(rows))
             /\ UNCHANGED <<pc, values, cursor, asked, faults>>
BatchPage == Taken = Len(rows) /\ job.paged /\ cursor' = Keyset(rows[Taken]) /\ pc' = "query"
             /\ rows' = SubSeq(rows, Taken + 1, Len(rows)) /\ UNCHANGED <<values, asked, faults>>
BatchLast == Taken = Len(rows) /\ ~job.paged /\ ChunkDone
             /\ rows' = SubSeq(rows, Taken + 1, Len(rows)) /\ UNCHANGED <<asked, faults>>
Stopped   == Idle /\ Fault /\ UNCHANGED cursor

Written == {rows[i] : i \in 1..Taken}

LEMMA LoadBatchCases ==
  ASSUME LoadBatch
  PROVE  /\ pc = "load"
         /\ dest' = [r \in Feed |-> IF r \in Written THEN dest[r] + 1 ELSE dest[r]]
         /\ UNCHANGED <<job, now, source, meters, checkpoint, win>>
         /\ BatchMore \/ BatchPage \/ BatchLast \/ Stopped
<1>1. dest' = [r \in Feed |-> IF \E i \in 1..Taken : rows[i] = r THEN dest[r] + 1 ELSE dest[r]]
  BY DEF LoadBatch, Taken
<1>2. \A r : r \in Written <=> \E i \in 1..Taken : rows[i] = r
  BY DEF Written
<1>3. dest' = [r \in Feed |-> IF r \in Written THEN dest[r] + 1 ELSE dest[r]]
  BY <1>1, <1>2
<1>4. pc = "load" /\ UNCHANGED <<job, now, source, meters, checkpoint, win>>
  BY DEF LoadBatch, world
<1>5. BatchMore \/ BatchPage \/ BatchLast \/ Stopped
  BY DEF LoadBatch, Taken, BatchMore, BatchPage, BatchLast, Stopped
<1> QED BY <1>3, <1>4, <1>5

LEMMA StoppedTypes ==
  ASSUME TypeOK, Idle, cursor' = cursor, faults' \in Nat
  PROVE  /\ pc' = "idle" /\ rows' \in Seq(source) /\ values' \in Seq(asked') /\ asked' \subseteq Devices
         /\ cursor' \in Cursors /\ faults' \in Nat
BY DEF TypeOK, Idle, Cursors

LEMMA LoadBatchTypes ==
  ASSUME TypeInv, LoadBatch
  PROVE  TypeInv'
<1>1. /\ pc = "load" /\ UNCHANGED <<job, now, source, meters, checkpoint, win>>
      /\ dest' = [r \in Feed |-> IF r \in Written THEN dest[r] + 1 ELSE dest[r]]
      /\ BatchMore \/ BatchPage \/ BatchLast \/ Stopped
  BY LoadBatchCases
<1>2. TypeOK
  BY DEF TypeInv
<1>3. dest' \in [Feed -> Nat]
  BY <1>1, <1>2 DEF TypeOK
<1>4. /\ Len(rows) \in Nat /\ Taken \in 1..Len(rows)
      /\ SubSeq(rows, Taken + 1, Len(rows)) \in Seq(source)
  BY <1>1, BatchTaken
<1>5. CASE BatchMore
  <2> DEFINE rest == SubSeq(rows, Taken + 1, Len(rows))
  <2>1. /\ Len(rest) = Len(rows) - Taken
        /\ \A i \in 1..Len(rest) : Taken + i \in 1..Len(rows) /\ rest[i] = rows[Taken + i]
    BY <1>1, BatchTaken
  <2>2. rows' = rest /\ UNCHANGED <<pc, values, cursor, asked, faults>> /\ Taken < Len(rows)
    BY <1>5 DEF BatchMore
  <2> HIDE DEF rest
  <2>3. Chunk' = Chunk
    BY <1>1, <2>2 DEF Chunk
  <2>4. TypeOK'
    BY <1>1, <1>2, <1>3, <1>4, <2>2, <2>3 DEF TypeOK, rest
  <2>5. rows' # <<>>
    BY <1>4, <2>1, <2>2
  <2>6. \A i, k \in 1..Len(rows') : /\ i # k => Taken + i # Taken + k
                                    /\ i < k => Taken + i < Taken + k
    BY <1>4, <2>1, <2>2
  <2>7. PageInv'
    <3>1. /\ \A i \in 1..Len(rows) : rows[i].dev \in Chunk /\ InSlice(rows[i])
          /\ Distinct(rows)
          /\ job.paged => \A i, k \in 1..Len(rows) : i < k => ~Before(rows[k], rows[i])
      BY <1>1 DEF TypeInv, PageInv
    <3>2. \A i \in 1..Len(rows') : Taken + i \in 1..Len(rows) /\ rows'[i] = rows[Taken + i]
      BY <2>1, <2>2
    <3>3. \A i \in 1..Len(rows') : rows'[i].dev \in Chunk' /\ InRange(rows'[i], win'.from, win'.to)
      BY <1>1, <2>3, <3>1, <3>2 DEF InSlice
    <3>4. Distinct(rows')
      BY <2>6, <3>1, <3>2 DEF Distinct
    <3>5. job'.paged => \A i, k \in 1..Len(rows') : i < k => ~Before(rows'[k], rows'[i])
      BY <1>1, <2>6, <3>1, <3>2
    <3> QED BY <2>5, <3>3, <3>4, <3>5 DEF PageInv, Distinct, InSlice
  <2> QED BY <2>4, <2>7 DEF TypeInv
<1>6. CASE BatchPage
  <2>1. cursor' \in {Keyset(q) : q \in Feed} /\ cursor'.dev \in Chunk
    <3>1. rows[Taken] \in Feed /\ rows[Taken].dev \in Chunk
      BY <1>1, <1>2, <1>4 DEF TypeInv, PageInv, TypeOK
    <3> QED BY <1>6, <3>1, KeysetFacts DEF BatchPage
  <2>2. Chunk' = Chunk
    BY <1>1, <1>6 DEF BatchPage, Chunk
  <2> QED BY <1>1, <1>2, <1>3, <1>4, <1>6, <2>1, <2>2 DEF BatchPage, TypeInv, PageInv, TypeOK
<1>7. CASE BatchLast
  <2>1. pc' \in {"query", "save"} /\ values' \in Seq(asked) /\ cursor' = cursorSentinel
    BY <1>2, <1>7, ChunkDoneTypes DEF BatchLast
  <2> QED BY <1>1, <1>2, <1>3, <1>4, <1>7, <2>1 DEF BatchLast, TypeInv, PageInv, TypeOK
<1>8. CASE Stopped
  <2>1. /\ pc' = "idle" /\ rows' \in Seq(source) /\ values' \in Seq(asked') /\ asked' \subseteq Devices
        /\ cursor' \in Cursors /\ faults' \in Nat
    <3>1. faults' \in Nat
      BY <1>2, <1>8 DEF Stopped, Fault, TypeOK
    <3> QED BY <1>2, <1>8, <3>1, StoppedTypes DEF Stopped
  <2> QED BY <1>1, <1>2, <1>3, <2>1 DEF TypeInv, PageInv, TypeOK, Cursors
<1> QED BY <1>1, <1>5, <1>6, <1>7, <1>8

\* What goes on around the run leaves it alone.
Around ==
  /\ UNCHANGED <<job, dest, checkpoint, pc, win, asked, values, cursor, rows, faults>>
  /\ now <= now' /\ now' \in Nat
  /\ source \subseteq source' /\ source' \subseteq Feed
  /\ meters \subseteq meters' /\ meters' \subseteq Devices

LEMMA AroundSteps ==
  ASSUME TypeOK,
         \/ Tick
         \/ \E r \in Late : ArriveLate(r)
         \/ \E d \in Devices : ListMeter(d)
         \/ UNCHANGED vars
  PROVE  Around
<1> USE DEF TypeOK, Around
<1>1. CASE Tick
  BY <1>1, RangeAssumption DEF Tick, OnTime
<1>2. ASSUME NEW r \in Late, ArriveLate(r) PROVE Around
  BY <1>2, RangeAssumption DEF ArriveLate
<1>3. ASSUME NEW d \in Devices, ListMeter(d) PROVE Around
  BY <1>3 DEF ListMeter
<1>4. CASE UNCHANGED vars
  BY <1>4 DEF vars, world
<1> QED BY <1>1, <1>2, <1>3, <1>4

LEMMA AroundTypes == ASSUME TypeInv, Around PROVE TypeInv'
<1>1. rows' \in Seq(source')
  BY SeqOfMore DEF TypeInv, TypeOK, Around
<1>2. Chunk' = Chunk
  BY DEF Around, Chunk
<1>3. TypeOK'
  BY <1>1, <1>2 DEF TypeInv, TypeOK, Around
<1>4. PageInv'
  BY <1>2 DEF TypeInv, PageInv, Around, InSlice, Distinct
<1> QED BY <1>3, <1>4 DEF TypeInv

LEMMA OpenQueryPage ==
  ASSUME TypeInv, OpenQuery
  PROVE  PageInv'
<1>1. CASE ChunkDone
  BY <1>1 DEF ChunkDone, PageInv
<1>2. CASE rows' # <<>> /\ pc' = "load" /\ UNCHANGED <<values, cursor>>
  <2>1. /\ rows' \in Seq(Wanted) /\ Distinct(rows')
        /\ job.paged => \A i, k \in 1..Len(rows') : i < k => ~Before(rows'[k], rows'[i])
    BY TypeFacts, PagesTaken DEF OpenQuery, TypeInv
  <2>2. UNCHANGED <<job, win>>
    BY DEF OpenQuery, world
  <2>3. Chunk' = Chunk
    BY <1>2, <2>2 DEF Chunk
  <2>4. \A i \in 1..Len(rows') : rows'[i] \in Wanted
    BY <2>1
  <2>5. \A i \in 1..Len(rows') : rows'[i].dev \in Chunk' /\ InRange(rows'[i], win'.from, win'.to)
    BY <2>2, <2>3, <2>4 DEF Wanted, InSlice, InRange
  <2> QED BY <1>2, <2>1, <2>2, <2>5 DEF PageInv, Distinct, InSlice
<1> QED BY <1>1, <1>2 DEF OpenQuery

LEMMA StepTypeInv == TypeInv /\ [Next]_vars => TypeInv'
<1> SUFFICES ASSUME TypeInv, [Next]_vars PROVE TypeInv'
  OBVIOUS
<1>1. TypeOK
  BY DEF TypeInv
<1>2. CASE \/ Tick \/ (\E r \in Late : ArriveLate(r)) \/ (\E d \in Devices : ListMeter(d))
           \/ UNCHANGED vars
  BY <1>1, <1>2, AroundSteps, AroundTypes
<1>3. ASSUME NEW order \in Orders(meters), StartSlice(order) PROVE TypeInv'
  <2>1. PageInv'
    BY <1>3 DEF StartSlice, PageInv
  <2> QED BY <1>1, <1>3, <2>1, StartSliceTypes DEF TypeInv
<1>4. CASE OpenQuery
  BY <1>1, <1>4, OpenQueryTypes, OpenQueryPage DEF TypeInv
<1>5. CASE LoadBatch
  BY <1>5, LoadBatchTypes
<1>6. CASE SaveCheckpoint
  <2>1. /\ checkpoint' \in Nat
        /\ UNCHANGED <<job, now, source, meters, dest, win, cursor>>
    BY <1>1, <1>6 DEF SaveCheckpoint, world, TypeOK
  <2>2. \/ pc' = "slice" /\ UNCHANGED <<rows, values, asked, faults>>
        \/ Idle /\ faults' \in Nat
    BY <1>1, <1>6 DEF SaveCheckpoint, Fault, TypeOK
  <2>3. CASE Idle /\ faults' \in Nat
    BY <1>1, <2>1, <2>3, StoppedTypes DEF TypeInv, TypeOK, PageInv, Cursors
  <2>4. CASE pc' = "slice" /\ UNCHANGED <<rows, values, asked, faults>>
    BY <1>1, <2>1, <2>4 DEF TypeInv, TypeOK, PageInv
  <2> QED BY <2>2, <2>3, <2>4
<1>7. CASE Break
  <2>1. Idle /\ faults' \in Nat /\ UNCHANGED <<job, now, source, meters, dest, checkpoint, win, cursor>>
    BY <1>1, <1>7 DEF Break, Fault, world, TypeOK
  <2> QED BY <1>1, <2>1, StoppedTypes DEF TypeInv, TypeOK, PageInv, Cursors
<1> QED BY <1>2, <1>3, <1>4, <1>5, <1>6, <1>7 DEF Next, StartRun, NextSlice

LEMMA AlwaysTypeInv == Spec => []TypeInv
<1>1. Init => TypeInv
  BY InitTypeOK DEF Init, TypeInv, PageInv
<1> QED BY <1>1, StepTypeInv, PTL DEF Spec

\* The variables keep their types, and the keyset cursor is always a row of the
\* chunk that is being drained (run.go, runFilteredChunkPaginated).
THEOREM RangeTyped == Spec => []TypeOK
<1>1. TypeInv => TypeOK
  BY DEF TypeInv
<1> QED BY <1>1, AlwaysTypeInv, PTL

-----------------------------------------------------------------------------
(* What the slice in hand will still load.                                 *)

Walking == pc \in {"query", "load", "save"}

\* A row of the slice is yet to be loaded: in the page, behind it in the chunk,
\* or in a chunk to come.
ToCome(r) ==
  \/ pc = "query" /\ r.dev \in Elements(values) /\ (job.paged /\ r.dev \in Chunk => Before(cursor, r))
  \/ pc = "load" /\ \/ r \in Elements(rows)
                    \/ r.dev \in Elements(Remaining)
                    \/ job.paged /\ r.dev \in Chunk /\ Before(rows[Len(rows)], r)

\* No filter value is asked for twice in a slice.
ValuesInv == pc \in {"query", "load"} => Distinct(values)

LEMMA StartToCome ==
  ASSUME TypeInv, NEW order \in Orders(meters), StartSlice(order)
  PROVE  /\ pc' \in {"query", "save"} /\ Distinct(values') /\ asked' = meters
         /\ \A r \in Feed : r.dev \in meters => ToCome(r)'
<1>1. Elements(order) = meters /\ Distinct(order)
  BY TypeFacts, OrdersAreComplete DEF TypeInv
<1>2. /\ values' = order /\ cursor' = cursorSentinel /\ asked' = meters
      /\ pc' = IF meters = {} THEN "save" ELSE "query"
  BY DEF StartSlice
<1>3. ASSUME NEW r \in Feed, r.dev \in meters PROVE ToCome(r)'
  <2>1. pc' = "query" /\ r.dev \in Elements(values') /\ Before(cursor', r)
    BY <1>1, <1>2, <1>3, CursorTypes
  <2> QED BY <2>1 DEF ToCome, Elements
<1> QED BY <1>1, <1>2, <1>3

LEMMA ChunkDoneToCome ==
  ASSUME TypeInv, ValuesInv, pc \in {"query", "load"}, ChunkDone, job' = job
  PROVE  /\ pc' \in {"query", "save"} /\ Distinct(values')
         /\ \A r \in Feed : ToCome(r)' <=> r.dev \in Elements(Remaining)
<1>1. /\ values' = Remaining /\ cursor' = cursorSentinel
      /\ pc' = IF Remaining = <<>> THEN "save" ELSE "query"
  BY DEF ChunkDone
<1>2. Distinct(Remaining)
  BY TypeFacts, ChunkAndRest DEF TypeInv, TypeOK, ValuesInv
<1>3. ASSUME NEW r \in Feed PROVE ToCome(r)' <=> r.dev \in Elements(Remaining)
  <2>1. Before(cursor', r)
    BY <1>1, CursorTypes
  <2>2. CASE pc' = "query"
    <3>1. ToCome(r)' <=> r.dev \in Elements(values')
      BY <2>1, <2>2 DEF ToCome, Elements
    <3> QED BY <1>1, <3>1
  <2>3. CASE pc' = "save"
    <3>1. Remaining = <<>>
      BY <1>1, <2>3
    <3>2. Elements(Remaining) = {}
      BY <3>1 DEF Elements
    <3> QED BY <2>3, <3>2 DEF ToCome
  <2> QED BY <1>1, <2>2, <2>3
<1> QED BY <1>1, <1>2, <1>3

\* A row that is still to come when a page is asked for is so when it is there,
\* or the page ends with a row of its key.
LEMMA OpenToCome ==
  ASSUME TypeInv, ValuesInv, OpenQuery, NEW r \in Feed, InSlice(r)
  PROVE  /\ ToCome(r)' => ToCome(r)
         /\ r \in source /\ ToCome(r) => \E p \in StandFor(r) : ToCome(p)'
<1>1. pc = "query" /\ job' = job /\ rows' \in Pages(Wanted)
  BY DEF OpenQuery, world
<1>2. /\ Elements(values) = Chunk \cup Elements(Remaining)
      /\ Chunk \cap Elements(Remaining) = {}
  BY <1>1, TypeFacts, ChunkAndRest DEF TypeInv, TypeOK, ValuesInv
<1>3. r \in Wanted <=> r \in source /\ r.dev \in Chunk /\ (job.paged => Before(cursor, r))
  BY DEF Wanted, InSlice, InRange
<1>4. ToCome(r) <=> r.dev \in Elements(values) /\ (job.paged /\ r.dev \in Chunk => Before(cursor, r))
  BY <1>1 DEF ToCome
<1>5. /\ rows' \in Seq(Wanted) /\ (rows' = <<>> <=> Wanted = {}) /\ job \in Job
      /\ ~job.paged => Elements(rows') = Wanted
      /\ job.paged => \A q \in Wanted : \/ q \in Elements(rows') \/ Before(rows'[Len(rows')], q)
                                         \/ SameKey(rows'[Len(rows')], q)
  BY <1>1, TypeFacts, PagesTaken DEF TypeInv
<1>6. CASE rows' = <<>> /\ ChunkDone
  <2>1. ToCome(r)' <=> r.dev \in Elements(Remaining)
    BY <1>1, <1>6, ChunkDoneToCome
  <2>2. r \notin Wanted
    BY <1>5, <1>6
  <2>3. r \in source => r \in StandFor(r)
    BY DEF StandFor
  <2> QED BY <1>2, <1>3, <1>4, <2>1, <2>2, <2>3
<1>7. CASE rows' # <<>> /\ pc' = "load" /\ UNCHANGED <<values, cursor>>
  <2>1. Chunk' = Chunk /\ Remaining' = Remaining
    BY <1>1, <1>7 DEF Chunk, Remaining
  <2>2. ToCome(r)' <=> \/ r \in Elements(rows')
                       \/ r.dev \in Elements(Remaining)
                       \/ job.paged /\ r.dev \in Chunk /\ Before(rows'[Len(rows')], r)
    BY <1>1, <1>7, <2>1 DEF ToCome, Elements
  <2>3. rows'[Len(rows')] \in Wanted /\ Elements(rows') \subseteq Wanted
    BY <1>5, <1>7 DEF Elements
  <2>4. ASSUME ToCome(r)' PROVE ToCome(r)
    <3>1. CASE r \in Elements(rows')
      BY <1>2, <1>3, <1>4, <2>3, <3>1
    <3>2. CASE r.dev \in Elements(Remaining)
      BY <1>2, <1>4, <3>2
    <3>3. CASE job.paged /\ r.dev \in Chunk /\ Before(rows'[Len(rows')], r)
      <4>1. cursor \in Cursors /\ rows'[Len(rows')] \in Feed
        BY <2>3, TypeFacts DEF TypeInv, TypeOK, Cursors
      <4>2. Before(cursor, rows'[Len(rows')])
        BY <2>3, <3>3 DEF Wanted
      <4>3. Before(cursor, r)
        BY <3>3, <4>1, <4>2, BeforeIsAnOrder
      <4> QED BY <1>2, <1>4, <3>3, <4>3
    <3> QED BY <2>2, <2>4, <3>1, <3>2, <3>3
  <2>5. ASSUME r \in source, ToCome(r) PROVE \E p \in StandFor(r) : ToCome(p)'
    <3>0. r \in StandFor(r)
      BY <2>5 DEF StandFor
    <3>1. CASE r.dev \in Elements(Remaining)
      BY <2>2, <3>0, <3>1
    <3>2. CASE r.dev \in Chunk
      <4> DEFINE last == rows'[Len(rows')]
      <4>1. r \in Wanted
        BY <1>3, <1>4, <2>5, <3>2
      <4>2. CASE r \in Elements(rows') \/ (job.paged /\ Before(last, r))
        BY <2>2, <3>0, <3>2, <4>2
      <4>3. CASE job.paged /\ SameKey(last, r)
        <5>1. PICK p \in Elements(rows') : p = last
          BY <1>5, <1>7 DEF Elements
        <5>2. p \in StandFor(r)
          BY <2>3, <4>3, <5>1, KeysetFacts DEF StandFor, Wanted
        <5>3. ToCome(p)'
          BY <1>7, <5>1 DEF ToCome, Elements
        <5> QED BY <5>2, <5>3
      <4> QED BY <1>5, <4>1, <4>2, <4>3
    <3> QED BY <1>2, <1>4, <2>5, <3>1, <3>2
  <2> QED BY <2>4, <2>5
<1> QED BY <1>6, <1>7 DEF OpenQuery

LEMMA WrittenWasToCome ==
  ASSUME TypeInv, pc = "load", NEW r \in Written
  PROVE  r \in Feed /\ r \in source /\ InSlice(r) /\ ToCome(r) /\ r.dev \in Chunk
<1>1. PICK i \in 1..Taken : r = rows[i]
  BY DEF Written
<1>2. i \in 1..Len(rows)
  BY <1>1, BatchTaken
<1>3. rows \in Seq(source) /\ source \subseteq Feed
  BY DEF TypeInv, TypeOK
<1>4. r \in source /\ InSlice(r) /\ r.dev \in Chunk /\ r \in Elements(rows)
  BY <1>1, <1>2, <1>3 DEF TypeInv, PageInv, Elements
<1> QED BY <1>3, <1>4 DEF ToCome

LEMMA BatchToCome ==
  ASSUME TypeInv, ValuesInv, LoadBatch, BatchMore \/ BatchPage \/ BatchLast, NEW r \in Feed
  PROVE  /\ ToCome(r)' => ToCome(r) /\ r \notin Written
         /\ ToCome(r) => ToCome(r)' \/ r \in Written
<1> DEFINE rest == SubSeq(rows, Taken + 1, Len(rows))
           last == rows[Len(rows)]
<1>1. /\ pc = "load" /\ job' = job
  BY LoadBatchCases
<1>2. /\ Elements(values) = Chunk \cup Elements(Remaining)
      /\ Chunk \cap Elements(Remaining) = {}
  BY <1>1, TypeFacts, ChunkAndRest DEF TypeInv, TypeOK, ValuesInv
<1>3. /\ Len(rows) \in Nat /\ Taken \in 1..Len(rows)
      /\ Len(rest) = Len(rows) - Taken
      /\ \A i \in 1..Len(rest) : Taken + i \in 1..Len(rows) /\ rest[i] = rows[Taken + i]
  BY <1>1, BatchTaken
<1>4. /\ Elements(rows) = Written \cup Elements(rest)
      /\ Written \cap Elements(rest) = {}
  <2>1. Written = Front(rows, Taken)
    BY <1>3 DEF Written, Front
  <2>2. Distinct(rows) /\ rows \in Seq(source) /\ Taken \in Nat
    BY <1>1, <1>3 DEF TypeInv, PageInv, TypeOK
  <2> QED BY <2>1, <2>2, RestElements
<1>5. /\ r \in Elements(rows) <=> r \in Written \/ r \in Elements(rest)
      /\ ~(r \in Written /\ r \in Elements(rest))
      /\ r.dev \in Elements(values) <=> r.dev \in Chunk \/ r.dev \in Elements(Remaining)
      /\ ~(r.dev \in Chunk /\ r.dev \in Elements(Remaining))
  BY <1>2, <1>4
<1>6. ToCome(r) <=> \/ r \in Elements(rows)
                    \/ r.dev \in Elements(Remaining)
                    \/ job.paged /\ r.dev \in Chunk /\ Before(last, r)
  BY <1>1 DEF ToCome
<1>7. r \in Written => r.dev \in Chunk /\ (job.paged => ~Before(last, r))
  <2> SUFFICES ASSUME r \in Written, job.paged PROVE ~Before(last, r)
    BY <1>1, WrittenWasToCome
  <2>1. PICK i \in 1..Taken : r = rows[i]
    BY DEF Written
  <2>2. i \in 1..Len(rows) /\ Len(rows) \in 1..Len(rows) /\ (i = Len(rows) \/ i < Len(rows))
    BY <1>3
  <2>3. r = last \/ ~Before(last, r)
    BY <1>1, <2>1, <2>2 DEF TypeInv, PageInv
  <2> QED BY <2>3, BeforeIsAnOrder
<1>8. CASE BatchMore
  <2>1. rows' = rest /\ pc' = "load" /\ Chunk' = Chunk /\ Remaining' = Remaining
    BY <1>1, <1>8 DEF BatchMore, Chunk, Remaining
  <2>2. rest[Len(rest)] = last
    <3>1. Taken < Len(rows)
      BY <1>8 DEF BatchMore
    <3> HIDE DEF rest
    <3>2. Len(rest) \in 1..Len(rest) /\ Taken + Len(rest) = Len(rows)
      BY <1>3, <3>1
    <3> QED BY <1>3, <3>2
  <2>3. ToCome(r)' <=> \/ r \in Elements(rest)
                       \/ r.dev \in Elements(Remaining)
                       \/ job.paged /\ r.dev \in Chunk /\ Before(last, r)
    BY <1>1, <2>1, <2>2 DEF ToCome, Elements
  <2> HIDE DEF rest, last
  <2> QED BY <1>5, <1>6, <1>7, <2>3, Zenon
<1>9. CASE BatchPage
  <2>1. cursor' = Keyset(last) /\ pc' = "query" /\ job.paged /\ values' = values /\ Chunk' = Chunk
    BY <1>1, <1>9 DEF BatchPage, Chunk
  <2>2. Elements(rest) = {}
    <3>1. rest = <<>>
      BY <1>1, <1>9, BatchTaken DEF BatchPage
    <3> HIDE DEF rest
    <3> QED BY <3>1 DEF Elements
  <2>3. ToCome(r)' <=> r.dev \in Elements(values) /\ (r.dev \in Chunk => Before(last, r))
    <3>1. last \in Feed
      BY <1>3 DEF TypeInv, TypeOK
    <3>2. Before(cursor', r) <=> Before(last, r)
      BY <2>1, KeysetFacts
    <3> QED BY <1>1, <2>1, <3>2 DEF ToCome, Elements
  <2> HIDE DEF rest, last
  <2>4. r \notin Elements(rest)
    BY <2>2
  <2> QED BY <1>5, <1>6, <1>7, <2>1, <2>3, <2>4, Zenon
<1>10. CASE BatchLast
  <2>1. ToCome(r)' <=> r.dev \in Elements(Remaining)
    BY <1>1, <1>10, ChunkDoneToCome DEF BatchLast
  <2>2. Elements(rest) = {}
    <3>1. rest = <<>>
      BY <1>1, <1>10, BatchTaken DEF BatchLast
    <3> HIDE DEF rest
    <3> QED BY <3>1 DEF Elements
  <2>3. ~job.paged
    BY <1>10 DEF BatchLast
  <2> HIDE DEF rest, last
  <2>4. r \notin Elements(rest)
    BY <2>2
  <2> QED BY <1>5, <1>6, <1>7, <2>1, <2>3, <2>4, Zenon
<1> QED BY <1>8, <1>9, <1>10

-----------------------------------------------------------------------------
(* The slice, the checkpoint and the clock.                                *)

\* What came in time is in the source table, and nothing of the future is.
Clock ==
  /\ \A r \in OnTime : r \in source <=> r.tv <= now
  /\ FirstMeters \subseteq meters
  /\ checkpoint # None => checkpoint <= now
  /\ faults <= MaxFaults

\* A slice starts at the checkpoint and does not reach into the future: what is
\* stamped behind its end has been in the source since before it was asked for.
SliceInv ==
  Walking => /\ win.from = From
             /\ win.to <= now
             /\ checkpoint # None => checkpoint <= win.to

BaseInv == TypeInv /\ ValuesInv /\ Clock /\ SliceInv

LEMMA InitBaseInv == Init => BaseInv
<1> SUFFICES ASSUME Init PROVE BaseInv
  OBVIOUS
<1>1. TypeInv
  BY InitTypeOK DEF Init, TypeInv, PageInv
<1>2. Clock
  BY RangeAssumption DEF Init, Clock
<1> QED BY <1>1, <1>2 DEF Init, BaseInv, ValuesInv, SliceInv, Walking

LEMMA AroundBase ==
  ASSUME BaseInv,
         \/ Tick
         \/ \E r \in Late : ArriveLate(r)
         \/ \E d \in Devices : ListMeter(d)
         \/ UNCHANGED vars
  PROVE  BaseInv' /\ Around
<1>1. TypeOK /\ TypeInv
  BY DEF BaseInv, TypeInv
<1>2. Around
  BY <1>1, AroundSteps
<1>3. TypeInv'
  BY <1>1, <1>2, AroundTypes
<1>4. ValuesInv'
  BY <1>2 DEF BaseInv, ValuesInv, Around, Distinct
<1>5. Clock'
  <2>1. ASSUME NEW r \in OnTime PROVE r \in source' <=> r.tv <= now'
    <3>1. r \in Feed /\ r \notin Late /\ r.tv \in Nat /\ now \in Nat /\ (r \in source <=> r.tv <= now)
      BY <1>1, CursorTypes DEF OnTime, BaseInv, Clock, TypeOK
    <3>2. CASE Tick
      BY <3>1, <3>2 DEF Tick
    <3>3. CASE \E q \in Late : ArriveLate(q)
      BY <3>1, <3>3 DEF ArriveLate
    <3>4. CASE \E d \in Devices : ListMeter(d)
      BY <3>1, <3>4 DEF ListMeter
    <3>5. CASE UNCHANGED vars
      BY <3>1, <3>5 DEF vars, world
    <3> QED BY <3>2, <3>3, <3>4, <3>5
  <2>2. now \in Int /\ now' \in Int /\ now <= now' /\ checkpoint' = checkpoint /\ (checkpoint \in Nat \/ checkpoint = None)
    BY <1>1, <1>2 DEF Around, TypeOK
  <2>3. checkpoint' # None => checkpoint' <= now'
    BY <2>2 DEF BaseInv, Clock
  <2> QED BY <1>2, <2>1, <2>3 DEF BaseInv, Clock, Around
<1>6. SliceInv'
  <2>1. From' = From /\ Walking' = Walking /\ win' = win /\ checkpoint' = checkpoint
    BY <1>2 DEF Around, From, Walking
  <2>2. win.to \in Nat /\ now \in Nat /\ now' \in Nat /\ now <= now'
    BY <1>1, <1>2 DEF Around, TypeOK
  <2> QED BY <2>1, <2>2 DEF BaseInv, SliceInv
<1> QED BY <1>2, <1>3, <1>4, <1>5, <1>6 DEF BaseInv

\* The slice that is started.
LEMMA StartedSlice ==
  ASSUME BaseInv, NEW order \in Orders(meters), StartSlice(order)
  PROVE  /\ Walking' /\ win'.from = From /\ win'.to \in Nat /\ win'.to <= now /\ From' = From
         /\ checkpoint # None => checkpoint <= win'.to /\ checkpoint = From
         /\ checkpoint = None => From = job.start
<1>1. From \in Nat /\ job.step \in Nat /\ now \in Nat
  BY TypeFacts DEF BaseInv, TypeInv, TypeOK
<1>2. win' = Slice /\ UNCHANGED <<world, dest, checkpoint, rows, faults>>
      /\ pc' = IF meters = {} THEN "save" ELSE "query"
  BY DEF StartSlice
<1>3. win'.from = From /\ win'.to = Lesser(From + job.step, now)
  BY <1>2 DEF Slice
<1>4. win'.to \in Nat /\ win'.to <= now
  BY <1>1, <1>3 DEF Lesser
<1>5. From' = From
  BY <1>2 DEF From, world
<1>6. checkpoint # None => checkpoint = From /\ checkpoint <= win'.to
  <2> SUFFICES ASSUME checkpoint # None PROVE checkpoint = From /\ checkpoint <= win'.to
    OBVIOUS
  <2>1. checkpoint = From /\ From <= now
    BY DEF From, BaseInv, Clock
  <2> QED BY <1>1, <1>3, <2>1 DEF Lesser
<1> QED BY <1>2, <1>3, <1>4, <1>5, <1>6 DEF Walking, From

LEMMA StepBaseInv == BaseInv /\ [Next]_vars => BaseInv'
<1> SUFFICES ASSUME BaseInv, [Next]_vars PROVE BaseInv'
  OBVIOUS
<1>1. TypeInv /\ TypeOK /\ TypeInv'
  BY StepTypeInv DEF BaseInv, TypeInv
<1>2. CASE \/ Tick \/ (\E r \in Late : ArriveLate(r)) \/ (\E d \in Devices : ListMeter(d))
           \/ UNCHANGED vars
  BY <1>2, AroundBase
<1>3. ASSUME NEW order \in Orders(meters), StartSlice(order) PROVE BaseInv'
  <2>1. ValuesInv'
    BY <1>1, <1>3, StartToCome DEF ValuesInv
  <2>2. UNCHANGED <<now, source, meters, checkpoint, faults>>
    BY <1>3 DEF StartSlice, world
  <2>3. Clock'
    BY <2>2 DEF BaseInv, Clock
  <2>4. SliceInv'
    BY <1>3, <2>2, StartedSlice DEF SliceInv
  <2> QED BY <1>1, <2>1, <2>3, <2>4 DEF BaseInv
<1>4. ASSUME UNCHANGED <<job, now, source, meters, checkpoint, win>>, faults' \in Nat, faults' <= faults,
             Walking' => Walking
      PROVE  Clock' /\ SliceInv'
  <2>1. Clock'
    BY <1>1, <1>4, RangeAssumption DEF BaseInv, Clock, TypeOK
  <2>2. From' = From
    BY <1>4 DEF From
  <2> QED BY <1>4, <2>1, <2>2 DEF BaseInv, SliceInv
<1>5. CASE OpenQuery
  <2>1. /\ UNCHANGED <<job, now, source, meters, checkpoint, win>> /\ pc = "query"
        /\ faults' \in Nat /\ faults' <= faults
        /\ ChunkDone \/ UNCHANGED values
    BY <1>1, <1>5 DEF OpenQuery, world, TypeOK
  <2>2. ValuesInv'
    <3>1. CASE ChunkDone
      BY <1>1, <2>1, <3>1, ChunkDoneToCome DEF BaseInv, ValuesInv
    <3>2. CASE UNCHANGED values
      BY <2>1, <3>2 DEF BaseInv, ValuesInv, Distinct
    <3> QED BY <2>1, <3>1, <3>2
  <2> QED BY <1>1, <1>4, <2>1, <2>2 DEF BaseInv, Walking
<1>6. CASE LoadBatch
  <2>1. /\ UNCHANGED <<job, now, source, meters, checkpoint, win>> /\ pc = "load"
        /\ BatchMore \/ BatchPage \/ BatchLast \/ Stopped
    BY <1>6, LoadBatchCases
  <2>2. faults' \in Nat /\ faults' <= faults
    BY <1>1, <2>1 DEF BatchMore, BatchPage, BatchLast, Stopped, Fault, TypeOK
  <2>3. ValuesInv'
    <3>1. CASE BatchLast
      BY <1>1, <2>1, <3>1, ChunkDoneToCome DEF BaseInv, ValuesInv, BatchLast
    <3>2. CASE BatchMore \/ BatchPage
      BY <2>1, <3>2 DEF BaseInv, ValuesInv, Distinct, BatchMore, BatchPage
    <3>3. CASE Stopped
      BY <3>3 DEF ValuesInv, Stopped, Idle
    <3> QED BY <2>1, <3>1, <3>2, <3>3
  <2> QED BY <1>1, <1>4, <2>1, <2>2, <2>3 DEF BaseInv, Walking
<1>7. CASE SaveCheckpoint
  <2>1. /\ pc = "save" /\ checkpoint' = win.to /\ pc' \in {"idle", "slice"}
        /\ UNCHANGED <<job, now, source, meters>> /\ faults' <= faults /\ faults' \in Nat
    BY <1>1, <1>7 DEF SaveCheckpoint, Idle, Fault, world, TypeOK
  <2>2. win.to <= now
    BY <2>1 DEF BaseInv, SliceInv, Walking
  <2>3. faults \in Nat /\ MaxFaults \in Nat /\ faults <= MaxFaults
    BY <1>1, RangeAssumption DEF BaseInv, Clock, TypeOK
  <2>4. faults' <= MaxFaults
    BY <2>1, <2>3
  <2>5. Clock'
    BY <2>1, <2>2, <2>4 DEF BaseInv, Clock
  <2> QED BY <1>1, <2>1, <2>5 DEF BaseInv, ValuesInv, SliceInv, Walking
<1>8. CASE Break
  <2>1. /\ UNCHANGED <<job, now, source, meters, checkpoint, win>> /\ pc' = "idle"
        /\ faults' \in Nat /\ faults' <= faults
    BY <1>1, <1>8 DEF Break, Idle, Fault, world, TypeOK
  <2> QED BY <1>1, <1>4, <2>1 DEF BaseInv, ValuesInv, Walking
<1> QED BY <1>2, <1>3, <1>5, <1>6, <1>7, <1>8 DEF Next, StartRun, NextSlice

LEMMA AlwaysBaseInv == Spec => []BaseInv
BY InitBaseInv, StepBaseInv, PTL DEF Spec

-----------------------------------------------------------------------------
(* Nothing is skipped.                                                     *)

\* The readings the range is answerable for.
Due(r) == r \in source /\ r \notin Late /\ r.dev \in FirstMeters

\* What is due behind the checkpoint, or what stands for it, is in the destination.
Behind ==
  \A r \in Feed : Due(r) /\ checkpoint # None /\ InRange(r, job.start, checkpoint)
    => \E q \in StandFor(r) : dest[q] > 0

\* What is due in the slice in hand, or what stands for it, is in the destination or
\* yet to be loaded.
Gathered ==
  Walking => \A r \in Feed : Due(r) /\ InSlice(r)
               => \E q \in StandFor(r) : dest[q] > 0 \/ ToCome(q)

SkipInv == BaseInv /\ Behind /\ Gathered

LEMMA StandForFacts ==
  ASSUME source \subseteq Feed, NEW r, NEW q \in StandFor(r)
  PROVE  /\ q \in source /\ q \in Feed
         /\ InSlice(r) => InSlice(q)
         /\ \A p \in StandFor(q) : p \in StandFor(r)
<1>1. q \in source /\ q \in Feed /\ (q = r \/ Keyset(q) = Keyset(r))
  BY DEF StandFor
<1>2. q.tv = r.tv
  BY <1>1, KeysetFacts DEF SameKey
<1>3. InSlice(r) => InSlice(q)
  BY <1>2 DEF InSlice, InRange
<1>4. \A p \in StandFor(q) : p \in StandFor(r)
  BY DEF StandFor
<1> QED BY <1>1, <1>3, <1>4

LEMMA StandForGrows ==
  ASSUME source \subseteq source', job' = job, NEW r
  PROVE  StandFor(r) \subseteq StandFor(r)'
BY DEF StandFor

LEMMA StepSkipInv == SkipInv /\ [Next]_vars => SkipInv'
<1> SUFFICES ASSUME SkipInv, [Next]_vars PROVE SkipInv'
  OBVIOUS
<1>1. BaseInv /\ TypeInv /\ TypeOK /\ BaseInv'
  BY StepBaseInv DEF SkipInv, BaseInv, TypeInv
<1>9. source \subseteq Feed
  BY <1>1 DEF TypeOK
<1>2. CASE \/ Tick \/ (\E r \in Late : ArriveLate(r)) \/ (\E d \in Devices : ListMeter(d))
           \/ UNCHANGED vars
  <2>1. Around
    BY <1>1, <1>2, AroundBase
  <2>2. ASSUME NEW r \in Feed, Due(r)' PROVE Due(r) \/ (r.tv > now /\ r.tv \in Nat /\ now \in Nat)
    <3>1. r \in OnTime /\ r.tv \in Nat /\ now \in Nat
      BY <1>1, <2>2, CursorTypes DEF Due, OnTime, TypeOK
    <3> QED BY <1>1, <2>2, <3>1 DEF Due, BaseInv, Clock
  <2>3. Behind'
    <3> SUFFICES ASSUME NEW r \in Feed, Due(r)', checkpoint' # None, InRange(r, job'.start, checkpoint')
                 PROVE  \E q \in StandFor(r)' : dest'[q] > 0
      BY DEF Behind, InRange
    <3>1. ~(r.tv > now /\ r.tv \in Nat /\ now \in Nat)
      BY <1>1, <2>1 DEF Around, InRange, BaseInv, Clock, TypeOK
    <3>2. PICK q \in StandFor(r) : dest[q] > 0
      BY <2>1, <2>2, <3>1 DEF SkipInv, Behind, Around
    <3> QED BY <2>1, <3>2, StandForGrows DEF Around
  <2>4. Gathered'
    <3> SUFFICES ASSUME Walking', NEW r \in Feed, Due(r)', InRange(r, win'.from, win'.to)
                 PROVE  \E q \in StandFor(r)' : dest'[q] > 0 \/ ToCome(q)'
      BY DEF Gathered, InSlice, InRange
    <3>1. Walking /\ InSlice(r)
      BY <2>1 DEF Around, Walking, InSlice
    <3>2. ~(r.tv > now /\ r.tv \in Nat /\ now \in Nat)
      BY <1>1, <3>1 DEF InSlice, InRange, BaseInv, SliceInv, TypeOK
    <3>3. PICK q \in StandFor(r) : dest[q] > 0 \/ ToCome(q)
      BY <2>2, <3>1, <3>2 DEF SkipInv, Gathered
    <3>4. ToCome(q)' <=> ToCome(q)
      BY <2>1 DEF Around, ToCome, Elements, Chunk, Remaining
    <3> QED BY <2>1, <3>3, <3>4, StandForGrows DEF Around
  <2> QED BY <1>1, <2>3, <2>4 DEF SkipInv
<1>3. ASSUME NEW order \in Orders(meters), StartSlice(order) PROVE SkipInv'
  <2>1. UNCHANGED <<job, source, dest, checkpoint>>
    BY <1>3 DEF StartSlice, world
  <2>2. Behind'
    BY <2>1 DEF SkipInv, Behind, Due, InRange, StandFor
  <2>3. ASSUME NEW r \in Feed, Due(r)' PROVE \E q \in StandFor(r)' : ToCome(q)'
    <3>1. r.dev \in meters /\ r \in StandFor(r)'
      BY <1>1, <2>3 DEF Due, BaseInv, Clock, StandFor
    <3> QED BY <1>1, <1>3, <3>1, StartToCome
  <2> QED BY <1>1, <2>2, <2>3 DEF SkipInv, Gathered
<1>4. CASE OpenQuery
  <2>1. UNCHANGED <<job, source, dest, checkpoint, win>> /\ pc = "query"
    BY <1>4 DEF OpenQuery, world
  <2>2. Behind'
    BY <2>1 DEF SkipInv, Behind, Due, InRange, StandFor
  <2>3. Gathered'
    <3> SUFFICES ASSUME NEW r \in Feed, Due(r), InSlice(r)
                 PROVE  \E q \in StandFor(r) : dest'[q] > 0 \/ ToCome(q)'
      BY <2>1 DEF Gathered, InSlice, InRange, Due, StandFor
    <3>1. PICK q \in StandFor(r) : dest[q] > 0 \/ ToCome(q)
      BY <2>1 DEF SkipInv, Gathered, Walking
    <3>2. q \in source /\ q \in Feed /\ InSlice(q) /\ \A p \in StandFor(q) : p \in StandFor(r)
      BY <1>1, <1>9, StandForFacts
    <3>3. ToCome(q) => \E p \in StandFor(q) : ToCome(p)'
      BY <1>1, <1>4, <3>2, OpenToCome DEF BaseInv
    <3> QED BY <2>1, <3>1, <3>2, <3>3
  <2> QED BY <1>1, <2>2, <2>3 DEF SkipInv
<1>5. CASE LoadBatch
  <2>1. /\ pc = "load" /\ UNCHANGED <<job, source, checkpoint, win>>
        /\ dest' = [r \in Feed |-> IF r \in Written THEN dest[r] + 1 ELSE dest[r]]
        /\ BatchMore \/ BatchPage \/ BatchLast \/ Stopped
    BY <1>5, LoadBatchCases
  <2>2. \A r \in Feed : (dest[r] > 0 => dest'[r] > 0) /\ (r \in Written => dest'[r] > 0)
    BY <1>1, <2>1 DEF TypeOK
  <2>3. Behind'
    <3> SUFFICES ASSUME NEW r \in Feed, Due(r), checkpoint # None, InRange(r, job.start, checkpoint)
                 PROVE  \E q \in StandFor(r) : dest'[q] > 0
      BY <2>1 DEF Behind, Due, InRange, StandFor
    <3>1. PICK q \in StandFor(r) : dest[q] > 0
      BY DEF SkipInv, Behind
    <3> QED BY <1>1, <2>2, <3>1, <1>9, StandForFacts
  <2>4. Gathered'
    <3>1. CASE Stopped
      BY <3>1 DEF Gathered, Walking, Stopped, Idle
    <3>2. CASE BatchMore \/ BatchPage \/ BatchLast
      <4> SUFFICES ASSUME NEW r \in Feed, Due(r), InSlice(r)
                   PROVE  \E q \in StandFor(r) : dest'[q] > 0 \/ ToCome(q)'
        BY <2>1 DEF Gathered, InSlice, InRange, Due, StandFor
      <4>1. PICK q \in StandFor(r) : dest[q] > 0 \/ ToCome(q)
        BY <2>1 DEF SkipInv, Gathered, Walking
      <4>2. q \in Feed
        BY <1>1, <1>9, StandForFacts
      <4>3. ToCome(q) => ToCome(q)' \/ q \in Written
        BY <1>1, <1>5, <3>2, <4>2, BatchToCome DEF BaseInv
      <4> QED BY <2>2, <4>1, <4>2, <4>3
    <3> QED BY <2>1, <3>1, <3>2
  <2> QED BY <1>1, <2>3, <2>4 DEF SkipInv
<1>6. CASE SaveCheckpoint
  <2>1. /\ pc = "save" /\ checkpoint' = win.to /\ pc' \in {"idle", "slice"}
        /\ UNCHANGED <<job, source, dest, win>>
    BY <1>6 DEF SaveCheckpoint, Idle, world
  <2>2. Behind'
    <3> SUFFICES ASSUME NEW r \in Feed, Due(r), InRange(r, job.start, win.to)
                 PROVE  \E q \in StandFor(r) : dest[q] > 0
      BY <2>1 DEF Behind, Due, InRange, StandFor
    <3>1. win.from = From /\ win.from \in Nat /\ r.tv \in Nat
      BY <1>1, <2>1, CursorTypes DEF BaseInv, SliceInv, Walking, TypeOK
    <3>2. CASE win.from <= r.tv
      <4>1. \A q \in Feed : ~ToCome(q)
        BY <2>1 DEF ToCome
      <4>2. InSlice(r)
        BY <3>2 DEF InSlice, InRange
      <4>3. PICK q \in StandFor(r) : dest[q] > 0 \/ ToCome(q)
        BY <2>1, <4>2 DEF SkipInv, Gathered, Walking
      <4> QED BY <1>1, <4>1, <4>3, <1>9, StandForFacts
    <3>3. CASE r.tv < win.from
      <4>1. checkpoint # None /\ InRange(r, job.start, checkpoint)
        BY <1>1, <3>1, <3>3, TypeFacts DEF From, InRange
      <4> QED BY <4>1 DEF SkipInv, Behind
    <3> QED BY <1>1, <3>1, <3>2, <3>3
  <2> QED BY <1>1, <2>1, <2>2 DEF SkipInv, Gathered, Walking
<1>7. CASE Break
  <2>1. UNCHANGED <<job, source, dest, checkpoint>> /\ pc' = "idle"
    BY <1>7 DEF Break, Idle, world
  <2>2. Behind'
    BY <2>1 DEF SkipInv, Behind, Due, InRange, StandFor
  <2> QED BY <1>1, <2>1, <2>2 DEF SkipInv, Gathered, Walking
<1> QED BY <1>2, <1>3, <1>4, <1>5, <1>6, <1>7 DEF Next, StartRun, NextSlice

-----------------------------------------------------------------------------
(* Nothing is loaded again but after a failure.                            *)

Breaks == MaxFaults - faults

\* Not loaded yet in the slice in hand, or not within any slice so far.
Ahead(r) ==
  IF Walking THEN r.tv >= win.to \/ (InSlice(r) /\ ToCome(r))
             ELSE checkpoint = None \/ r.tv >= checkpoint

\* Every break costs one more writing at most, and the next attempt at the slice
\* starts with as many breaks as there were writings.
Times ==
  \A r \in Feed : dest[r] <= Breaks + 1 /\ (Ahead(r) => dest[r] <= Breaks)

TimesInv == BaseInv /\ Times

LEMMA StepTimesInv == TimesInv /\ [Next]_vars => TimesInv'
<1> SUFFICES ASSUME TimesInv, [Next]_vars PROVE TimesInv'
  OBVIOUS
<1>1. BaseInv /\ TypeInv /\ TypeOK /\ BaseInv'
  BY StepBaseInv DEF TimesInv, BaseInv, TypeInv
<1>2. /\ MaxFaults \in Nat /\ faults \in Nat /\ Breaks \in Int
      /\ \A r \in Feed : dest[r] \in Nat /\ r.tv \in Nat
  BY <1>1, CursorTypes, RangeAssumption DEF TypeOK, Breaks
\* A step that neither writes nor breaks only has to bring nothing nearer.
<1>3. ASSUME UNCHANGED <<dest, faults>>, \A r \in Feed : Ahead(r)' => Ahead(r) PROVE TimesInv'
  BY <1>1, <1>3 DEF TimesInv, Times, Breaks
<1>4. CASE \/ Tick \/ (\E r \in Late : ArriveLate(r)) \/ (\E d \in Devices : ListMeter(d))
           \/ UNCHANGED vars
  <2>1. Around
    BY <1>1, <1>4, AroundBase
  <2>2. \A r \in Feed : Ahead(r)' => Ahead(r)
    BY <2>1 DEF Around, Ahead, Walking, InSlice, ToCome, Elements, Chunk, Remaining
  <2> QED BY <1>3, <2>1, <2>2 DEF Around
<1>5. ASSUME NEW order \in Orders(meters), StartSlice(order), pc \in {"idle", "slice"} PROVE TimesInv'
  <2>1. ASSUME NEW r \in Feed, Ahead(r)' PROVE Ahead(r)
    <3>1. /\ Walking' /\ win'.from = From /\ win'.to \in Nat
          /\ checkpoint # None => checkpoint <= win'.to /\ checkpoint = From
      BY <1>1, <1>5, StartedSlice
    <3>2. r.tv >= win'.to \/ win'.from <= r.tv
      BY <2>1, <3>1 DEF Ahead, InSlice, InRange
    <3>3. checkpoint = None \/ r.tv >= checkpoint
      BY <1>1, <1>2, <3>1, <3>2 DEF TypeOK
    <3> QED BY <1>5, <3>3 DEF Ahead, Walking
  <2> QED BY <1>3, <1>5, <2>1 DEF StartSlice
<1>6. CASE OpenQuery
  <2>1. UNCHANGED <<dest, checkpoint, win, faults>> /\ pc = "query"
    BY <1>6 DEF OpenQuery
  <2>2. Walking'
    BY <1>6 DEF OpenQuery, ChunkDone, Walking
  <2>3. ASSUME NEW r \in Feed, Ahead(r)' PROVE Ahead(r)
    <3>1. InSlice(r) /\ ToCome(r)' => ToCome(r)
      BY <1>1, <1>6, OpenToCome DEF BaseInv
    <3>2. InSlice(r)' <=> InSlice(r)
      BY <2>1 DEF InSlice
    <3> QED BY <2>1, <2>2, <2>3, <3>1, <3>2 DEF Ahead, Walking
  <2> QED BY <1>3, <2>1, <2>3
<1>7. CASE LoadBatch
  <2>1. /\ pc = "load" /\ UNCHANGED <<checkpoint, win>>
        /\ dest' = [r \in Feed |-> IF r \in Written THEN dest[r] + 1 ELSE dest[r]]
        /\ BatchMore \/ BatchPage \/ BatchLast \/ Stopped
    BY <1>7, LoadBatchCases
  <2>2. \A r \in Feed : dest'[r] = IF r \in Written THEN dest[r] + 1 ELSE dest[r]
    BY <2>1
  <2>3. ASSUME NEW r \in Feed, r \in Written PROVE dest[r] <= Breaks /\ InSlice(r)
    <3>1. InSlice(r) /\ ToCome(r)
      BY <1>1, <2>1, <2>3, WrittenWasToCome
    <3> QED BY <2>1, <3>1 DEF TimesInv, Times, Ahead, Walking
  <2>4. CASE BatchMore \/ BatchPage \/ BatchLast
    <3>1. faults' = faults /\ Breaks' = Breaks
      BY <2>4 DEF BatchMore, BatchPage, BatchLast, Breaks
    <3>2. Walking'
      BY <2>1, <2>4 DEF BatchMore, BatchPage, BatchLast, ChunkDone, Walking
    <3>3. ASSUME NEW r \in Feed PROVE dest'[r] <= Breaks' + 1 /\ (Ahead(r)' => dest'[r] <= Breaks')
      <4>1. ToCome(r)' => ToCome(r) /\ r \notin Written
        BY <1>1, <1>7, <2>4, BatchToCome DEF BaseInv
      <4>2. Ahead(r)' <=> r.tv >= win.to \/ (InSlice(r) /\ ToCome(r)')
        BY <2>1, <3>2 DEF Ahead, InSlice
      <4>3. Ahead(r) <=> r.tv >= win.to \/ (InSlice(r) /\ ToCome(r))
        BY <2>1 DEF Ahead, Walking
      <4>4. dest[r] <= Breaks + 1 /\ (Ahead(r) => dest[r] <= Breaks) /\ dest[r] \in Nat
        BY <1>2 DEF TimesInv, Times
      <4>5. CASE r \in Written
        <5>1. dest[r] <= Breaks /\ r.tv < win.to /\ dest'[r] = dest[r] + 1
          BY <2>2, <2>3, <4>5 DEF InSlice, InRange
        <5>2. ~Ahead(r)'
          BY <1>1, <1>2, <4>1, <4>2, <4>5, <5>1 DEF TypeOK
        <5> QED BY <1>2, <3>1, <4>4, <5>1, <5>2
      <4>6. CASE r \notin Written
        <5>1. dest'[r] = dest[r] /\ (Ahead(r)' => Ahead(r))
          BY <2>2, <4>1, <4>2, <4>3, <4>6
        <5> QED BY <3>1, <4>4, <5>1
      <4> QED BY <4>5, <4>6
    <3> QED BY <1>1, <3>3 DEF TimesInv, Times
  <2>5. CASE Stopped
    <3>1. Breaks' = Breaks + 1
      BY <1>2, <2>5 DEF Stopped, Fault, Breaks
    <3>2. ASSUME NEW r \in Feed PROVE dest'[r] <= Breaks + 1
      BY <1>2, <2>2, <2>3, <3>2 DEF TimesInv, Times
    <3>3. ASSUME NEW r \in Feed PROVE dest'[r] <= Breaks' + 1 /\ dest'[r] <= Breaks'
      <4>1. dest'[r] \in Int
        BY <1>2, <2>2
      <4> QED BY <1>2, <3>1, <3>2, <4>1
    <3> QED BY <1>1, <3>3 DEF TimesInv, Times
  <2> QED BY <2>1, <2>4, <2>5
\* The end of a run that breaks without having written: one more break.
<1>8. ASSUME UNCHANGED dest, Fault PROVE TimesInv'
  <2>1. Breaks' = Breaks + 1
    BY <1>2, <1>8 DEF Fault, Breaks
  <2>2. ASSUME NEW r \in Feed PROVE dest'[r] <= Breaks' + 1 /\ dest'[r] <= Breaks'
    BY <1>2, <1>8, <2>1 DEF TimesInv, Times
  <2> QED BY <1>1, <2>2 DEF TimesInv, Times
<1>9. CASE SaveCheckpoint
  <2>1. /\ pc = "save" /\ checkpoint' = win.to /\ pc' \in {"idle", "slice"} /\ UNCHANGED dest
        /\ UNCHANGED faults \/ Fault
    BY <1>9 DEF SaveCheckpoint, Idle
  <2>2. win.to # None
    BY <1>1 DEF TypeOK, None
  <2>3. \A r \in Feed : Ahead(r)' => Ahead(r)
    BY <2>1, <2>2 DEF Ahead, Walking
  <2> QED BY <1>3, <1>8, <2>1, <2>3
<1>10. CASE Break
  BY <1>8, <1>10 DEF Break
<1> QED BY <1>4, <1>5, <1>6, <1>7, <1>9, <1>10 DEF Next, StartRun, NextSlice

\* No reading that came in time, of a meter listed from the start, lies behind
\* the checkpoint without being in the destination itself or, in a paginated job,
\* by another reading of its meter and second, and none is loaded twice but for a
\* slice that was repeated after a failure (run.go, applyDateRangeWindow,
\* runFilteredChunkPaginated, saveRangeCheckpoint): for every feed, with any
\* number of readings to a key, every order of the filter values, every size of
\* chunk, page, batch and step, and any number of breaks at any moment.
THEOREM NoSliceSkipped == Spec => []NothingSkipped
<1>1. Init => SkipInv /\ TimesInv
  <2> SUFFICES ASSUME Init PROVE SkipInv /\ TimesInv
    OBVIOUS
  <2>1. BaseInv
    BY InitBaseInv
  <2>2. checkpoint = None /\ ~Walking
    BY DEF Init, Walking
  <2>3. Times
    BY RangeAssumption DEF Init, Times, Breaks
  <2> QED BY <2>1, <2>2, <2>3 DEF SkipInv, TimesInv, Behind, Gathered
<1>2. SkipInv /\ TimesInv => NothingSkipped
  <2> SUFFICES ASSUME SkipInv, TimesInv PROVE NothingSkipped
    OBVIOUS
  <2>1. source \subseteq Feed
    BY DEF SkipInv, BaseInv, TypeInv, TypeOK
  <2>2. \A r \in source \ Late :
          r.dev \in FirstMeters /\ checkpoint # None /\ InRange(r, job.start, checkpoint)
            => \E q \in StandFor(r) : dest[q] > 0
    BY <2>1 DEF SkipInv, Behind, Due
  <2>3. \A r \in Feed : dest[r] <= 1 + (MaxFaults - faults)
    <3>1. MaxFaults \in Nat /\ faults \in Nat
      BY RangeAssumption DEF SkipInv, BaseInv, TypeInv, TypeOK
    <3> QED BY <3>1 DEF TimesInv, Times, Breaks
  <2> QED BY <2>2, <2>3 DEF NothingSkipped
<1> QED BY <1>1, <1>2, StepSkipInv, StepTimesInv, PTL DEF Spec

==============================================================================
