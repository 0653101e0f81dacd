---------------------------- MODULE EtlLoadProofs ----------------------------
(***************************************************************************)
(* EtlLoad for any number of rows, any batch size, any kind of job and any *)
(* number of runs that break.  What a run has gathered and not committed   *)
(* is one sequence, Pending: reading a row moves the border inside it, a   *)
(* commit cuts the batch off its front, the end of a run empties it.       *)
(***************************************************************************)
EXTENDS EtlLoad, TLAPS, FiniteSetTheorems

Pending == batch \o rows

\* The three ways a step can treat Pending, besides StartRun.
Ended == RunEnds /\ UNCHANGED <<job, source, dest, watermark>>

Committed ==
  /\ pc = "reading"
  /\ batch # <<>>
  /\ ~Rejected(batch)
  /\ dest' = Inserted(batch)
  /\ watermark' = Reached(batch)
  /\ batch' = <<>>
  /\ \/ rows' = rows /\ pc' = pc /\ asked' = asked
     \/ rows' = <<>> /\ pc' = "idle" /\ asked' = {}
  /\ UNCHANGED <<job, source>>

\* What a step does to the tables and to Pending, whatever it does to faults.
LEMMA Steps ==
  [Next]_vars => \/ \E r \in Rows : SourceGrows(r)
                 \/ StartRun
                 \/ ReadRow
                 \/ Committed
                 \/ Ended
                 \/ UNCHANGED vars
<1>1. Flush => Committed \/ Ended
  BY DEF Flush, Committed, Ended, GoesOn, RunEnds
<1>2. Succeed => Ended
  BY DEF Succeed, Ended
<1>3. Break => Ended
  BY DEF Break, Ended
<1> QED BY <1>1, <1>2, <1>3 DEF Next

-----------------------------------------------------------------------------
(* Sequences.                                                              *)

LEMMA SeqOfMore == ASSUME NEW S, NEW T, S \subseteq T, NEW s \in Seq(S) PROVE s \in Seq(T)
OBVIOUS

LEMMA SameSeq ==
  ASSUME NEW S, NEW s \in Seq(S), NEW t \in Seq(S), Len(s) = Len(t),
         \A i \in 1..Len(s) : s[i] = t[i]
  PROVE  s = t
<1>1. s = [i \in 1..Len(s) |-> s[i]] /\ t = [i \in 1..Len(t) |-> t[i]]
  OBVIOUS
<1> QED BY <1>1

LEMMA PendingParts ==
  ASSUME NEW S, batch \in Seq(S), rows \in Seq(S)
  PROVE  /\ Pending \in Seq(S)
         /\ Len(Pending) = Len(batch) + Len(rows)
         /\ \A i \in 1..Len(batch) : Pending[i] = batch[i]
         /\ \A i \in 1..Len(rows) : Pending[Len(batch) + i] = rows[i]
BY DEF Pending

\* Reading a row leaves Pending as it is.
LEMMA ReadKeepsPending ==
  ASSUME NEW S, batch \in Seq(S), rows \in Seq(S), ReadRow
  PROVE  batch' \in Seq(S) /\ rows' \in Seq(S) /\ Pending' = Pending
<1>1. rows # <<>> /\ batch' = Append(batch, Head(rows)) /\ rows' = Tail(rows)
  BY DEF ReadRow
<1>2. batch' \in Seq(S) /\ rows' \in Seq(S)
  BY <1>1
<1>3. /\ Len(batch') = Len(batch) + 1 /\ Len(rows') = Len(rows) - 1
      /\ \A i \in 1..Len(batch) : batch'[i] = batch[i]
      /\ batch'[Len(batch) + 1] = rows[1]
      /\ \A i \in 1..Len(rows') : rows'[i] = rows[i + 1]
  BY <1>1
<1>4. Pending' = batch' \o rows'
  BY DEF Pending
<1>5. /\ Pending' \in Seq(S) /\ Len(Pending') = Len(batch') + Len(rows')
      /\ \A i \in 1..Len(batch') : Pending'[i] = batch'[i]
      /\ \A i \in 1..Len(rows') : Pending'[Len(batch') + i] = rows'[i]
  BY <1>2, <1>4
<1>6. Pending \in Seq(S) /\ Len(Pending') = Len(Pending)
  <2>1. Pending \in Seq(S) /\ Len(Pending) = Len(batch) + Len(rows)
    BY PendingParts
  <2>2. Len(batch) \in Nat /\ Len(rows) \in Nat
    OBVIOUS
  <2> QED BY <2>1, <2>2, <1>3, <1>5
<1>7. ASSUME NEW i \in 1..Len(Pending) PROVE Pending'[i] = Pending[i]
  <2>1. CASE i <= Len(batch)
    BY <1>3, <1>5, <2>1, PendingParts
  <2>2. CASE i = Len(batch) + 1
    <3>1. Pending'[i] = rows[1]
      BY <1>3, <1>5, <2>2
    <3>2. 1 \in 1..Len(rows)
      BY <1>1
    <3> QED BY <3>1, <3>2, <2>2, PendingParts
  <2>3. CASE i > Len(batch) + 1
    <3> DEFINE j == i - (Len(batch) + 1)
    <3>1. j \in 1..Len(rows') /\ i = Len(batch') + j
      BY <1>3, <1>6, <2>3, PendingParts
    <3>2. Pending'[i] = rows[j + 1]
      BY <3>1, <1>3, <1>5
    <3>3. j + 1 \in 1..Len(rows) /\ i = Len(batch) + (j + 1)
      BY <3>1, <1>3
    <3> QED BY <3>2, <3>3, PendingParts
  <2> QED BY <2>1, <2>2, <2>3, <1>6
<1>8. Pending' = Pending
  BY <1>5, <1>6, <1>7, SameSeq
<1> QED BY <1>2, <1>8

\* A query returns every row it selects, once each.
LEMMA ResultsAreComplete ==
  ASSUME NEW R, IsFiniteSet(R), NEW s \in Results(R)
  PROVE  s \in Seq(R) /\ Elements(s) = R
<1> DEFINE n == Cardinality(R)
<1>1. n \in Nat
  BY FS_CardinalityType
<1>2. s \in [1..n -> R] /\ \A i, k \in 1..n : i # k => s[i] # s[k]
  BY DEF Results
<1>3. s \in Injection(1..n, R)
  BY <1>2 DEF Injection, IsInjective
<1>4. Cardinality(1..n) = n
  BY <1>1, FS_Interval
<1>5. s \in Surjection(1..n, R)
  BY <1>3, <1>4, FS_Injection
<1>6. s \in Seq(R) /\ Len(s) = n
  BY <1>1, <1>2
<1>7. \A r \in R : \E i \in 1..n : s[i] = r
  BY <1>5 DEF Surjection
<1> QED BY <1>2, <1>6, <1>7 DEF Elements

-----------------------------------------------------------------------------
(* Types.                                                                  *)

\* The source is finite because it grows a row at a time.
Types == TypeOK /\ IsFiniteSet(source)

LEMMA StartRunTypes ==
  ASSUME Types, StartRun
  PROVE  /\ rows' \in Seq(source) /\ Elements(rows') = Selected
         /\ Selected \subseteq source
<1>1. Selected \subseteq source /\ rows' \in Results(Selected)
  BY DEF StartRun, Selected
<1>2. IsFiniteSet(Selected)
  BY <1>1, FS_Subset DEF Types
<1>3. rows' \in Seq(Selected) /\ Elements(rows') = Selected
  BY <1>1, <1>2, ResultsAreComplete
<1> QED BY <1>1, <1>3, SeqOfMore

LEMMA InsertedTyped == ASSUME TypeOK, NEW b PROVE Inserted(b) \in [Rows -> Nat]
BY DEF TypeOK, Inserted

LEMMA InitTypes == Init => Types
<1> SUFFICES ASSUME Init PROVE Types
  OBVIOUS
<1>1. TypeOK
  BY LoadAssumption DEF Init, TypeOK
<1> QED BY <1>1, FS_EmptySet DEF Types, Init

LEMMA StepTypes == Types /\ [Next]_vars => Types'
<1> SUFFICES ASSUME Types, [Next]_vars PROVE Types'
  OBVIOUS
<1> USE LoadAssumption DEF Types, TypeOK
<1>1. ASSUME NEW r \in Rows, SourceGrows(r) PROVE Types'
  <2>1. source \subseteq source' /\ source' = source \cup {r}
    BY <1>1 DEF SourceGrows
  <2>2. rows' \in Seq(source') /\ batch' \in Seq(source')
    BY <1>1, <2>1, SeqOfMore DEF SourceGrows
  <2>3. IsFiniteSet(source')
    BY <2>1, FS_AddElement
  <2> QED BY <1>1, <2>1, <2>2, <2>3 DEF SourceGrows
<1>2. CASE StartRun
  BY <1>2, StartRunTypes DEF StartRun
<1>3. CASE ReadRow
  <2>1. batch' \in Seq(source) /\ rows' \in Seq(source)
    BY <1>3, ReadKeepsPending
  <2>2. Len(batch') <= BatchSize
    BY <1>3 DEF ReadRow
  <2> QED BY <1>3, <2>1, <2>2 DEF ReadRow
<1>4. CASE Flush
  <2>1. Reached(batch) \in Nat \/ batch = <<>>
    <3>1. CASE batch # <<>>
      <4>1. Len(batch) \in 1..Len(batch)
        BY <3>1
      <4>2. batch[Len(batch)] \in Rows
        BY <4>1
      <4> QED BY <4>2 DEF Reached
    <3> QED BY <3>1
  <2>2. Inserted(batch) \in [Rows -> Nat]
    BY InsertedTyped
  <2>3. dest' \in [Rows -> Nat] /\ watermark' \in Nat
    BY <1>4, <2>1, <2>2 DEF Flush
  <2>4. faults' \in Nat
    BY <1>4 DEF Flush, GoesOn, Fault
  <2>5. /\ rows' \in Seq(source) /\ batch' \in Seq(source) /\ Len(batch') <= BatchSize
        /\ pc' \in {"idle", "reading"} /\ asked' \subseteq source
    <3>1. GoesOn \/ RunEnds
      BY <1>4 DEF Flush
    <3>2. CASE GoesOn
      BY <3>2 DEF GoesOn
    <3>3. CASE RunEnds
      BY <3>3 DEF RunEnds
    <3> QED BY <3>1, <3>2, <3>3
  <2> QED BY <1>4, <2>3, <2>4, <2>5 DEF Flush
<1>5. CASE Succeed
  BY <1>5 DEF Succeed, RunEnds
<1>6. CASE Break
  BY <1>6 DEF Break, RunEnds, Fault
<1>7. CASE UNCHANGED vars
  BY <1>7 DEF vars
<1> QED BY <1>1, <1>2, <1>3, <1>4, <1>5, <1>6, <1>7 DEF Next

LEMMA AlwaysTypes == Spec => []Types
BY InitTypes, StepTypes, PTL DEF Spec

\* The variables keep their types and no batch grows beyond what one INSERT
\* may carry (run.go, runExtractQuery), whatever the size of the tables.
THEOREM LoadTyped == Spec => []TypeOK
<1>1. Types => TypeOK
  BY DEF Types
<1> QED BY <1>1, AlwaysTypes, PTL

-----------------------------------------------------------------------------
(* What holds of every job: rows a run has gathered are distinct, none is  *)
(* behind the watermark or in the destination yet, and whatever the query  *)
(* of the run selected is loaded or still among them.                      *)

OnceEach == \A i, k \in 1..Len(Pending) : i # k => Pending[i] # Pending[k]

InOrder ==
  job.incremental => \A i, k \in 1..Len(Pending) : i < k => Wm[Pending[i]] <= Wm[Pending[k]]

Ahead ==
  job.incremental => \A i \in 1..Len(Pending) : watermark <= Wm[Pending[i]] /\ dest[Pending[i]] = 0

Behind == job.incremental => \A r \in Rows : dest[r] <= 1 /\ (dest[r] = 1 => Wm[r] <= watermark)

Known == \A r \in Rows : dest[r] > 0 => r \in source

Covered == \A r \in asked : r \in Elements(Pending) \/ Loaded(r)

LoadInv == Types /\ OnceEach /\ InOrder /\ Ahead /\ Behind /\ Known /\ Covered

LEMMA RowsOfPending ==
  ASSUME Types
  PROVE  /\ Pending \in Seq(source) /\ Len(Pending) \in Nat
         /\ \A i \in 1..Len(Pending) : Pending[i] \in source /\ Pending[i] \in Rows
<1>1. Pending \in Seq(source)
  BY PendingParts DEF Types, TypeOK
<1>2. source \subseteq Rows
  BY DEF Types, TypeOK
<1> QED BY <1>1, <1>2

\* A commit takes the batch off the front of Pending.
LEMMA CommitCuts ==
  ASSUME Types, Committed
  PROVE  /\ Len(batch) \in Nat \ {0} /\ Len(batch) <= Len(Pending)
         /\ \A i \in 1..Len(batch) : Pending[i] = batch[i] /\ batch[i] \in source
         /\ Elements(batch) = {Pending[i] : i \in 1..Len(batch)}
         /\ Len(Pending') \in Nat
         /\ \A k \in 1..Len(Pending') :
              Len(batch) + k \in 1..Len(Pending) /\ Pending'[k] = Pending[Len(batch) + k]
         /\ asked' # {} \/ pc' = "reading" => Elements(Pending) = Elements(batch) \cup Elements(Pending')
<1> DEFINE n == Len(batch)
<1>1. batch \in Seq(source) /\ rows \in Seq(source)
  BY DEF Types, TypeOK
<1>2. /\ Pending \in Seq(source) /\ Len(Pending) = n + Len(rows)
      /\ \A i \in 1..n : Pending[i] = batch[i]
      /\ \A i \in 1..Len(rows) : Pending[n + i] = rows[i]
  BY <1>1, PendingParts
<1>3. n \in Nat \ {0} /\ Len(rows) \in Nat
  BY <1>1 DEF Committed
<1>4. rows' = <<>> \/ rows' = rows
  BY DEF Committed
<1>5. Pending' = rows'
  <2>1. rows' \in Seq(source)
    <3>1. CASE rows' = <<>>
      BY <3>1
    <3>2. CASE rows' = rows
      BY <3>2, <1>1
    <3> QED BY <3>1, <3>2, <1>4
  <2>2. batch' = <<>>
    BY DEF Committed
  <2>3. Pending' = batch' \o rows'
    BY DEF Pending
  <2> QED BY <2>1, <2>2, <2>3
<1>6. Len(rows') \in Nat /\ \A k \in 1..Len(rows') : k \in 1..Len(rows) /\ rows'[k] = rows[k]
  BY <1>4, <1>1
<1>7. \A k \in 1..Len(Pending') : n + k \in 1..Len(Pending) /\ Pending'[k] = Pending[n + k]
  BY <1>2, <1>3, <1>5, <1>6
<1>8. Elements(batch) = {Pending[i] : i \in 1..n}
  BY <1>2 DEF Elements
<1>9. asked' # {} \/ pc' = "reading" => Elements(Pending) = Elements(batch) \cup Elements(Pending')
  <2> SUFFICES ASSUME asked' # {} \/ pc' = "reading"
               PROVE  Elements(Pending) = Elements(batch) \cup Elements(rows)
    BY <1>5 DEF Committed
  <2>1. \A i \in 1..Len(Pending) : i \in 1..n \/ (i - n \in 1..Len(rows) /\ i = n + (i - n))
    BY <1>2, <1>3
  <2>2. Elements(Pending) \subseteq Elements(batch) \cup Elements(rows)
    <3> SUFFICES ASSUME NEW i \in 1..Len(Pending)
                 PROVE  Pending[i] \in Elements(batch) \cup Elements(rows)
      BY DEF Elements
    <3>1. CASE i \in 1..n
      BY <3>1, <1>2 DEF Elements
    <3>2. CASE i - n \in 1..Len(rows) /\ i = n + (i - n)
      <4>1. Pending[i] = rows[i - n]
        BY <3>2, <1>2
      <4> QED BY <3>2, <4>1 DEF Elements
    <3> QED BY <2>1, <3>1, <3>2
  <2>3. \A i \in 1..n : i \in 1..Len(Pending)
    BY <1>2, <1>3
  <2>4. \A i \in 1..Len(rows) : n + i \in 1..Len(Pending)
    BY <1>2, <1>3
  <2>5. Elements(batch) \subseteq Elements(Pending)
    BY <2>3, <1>2 DEF Elements
  <2>6. Elements(rows) \subseteq Elements(Pending)
    BY <2>4, <1>2 DEF Elements
  <2> QED BY <2>2, <2>5, <2>6
<1> QED BY <1>1, <1>2, <1>3, <1>5, <1>6, <1>7, <1>8, <1>9

\* What buildInsertSQL does to a row of the batch and to any other row.
LEMMA InsertedRows ==
  ASSUME TypeOK, NEW b, NEW r \in Rows
  PROVE  /\ r \in Elements(b) => Inserted(b)[r] > 0 /\ (job.upsert \/ dest[r] = 0 => Inserted(b)[r] = 1)
         /\ r \notin Elements(b) => Inserted(b)[r] \in {0, dest[r]}
         /\ r \notin Elements(b) /\ Inserted(b)[r] # dest[r]
              => job.upsert /\ \E q \in Elements(b) : Key[q] = Key[r]
         /\ r \notin Elements(b) /\ job.upsert /\ (\E q \in Elements(b) : Key[q] = Key[r])
              => Inserted(b)[r] = 0
<1>1. dest[r] \in Nat
  BY DEF TypeOK
<1>2. Inserted(b)[r] =
        IF r \in Elements(b) THEN (IF job.upsert THEN 1 ELSE dest[r] + 1)
        ELSE IF job.upsert /\ Key[r] \in {Key[q] : q \in Elements(b)} THEN 0 ELSE dest[r]
  BY DEF Inserted
<1> QED BY <1>1, <1>2

\* A commit loads its batch, and an older version it replaces is still
\* accounted for, because the batch is not behind the watermark.
LEMMA CommitLoads ==
  ASSUME LoadInv, Committed
  PROVE  /\ \A r \in Elements(batch) : dest'[r] > 0 /\ r \in source
         /\ \A r \in source : Loaded(r) => Loaded(r)'
<1>1. Elements(batch) \subseteq source /\ source \subseteq Rows
  BY CommitCuts DEF LoadInv, Types, TypeOK, Elements
<1>2. TypeOK /\ dest' = Inserted(batch) /\ job' = job /\ source' = source
  BY DEF LoadInv, Types, Committed
<1>3. \A r \in Elements(batch) : dest'[r] > 0 /\ r \in source
  BY <1>1, <1>2, InsertedRows
<1>4. job.incremental =>
        \A b \in Elements(batch), q \in Rows : dest[q] > 0 => Wm[q] <= Wm[b]
  <2> SUFFICES ASSUME job.incremental, NEW b \in Elements(batch), NEW q \in Rows, dest[q] > 0
               PROVE  Wm[q] <= Wm[b]
    OBVIOUS
  <2>1. Wm[q] <= watermark
    <3>1. dest[q] \in Nat /\ dest[q] <= 1
      BY <1>2 DEF TypeOK, LoadInv, Behind
    <3> QED BY <3>1 DEF LoadInv, Behind
  <2>2. PICK i \in 1..Len(batch) : b = Pending[i]
    BY CommitCuts DEF LoadInv
  <2>3. i \in 1..Len(Pending)
    BY <2>2, CommitCuts, RowsOfPending DEF LoadInv
  <2>4. watermark <= Wm[b]
    BY <2>2, <2>3 DEF LoadInv, Ahead
  <2>5. Wm[q] \in Nat /\ Wm[b] \in Nat /\ watermark \in Nat
    BY <1>1, <1>2, LoadAssumption DEF TypeOK
  <2> QED BY <2>1, <2>4, <2>5
<1>5. ASSUME NEW r \in source, Loaded(r) PROVE Loaded(r)'
  <2>1. CASE dest'[r] > 0
    BY <2>1 DEF Loaded
  <2>2. PICK q \in source : /\ dest[q] > 0
                            /\ q = r \/ (job.upsert /\ Key[q] = Key[r])
                            /\ job.incremental => Wm[q] >= Wm[r]
    <3>1. Wm[r] \in Nat
      BY <1>1, LoadAssumption
    <3> QED BY <1>5, <3>1 DEF Loaded
  <2>3. CASE dest'[q] > 0
    BY <1>2, <2>1, <2>2, <2>3 DEF Loaded
  <2>4. CASE ~(dest'[q] > 0)
    <3>1. q \in Rows /\ dest'[q] # dest[q]
      BY <1>1, <2>2, <2>4
    <3>2. job.upsert /\ \E b \in Elements(batch) : Key[b] = Key[q]
      BY <1>2, <1>3, <2>4, <3>1, InsertedRows
    <3>3. PICK b \in Elements(batch) : Key[b] = Key[q]
      BY <3>2
    <3>4. b \in source /\ dest'[b] > 0 /\ Key[b] = Key[r]
      BY <1>3, <3>3, <2>2
    <3>5. job.incremental => Wm[b] >= Wm[r]
      <4>1. Wm[b] \in Nat /\ Wm[q] \in Nat /\ Wm[r] \in Nat
        BY <1>1, LoadAssumption
      <4> QED BY <1>4, <2>2, <3>1, <3>3, <4>1
    <3> QED BY <1>2, <3>2, <3>4, <3>5 DEF Loaded
  <2> QED BY <2>3, <2>4
<1> QED BY <1>3, <1>5

\* The watermark a commit saves is the value of the last row of its batch.
LEMMA CommitReaches ==
  ASSUME LoadInv, Committed, job.incremental
  PROVE  /\ watermark' = Wm[Pending[Len(batch)]] /\ watermark' \in Nat
         /\ watermark <= watermark'
         /\ \A r \in Elements(batch) : Wm[r] <= watermark' /\ watermark <= Wm[r] /\ dest[r] = 0
<1> DEFINE n == Len(batch)
<1>1. n \in Nat \ {0} /\ n <= Len(Pending) /\ Len(Pending) \in Nat /\ Pending[n] = batch[n]
  BY CommitCuts, RowsOfPending DEF LoadInv
<1>2. watermark' = Wm[Pending[n]]
  BY <1>1 DEF Committed, Reached
<1>3. \A i \in 1..n : i \in 1..Len(Pending) /\ Pending[i] \in Rows /\ Wm[Pending[i]] \in Nat
  BY <1>1, RowsOfPending, LoadAssumption DEF LoadInv
<1>4. \A i \in 1..n : watermark <= Wm[Pending[i]] /\ dest[Pending[i]] = 0
  BY <1>3 DEF LoadInv, Ahead
<1>5. \A i \in 1..n : Wm[Pending[i]] <= watermark'
  <2> SUFFICES ASSUME NEW i \in 1..n PROVE Wm[Pending[i]] <= Wm[Pending[n]]
    BY <1>2
  <2>1. CASE i = n
    BY <2>1, <1>1, <1>3
  <2>2. CASE i < n
    <3>1. n \in 1..Len(Pending)
      BY <1>1
    <3> QED BY <2>2, <3>1, <1>3 DEF LoadInv, InOrder
  <2> QED BY <2>1, <2>2, <1>1
<1>6. n \in 1..n
  BY <1>1
<1>7. Elements(batch) = {Pending[i] : i \in 1..n}
  BY CommitCuts DEF LoadInv
<1> QED BY <1>2, <1>3, <1>4, <1>5, <1>6, <1>7

\* Rows that stay in Pending after a commit are not in its batch.
LEMMA CommitLeaves ==
  ASSUME LoadInv, Committed, NEW k \in 1..Len(Pending')
  PROVE  Pending'[k] \notin Elements(batch)
<1>1. /\ Len(batch) \in Nat /\ Len(batch) <= Len(Pending) /\ Len(Pending) \in Nat
      /\ Len(Pending') \in Nat
      /\ Len(batch) + k \in 1..Len(Pending) /\ Pending'[k] = Pending[Len(batch) + k]
      /\ Elements(batch) = {Pending[i] : i \in 1..Len(batch)}
  BY CommitCuts, RowsOfPending DEF LoadInv
<1>2. \A i \in 1..Len(batch) : i \in 1..Len(Pending) /\ i # Len(batch) + k
  BY <1>1
<1> QED BY <1>1, <1>2 DEF LoadInv, OnceEach

LEMMA CommitLoadInv ==
  ASSUME LoadInv, Committed, Types'
  PROVE  LoadInv'
<1> DEFINE n == Len(batch)
<1>1. /\ n \in Nat \ {0} /\ n <= Len(Pending) /\ Len(Pending) \in Nat /\ Len(Pending') \in Nat
      /\ \A k \in 1..Len(Pending') : n + k \in 1..Len(Pending) /\ Pending'[k] = Pending[n + k]
  BY CommitCuts, RowsOfPending DEF LoadInv
<1>2. /\ TypeOK /\ source \subseteq Rows /\ source' = source /\ job' = job
      /\ dest' = Inserted(batch)
  BY DEF LoadInv, Types, TypeOK, Committed
<1>3. OnceEach'
  <2>1. \A i, k \in 1..Len(Pending') : i # k => n + i # n + k
    BY <1>1
  <2> QED BY <1>1, <2>1 DEF LoadInv, OnceEach
<1>4. InOrder'
  <2>1. \A i, k \in 1..Len(Pending') : i < k => n + i < n + k
    BY <1>1
  <2> QED BY <1>1, <1>2, <2>1 DEF LoadInv, InOrder
<1>5. Ahead'
  <2> SUFFICES ASSUME job.incremental, NEW k \in 1..Len(Pending')
               PROVE  watermark' <= Wm[Pending'[k]] /\ dest'[Pending'[k]] = 0
    BY <1>2 DEF Ahead
  <2>1. n \in 1..Len(Pending) /\ n < n + k
    BY <1>1
  <2>2. watermark' <= Wm[Pending'[k]]
    BY <2>1, <1>1, CommitReaches DEF LoadInv, InOrder
  <2>3. Pending'[k] \in Rows /\ dest[Pending'[k]] = 0
    BY <1>1, RowsOfPending DEF LoadInv, Ahead
  <2>4. dest'[Pending'[k]] \in {0, dest[Pending'[k]]}
    BY <1>2, <2>3, CommitLeaves, InsertedRows
  <2> QED BY <2>2, <2>3, <2>4
<1>6. Behind'
  <2> SUFFICES ASSUME job.incremental, NEW r \in Rows
               PROVE  dest'[r] <= 1 /\ (dest'[r] = 1 => Wm[r] <= watermark')
    BY <1>2 DEF Behind
  <2>1. CASE r \in Elements(batch)
    BY <2>1, <1>2, CommitReaches, InsertedRows
  <2>2. CASE r \notin Elements(batch)
    <3>1. dest'[r] \in {0, dest[r]}
      BY <1>2, <2>2, InsertedRows
    <3>2. dest[r] <= 1 /\ (dest[r] = 1 => Wm[r] <= watermark)
      BY DEF LoadInv, Behind
    <3>3. Wm[r] \in Nat /\ watermark \in Nat /\ watermark' \in Nat /\ watermark <= watermark'
      BY <1>2, LoadAssumption, CommitReaches DEF TypeOK
    <3> QED BY <3>1, <3>2, <3>3
  <2> QED BY <2>1, <2>2
<1>7. Known'
  <2> SUFFICES ASSUME NEW r \in Rows, dest'[r] > 0 PROVE r \in source
    BY <1>2 DEF Known
  <2>1. CASE r \in Elements(batch)
    BY <2>1, CommitLoads
  <2>2. CASE r \notin Elements(batch)
    <3>1. dest'[r] = dest[r]
      BY <1>2, <2>2, InsertedRows
    <3> QED BY <3>1 DEF LoadInv, Known
  <2> QED BY <2>1, <2>2
<1>8. Covered'
  <2> SUFFICES ASSUME NEW r \in asked' PROVE r \in Elements(Pending') \/ Loaded(r)'
    <3>1. Covered' <=> \A r \in asked' : r \in Elements(Pending)' \/ Loaded(r)'
      BY DEF Covered
    <3> QED BY <3>1 DEF Elements
  <2>1. asked' = asked /\ r \in source
    BY DEF Committed, LoadInv, Types, TypeOK
  <2>2. r \in Elements(batch) \cup Elements(Pending') \/ Loaded(r)
    BY <2>1, CommitCuts DEF LoadInv, Covered
  <2>3. r \in Elements(batch) => Loaded(r)'
    BY CommitLoads DEF Loaded
  <2> QED BY <2>1, <2>2, <2>3, CommitLoads
<1> QED BY <1>3, <1>4, <1>5, <1>6, <1>7, <1>8 DEF LoadInv

\* A run starts with what is selected, in order, and nothing gathered.
LEMMA StartPending ==
  ASSUME Types, StartRun
  PROVE  /\ Pending' = rows' /\ Elements(Pending') = Selected
         /\ \A i \in 1..Len(Pending') : Pending'[i] \in Selected
         /\ \A i, k \in 1..Len(Pending') : i # k => Pending'[i] # Pending'[k]
         /\ job.incremental =>
              \A i, k \in 1..Len(Pending') : i < k => Wm[Pending'[i]] <= Wm[Pending'[k]]
<1>1. rows' \in Seq(source) /\ Elements(rows') = Selected
  BY StartRunTypes
<1>2. Pending' = rows'
  <2>1. batch' = <<>> /\ Pending' = batch' \o rows'
    BY DEF StartRun, Pending
  <2> QED BY <1>1, <2>1
<1>3. /\ \A i, k \in DOMAIN rows' : i # k => rows'[i] # rows'[k]
      /\ job.incremental => \A i, k \in DOMAIN rows' : i < k => Wm[rows'[i]] <= Wm[rows'[k]]
  BY DEF StartRun, Results
<1>4. DOMAIN rows' = 1..Len(rows')
  BY <1>1
<1>5. \A i \in 1..Len(rows') : rows'[i] \in Selected
  BY <1>1 DEF Elements
<1> QED BY <1>1, <1>2, <1>3, <1>4, <1>5

LEMMA StartLoadInv ==
  ASSUME LoadInv, StartRun, Types'
  PROVE  LoadInv'
<1>1. Types /\ source \subseteq Rows
  BY DEF LoadInv, Types, TypeOK
<1>2. job' = job /\ source' = source /\ dest' = dest /\ watermark' = watermark /\ asked' = Selected
  BY DEF StartRun
<1>3. OnceEach' /\ InOrder'
  BY <1>1, <1>2, StartPending DEF OnceEach, InOrder
<1>4. Ahead'
  <2> SUFFICES ASSUME job.incremental, NEW i \in 1..Len(Pending')
               PROVE  watermark <= Wm[Pending'[i]] /\ dest[Pending'[i]] = 0
    BY <1>2 DEF Ahead
  <2> DEFINE r == Pending'[i]
  <2>1. r \in source /\ r \in Rows /\ Wm[r] > watermark
    BY <1>1, StartPending DEF Selected
  <2>2. dest[r] \in Nat /\ dest[r] <= 1 /\ (dest[r] = 1 => Wm[r] <= watermark)
    BY <2>1, <1>1 DEF LoadInv, Behind, Types, TypeOK
  <2>3. Wm[r] \in Nat /\ watermark \in Nat
    BY <2>1, <1>1, LoadAssumption DEF Types, TypeOK
  <2> QED BY <2>1, <2>2, <2>3
<1>5. Behind' /\ Known'
  BY <1>2 DEF LoadInv, Behind, Known
<1>6. Covered'
  <2>1. Covered' <=> \A r \in asked' : r \in Elements(Pending)' \/ Loaded(r)'
    BY DEF Covered
  <2>2. Elements(Pending)' = Elements(Pending')
    BY DEF Elements
  <2> QED BY <1>1, <1>2, <2>1, <2>2, StartPending
<1> QED BY <1>3, <1>4, <1>5, <1>6 DEF LoadInv

LEMMA GrowLoadInv ==
  ASSUME LoadInv, NEW r \in Rows, SourceGrows(r), Types'
  PROVE  LoadInv'
<1>1. /\ job' = job /\ dest' = dest /\ watermark' = watermark /\ asked' = asked
      /\ Pending' = Pending /\ source \subseteq source'
  BY DEF SourceGrows, Pending
<1>2. OnceEach' /\ InOrder' /\ Ahead' /\ Behind' /\ Known'
  BY <1>1 DEF LoadInv, OnceEach, InOrder, Ahead, Behind, Known
<1>3. \A q : Loaded(q) => Loaded(q)'
  BY <1>1 DEF Loaded
<1>4. Covered'
  BY <1>1, <1>3 DEF LoadInv, Covered, Elements
<1> QED BY <1>2, <1>4 DEF LoadInv

\* A step that leaves the tables alone and Pending as it is, or empties it.
LEMMA QuietLoadInv ==
  ASSUME LoadInv, Types', UNCHANGED <<job, source, dest, watermark>>,
         (Pending' = Pending /\ asked' = asked) \/ (Pending' = <<>> /\ asked' = {})
  PROVE  LoadInv'
<1>1. \A r : Loaded(r)' <=> Loaded(r)
  BY DEF Loaded
<1>2. Behind' /\ Known'
  BY DEF LoadInv, Behind, Known
<1>3. CASE Pending' = Pending /\ asked' = asked
  BY <1>1, <1>2, <1>3 DEF LoadInv, OnceEach, InOrder, Ahead, Covered, Elements
<1>4. CASE Pending' = <<>> /\ asked' = {}
  <2>1. 1..Len(Pending') = {}
    BY <1>4
  <2> QED BY <1>2, <1>4, <2>1 DEF LoadInv, OnceEach, InOrder, Ahead, Covered
<1> QED BY <1>3, <1>4

LEMMA InitLoadInv == Init => LoadInv
<1> SUFFICES ASSUME Init PROVE LoadInv
  OBVIOUS
<1>1. Pending = <<>> /\ asked = {} /\ \A r \in Rows : dest[r] = 0
  BY DEF Init, Pending
<1>2. 1..Len(Pending) = {}
  BY <1>1
<1> QED BY <1>1, <1>2, InitTypes DEF LoadInv, OnceEach, InOrder, Ahead, Behind, Known, Covered

LEMMA QuietSteps ==
  ASSUME Types, ReadRow \/ Ended \/ UNCHANGED vars
  PROVE  /\ UNCHANGED <<job, source, dest, watermark>>
         /\ (Pending' = Pending /\ asked' = asked /\ pc' = pc)
              \/ (Pending' = <<>> /\ asked' = {} /\ pc' = "idle")
<1>1. CASE ReadRow
  <2>1. Pending' = Pending
    BY <1>1, ReadKeepsPending DEF Types, TypeOK
  <2> QED BY <1>1, <2>1 DEF ReadRow
<1>2. CASE Ended
  BY <1>2 DEF Ended, RunEnds, Pending
<1>3. CASE UNCHANGED vars
  BY <1>3 DEF vars, Pending
<1> QED BY <1>1, <1>2, <1>3

LEMMA StepLoadInv == LoadInv /\ [Next]_vars => LoadInv'
<1> SUFFICES ASSUME LoadInv, [Next]_vars PROVE LoadInv'
  OBVIOUS
<1>1. Types /\ Types'
  BY StepTypes DEF LoadInv
<1>2. CASE ReadRow \/ Ended \/ UNCHANGED vars
  BY <1>1, <1>2, QuietSteps, QuietLoadInv
<1> QED BY <1>1, <1>2, Steps, GrowLoadInv, StartLoadInv, CommitLoadInv

LEMMA AlwaysLoadInv == Spec => []LoadInv
BY InitLoadInv, StepLoadInv, PTL DEF Spec

\* Whichever kind of job and whatever values its rows share: a run that reports
\* success (runExtractQuery returns no error) has loaded all its query selected.
THEOREM SuccessIsAlwaysComplete == Spec => SuccessIsComplete
<1>1. LoadInv /\ [Next]_vars => [Succeed => \A r \in asked : Loaded(r)]_vars
  <2> SUFFICES ASSUME LoadInv, Succeed, NEW r \in asked PROVE Loaded(r)
    OBVIOUS
  <2>1. Pending = <<>>
    BY DEF Succeed, Pending
  <2>2. Elements(Pending) = {}
    BY <2>1 DEF Elements
  <2> QED BY <2>2 DEF LoadInv, Covered
<1>2. Spec => [][Succeed => \A r \in asked : Loaded(r)]_vars
  BY <1>1, AlwaysLoadInv, PTL DEF Spec
<1> QED BY <1>2 DEF SuccessIsComplete

-----------------------------------------------------------------------------
(* What holds of an incremental job when no two rows share a watermark     *)
(* value.  It does not hold otherwise: a run may break between two such    *)
(* rows, once the batch of the first is committed.                         *)

OwnValues == \A q, r \in Rows : Wm[q] = Wm[r] => q = r

Beyond == job.incremental => \A i \in 1..Len(Pending) : watermark < Wm[Pending[i]]

\* A run still holds every row beyond the watermark but those that came since.
Whole ==
  job.incremental /\ pc = "reading" =>
    \A r \in source : watermark < Wm[r] =>
      r \in Elements(Pending) \/ \A i \in 1..Len(Pending) : Wm[Pending[i]] < Wm[r]

NewestWins ==
  job.incremental /\ job.upsert => \A q, r \in source :
    Key[q] = Key[r] /\ Wm[q] < Wm[r] /\ Wm[r] <= watermark => dest[q] = 0

\* The saved watermark is the default or some row's.
Saved == job.incremental => watermark = 0 \/ \E q \in source : Wm[q] = watermark

LogInv == LoadInv /\ Beyond /\ Whole /\ NothingSkipped /\ NewestWins /\ Saved

LEMMA InitLogInv == Init => LogInv
<1> SUFFICES ASSUME Init PROVE LogInv
  OBVIOUS
<1>1. Pending = <<>> /\ source = {} /\ watermark = 0 /\ pc = "idle"
  BY DEF Init, Pending
<1>2. 1..Len(Pending) = {}
  BY <1>1
<1> QED BY <1>1, <1>2, InitLoadInv DEF LogInv, Beyond, Whole, NothingSkipped, NewestWins, Saved

\* A row that reaches the source is beyond the watermark and all other rows.
LEMMA GrowsBeyond ==
  ASSUME OwnValues, Types, Saved, job.incremental, NEW r \in Rows, SourceGrows(r)
  PROVE  watermark < Wm[r] /\ \A q \in source : Wm[q] < Wm[r]
<1>1. source \subseteq Rows /\ watermark \in Nat
  BY DEF Types, TypeOK
<1>2. \A q \in source : Wm[q] <= Wm[r] /\ q # r
  BY DEF SourceGrows
<1>3. \A q \in Rows : Wm[q] \in Nat \ {0}
  BY LoadAssumption
<1>4. \A q \in source : Wm[q] < Wm[r]
  BY <1>1, <1>2, <1>3 DEF OwnValues
<1>5. watermark < Wm[r]
  BY <1>1, <1>3, <1>4 DEF Saved
<1> QED BY <1>4, <1>5

LEMMA GrowLogInv ==
  ASSUME OwnValues, LogInv, LoadInv', NEW r \in Rows, SourceGrows(r)
  PROVE  LogInv'
<1>1. /\ job' = job /\ dest' = dest /\ watermark' = watermark /\ pc' = pc
      /\ Pending' = Pending /\ source' = source \cup {r} /\ source \subseteq Rows
  BY DEF SourceGrows, Pending, LogInv, LoadInv, Types, TypeOK
<1>2. job.incremental => watermark < Wm[r] /\ \A q \in source : Wm[q] < Wm[r]
  BY GrowsBeyond DEF LogInv, LoadInv
<1>3. \A q \in Rows : Wm[q] \in Nat /\ watermark \in Nat
  BY LoadAssumption DEF LogInv, LoadInv, Types, TypeOK
<1>4. \A i \in 1..Len(Pending) : Pending[i] \in source
  BY RowsOfPending DEF LogInv, LoadInv
<1>5. Beyond' /\ Saved'
  BY <1>1 DEF LogInv, Beyond, Saved
<1>6. Whole'
  BY <1>1, <1>2, <1>4 DEF LogInv, Whole, Elements
<1>7. NothingSkipped'
  <2>1. \A q : Loaded(q) => Loaded(q)'
    BY <1>1 DEF Loaded
  <2>2. job.incremental => ~(Wm[r] <= watermark)
    BY <1>2, <1>3
  <2> QED BY <1>1, <2>1, <2>2 DEF LogInv, NothingSkipped
<1>8. NewestWins'
  <2>1. dest[r] = 0
    <3>1. r \notin source /\ dest[r] \in Nat
      BY DEF SourceGrows, LogInv, LoadInv, Types, TypeOK
    <3> QED BY <3>1 DEF LogInv, LoadInv, Known
  <2>2. job.incremental => ~(Wm[r] <= watermark)
    BY <1>2, <1>3
  <2> QED BY <1>1, <2>1, <2>2 DEF LogInv, NewestWins
<1> QED BY <1>5, <1>6, <1>7, <1>8 DEF LogInv

LEMMA StartLogInv ==
  ASSUME LogInv, LoadInv', StartRun
  PROVE  LogInv'
<1>1. /\ job' = job /\ source' = source /\ dest' = dest /\ watermark' = watermark
  BY DEF StartRun
<1>2. Types
  BY DEF LogInv, LoadInv
<1>3. /\ Elements(Pending') = Selected
      /\ \A i \in 1..Len(Pending') : Pending'[i] \in Selected
  BY <1>2, StartPending
<1>4. job.incremental => Selected = {r \in source : Wm[r] > watermark}
  BY DEF Selected
<1>5. \A q \in source : Wm[q] \in Nat /\ watermark \in Nat
  BY <1>2, LoadAssumption DEF Types, TypeOK
<1>6. Beyond'
  BY <1>1, <1>3, <1>4, <1>5 DEF Beyond
<1>7. Whole'
  <2>1. Elements(Pending)' = Elements(Pending')
    BY DEF Elements
  <2> QED BY <1>1, <1>3, <1>4, <1>5, <2>1 DEF Whole
<1>8. NothingSkipped' /\ NewestWins' /\ Saved'
  BY <1>1 DEF LogInv, NothingSkipped, Loaded, NewestWins, Saved
<1> QED BY <1>6, <1>7, <1>8 DEF LogInv

LEMMA QuietLogInv ==
  ASSUME LogInv, LoadInv', UNCHANGED <<job, source, dest, watermark>>,
         (Pending' = Pending /\ pc' = pc) \/ (Pending' = <<>> /\ pc' = "idle")
  PROVE  LogInv'
<1>1. NothingSkipped' /\ NewestWins' /\ Saved'
  BY DEF LogInv, NothingSkipped, Loaded, NewestWins, Saved
<1>2. CASE Pending' = Pending /\ pc' = pc
  BY <1>1, <1>2 DEF LogInv, Beyond, Whole, Elements
<1>3. CASE Pending' = <<>> /\ pc' = "idle"
  <2>1. 1..Len(Pending') = {}
    BY <1>3
  <2> QED BY <1>1, <1>3, <2>1 DEF LogInv, Beyond, Whole
<1> QED BY <1>2, <1>3

\* The rows between the old watermark and the new one are those of the batch.
LEMMA BatchIsNext ==
  ASSUME OwnValues, LogInv, Committed, job.incremental
  PROVE  /\ watermark < watermark' /\ \E q \in source : Wm[q] = watermark'
         /\ \A r \in Elements(batch) : watermark < Wm[r] /\ Wm[r] <= watermark'
         /\ \A r \in source : watermark < Wm[r] /\ Wm[r] <= watermark' => r \in Elements(batch)
         /\ \A k \in 1..Len(Pending') : watermark' < Wm[Pending'[k]]
<1> DEFINE n == Len(batch)
<1>1. LoadInv /\ Types /\ OnceEach /\ InOrder
  BY DEF LogInv, LoadInv
<1>2. /\ n \in Nat \ {0} /\ n <= Len(Pending) /\ Len(Pending) \in Nat /\ Len(Pending') \in Nat
      /\ Elements(batch) = {Pending[i] : i \in 1..n}
      /\ \A k \in 1..Len(Pending') : n + k \in 1..Len(Pending) /\ Pending'[k] = Pending[n + k]
  BY <1>1, CommitCuts, RowsOfPending
<1>3. \A i \in 1..Len(Pending) : /\ Pending[i] \in source /\ Pending[i] \in Rows
                                 /\ Wm[Pending[i]] \in Nat /\ watermark < Wm[Pending[i]]
  BY <1>1, RowsOfPending, LoadAssumption DEF LogInv, Beyond
<1>4. watermark' = Wm[Pending[n]] /\ \A r \in Elements(batch) : Wm[r] <= watermark'
  BY <1>1, CommitReaches
<1>5. n \in 1..Len(Pending) /\ \A i \in 1..n : i \in 1..Len(Pending)
  BY <1>2
<1>6. \A i \in 1..Len(Pending) : n < i => watermark' < Wm[Pending[i]]
  <2> SUFFICES ASSUME NEW i \in 1..Len(Pending), n < i PROVE Wm[Pending[n]] < Wm[Pending[i]]
    BY <1>4
  <2>1. Pending[n] # Pending[i] /\ Wm[Pending[n]] <= Wm[Pending[i]]
    BY <1>1, <1>2, <1>5 DEF OnceEach, InOrder
  <2> QED BY <2>1, <1>3, <1>5 DEF OwnValues
<1>7. ASSUME NEW r \in source, watermark < Wm[r], Wm[r] <= watermark' PROVE r \in Elements(batch)
  <2>1. Wm[r] \in Nat
    BY <1>1, LoadAssumption DEF Types, TypeOK
  <2>2. ~(Wm[Pending[n]] < Wm[r])
    BY <1>3, <1>4, <1>5, <1>7, <2>1
  <2>3. r \in Elements(Pending)
    BY <1>5, <1>7, <2>2 DEF LogInv, Whole, Committed
  <2>4. PICK i \in 1..Len(Pending) : r = Pending[i]
    BY <2>3 DEF Elements
  <2>5. ~(n < i)
    BY <1>3, <1>4, <1>5, <1>6, <1>7, <2>4
  <2> QED BY <1>2, <2>4, <2>5
<1>8. ASSUME NEW k \in 1..Len(Pending') PROVE watermark' < Wm[Pending'[k]]
  <2>1. n + k \in 1..Len(Pending) /\ n < n + k /\ Pending'[k] = Pending[n + k]
    BY <1>2
  <2> QED BY <1>6, <2>1
<1> QED BY <1>2, <1>3, <1>4, <1>5, <1>7, <1>8

LEMMA CommitLogInv ==
  ASSUME OwnValues, LogInv, Committed, LoadInv'
  PROVE  LogInv'
<1>1. /\ LoadInv /\ Types /\ TypeOK /\ source \subseteq Rows /\ source' = source /\ job' = job
      /\ dest' = Inserted(batch) /\ ~Rejected(batch)
  BY DEF LogInv, LoadInv, Types, TypeOK, Committed
<1>2. Beyond'
  BY <1>1, BatchIsNext DEF Beyond
<1>3. Saved'
  BY <1>1, BatchIsNext DEF Saved
<1>4. \A r \in Rows : Wm[r] \in Nat /\ watermark \in Nat
  BY <1>1, LoadAssumption DEF TypeOK
<1>5. job.incremental => watermark' \in Nat
  BY <1>1, CommitReaches
<1>6. Whole'
  <2> SUFFICES ASSUME job.incremental, pc' = "reading", NEW r \in source, watermark' < Wm[r],
                      r \notin Elements(Pending')
               PROVE  \A k \in 1..Len(Pending') : Wm[Pending'[k]] < Wm[r]
    <3>1. Elements(Pending)' = Elements(Pending')
      BY DEF Elements
    <3> QED BY <1>1, <3>1 DEF Whole
  <2>1. watermark < Wm[r] /\ r \notin Elements(batch)
    BY <1>1, <1>4, <1>5, BatchIsNext
  <2>2. r \notin Elements(Pending)
    BY <1>1, <2>1, CommitCuts
  <2>3. \A i \in 1..Len(Pending) : Wm[Pending[i]] < Wm[r]
    BY <2>1, <2>2 DEF LogInv, Whole, Committed
  <2> QED BY <1>1, <2>3, CommitCuts
<1>7. NothingSkipped'
  <2> SUFFICES ASSUME job.incremental, NEW r \in source, Wm[r] <= watermark' PROVE Loaded(r)'
    BY <1>1 DEF NothingSkipped
  <2>1. CASE Wm[r] <= watermark
    BY <1>1, <2>1, CommitLoads DEF LogInv, NothingSkipped
  <2>2. CASE watermark < Wm[r]
    <3>1. dest'[r] > 0
      BY <1>1, <2>2, BatchIsNext, CommitLoads
    <3> QED BY <3>1 DEF Loaded
  <2> QED BY <1>1, <1>4, <2>1, <2>2
<1>8. NewestWins'
  <2> SUFFICES ASSUME job.incremental, job.upsert, NEW q \in source, NEW r \in source,
                      Key[q] = Key[r], Wm[q] < Wm[r], Wm[r] <= watermark'
               PROVE  dest'[q] = 0
    BY <1>1 DEF NewestWins
  <2>1. CASE Wm[r] <= watermark
    <3>1. dest[q] = 0
      BY <2>1 DEF LogInv, NewestWins
    <3>2. q \notin Elements(batch)
      BY <1>1, <1>4, <2>1, BatchIsNext
    <3> QED BY <1>1, <3>1, <3>2, InsertedRows
  <2>2. CASE watermark < Wm[r]
    <3>1. r \in Elements(batch)
      BY <2>2, BatchIsNext
    <3>2. q \notin Elements(batch)
      <4> SUFFICES ASSUME q \in Elements(batch) PROVE FALSE
        OBVIOUS
      <4>1. PICK i \in 1..Len(batch), k \in 1..Len(batch) : q = batch[i] /\ r = batch[k]
        BY <3>1 DEF Elements
      <4>2. DOMAIN batch = 1..Len(batch)
        BY <1>1 DEF TypeOK
      <4>3. i # k
        BY <1>1, <1>4, <4>1
      <4> QED BY <1>1, <4>1, <4>2, <4>3 DEF Rejected
    <3> QED BY <1>1, <3>1, <3>2, InsertedRows
  <2> QED BY <1>1, <1>4, <2>1, <2>2
<1> QED BY <1>2, <1>3, <1>6, <1>7, <1>8 DEF LogInv

LEMMA StepLogInv == ASSUME OwnValues PROVE LogInv /\ [Next]_vars => LogInv'
<1> SUFFICES ASSUME LogInv, [Next]_vars PROVE LogInv'
  OBVIOUS
<1>1. LoadInv /\ Types /\ LoadInv'
  BY StepLoadInv DEF LogInv, LoadInv
<1>2. CASE ReadRow \/ Ended \/ UNCHANGED vars
  BY <1>1, <1>2, QuietSteps, QuietLogInv
<1> QED BY <1>1, <1>2, Steps, GrowLogInv, StartLogInv, CommitLogInv

LEMMA AlwaysLogInv == ASSUME OwnValues PROVE Spec => []LogInv
<1>1. LogInv /\ [Next]_vars => LogInv'
  BY StepLogInv
<1> QED BY <1>1, InitLogInv, PTL DEF Spec

\* For rows with watermark values of their own: what loadBatch committed is
\* never loaded again, not even after a lost answer, and of the rows with one
\* key an upserting job keeps the latest up to the watermark.
THEOREM LoadedOnceEach == ASSUME OwnValues PROVE Spec => []LoadedOnce
<1>1. LogInv => LoadedOnce
  BY DEF LogInv, LoadInv, Behind, NewestWins, LoadedOnce
<1>2. Spec => []LogInv
  BY AlwaysLogInv
<1> QED BY <1>1, <1>2, PTL

\* For rows with watermark values of their own, no row at or below last_watermark
\* is ever missing from the destination (runExtractQuery, loadBatch).
THEOREM NothingIsSkipped == ASSUME OwnValues PROVE Spec => []NothingSkipped
<1>1. LogInv => NothingSkipped
  BY DEF LogInv
<1>2. Spec => []LogInv
  BY AlwaysLogInv
<1> QED BY <1>1, <1>2, PTL

\* For rows with watermark values of their own, whenever and however a run ends, the
\* next one asks again for all this one did not load.
THEOREM ResumingLosesNothing == ASSUME OwnValues PROVE Spec => ResumeLosesNothing
<1>1. LogInv /\ LogInv' /\ [Next]_vars =>
        [pc = "reading" /\ pc' = "idle" /\ job.incremental
           => \A r \in asked : Loaded(r)' \/ Wm[r] > watermark']_vars
  <2> SUFFICES ASSUME LogInv, LogInv', [Next]_vars, job.incremental, NEW r \in asked, ~(Wm[r] > watermark')
               PROVE  Loaded(r)'
    OBVIOUS
  <2>1. r \in source /\ Wm[r] \in Nat
    BY LoadAssumption DEF LogInv, LoadInv, Types, TypeOK
  <2>2. source \subseteq source' /\ job' = job
    BY DEF Next, SourceGrows, StartRun, ReadRow, Flush, Succeed, Break, vars
  <2>3. Wm[r] <= watermark'
    <3>1. watermark' \in Nat
      BY DEF LogInv, LoadInv, Types, TypeOK
    <3> QED BY <2>1, <3>1
  <2>4. job'.incremental => \A q \in source' : Wm[q] <= watermark' => Loaded(q)'
    BY DEF LogInv, NothingSkipped
  <2> QED BY <2>1, <2>2, <2>3, <2>4
<1>2. Spec => []LogInv
  BY AlwaysLogInv
<1> QED BY <1>1, <1>2, PTL DEF Spec, ResumeLosesNothing

-----------------------------------------------------------------------------
(* The refinement of WatermarkLog.                                         *)

loaded == {r \in source : job.incremental /\ Loaded(r)}

\* What is loaded is what the watermark says.
UpToSaved == {r \in source : job.incremental /\ Wm[r] <= watermark}

LEMMA LoadedIsUpTo == LogInv => loaded = UpToSaved
<1> SUFFICES ASSUME LogInv PROVE loaded = UpToSaved
  OBVIOUS
<1>1. source \subseteq Rows /\ \A r \in Rows : dest[r] \in Nat /\ Wm[r] \in Nat /\ watermark \in Nat
  BY LoadAssumption DEF LogInv, LoadInv, Types, TypeOK
<1>2. job.incremental => \A q \in source : dest[q] > 0 => Wm[q] <= watermark
  BY <1>1 DEF LogInv, LoadInv, Behind
<1>3. job.incremental => \A r \in source : Loaded(r) => Wm[r] <= watermark
  BY <1>1, <1>2 DEF Loaded
<1> QED BY <1>3 DEF loaded, UpToSaved, LogInv, NothingSkipped

LEMMA LoadedStaysUpTo == LogInv' => (loaded = UpToSaved)'
BY LoadedIsUpTo, PTL

LEMMA LogStep ==
  ASSUME OwnValues, LogInv, LogInv', [Next]_vars
  PROVE  \/ \E r \in Rows \ source : source' = source \cup {r} /\ UNCHANGED <<loaded, watermark>>
         \/ \E w \in {Wm[r] : r \in source} :
              /\ w > watermark
              /\ watermark' = w
              /\ loaded' = {r \in source : Wm[r] <= w}
              /\ UNCHANGED source
         \/ UNCHANGED <<source, loaded, watermark>>
<1>1. LoadInv /\ Types /\ Saved
  BY DEF LogInv, LoadInv
<1>2. /\ loaded  = {r \in source : job.incremental /\ Wm[r] <= watermark}
      /\ loaded' = {r \in source' : job'.incremental /\ Wm[r] <= watermark'}
  BY LoadedIsUpTo, LoadedStaysUpTo DEF UpToSaved
<1>3. \A r \in Rows : Wm[r] \in Nat /\ watermark \in Nat
  BY <1>1, LoadAssumption DEF Types, TypeOK
<1>4. ASSUME NEW r \in Rows, SourceGrows(r)
      PROVE  r \notin source /\ source' = source \cup {r} /\ UNCHANGED <<loaded, watermark>>
  <2>1. r \notin source /\ source' = source \cup {r} /\ UNCHANGED <<job, watermark>>
    BY <1>4 DEF SourceGrows
  <2>2. ~(job.incremental /\ Wm[r] <= watermark)
    BY <1>1, <1>3, <1>4, GrowsBeyond
  <2> QED BY <1>2, <2>1, <2>2
<1>5. CASE Committed
  <2>1. UNCHANGED <<job, source>>
    BY <1>5 DEF Committed
  <2>2. CASE job.incremental
    <3>1. watermark < watermark' /\ \E q \in source : Wm[q] = watermark'
      BY <1>5, <2>2, BatchIsNext
    <3>2. loaded' = {r \in source : Wm[r] <= watermark'}
      BY <1>2, <2>1, <2>2
    <3> QED BY <2>1, <3>1, <3>2
  <2>3. CASE ~job.incremental
    <3>1. watermark' = watermark
      BY <1>5, <2>3 DEF Committed, Reached
    <3> QED BY <1>2, <2>1, <3>1
  <2> QED BY <2>2, <2>3
<1>6. CASE StartRun \/ ReadRow \/ Ended \/ UNCHANGED vars
  <2>1. UNCHANGED <<job, source, watermark>>
    BY <1>6 DEF StartRun, ReadRow, Ended, vars
  <2> QED BY <1>2, <2>1
<1> QED BY <1>4, <1>5, <1>6, Steps

\* For rows with watermark values of their own, however runs break: at every
\* moment the destination of an incremental job accounts for exactly the source
\* rows up to last_watermark, which only ever moves to a later row's value.
THEOREM LoadImplementsLog == ASSUME OwnValues PROVE Spec => ImplementsLog
<1>1. Init => Log!LogInit
  BY DEF Init, Log!LogInit
<1>2. LogInv /\ LogInv' /\ [Next]_vars => [Log!Grow \/ Log!Advance]_Log!logVars
  <2> SUFFICES ASSUME LogInv, LogInv', [Next]_vars
               PROVE  [Log!Grow \/ Log!Advance]_Log!logVars
    OBVIOUS
  <2> QED BY LogStep DEF Log!Grow, Log!Advance, Log!UpTo, Log!logVars, loaded
<1>3. Spec => []LogInv
  BY AlwaysLogInv
<1>4. Spec => Log!LogSpec
  BY <1>1, <1>2, <1>3, PTL DEF Spec, Log!LogSpec
<1> QED BY <1>4 DEF ImplementsLog

==============================================================================
