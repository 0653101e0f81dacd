--------------------------- MODULE HttpPagesProofs ---------------------------
(***************************************************************************)
(* HttpPages for every page size, every limit of the breaker and every     *)
(* list of records: what a run that ends well has read.                    *)
(***************************************************************************)
EXTENDS HttpPages, Integers, TLAPS

LEMMA Prefix ==
  ASSUME NEW S, NEW s \in Seq(S), NEW k \in 1..Len(s)
  PROVE  /\ SubSeq(s, 1, k) \in Seq(S) /\ Len(SubSeq(s, 1, k)) = k
         /\ \A i \in 1..k : SubSeq(s, 1, k)[i] = s[i] /\ i \in 1..Len(s)
OBVIOUS

LEMMA SubSeqs ==
  ASSUME NEW S, NEW s \in Seq(S), NEW k \in 0..Len(s)
  PROVE  /\ SubSeq(s, 1, k) \in Seq(S) /\ Len(SubSeq(s, 1, k)) = k
         /\ \A i \in 1..k : SubSeq(s, 1, k)[i] = s[i]
OBVIOUS

LEMMA NonEmpty ==
  ASSUME NEW S, NEW s \in Seq(S)
  PROVE  /\ s # <<>> => Len(s) >= 1 /\ Head(s) = s[1] /\ Head(s) \in S
         /\ s = <<>> => Len(s) = 0
OBVIOUS

LEMMA ElementOf == ASSUME NEW S, NEW s \in Seq(S), NEW i \in 1..Len(s) PROVE s[i] \in S
OBVIOUS

LEMMA Appended ==
  ASSUME NEW S, NEW s \in Seq(S), NEW e \in S
  PROVE  /\ Append(s, e) \in Seq(S) /\ Len(Append(s, e)) = Len(s) + 1
         /\ \A i \in 1..Len(s) : Append(s, e)[i] = s[i]
         /\ Append(s, e)[Len(s) + 1] = e
OBVIOUS

\* The prefixes of Answer and From, whatever the API does with the offset.
LEMMA FromPage ==
  ASSUME records \in 0..MaxRecords, NEW n \in Nat
  PROVE  /\ From(n) \in Seq(1..MaxRecords)
         /\ Len(From(n)) = IF records > n THEN records - n ELSE 0
         /\ \A i \in 1..Len(From(n)) : From(n)[i] = n + i
<1> DEFINE m == IF records > n THEN records - n ELSE 0
<1>1. m \in Nat /\ \A i \in 1..m : n + i \in 1..MaxRecords
  BY PagesAssumption
<1>2. From(n) = [i \in 1..m |-> n + i]
  BY DEF From
<1> HIDE DEF m
<1>3. From(n) \in Seq(1..MaxRecords) /\ Len(From(n)) = m
  BY <1>1, <1>2
<1> QED BY <1>1, <1>2, <1>3 DEF m

\* Where the page that Answer is begins in the list.
LEMMA AnswerPage ==
  ASSUME records \in 0..MaxRecords, offset \in Nat
  PROVE  LET begin == IF deaf THEN 0 ELSE offset IN
         /\ Answer \in Seq(1..MaxRecords) /\ Len(Answer) \in Nat
         /\ \A i \in 1..Len(Answer) : Answer[i] = begin + i
         /\ deaf => Len(Answer) = records
         /\ ~deaf => Len(Answer) <= pageSize
         /\ Len(Answer) < pageSize => begin + Len(Answer) >= records
<1>1. CASE deaf
  <2>1. Answer = From(0) /\ Len(From(0)) = records
    BY <1>1, FromPage DEF Answer
  <2>2. From(0) \in Seq(1..MaxRecords) /\ \A i \in 1..Len(From(0)) : From(0)[i] = 0 + i
    BY FromPage
  <2> QED BY <1>1, <2>1, <2>2
<1>2. CASE ~deaf
  <2> DEFINE all == From(offset)
  <2>1. /\ all \in Seq(1..MaxRecords)
        /\ Len(all) = IF records > offset THEN records - offset ELSE 0
        /\ \A i \in 1..Len(all) : all[i] = offset + i
    BY FromPage
  <2>2. Answer = IF Len(all) > pageSize THEN SubSeq(all, 1, pageSize) ELSE all
    BY <1>2 DEF Answer
  <2>3. pageSize \in Nat \ {0} /\ Len(all) \in Nat
    BY <2>1, PagesAssumption
  <2> HIDE DEF all
  <2>4. CASE Len(all) > pageSize
    <3>1. Answer = SubSeq(all, 1, pageSize) /\ pageSize \in 1..Len(all) /\ all \in Seq(1..MaxRecords)
      BY <2>1, <2>2, <2>3, <2>4
    <3>2. Len(Answer) = pageSize /\ \A i \in 1..pageSize : Answer[i] = all[i] /\ i \in 1..Len(all)
      BY <3>1, Prefix
    <3>3. Answer \in Seq(1..MaxRecords)
      BY <3>1, Prefix
    <3>4. \A i \in 1..pageSize : Answer[i] = offset + i
      BY <2>1, <3>2
    <3> QED BY <1>2, <2>3, <3>2, <3>3, <3>4
  <2>5. CASE ~(Len(all) > pageSize)
    BY <1>2, <2>1, <2>2, <2>3, <2>5
  <2> QED BY <2>4, <2>5
<1> QED BY <1>1, <1>2

\* What is sent of it.
LEMMA SentPage ==
  ASSUME records \in 0..MaxRecords, offset \in Nat, NEW n \in 0..Len(Answer)
  PROVE  LET begin == IF deaf THEN 0 ELSE offset IN
         /\ Sent(n) \in Seq(1..MaxRecords) /\ Len(Sent(n)) = n /\ n \in Nat
         /\ \A i \in 1..n : Sent(n)[i] = begin + i
         /\ n > 0 => Head(Answer) = begin + 1 /\ Head(Answer) \in 1..MaxRecords
         /\ n <= Len(Answer) /\ Len(Answer) \in Nat
         /\ deaf => Len(Answer) = records
         /\ ~deaf => n <= pageSize
         /\ n < pageSize /\ ~(n < Len(Answer)) => begin + n >= records
<1> DEFINE begin == IF deaf THEN 0 ELSE offset
<1>1. /\ Answer \in Seq(1..MaxRecords) /\ Len(Answer) \in Nat /\ n \in Nat /\ n <= Len(Answer)
      /\ \A i \in 1..Len(Answer) : Answer[i] = begin + i
      /\ deaf => Len(Answer) = records
      /\ ~deaf => Len(Answer) <= pageSize
      /\ Len(Answer) < pageSize => begin + Len(Answer) >= records
  BY AnswerPage
<1> HIDE DEF begin
<1>2. /\ Sent(n) \in Seq(1..MaxRecords) /\ Len(Sent(n)) = n
      /\ \A i \in 1..n : Sent(n)[i] = Answer[i]
  BY <1>1, SubSeqs DEF Sent
<1>3. \A i \in 1..n : Sent(n)[i] = begin + i
  BY <1>1, <1>2
<1>4. n > 0 => Head(Answer) = begin + 1 /\ Head(Answer) \in 1..MaxRecords
  <2>1. n > 0 => Answer # <<>> /\ 1 \in 1..Len(Answer)
    BY <1>1, NonEmpty
  <2> QED BY <1>1, <2>1, NonEmpty
<1>5. pageSize \in Nat
  BY PagesAssumption
<1>6. n < pageSize /\ ~(n < Len(Answer)) => begin + n >= records
  <2> SUFFICES ASSUME n < pageSize, ~(n < Len(Answer)) PROVE begin + n >= records
    OBVIOUS
  <2>1. n = Len(Answer)
    BY <1>1
  <2> QED BY <1>1, <2>1
<1>7. ~deaf => n <= pageSize
  BY <1>1, <1>5
<1> QED BY <1>1, <1>2, <1>3, <1>4, <1>6, <1>7 DEF begin

-----------------------------------------------------------------------------
(* Types.                                                                  *)

LEMMA NextOffset == ASSUME NEW k \in Nat, NEW n \in Nat PROVE k * n + k = k * (n + 1) /\ k * n \in Nat
OBVIOUS

LEMMA TypeFacts ==
  ASSUME TypeOK
  PROVE  /\ pageSize \in Nat \ {0} /\ offset \in Int
         /\ ~allDone => offset \in Nat /\ page \in Nat
         /\ deaf \in BOOLEAN /\ curtailed \in BOOLEAN /\ allDone \in BOOLEAN /\ err \in BOOLEAN /\ ended \in BOOLEAN
         /\ Len(currentRows) \in Nat /\ Len(read) \in Nat
<1>1. pageSize \in Nat \ {0} /\ page \in Nat
  BY PagesAssumption DEF TypeOK
<1>2. ~allDone => offset \in Nat
  BY <1>1, NextOffset DEF TypeOK
<1>3. offset \in Int
  BY <1>1 DEF TypeOK
<1> QED BY <1>1, <1>2, <1>3 DEF TypeOK

\* The offset apart from the other fields, and without its product.
FullPages == pageSize * (IF allDone THEN page - 1 ELSE page)

Fields ==
  /\ deaf \in BOOLEAN
  /\ records \in 0..MaxRecords /\ first \in 0..MaxRecords
  /\ page \in 0..maxHTTPPages
  /\ curtailed \in BOOLEAN /\ allDone \in BOOLEAN /\ err \in BOOLEAN /\ ended \in BOOLEAN
  /\ currentRows \in Seq(1..MaxRecords)
  /\ idx \in Nat
  /\ idx > 0 /\ ~ended => idx <= Len(currentRows)
  /\ read \in Seq(1..MaxRecords)

Counted == offset = FullPages

LEMMA TypeOKParts == TypeOK <=> Fields /\ Counted
BY DEF TypeOK, Fields, Counted, FullPages

LEMMA StepTypeOK == TypeOK /\ [Next]_vars => TypeOK'
<1> SUFFICES ASSUME TypeOK, [Next]_vars PROVE TypeOK'
  OBVIOUS
<1>1. Fields /\ offset = FullPages /\ PagesAssumption
  BY TypeOKParts, PagesAssumption DEF Counted
<1>2. Fields' /\ offset' = FullPages' => TypeOK'
  <2>1. Fields' /\ Counted' => TypeOK'
    BY TypeOKParts, PTL
  <2> QED BY <2>1 DEF Counted
<1>9. ASSUME UNCHANGED <<offset, page, allDone>> PROVE offset' = FullPages'
  BY <1>1, <1>9 DEF FullPages
<1>3. CASE Append1
  <2>1. records' \in 0..MaxRecords
    BY <1>1, <1>3 DEF Append1, Fields, PagesAssumption
  <2> QED BY <1>2, <1>1, <1>9, <1>3, <2>1 DEF Append1, Fields, client
<1>4. CASE NextInPage
  <2>1. idx + 1 \in Nat /\ idx + 1 \in 1..Len(currentRows) /\ ~ended
    BY <1>1, <1>4 DEF NextInPage, Fields
  <2>2. read' \in Seq(1..MaxRecords) /\ idx' = idx + 1
    BY <1>1, <1>4, <2>1 DEF NextInPage, Fields
  <2> QED BY <1>2, <1>1, <1>9, <1>4, <2>1, <2>2 DEF NextInPage, Fields
<1>5. CASE NextAtEnd
  BY <1>2, <1>1, <1>9, <1>5 DEF NextAtEnd, Fields
<1>6. CASE NextFetches
  <2>0. PICK n \in 0..Len(Answer) :
           /\ Took(Sent(n))
           /\ curtailed' = (curtailed \/ n < Len(Answer))
           /\ IF n = 0 THEN ended' = TRUE /\ UNCHANGED read
              ELSE read' = Append(read, Head(Answer)) /\ UNCHANGED ended
    BY <1>6 DEF NextFetches
  <2>1. /\ Sent(n) \in Seq(1..MaxRecords) /\ Len(Sent(n)) = n /\ n \in Nat
        /\ n > 0 => Head(Answer) \in 1..MaxRecords
    BY <1>1, <1>6, TypeFacts, SentPage DEF NextFetches, Fields
  <2>2. page' = page + 1 /\ page' \in 0..maxHTTPPages /\ page \in Nat /\ allDone = FALSE
    BY <1>1, <1>6, <2>0 DEF NextFetches, Took, Tripped, Fields, PagesAssumption
  <2>3. offset' = FullPages' /\ allDone' \in BOOLEAN
    <3>1. offset = pageSize * page /\ page' - 1 = page
      BY <1>1, <2>2 DEF FullPages
    <3>2. offset + pageSize = pageSize * page'
      BY <1>1, <2>2, <3>1, NextOffset DEF PagesAssumption
    <3>3. CASE allDone' = TRUE /\ offset' = offset
      BY <3>1, <3>3 DEF FullPages
    <3>4. CASE offset' = offset + pageSize /\ allDone' = allDone
      BY <2>2, <3>2, <3>4 DEF FullPages
    <3> QED BY <2>0, <2>2, <3>3, <3>4 DEF Took
  <2>4. /\ currentRows' = Sent(n) /\ idx' = 1 /\ UNCHANGED <<deaf, records, first, err>>
        /\ curtailed' \in BOOLEAN
    BY <1>1, <1>6, <2>0 DEF NextFetches, Took, Fields
  <2>5. CASE n = 0
    <3>1. ended' = TRUE /\ UNCHANGED read
      BY <2>0, <2>5
    <3> QED BY <1>2, <1>1, <2>1, <2>2, <2>3, <2>4, <3>1 DEF Fields
  <2>6. CASE n > 0
    <3>1. read' = Append(read, Head(Answer)) /\ UNCHANGED ended
      BY <2>0, <2>6
    <3>2. read' \in Seq(1..MaxRecords)
      BY <1>1, <2>1, <2>6, <3>1 DEF Fields
    <3> QED BY <1>2, <1>1, <2>1, <2>2, <2>3, <2>4, <2>6, <3>1, <3>2 DEF Fields
  <2> QED BY <2>1, <2>5, <2>6
<1>7. CASE NextFails
  BY <1>2, <1>1, <1>9, <1>7 DEF NextFails, Fails, Fields
<1>8. CASE UNCHANGED vars
  BY <1>2, <1>1, <1>9, <1>8 DEF vars, client, Fields
<1> QED BY <1>3, <1>4, <1>5, <1>6, <1>7, <1>8 DEF Next, Step

LEMMA InitTypeOK == Init => TypeOK
<1> SUFFICES ASSUME Init PROVE TypeOK
  OBVIOUS
<1>1. pageSize * 0 = 0
  BY PagesAssumption
<1>2. offset = FullPages
  BY <1>1 DEF Init, FullPages
<1>3. Fields
  <2>1. 0 \in 0..maxHTTPPages /\ <<>> \in Seq(1..MaxRecords) /\ Len(<<>>) = 0
    BY PagesAssumption
  <2>2. allDone = FALSE /\ curtailed = FALSE /\ err = FALSE /\ ended = FALSE /\ idx = 0 /\ ~(idx > 0)
    BY DEF Init
  <2>3. deaf \in BOOLEAN /\ records \in 0..MaxRecords /\ first \in 0..MaxRecords
        /\ page = 0 /\ currentRows = <<>> /\ read = <<>>
    BY DEF Init
  <2> QED BY <2>1, <2>2, <2>3 DEF Fields
<1> QED BY <1>2, <1>3, TypeOKParts DEF Counted

\* The fields of httpRowSource keep their types, no row outside the page is
\* scanned and the offset counts the full pages (httpsource.go, Next, fetchPage).
THEOREM PagesTyped == Spec => []TypeOK
BY InitTypeOK, StepTypeOK, PTL DEF Spec

-----------------------------------------------------------------------------
(* The end of the list.                                                    *)

\* How many records come before the page.
Begin == IF page = 0 THEN 0 ELSE IF allDone THEN offset ELSE offset - pageSize

\* Rows of the page that were scanned.
Scanned == IF idx < Len(currentRows) THEN idx ELSE Len(currentRows)

\* An API that ignores the offset and has a full page, or more, never comes to a
\* last one: the same records are read over and over, until the breaker trips or
\* the API sends a short page after all.
Endless == deaf /\ (curtailed \/ (page > 0 /\ ~allDone))

\* What was read is a prefix of the list; a page that is not the last is a full
\* one; behind the last there was nothing if the API sent what it had.
Prefixed ==
  /\ \A i \in 1..Len(read) : read[i] = i
  /\ \A i \in 1..Len(currentRows) : currentRows[i] = Begin + i
  /\ Len(read) = Begin + Scanned
  /\ page > 0 /\ ~allDone => Len(currentRows) = pageSize
  /\ allDone /\ ~curtailed => Begin + Len(currentRows) >= first

ReadInv ==
  /\ first <= records
  /\ page = 0 => ~allDone /\ ~curtailed /\ currentRows = <<>> /\ read = <<>> /\ offset = 0
  /\ Endless /\ ~curtailed => records >= pageSize
  /\ ~Endless => Prefixed
  /\ ended /\ ~err => allDone /\ idx >= Len(currentRows)

LEMMA FetchReadInv == ASSUME TypeOK, ReadInv, NextFetches PROVE ReadInv'
<1>1. /\ pageSize \in Nat \ {0} /\ offset \in Nat /\ page \in Nat /\ allDone = FALSE
      /\ records \in Nat /\ first \in Nat /\ idx \in Nat /\ Len(currentRows) \in Nat
      /\ Len(read) \in Nat /\ read \in Seq(1..MaxRecords) /\ curtailed \in BOOLEAN
  BY TypeFacts DEF NextFetches, TypeOK
<1>0. PICK n \in 0..Len(Answer) :
         /\ Took(Sent(n))
         /\ curtailed' = (curtailed \/ n < Len(Answer))
         /\ IF n = 0 THEN ended' = TRUE /\ UNCHANGED read
            ELSE read' = Append(read, Head(Answer)) /\ UNCHANGED ended
  BY DEF NextFetches
<1> DEFINE begin == IF deaf THEN 0 ELSE offset
<1>5. /\ Len(Sent(n)) = n /\ n \in Nat /\ Len(Answer) \in Nat /\ n <= Len(Answer)
      /\ \A i \in 1..n : Sent(n)[i] = begin + i
      /\ n > 0 => Head(Answer) = begin + 1 /\ Head(Answer) \in 1..MaxRecords
      /\ deaf => Len(Answer) = records
      /\ ~deaf => n <= pageSize
      /\ n < pageSize /\ ~(n < Len(Answer)) => begin + n >= records
  BY <1>1, SentPage DEF TypeOK
<1> HIDE DEF begin
<1>2. /\ idx >= Len(currentRows) /\ ~ended /\ currentRows' = Sent(n) /\ page' = page + 1 /\ idx' = 1
      /\ UNCHANGED <<deaf, records, first, err>>
  BY <1>0 DEF NextFetches, Took
<1>3. \/ n < pageSize /\ allDone' = TRUE /\ offset' = offset
      \/ ~(n < pageSize) /\ allDone' = FALSE /\ offset' = offset + pageSize
  BY <1>0, <1>1, <1>5 DEF Took
<1>4. \/ n = 0 /\ ended' = TRUE /\ read' = read
      \/ n > 0 /\ read' = Append(read, Head(Answer)) /\ ended' = ended
  BY <1>0, <1>5
<1>7. Begin' = offset /\ page' > 0
  BY <1>1, <1>2, <1>3 DEF Begin
<1>11. curtailed' = (curtailed \/ n < Len(Answer))
  BY <1>0
<1>8. /\ first' <= records' /\ page' # 0
      /\ ended' /\ ~err' => allDone' /\ idx' >= Len(currentRows')
  BY <1>1, <1>2, <1>3, <1>4, <1>5 DEF ReadInv
<1>9. CASE Endless
  <2>1. deaf /\ (curtailed \/ records >= pageSize)
    BY <1>9 DEF Endless, ReadInv
  <2>2. Endless' /\ (~curtailed' => records' >= pageSize)
    <3>1. CASE curtailed' = TRUE
      BY <1>2, <2>1, <3>1 DEF Endless
    <3>2. CASE ~curtailed /\ ~(n < Len(Answer)) /\ curtailed' = FALSE
      <4>1. records >= pageSize /\ n = records
        BY <1>1, <1>5, <2>1, <3>2
      <4>2. allDone' = FALSE /\ page' > 0
        BY <1>1, <1>3, <1>7, <4>1
      <4> QED BY <1>1, <1>2, <2>1, <4>1, <4>2 DEF Endless
    <3> QED BY <1>1, <1>11, <3>1, <3>2
  <2> QED BY <1>8, <2>2 DEF ReadInv
<1>10. CASE ~Endless
  <2>1. Prefixed /\ (page = 0 => currentRows = <<>> /\ offset = 0)
    BY <1>10 DEF ReadInv
  <2>2. Len(read) = offset
    <3>1. Len(read) = Begin + Len(currentRows) /\ (page > 0 => Len(currentRows) = pageSize)
      BY <1>1, <1>2, <2>1 DEF Prefixed, Scanned
    <3>2. page = 0 => Len(currentRows) = 0
      BY <2>1
    <3> QED BY <1>1, <2>1, <3>1, <3>2 DEF Begin
  <2>3. begin = offset
    BY <1>1, <1>10, <2>1 DEF Endless, begin
  <2>4. \A i \in 1..Len(currentRows') : currentRows'[i] = Begin' + i
    BY <1>2, <1>5, <1>7, <2>3
  <2>5. Endless' /\ ~curtailed' => records' >= pageSize
    BY <1>1, <1>2, <1>3, <1>5, <1>11 DEF Endless
  <2>6. allDone' /\ ~curtailed' => Begin' + Len(currentRows') >= first'
    <3> SUFFICES ASSUME allDone', ~curtailed' PROVE Begin' + Len(currentRows') >= first'
      OBVIOUS
    <3>1. n < pageSize /\ ~(n < Len(Answer))
      BY <1>3, <1>11
    <3>2. offset + n >= records /\ first <= records
      BY <1>5, <2>3, <3>1 DEF ReadInv
    <3> QED BY <1>1, <1>2, <1>5, <1>7, <3>2
  <2>7. ~Endless' /\ ~allDone' => Len(currentRows') = pageSize
    BY <1>1, <1>2, <1>3, <1>5, <1>7 DEF Endless
  <2>8. (\A i \in 1..Len(read') : read'[i] = i) /\ Len(read') = Begin' + Scanned'
    <3>1. CASE n = 0
      <4>1. Scanned' = 0 /\ read' = read
        BY <1>2, <1>4, <1>5, <3>1 DEF Scanned
      <4> QED BY <1>1, <1>7, <2>1, <2>2, <4>1 DEF Prefixed
    <3>2. CASE n > 0
      <4>2. Head(Answer) = offset + 1 /\ Head(Answer) \in 1..MaxRecords
        BY <1>1, <1>5, <2>3, <3>2
      <4>3. read' = Append(read, Head(Answer))
        BY <1>4, <3>2
      <4>4. /\ Len(read') = offset + 1 /\ read'[offset + 1] = offset + 1
            /\ \A i \in 1..offset : read'[i] = read[i]
        BY <1>1, <2>2, <4>2, <4>3, Appended
      <4>5. \A i \in 1..offset : read[i] = i
        BY <2>1, <2>2 DEF Prefixed
      <4>6. \A i \in 1..Len(read') : i \in 1..offset \/ i = offset + 1
        BY <1>1, <4>4
      <4>7. Scanned' = 1
        BY <1>2, <1>5, <3>2 DEF Scanned
      <4> QED BY <1>7, <4>4, <4>5, <4>6, <4>7
    <3> QED BY <1>5, <3>1, <3>2
  <2>9. ~Endless' => Prefixed'
    BY <2>4, <2>6, <2>7, <2>8 DEF Prefixed
  <2> QED BY <1>8, <2>5, <2>9 DEF ReadInv
<1> QED BY <1>9, <1>10

LEMMA StepReadInv == TypeOK /\ ReadInv /\ [Next]_vars => ReadInv'
<1> SUFFICES ASSUME TypeOK, ReadInv, [Next]_vars PROVE ReadInv'
  OBVIOUS
<1>1. /\ pageSize \in Nat \ {0} /\ records \in Nat /\ first \in Nat /\ idx \in Nat /\ page \in Nat
      /\ Len(currentRows) \in Nat /\ Len(read) \in Nat /\ read \in Seq(1..MaxRecords)
      /\ currentRows \in Seq(1..MaxRecords) /\ offset \in Int
  BY TypeFacts DEF TypeOK
\* A step that does not read.
<1>2. ASSUME UNCHANGED <<deaf, first, curtailed, offset, page, allDone, currentRows, read>>, Scanned' = Scanned,
             records' \in Nat, records <= records',
             ended' /\ ~err' => allDone /\ idx' >= Len(currentRows)
      PROVE  ReadInv'
  <2>1. Begin' = Begin /\ Endless' = Endless
    BY <1>2 DEF Begin, Endless
  <2>2. Prefixed' = Prefixed
    BY <1>2, <2>1 DEF Prefixed
  <2>3. first' <= records' /\ (Endless' /\ ~curtailed' => records' >= pageSize)
    BY <1>1, <1>2, <2>1 DEF ReadInv
  <2> QED BY <1>2, <2>1, <2>2, <2>3 DEF ReadInv
<1>3. CASE Append1
  <2>1. records' \in Nat /\ records <= records' /\ Scanned' = Scanned
        /\ UNCHANGED <<deaf, first, curtailed, offset, page, allDone, currentRows, idx, err, ended, read>>
    BY <1>1, <1>3 DEF Append1, client, Scanned
  <2> QED BY <1>2, <2>1 DEF ReadInv
<1>4. CASE NextInPage
  <2>1. /\ idx < Len(currentRows) /\ idx' = idx + 1 /\ read' = Append(read, currentRows[idx + 1]) /\ ~ended
        /\ UNCHANGED <<deaf, records, first, curtailed, offset, page, allDone, currentRows, err, ended>>
    BY <1>4 DEF NextInPage
  <2>2. Begin' = Begin /\ Endless' = Endless /\ Scanned' = Scanned + 1 /\ Scanned = idx
    BY <1>1, <2>1 DEF Begin, Endless, Scanned
  <2>3. page # 0
    <3> SUFFICES ASSUME page = 0 PROVE FALSE
      OBVIOUS
    <3>1. currentRows = <<>>
      BY DEF ReadInv
    <3> QED BY <1>1, <2>1, <3>1
  <2>4. ASSUME ~Endless PROVE Prefixed'
    <3>1. Prefixed
      BY <2>4 DEF ReadInv
    <3>2. idx + 1 \in 1..Len(currentRows) /\ Begin \in Int
      BY <1>1, <2>1 DEF Begin
    <3>3. currentRows[idx + 1] = Len(read) + 1 /\ currentRows[idx + 1] \in 1..MaxRecords
      <4>1. currentRows[idx + 1] = Begin + (idx + 1) /\ Len(read) = Begin + idx
        BY <2>2, <3>1, <3>2 DEF Prefixed
      <4>2. currentRows[idx + 1] \in 1..MaxRecords
        BY <1>1, <3>2, ElementOf
      <4> QED BY <1>1, <3>2, <4>1, <4>2
    <3>4. /\ Len(read') = Len(read) + 1 /\ read'[Len(read) + 1] = Len(read) + 1
          /\ \A i \in 1..Len(read) : read'[i] = read[i]
      BY <1>1, <2>1, <3>3, Appended
    <3>5. \A i \in 1..Len(read') : i \in 1..Len(read) \/ i = Len(read) + 1
      BY <1>1, <3>4
    <3>6. \A i \in 1..Len(read') : read'[i] = i
      BY <3>1, <3>4, <3>5 DEF Prefixed
    <3>7. Len(read') = Begin' + Scanned'
      BY <1>1, <2>2, <3>1, <3>2, <3>4 DEF Prefixed
    <3> QED BY <2>1, <2>2, <3>1, <3>6, <3>7 DEF Prefixed
  <2> QED BY <2>1, <2>2, <2>3, <2>4 DEF ReadInv
<1>5. CASE NextAtEnd
  <2>1. Scanned' = Scanned /\ idx' >= Len(currentRows)
    BY <1>1, <1>5 DEF NextAtEnd, Scanned
  <2> QED BY <1>1, <1>2, <1>5, <2>1 DEF NextAtEnd
<1>6. CASE NextFetches
  BY <1>6, FetchReadInv
<1>7. CASE NextFails
  <2>1. Scanned' = Scanned
    BY <1>1, <1>7 DEF NextFails, Scanned
  <2> QED BY <1>1, <1>2, <1>7, <2>1 DEF NextFails, Fails
<1>8. CASE UNCHANGED vars
  <2>1. Scanned' = Scanned
    BY <1>8 DEF vars, client, Scanned
  <2> QED BY <1>1, <1>2, <1>8, <2>1 DEF vars, client, ReadInv
<1> QED BY <1>3, <1>4, <1>5, <1>6, <1>7, <1>8 DEF Next, Step

\* A run that ends without an error has read the records in order and once each,
\* and all there were when it started unless the API sent a page with less than it
\* had (runExtractQuery over httpRowSource, lookupRecords): with every page size and
\* every breaker, while records are appended, and against an API that ignores the
\* page it is asked for.
THEOREM NoShortList == Spec => []EndMeansAll
<1>1. Init => ReadInv
  <2> SUFFICES ASSUME Init PROVE ReadInv
    OBVIOUS
  <2>1. Len(<<>>) = 0 /\ records \in Nat
    BY PagesAssumption DEF Init
  <2> QED BY <2>1 DEF Init, ReadInv, Prefixed, Endless, Begin, Scanned
<1>2. TypeOK /\ ReadInv => EndMeansAll
  <2> SUFFICES ASSUME TypeOK, ReadInv, ended, ~err, ~(deaf /\ curtailed)
               PROVE  (\A i \in 1..Len(read) : read[i] = i) /\ (curtailed \/ Len(read) >= first)
    BY DEF EndMeansAll
  <2>1. allDone /\ idx >= Len(currentRows) /\ Prefixed
    BY DEF ReadInv, Endless
  <2>2. Len(read) = Begin + Len(currentRows)
    BY <2>1, TypeFacts DEF Prefixed, Scanned, TypeOK
  <2> QED BY <2>1, <2>2 DEF Prefixed
<1> QED BY <1>1, <1>2, PagesTyped, StepReadInv, PTL DEF Spec

==============================================================================
