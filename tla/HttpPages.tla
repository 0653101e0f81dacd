------------------------------ MODULE HttpPages ------------------------------
(***************************************************************************)
(* httpRowSource of internal/etl/httpsource.go: the rows of an http_api    *)
(* source, fetched page by page with limit and offset as runExtractQuery   *)
(* asks for them.  A page shorter than the limit is taken for the last.    *)
(***************************************************************************)
EXTENDS Naturals, Sequences

CONSTANTS
  pageSize,     \* Job.PageSize
  maxHTTPPages, \* the circuit breaker
  MaxRecords    \* bound: the records the API ever has

ASSUME PagesAssumption == {pageSize, maxHTTPPages, MaxRecords} \subseteq Nat \ {0}

VARIABLES
  deaf,    \* the API ignores limit and offset, and answers with all it has
  records, \* how many records the API has: 1..records, in a fixed order
  first,   \* how many it had when the run started
  curtailed, \* the API has sent a page with less than it had for it
  offset, page, allDone, currentRows, idx, err, \* the fields of httpRowSource
  ended,   \* Next has returned false
  read     \* the records runExtractQuery has scanned

client == <<offset, page, allDone, currentRows, idx, err>>
vars == <<deaf, records, first, curtailed, client, ended, read>>

\* The fields keep their types, no row outside the page is ever scanned, and
\* the offset counts the full pages.
TypeOK ==
  /\ deaf \in BOOLEAN
  /\ records \in 0..MaxRecords /\ first \in 0..MaxRecords
  /\ page \in 0..maxHTTPPages
  /\ {curtailed, allDone, err, ended} \subseteq BOOLEAN
  /\ offset = pageSize * (IF allDone THEN page - 1 ELSE page)
  /\ currentRows \in Seq(1..MaxRecords)
  /\ idx \in Nat
  /\ idx > 0 /\ ~ended => idx <= Len(currentRows)
  /\ read \in Seq(1..MaxRecords)

\* newHTTPRowSource.  idx counts from 1 here, and 0 is the -1 of the code.
Init ==
  /\ deaf \in BOOLEAN
  /\ records \in 0..MaxRecords
  /\ first = records
  /\ curtailed = FALSE
  /\ offset = 0
  /\ page = 0
  /\ allDone = FALSE
  /\ currentRows = <<>>
  /\ idx = 0
  /\ err = FALSE
  /\ ended = FALSE
  /\ read = <<>>

\* A record is added at the end of the list while the run goes on.
Append1 ==
  /\ records < MaxRecords
  /\ records' = records + 1
  /\ UNCHANGED <<deaf, first, curtailed, client, ended, read>>

-----------------------------------------------------------------------------

From(n) == [i \in 1..(IF records > n THEN records - n ELSE 0) |-> n + i]

\* What the API has for the limit and the offset it is asked with.
Answer == IF deaf THEN From(0)
          ELSE LET rest == From(offset) IN
               IF Len(rest) > pageSize THEN SubSeq(rest, 1, pageSize) ELSE rest

\* A full page taken for the last.
Took_bug(rows) ==
  /\ currentRows' = rows
  /\ page' = page + 1
  /\ IF Len(rows) <= pageSize THEN allDone' = TRUE /\ UNCHANGED offset
     ELSE offset' = offset + pageSize /\ UNCHANGED allDone

\* The next offset counted from the records of the page.
Took_bug3(rows) ==
  /\ currentRows' = rows
  /\ page' = page + 1
  /\ IF rows = <<>> THEN allDone' = TRUE /\ UNCHANGED offset
     ELSE offset' = offset + Len(rows) /\ UNCHANGED allDone

\* Of the page, the first n records come: an API may leave some for later or, with
\* no array (or null) at records_path, send none at all.  lookupRecords takes the
\* missing array for an empty page.
Sent(n) == SubSeq(Answer, 1, n)

Took(rows) ==
  /\ currentRows' = rows
  /\ page' = page + 1
  /\ IF Len(rows) < pageSize THEN allDone' = TRUE /\ UNCHANGED offset
     ELSE offset' = offset + pageSize /\ UNCHANGED allDone

Tripped == page >= maxHTTPPages

\* The breaker taken for the end of the list.
Fails_bug == ended' = TRUE /\ UNCHANGED err

Fails == err' = TRUE /\ ended' = TRUE

\* Next within the page: the row is there, and is scanned.
NextInPage ==
  /\ ~ended
  /\ idx < Len(currentRows)
  /\ idx' = idx + 1
  /\ read' = Append(read, currentRows[idx + 1])
  /\ UNCHANGED <<deaf, records, first, curtailed, offset, page, allDone, currentRows, err, ended>>

\* Next at the end of the last page.
NextAtEnd ==
  /\ ~ended
  /\ idx >= Len(currentRows)
  /\ allDone
  /\ idx' = idx + 1
  /\ ended' = TRUE
  /\ UNCHANGED <<deaf, records, first, curtailed, offset, page, allDone, currentRows, err, read>>

\* Next at the end of any other page fetches one, and goes to its first row if
\* it has one.
NextFetches ==
  /\ ~ended
  /\ idx >= Len(currentRows)
  /\ ~allDone
  /\ ~Tripped
  /\ \E n \in 0..Len(Answer) :
       /\ Took(Sent(n))
       /\ curtailed' = (curtailed \/ n < Len(Answer))
       /\ IF n = 0 THEN ended' = TRUE /\ UNCHANGED read
          ELSE read' = Append(read, Head(Answer)) /\ UNCHANGED ended
  /\ idx' = 1
  /\ UNCHANGED <<deaf, records, first, err>>

\* A page that failed is asked for again.
NextFails_bug ==
  /\ ~ended
  /\ idx >= Len(currentRows)
  /\ ~allDone
  /\ err' = TRUE
  /\ UNCHANGED <<deaf, records, first, curtailed, offset, page, allDone, currentRows, idx, ended, read>>

\* The breaker trips, the request fails, its status is not 2xx, or what the body
\* has on the way to records_path or at its end is of another type.
NextFails ==
  /\ ~ended
  /\ idx >= Len(currentRows)
  /\ ~allDone
  /\ idx' = idx + 1
  /\ Fails
  /\ UNCHANGED <<deaf, records, first, curtailed, offset, page, allDone, currentRows, read>>

\* Next as runExtractQuery calls it, over and over until it returns false.
Step == NextInPage \/ NextAtEnd \/ NextFetches \/ (Tripped /\ NextFails)

Next == Append1 \/ Step \/ NextFails

Spec == Init /\ [][Next]_vars

\* The engine goes on reading; a failure is never owed.
FairSpec == Spec /\ WF_vars(Step)

-----------------------------------------------------------------------------

\* A run that comes to its end without an error has read the records in their
\* order and once each, and all there were when it started unless the API sent less
\* than it had: an API that never signals its last page fails the run loudly and
\* never passes for a list.  (One that sends a short page, or a body without the
\* array, before its last page ends the run there, and nothing tells; only if it
\* also ignores the offset is a record read twice.)
EndMeansAll ==
  ended /\ ~err => /\ (deaf /\ curtailed) \/ \A i \in 1..Len(read) : read[i] = i
                   /\ curtailed \/ Len(read) >= first

\* Whatever the API answers, the run ends.
PagingEnds == <>ended

==============================================================================
