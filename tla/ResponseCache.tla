---------------------------- MODULE ResponseCache ----------------------------
(***************************************************************************)
(* internal/cache: answers of reports, kept in Redis.  A request looks its *)
(* key up, and on a miss has the handler read the database and stores the  *)
(* answer.  Look-up, reading and storing are steps of their own: readings  *)
(* land, and days end, between them.  A report sums the readings of the    *)
(* days up to dateTo; of a reading, only how many landed is kept.          *)
(***************************************************************************)
EXTENDS Integers, Sequences, FiniteSets, Functions

CONSTANTS Threads,    \* requests served at a time
          Requests,   \* what clients ask: dateTo and the values of two parameters
          Places,     \* the names a value lists
          Params,     \* the parameters' own names
          None,       \* no dateTo, no entry, no request
          DayLength,  \* ticks of a day
          Short, Long, \* CACHE_TTL_SHORT and CACHE_TTL_LONG, in ticks
          MaxNow, MaxLanded \* bounds of the model

VARIABLES now,     \* the clock, UTC
          landed,  \* how many readings of each day have landed
          late,    \* days of which readings landed when they were over
          store,   \* Redis, by key
          spliced, \* keys under which the answer to a spliced request was stored
          threads  \* the request each thread serves, and its answer

vars == <<now, landed, late, store, spliced, threads>>

\* The text of a value, URL-decoded: up to the first '&', lists of names between
\* '|'; behind it, parts that look like parameters.
Value == [lists : Seq(Seq(Places)), rest : Seq([name : Params, list : Seq(Places)])]

\* As a rule a value is one list; what else is in it separates nothing for a handler.
Plain(value) == Len(value.lists) = 1 /\ value.rest = <<>>

PlainAsk(r) ==
  /\ \A i \in DOMAIN r.region : Plain(r.region[i])
  /\ \A i \in DOMAIN r.district : Plain(r.district[i])

\* A value that is not plain is the only one of its parameter, and sorted.
ASSUME CacheAssumption ==
  /\ {DayLength, Short, Long, MaxNow, MaxLanded} \subseteq Nat
  /\ 0 < Short /\ Short <= Long /\ 0 < DayLength
  /\ \A r \in Requests : r.dateTo \in Nat \cup {None} /\ {r.region, r.district} \subseteq Seq(Value)
  /\ {"region", "district"} \subseteq Params
  /\ None \notin Nat

DayOf(t) == t \div DayLength
Days == 0 .. DayOf(MaxNow)

\* What is left of a list that has been sorted: how often each member occurs.
Sorted(list) == [v \in Range(list) |-> Cardinality({i \in DOMAIN list : list[i] = v})]

\* The values of a parameter, and the parts of a value.
SortedValues(values) == Sorted([i \in DOMAIN values |-> Sorted(values[i])])

\* The values of one parameter joined with '|', up to the first '&'.
Joined(values) ==
  IF Plain(values[1]) THEN SortedValues([i \in DOMAIN values |-> values[i].lists[1]])
                      ELSE SortedValues(values[1].lists)

\* name=values&: nothing is escaped, and what a value has behind a '&' reads like
\* more parameters.
Section(name, values) ==
  IF values = <<>> THEN <<>>
  ELSE <<<<name, Joined(values)>>>>
       \o [i \in DOMAIN values[1].rest |->
             <<values[1].rest[i].name, SortedValues(<<values[1].rest[i].list>>)>>]

Dated(r) == IF r.dateTo = None THEN <<>> ELSE <<<<"dateTo", r.dateTo>>>>

\* The values without the names of their parameters.
KeyOf_bug(r) == Dated(r) \o Section("", r.district) \o Section("", r.region)

\* The sections in the order of their names, as a text: equal texts are one key.
KeyOf(r) == Dated(r) \o Section("district", r.district) \o Section("region", r.region)

Key == [r \in Requests |-> KeyOf(r)]

Keys == Range(Key)

\* What a handler reads of a parameter: its first value, a list of names.  A value
\* with a separator in it names no place.
Names(values) ==
  IF values = <<>> THEN {} ELSE IF Plain(values[1]) THEN Range(values[1].lists[1]) ELSE {None}

Covered(r) == {d \in Days : d <= (IF r.dateTo = None THEN DayOf(MaxNow) ELSE r.dateTo)}

\* The body of an answer, read now.
Body(r) ==
  [regions |-> Names(r.region), districts |-> Names(r.district),
   sums |-> [d \in Covered(r) |-> landed[d]], day |-> DayOf(now)]

\* The range may end today and be kept for long.
RecencyTTL_bug(r) ==
  IF r.dateTo = None THEN Short ELSE IF r.dateTo > DayOf(now) THEN Short ELSE Long

\* Evaluated when the answer is stored.
RecencyTTL(r) ==
  IF r.dateTo = None THEN Short ELSE IF r.dateTo >= DayOf(now) THEN Short ELSE Long

Idle == [state |-> "idle", request |-> None, body |-> None]

Init ==
  /\ now = 0
  /\ landed = [d \in Days |-> 0]
  /\ late = {}
  /\ store = [k \in Keys |-> None]
  /\ spliced = {}
  /\ threads = [t \in Threads |-> Idle]

-----------------------------------------------------------------------------
(* The world. *)

\* Redis forgets the entries that have expired.
Tick ==
  /\ now < MaxNow
  /\ now' = now + 1
  /\ store' = [k \in Keys |-> IF store[k] # None /\ store[k].expires <= now' THEN None ELSE store[k]]
  /\ UNCHANGED <<landed, late, spliced, threads>>

\* The feed brings readings of today or, late, of a day that is over.
Land(d) ==
  /\ d <= DayOf(now) /\ landed[d] < MaxLanded
  /\ landed' = [landed EXCEPT ![d] = @ + 1]
  /\ late' = IF d < DayOf(now) THEN late \cup {d} ELSE late
  /\ UNCHANGED <<now, store, spliced, threads>>

-----------------------------------------------------------------------------
(* A request. *)

\* A hit is answered with what is stored.
Hit(t, r) ==
  /\ threads[t].state \in {"idle", "answered"}
  /\ LET entry == store[Key[r]] IN
     /\ entry # None
     /\ threads' = [threads EXCEPT ![t] = [state |-> "answered", request |-> r, body |-> entry.body]]
  /\ UNCHANGED <<now, landed, late, store, spliced>>

\* No entry, or Redis did not answer within half a second.
Miss(t, r) ==
  /\ threads[t].state \in {"idle", "answered"}
  /\ threads' = [threads EXCEPT ![t] = [state |-> "missed", request |-> r, body |-> None]]
  /\ UNCHANGED <<now, landed, late, store, spliced>>

\* The handler reads the database, or fails: any status but 200 is answered and
\* not stored.
ServeHTTP(t) ==
  /\ threads[t].state = "missed"
  /\ \/ threads' = [threads EXCEPT ![t].state = "read", ![t].body = Body(threads[t].request)]
     \/ threads' = [threads EXCEPT ![t] = Idle]
  /\ UNCHANGED <<now, landed, late, store, spliced>>

\* The answer is stored, or Redis is not there, and given to the client.
Set(t) ==
  /\ threads[t].state = "read"
  /\ LET r == threads[t].request IN
     \/ /\ store' = [store EXCEPT ![Key[r]] =
                       [body |-> threads[t].body, dateTo |-> r.dateTo, day |-> DayOf(now),
                        expires |-> now + RecencyTTL(r)]]
        /\ spliced' = IF PlainAsk(r) THEN spliced ELSE spliced \cup {Key[r]}
     \/ UNCHANGED <<store, spliced>>
  /\ threads' = [threads EXCEPT ![t].state = "answered"]
  /\ UNCHANGED <<now, landed, late>>

\* Redis evicts an entry; DeleteByPrefix, which nothing calls, would delete them.
Drop(k) ==
  /\ store[k] # None
  /\ store' = [store EXCEPT ![k] = None]
  /\ UNCHANGED <<now, landed, late, spliced, threads>>

Next ==
  \/ Tick
  \/ \E d \in Days : Land(d)
  \/ \E t \in Threads : \/ \E r \in Requests : Hit(t, r) \/ Miss(t, r)
                        \/ ServeHTTP(t) \/ Set(t)
  \/ \E k \in Keys : Drop(k)

Spec == Init /\ [][Next]_vars

-----------------------------------------------------------------------------
(* Properties. *)

\* An answer, stored or not, is an answer to what was asked, whichever order a
\* client lists names in.  Two exceptions.  A parameter given twice: handlers read
\* its first value, and the key is the same whichever comes first.  And values with
\* separators in them: the request itself, and those that get what it stored under
\* a key that reads like theirs.
AnswersTheQuestion ==
  \A t \in Threads :
    LET q == threads[t].request IN
    /\ threads[t].state = "answered" /\ PlainAsk(q) /\ Key[q] \notin spliced
    /\ Len(q.region) <= 1 /\ Len(q.district) <= 1
    =>
      /\ threads[t].body.regions = Names(q.region)
      /\ threads[t].body.districts = Names(q.district)
      /\ DOMAIN threads[t].body.sums = Covered(q)

\* Once the last day of a range is over, and for Short more, an entry is complete
\* or gone: what was read while readings were landing does not last.  Left out are
\* readings that land late, which an entry misses for as long as Long, and
\* requests that read before midnight and stored after it.
OverIsComplete ==
  \A k \in Keys :
    store[k] # None /\ store[k].dateTo # None /\ now >= (store[k].dateTo + 1) * DayLength + Short =>
      \/ store[k].body.day < store[k].day
      \/ \A d \in DOMAIN store[k].body.sums : d \in late \/ store[k].body.sums[d] = landed[d]

==============================================================================
