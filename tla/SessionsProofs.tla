---------------------------- MODULE SessionsProofs ----------------------------
(***************************************************************************)
(* Sessions, for any number of requests at a time, tokens, resets and      *)
(* statements that fail: the types, what a reset leaves behind, and which  *)
(* access tokens are accepted after it.                                    *)
(***************************************************************************)
EXTENDS Sessions, TLAPS, FiniteSetTheorems, WellFoundedInduction

LEMMA LiveIsFinite == IsFiniteSet(Live) /\ Cardinality(Live) \in Nat
<1>1. IsFiniteSet(Ids)
  BY FS_Interval, SessionsAssumption DEF Ids
<1>2. Live \subseteq Ids
  BY DEF Live
<1> QED BY <1>1, <1>2, FS_Subset, FS_CardinalityType

LEMMA SurplusIsNat == ASSUME NEW n \in Nat PROVE Surplus(n) \in Nat
BY DEF Surplus

LEMMA IdsAreNat == Ids \subseteq Nat /\ None \in Nat /\ None \notin Ids
BY SessionsAssumption DEF Ids, None

\* Ending sessions changes the state of live ones and forgets where they came
\* from; it neither issues a token nor takes one back.
LEMMA EndedTokens ==
  ASSUME tokens \in [Ids -> Token], NEW K
  PROVE  /\ Ended(K) \in [Ids -> Token]
         /\ \A k \in Ids :
              /\ Ended(K)[k].state = "live" => k \in Live /\ k \notin K /\ Ended(K)[k] = tokens[k]
              /\ Ended(K)[k].state = "unused" <=> tokens[k].state = "unused"
              /\ Ended(K)[k].ver = tokens[k].ver /\ Ended(K)[k].read = tokens[k].read
              /\ Ended(K)[k].parent = tokens[k].parent
<1> SUFFICES ASSUME NEW k \in Ids
             PROVE  /\ Ended(K)[k] \in Token
                    /\ Ended(K)[k].state = "live" => k \in Live /\ k \notin K /\ Ended(K)[k] = tokens[k]
                    /\ Ended(K)[k].state = "unused" <=> tokens[k].state = "unused"
                    /\ Ended(K)[k].ver = tokens[k].ver /\ Ended(K)[k].read = tokens[k].read
                    /\ Ended(K)[k].parent = tokens[k].parent
  BY DEF Ended
<1>1. CASE k \in K /\ tokens[k].state = "live"
  <2>1. Ended(K)[k] = [tokens[k] EXCEPT !.state = "dead", !.login = 0, !.late = FALSE]
    BY <1>1 DEF Ended, Live
  <2> DEFINE token == tokens[k]
             ended == [token EXCEPT !.state = "dead", !.login = 0, !.late = FALSE]
  <2>2. token \in Token
    OBVIOUS
  <2>3. ended \in Token /\ ended.state = "dead" /\ ended.ver = token.ver /\ ended.read = token.read
        /\ ended.parent = token.parent
    <3> HIDE DEF token
    <3> QED BY <2>2 DEF Token
  <2> QED BY <1>1, <2>1, <2>3
<1>2. CASE ~(k \in K /\ tokens[k].state = "live")
  <2>1. Ended(K)[k] = tokens[k]
    BY <1>2 DEF Ended, Live
  <2> QED BY <1>2, <2>1 DEF Live
<1> QED BY <1>1, <1>2

\* Where a session will be put.
Free(k) == tokens[k].state = "unused" /\ \A i \in Ids : i < k => tokens[i].state # "unused"

-----------------------------------------------------------------------------
(* Types.                                                                  *)

LEMMA IdleIsRequest == Idle \in Request
BY IdsAreNat DEF Idle, Request

LEMMA InitTypeOK == Init => TypeOK
<1> SUFFICES ASSUME Init PROVE TypeOK
  OBVIOUS
<1>1. Unused \in Token /\ Idle \in Request
  BY IdsAreNat, IdleIsRequest DEF Unused, Token
<1>2. tokens \in [Ids -> Token] /\ thread \in [Threads -> Request]
  BY <1>1 DEF Init
<1>3. \A k \in Ids : tokens[k].state = "unused"
  BY DEF Init, Unused
<1>4. version \in 0..resets /\ tool \in 0..resets \cup {Closed} /\ resets + faults <= MaxTrouble
  BY SessionsAssumption DEF Init, Closed
<1>5. resets \in Nat /\ faults \in Nat /\ undone \in BOOLEAN
  BY DEF Init
<1> QED BY <1>2, <1>3, <1>4, <1>5 DEF TypeOK

LEMMA StepTypeOK == TypeOK /\ [Next]_vars => TypeOK'
<1> SUFFICES ASSUME TypeOK, [Next]_vars PROVE TypeOK'
  OBVIOUS
<1> USE SessionsAssumption, IdsAreNat DEF TypeOK
<1>1. ASSUME NEW t \in Threads, Login(t) PROVE TypeOK'
  <2>1. [Idle EXCEPT !.pc = "count", !.ver = version, !.read = resets] \in Request
    <3>1. version \in Nat /\ resets \in Nat
      OBVIOUS
    <3> QED BY <3>1, IdleIsRequest DEF Request
  <2> QED BY <1>1, <2>1 DEF Login
<1>2. ASSUME NEW t \in Threads, NEW k \in Ids, RefreshFind(t, k) PROVE TypeOK'
  <2>1. tokens[k].login \in Nat /\ tokens[k].late \in BOOLEAN
    BY DEF Token
  <2>2. [Idle EXCEPT !.pc = "found", !.old = k, !.login = tokens[k].login, !.late = tokens[k].late]
          \in Request
    BY <2>1, IdleIsRequest DEF Request
  <2> QED BY <1>2, <2>2 DEF RefreshFind
<1>3. ASSUME NEW t \in Threads, RefreshUser(t) PROVE TypeOK'
  <2>1. version \in Nat /\ resets \in Nat
    OBVIOUS
  <2>2. ASSUME NEW q \in Request
        PROVE  [[q EXCEPT !.pc = "revoke"] EXCEPT !.ver = version, !.read = resets] \in Request
    BY <2>1 DEF Request
  <2>3. thread'[t] = [[thread[t] EXCEPT !.pc = "revoke"] EXCEPT !.ver = version, !.read = resets]
    BY <1>3 DEF RefreshUser, Request
  <2>4. thread' \in [Threads -> Request]
    BY <1>3, <2>2, <2>3 DEF RefreshUser
  <2> QED BY <1>3, <2>4 DEF RefreshUser
<1>4. ASSUME NEW t \in Threads, RefreshRevoke(t) PROVE TypeOK'
  <2>1. thread' \in [Threads -> Request]
    BY <1>4 DEF RefreshRevoke, Goto, Request
  <2> QED BY <1>4, <2>1, EndedTokens DEF RefreshRevoke, Fault, Trouble
<1>5. ASSUME NEW t \in Threads, StoreCount(t) PROVE TypeOK'
  <2>1. Surplus(Cardinality(Live)) \in Nat
    BY LiveIsFinite, SurplusIsNat
  <2>2. thread' \in [Threads -> Request]
    BY <1>5, <2>1 DEF StoreCount, Goto, Request
  <2> QED BY <1>5, <2>2 DEF StoreCount, Fault, Trouble
<1>6. ASSUME NEW t \in Threads, StoreTrim(t) PROVE TypeOK'
  <2>1. thread' \in [Threads -> Request]
    BY <1>6 DEF StoreTrim, Goto, Request
  <2> QED BY <1>6, <2>1, EndedTokens DEF StoreTrim, Fault, Trouble
<1>7. ASSUME NEW t \in Threads, StoreInsert(t) PROVE TypeOK'
  <2>1. thread' \in [Threads -> Request]
    BY <1>7 DEF StoreInsert, Idle, Request
  <2>2. ASSUME NEW k \in Ids, Free(k), tokens' = [tokens EXCEPT ![k] = NewSession(thread[t])],
               UNCHANGED faults
        PROVE  TypeOK'
    <3>1. NewSession(thread[t]) \in Token
      BY DEF NewSession, Token, Request
    <3>2. tokens' \in [Ids -> Token] /\ tokens'[k].state = "live"
      BY <2>2, <3>1 DEF NewSession
    <3>3. ASSUME NEW i \in Ids, NEW j \in Ids, i < j, tokens'[i].state = "unused"
          PROVE  tokens'[j].state = "unused"
      <4>1. i # k /\ tokens[i].state = "unused"
        BY <2>2, <3>2, <3>3
      <4>2. ~(i < k)
        BY <2>2, <4>1 DEF Free
      <4>3. j # k
        BY <3>3, <4>1, <4>2
      <4> QED BY <2>2, <3>3, <4>1, <4>3
    <3> QED BY <1>7, <2>1, <3>2, <3>3, <2>2 DEF StoreInsert
  <2>3. ASSUME Fault, UNCHANGED tokens PROVE TypeOK'
    BY <1>7, <2>1, <2>3 DEF StoreInsert, Fault, Trouble
  <2> QED BY <1>7, <2>2, <2>3 DEF StoreInsert, Free
<1>8. ASSUME NEW k \in Ids, Close(k) PROVE TypeOK'
  BY <1>8, EndedTokens DEF Close
<1>9. CASE Reset
  <2>1. thread' \in [Threads -> Request]
    <3>1. ASSUME NEW q \in Request PROVE [q EXCEPT !.late = q.old # None] \in Request
      BY DEF Request
    <3> QED BY <1>9, <3>1 DEF Reset, Overtaken
  <2>2. version' \in 0..resets' /\ tool' \in 0..resets' \cup {Closed} /\ resets' \in Nat /\ resets' + faults' <= MaxTrouble
    BY <1>9 DEF Reset, Trouble, Closed
  <2> QED BY <1>9, <2>1, <2>2, EndedTokens DEF Reset
<1>10. CASE ToolRead
  BY <1>10 DEF ToolRead
<1>11. CASE ToolWrite
  BY <1>11 DEF ToolWrite
<1>12. CASE UNCHANGED vars
  BY <1>12 DEF vars
<1> QED BY <1>1, <1>2, <1>3, <1>4, <1>5, <1>6, <1>7, <1>8, <1>9, <1>10, <1>11, <1>12 DEF Next

\* The variables keep their types, versions are never ahead of resets, and tokens
\* are stored in the order of their numbers.
THEOREM SessionsTyped == Spec => []TypeOK
BY InitTypeOK, StepTypeOK, PTL DEF Spec

-----------------------------------------------------------------------------
(* What a reset leaves behind.                                             *)

\* A refresh under way knows where the session it has found comes from, or that
\* a reset has overtaken it.
CarriedInv ==
  \A t \in Threads : thread[t].old # None => thread[t].late \/ thread[t].login = resets

LiveInv == TypeOK /\ NoSurvivor /\ CarriedInv

LEMMA StepLiveInv == LiveInv /\ [Next]_vars => LiveInv'
<1> SUFFICES ASSUME LiveInv, [Next]_vars PROVE LiveInv'
  OBVIOUS
<1>1. TypeOK /\ TypeOK'
  BY StepTypeOK DEF LiveInv
<1> SUFFICES NoSurvivor' /\ CarriedInv'
  BY <1>1 DEF LiveInv
<1>2. ASSUME NEW K, tokens' = Ended(K), UNCHANGED resets PROVE NoSurvivor'
  BY <1>1, <1>2, EndedTokens DEF LiveInv, TypeOK, NoSurvivor, Live
<1>3. ASSUME UNCHANGED <<tokens, resets>> PROVE NoSurvivor'
  BY <1>3 DEF LiveInv, NoSurvivor, Live
<1>4. ASSUME NEW t \in Threads, UNCHANGED resets, DOMAIN thread' = Threads,
             \A u \in Threads \ {t} : thread'[u] = thread[u],
             thread'[t].old = None \/ thread'[t].late \/ thread'[t].login = resets
      PROVE  CarriedInv'
  BY <1>4 DEF LiveInv, CarriedInv
<1>5. ASSUME NEW t \in Threads,
             Login(t) \/ RefreshUser(t) \/ RefreshRevoke(t) \/ StoreCount(t) \/ StoreTrim(t)
      PROVE  NoSurvivor' /\ CarriedInv'
  <2>1. NoSurvivor'
    BY <1>2, <1>3, <1>5 DEF Login, RefreshUser, RefreshRevoke, StoreCount, StoreTrim
  <2>2. thread'[t].old = None \/ (/\ thread'[t].old = thread[t].old /\ thread'[t].late = thread[t].late
                                 /\ thread'[t].login = thread[t].login)
    <3>1. thread[t] \in Request /\ DOMAIN thread = Threads
      BY <1>1 DEF TypeOK
    <3>2. CASE Login(t)
      BY <3>1, <3>2 DEF Login, Idle
    <3>3. CASE ~Login(t)
      BY <1>5, <3>1, <3>3 DEF RefreshUser, RefreshRevoke, StoreCount, StoreTrim, Goto, Request
    <3> QED BY <3>2, <3>3
  <2>3. CarriedInv'
    BY <1>1, <1>4, <1>5, <2>2
       DEF LiveInv, CarriedInv, TypeOK, Login, RefreshUser, RefreshRevoke, StoreCount, StoreTrim, Goto
  <2> QED BY <2>1, <2>3
<1>6. ASSUME NEW t \in Threads, NEW k \in Ids, RefreshFind(t, k) PROVE NoSurvivor' /\ CarriedInv'
  <2>1. NoSurvivor'
    BY <1>3, <1>6 DEF RefreshFind
  <2>2. thread'[t].late = tokens[k].late /\ thread'[t].login = tokens[k].login
    BY <1>1, <1>6 DEF RefreshFind, TypeOK, Idle
  <2>3. tokens[k].late \/ tokens[k].login = resets
    BY <1>6 DEF RefreshFind, LiveInv, NoSurvivor
  <2>4. CarriedInv'
    BY <1>1, <1>4, <1>6, <2>2, <2>3 DEF RefreshFind, TypeOK
  <2> QED BY <2>1, <2>4
<1>7. ASSUME NEW t \in Threads, StoreInsert(t) PROVE NoSurvivor' /\ CarriedInv'
  <2>1. NoSurvivor'
    <3>1. ASSUME NEW k \in Ids, tokens' = [tokens EXCEPT ![k] = NewSession(thread[t])], UNCHANGED resets
          PROVE  NoSurvivor'
      <4>1. NewSession(thread[t]).late \/ NewSession(thread[t]).login = resets
        BY DEF NewSession, LiveInv, CarriedInv
      <4> QED BY <1>1, <3>1, <4>1 DEF TypeOK, LiveInv, NoSurvivor, Live
    <3> QED BY <1>3, <1>7, <3>1 DEF StoreInsert
  <2>2. CarriedInv'
    BY <1>1, <1>4, <1>7 DEF StoreInsert, TypeOK, Idle
  <2> QED BY <2>1, <2>2
<1>8. ASSUME NEW k \in Ids, Close(k) PROVE NoSurvivor' /\ CarriedInv'
  BY <1>2, <1>8 DEF Close, LiveInv, CarriedInv
<1>9. CASE Reset
  <2>1. NoSurvivor'
    <3>1. tokens' = Ended(Ids)
      BY <1>9 DEF Reset
    <3>2. \A k \in Ids : Ended(Ids)[k].state # "live"
      BY <1>1, EndedTokens DEF TypeOK
    <3> QED BY <3>1, <3>2 DEF NoSurvivor, Live
  <2>2. ASSUME NEW t \in Threads PROVE thread'[t].old # None => thread'[t].late
    <3>1. thread'[t] = [thread[t] EXCEPT !.late = thread[t].old # None] /\ thread[t] \in Request
      BY <1>1, <1>9 DEF Reset, Overtaken, TypeOK
    <3> QED BY <3>1 DEF Request
  <2> QED BY <2>1, <2>2 DEF CarriedInv
<1>10. CASE ToolRead \/ ToolWrite
  BY <1>3, <1>10 DEF ToolRead, ToolWrite, LiveInv, CarriedInv
<1>11. CASE UNCHANGED vars
  BY <1>3, <1>11 DEF vars, LiveInv, CarriedInv
<1> QED BY <1>5, <1>6, <1>7, <1>8, <1>9, <1>10, <1>11 DEF Next

\* A session outlives a reset only through a refresh that was under way: every
\* other one comes from a login that ended after the last ResetAllSessions.
THEOREM OnlyOvertakenSurvive == Spec => []NoSurvivor
<1>1. Init => LiveInv
  BY InitTypeOK DEF Init, LiveInv, NoSurvivor, CarriedInv, Live, Unused, Idle
<1>2. LiveInv => NoSurvivor
  BY DEF LiveInv
<1> QED BY <1>1, <1>2, StepLiveInv, PTL DEF Spec

-----------------------------------------------------------------------------
(* Which access tokens are accepted.                                       *)

\* While the tool has undone no reset, every reset counts in token_version, and a
\* pair carries the number of resets there were when its user row was read.
VersionInv ==
  ~undone => /\ version = resets
             /\ \A k \in Ids : tokens[k].ver = tokens[k].read
             /\ \A t \in Threads : thread[t].ver = thread[t].read

AccessInv == TypeOK /\ VersionInv

LEMMA StepAccessInv == AccessInv /\ [Next]_vars => AccessInv'
<1> SUFFICES ASSUME AccessInv, [Next]_vars PROVE AccessInv'
  OBVIOUS
<1>1. TypeOK /\ TypeOK'
  BY StepTypeOK DEF AccessInv
<1> SUFFICES ASSUME ~undone' PROVE /\ version' = resets'
                                   /\ \A k \in Ids : tokens'[k].ver = tokens'[k].read
                                   /\ \A t \in Threads : thread'[t].ver = thread'[t].read
  BY <1>1 DEF AccessInv, VersionInv
<1>2. ~undone
  BY DEF Next, vars, Login, RefreshFind, RefreshUser, RefreshRevoke, StoreCount, StoreTrim, StoreInsert,
         Close, Reset, ToolRead, ToolWrite
<1>3. /\ version = resets
      /\ \A k \in Ids : tokens[k].ver = tokens[k].read
      /\ \A t \in Threads : thread[t].ver = thread[t].read
  BY <1>2 DEF AccessInv, VersionInv
<1>4. version' = resets'
  <2>1. CASE ToolWrite
    <3>1. undone' = (undone \/ tool < version)
      BY <2>1 DEF ToolWrite
    <3>2. ~(tool < version)
      BY <3>1, Zenon
    <3>3. tool \in 0..resets /\ version \in Nat /\ resets \in Nat
      BY <1>1, <2>1 DEF ToolWrite, TypeOK
    <3>4. version' = tool /\ resets' = resets
      BY <2>1 DEF ToolWrite
    <3> QED BY <1>3, <3>2, <3>3, <3>4
  <2>2. CASE Reset
    <3>1. version' = version + 1 /\ resets' = resets + 1
      BY <2>2 DEF Reset
    <3> QED BY <1>3, <3>1
  <2>3. CASE UNCHANGED <<version, resets>>
    BY <1>3, <2>3
  <2> QED BY <2>1, <2>2, <2>3 DEF Next, vars, Login, RefreshFind, RefreshUser, RefreshRevoke,
       StoreCount, StoreTrim, StoreInsert, Close, ToolRead
<1>5. \A k \in Ids : tokens'[k].ver = tokens'[k].read
  <2>1. ASSUME NEW K, tokens' = Ended(K) PROVE \A k \in Ids : tokens'[k].ver = tokens'[k].read
    BY <1>1, <1>3, <2>1, EndedTokens DEF TypeOK
  <2>2. ASSUME UNCHANGED tokens PROVE \A k \in Ids : tokens'[k].ver = tokens'[k].read
    BY <1>3, <2>2
  <2>3. ASSUME NEW t \in Threads, NEW j \in Ids, tokens' = [tokens EXCEPT ![j] = NewSession(thread[t])]
        PROVE  \A k \in Ids : tokens'[k].ver = tokens'[k].read
    BY <1>1, <1>3, <2>3 DEF TypeOK, NewSession
  <2> QED BY <2>1, <2>2, <2>3 DEF Next, vars, Login, RefreshFind, RefreshUser, RefreshRevoke,
       StoreCount, StoreTrim, StoreInsert, Close, Reset, ToolRead, ToolWrite
<1>6. \A t \in Threads : thread'[t].ver = thread'[t].read
  <2> SUFFICES ASSUME NEW u \in Threads PROVE thread'[u].ver = thread'[u].read
    OBVIOUS
  <2>1. thread[u] \in Request /\ thread[u].ver = thread[u].read /\ DOMAIN thread = Threads
    BY <1>1, <1>3 DEF TypeOK
  <2>2. ASSUME NEW t \in Threads, NEW q, thread' = [thread EXCEPT ![t] = q], q.ver = q.read
        PROVE  thread'[u].ver = thread'[u].read
    BY <2>1, <2>2
  <2>3. ASSUME NEW t \in Threads PROVE thread[t] \in Request /\ thread[t].ver = thread[t].read
    BY <1>1, <1>3 DEF TypeOK
  <2>6. ASSUME NEW t \in Threads, Login(t) PROVE thread'[u].ver = thread'[u].read
    <3> DEFINE q == [Idle EXCEPT !.pc = "count", !.ver = version, !.read = resets]
    <3>1. q.ver = q.read
      BY <1>3 DEF Idle
    <3>2. thread' = [thread EXCEPT ![t] = q]
      BY <2>6 DEF Login
    <3> HIDE DEF q
    <3> QED BY <2>2, <3>1, <3>2
  <2>7. ASSUME NEW t \in Threads, RefreshUser(t) PROVE thread'[u].ver = thread'[u].read
    <3>1. thread'[t].ver = version /\ thread'[t].read = resets
      BY <2>1, <2>3, <2>7 DEF RefreshUser, Request
    <3>2. u # t => thread'[u] = thread[u]
      BY <2>1, <2>7 DEF RefreshUser
    <3> QED BY <1>3, <2>1, <3>1, <3>2
  <2>8. ASSUME NEW t \in Threads, (\E k \in Ids : RefreshFind(t, k)) \/ StoreInsert(t)
        PROVE  thread'[u].ver = thread'[u].read
    <3>1. CASE u = t
      <4>1. Idle.ver = 0 /\ Idle.read = 0 /\ DOMAIN Idle = {"pc", "old", "login", "late", "ver", "read", "surplus"}
        BY DEF Idle
      <4>2. ASSUME NEW k \in Ids, RefreshFind(t, k) PROVE thread'[t].ver = 0 /\ thread'[t].read = 0
        BY <2>1, <4>1, <4>2 DEF RefreshFind
      <4>3. ASSUME StoreInsert(t) PROVE thread'[t] = Idle
        BY <2>1, <4>3 DEF StoreInsert
      <4> QED BY <2>8, <3>1, <4>1, <4>2, <4>3
    <3>2. CASE u # t
      BY <2>1, <2>8, <3>2 DEF RefreshFind, StoreInsert
    <3> QED BY <3>1, <3>2
  <2>9. ASSUME NEW t \in Threads, RefreshRevoke(t) \/ StoreCount(t) \/ StoreTrim(t)
        PROVE  thread'[u].ver = thread'[u].read
    <3>1. thread'[t].ver = thread[t].ver /\ thread'[t].read = thread[t].read
      BY <2>1, <2>3, <2>9 DEF RefreshRevoke, StoreCount, StoreTrim, Goto, Request
    <3>2. u # t => thread'[u] = thread[u]
      BY <2>1, <2>9 DEF RefreshRevoke, StoreCount, StoreTrim, Goto
    <3> QED BY <2>1, <2>3, <3>1, <3>2
  <2>4. CASE Reset
    BY <2>1, <2>4 DEF Reset, Overtaken, Request
  <2>5. CASE UNCHANGED thread
    BY <2>1, <2>5
  <2> QED BY <2>4, <2>5, <2>6, <2>7, <2>8, <2>9 DEF Next, vars, Close, ToolRead, ToolWrite
<1> QED BY <1>4, <1>5, <1>6

\* CheckTokenVersion accepts an access token only when its user row was read since
\* the last ResetAllSessions, unless cmd/breakglass has undone one.
THEOREM StaleTokensRefused == Spec => []StaleAccessRefused
<1>1. Init => AccessInv
  BY InitTypeOK DEF Init, AccessInv, VersionInv, Unused, Idle
<1>2. AccessInv => StaleAccessRefused
  BY DEF AccessInv, VersionInv, StaleAccessRefused
<1> QED BY <1>1, <1>2, StepAccessInv, PTL DEF Spec

-----------------------------------------------------------------------------
(* How many sessions there are.                                            *)

LEMMA Sizes ==
  ASSUME NEW S, IsFiniteSet(S)
  PROVE  /\ Cardinality(S) \in Nat
         /\ \A x : IsFiniteSet(S \cup {x}) /\ Cardinality(S \cup {x}) <= Cardinality(S) + 1
         /\ \A x \in S : Cardinality(S \ {x}) = Cardinality(S) - 1
         /\ \A T \in SUBSET S : IsFiniteSet(T) /\ Cardinality(T) \in Nat /\ Cardinality(T) <= Cardinality(S)
<1>1. Cardinality(S) \in Nat
  BY FS_CardinalityType
<1>2. ASSUME NEW x PROVE IsFiniteSet(S \cup {x}) /\ Cardinality(S \cup {x}) <= Cardinality(S) + 1
  BY <1>1, FS_AddElement
<1>3. ASSUME NEW x \in S PROVE Cardinality(S \ {x}) = Cardinality(S) - 1
  BY FS_RemoveElement
<1>4. ASSUME NEW T \in SUBSET S
      PROVE  IsFiniteSet(T) /\ Cardinality(T) \in Nat /\ Cardinality(T) <= Cardinality(S)
  BY FS_Subset, FS_CardinalityType
<1> QED BY <1>1, <1>2, <1>3, <1>4

\* Of live sessions there is an oldest one, which storeRefreshToken deletes first.
LEMMA OldestIsThere ==
  ASSUME NEW n \in Nat, n > 0, Live # {}
  PROVE  \E k \in Live : k \in Oldest(n)
<1>1. Live \subseteq Nat
  BY IdsAreNat DEF Live
<1>2. PICK k \in Live : \A i \in Live : <<i, k>> \notin OpToRel(<, Nat)
  BY <1>1, NatLessThanWellFounded, WFMin
<1>3. \A i \in Live : ~(i < k)
  BY <1>1, <1>2 DEF OpToRel
<1>4. {i \in Live : i < k} = {}
  BY <1>3
<1>5. Cardinality({i \in Live : i < k}) = 0
  BY <1>4, FS_EmptySet
<1> QED BY <1>5 DEF Oldest

\* The requests that are about to store a session and will delete none before.
Adding ==
  {t \in Threads : thread[t].pc = "insert" \/ (thread[t].pc = "trim" /\ thread[t].surplus = 0)}

\* Each of them has its place next to the one session a count leaves.
CountInv == Cardinality(Live) + Cardinality(Adding) <= 1 + Cardinality(Threads) + faults

LEMMA AddingIsFinite ==
  /\ IsFiniteSet(Threads) /\ Cardinality(Threads) \in Nat
  /\ Adding \subseteq Threads /\ Adding' \subseteq Threads
  /\ IsFiniteSet(Adding) /\ IsFiniteSet(Adding')
  /\ Cardinality(Adding) \in Nat /\ Cardinality(Adding') \in Nat
  /\ Cardinality(Adding) <= Cardinality(Threads) /\ Cardinality(Adding') <= Cardinality(Threads)
<1>1. Adding \in SUBSET Threads /\ Adding' \in SUBSET Threads
  BY DEF Adding
<1> QED BY <1>1, SessionsAssumption, Sizes

\* A request that takes a step moves no other.
LEMMA AddingStep ==
  ASSUME NEW t \in Threads, \A u \in Threads \ {t} : thread'[u] = thread[u]
  PROVE  /\ t \notin Adding' => Adding' \subseteq Adding
         /\ t \in Adding /\ t \notin Adding' => Adding' = Adding \ {t}
         /\ t \in Adding' => Adding' = Adding \cup {t}
BY DEF Adding

LEMMA StepCountInv == TypeOK /\ CountInv /\ [Next]_vars => CountInv'
<1> SUFFICES ASSUME TypeOK, CountInv, [Next]_vars PROVE CountInv'
  OBVIOUS
<1> DEFINE L == Cardinality(Live)
           L1 == Cardinality(Live')
           A == Cardinality(Adding)
           A1 == Cardinality(Adding')
           N == Cardinality(Threads)
<1>1. /\ L \in Nat /\ A \in Nat /\ N \in Nat /\ L1 \in Nat /\ A1 \in Nat /\ A <= N /\ A1 <= N
      /\ faults \in Nat /\ faults' \in Nat /\ L + A <= 1 + N + faults
      /\ IsFiniteSet(Live) /\ IsFiniteSet(Adding) /\ IsFiniteSet(Threads)
  <2>1. faults \in Nat /\ faults' \in Nat
    BY StepTypeOK DEF TypeOK
  <2>2. Live' \subseteq Ids /\ IsFiniteSet(Ids)
    BY FS_Interval, SessionsAssumption DEF Live, Ids
  <2>3. L1 \in Nat
    BY <2>2, Sizes
  <2> QED BY <2>1, <2>3, LiveIsFinite, AddingIsFinite DEF CountInv
<1> SUFFICES L1 + A1 <= 1 + N + faults'
  BY DEF CountInv
<1>2. tokens \in [Ids -> Token] /\ thread \in [Threads -> Request]
  BY DEF TypeOK
<1>3. ASSUME NEW K, tokens' = Ended(K) PROVE Live' \subseteq Live /\ L1 <= L
  <2>1. Live' \subseteq Live
    BY <1>2, <1>3, EndedTokens DEF Live
  <2> QED BY <1>1, <2>1, Sizes
<1>4. ASSUME Live' \subseteq Live PROVE L1 <= L
  BY <1>1, <1>4, Sizes
<1>5. ASSUME Adding' \subseteq Adding PROVE A1 <= A
  BY <1>1, <1>5, Sizes
<1>6. ASSUME NEW t, Adding' = Adding \cup {t} PROVE A1 <= A + 1
  BY <1>1, <1>6, Sizes
<1> HIDE DEF L, L1, A, A1, N
<1>7. ASSUME L1 + A1 <= 1 + N \/ (L1 <= L /\ A1 <= A /\ faults' >= faults) PROVE L1 + A1 <= 1 + N + faults'
  <2> DEFINE f == faults'
  <2>1. f \in Nat /\ (L1 + A1 <= 1 + N \/ (L1 <= L /\ A1 <= A /\ f >= faults))
    BY <1>1, <1>7
  <2> HIDE DEF f
  <2>2. L1 + A1 <= 1 + N + f
    BY <1>1, <2>1
  <2> QED BY <2>2 DEF f
<1>8. ASSUME NEW t \in Threads, Login(t) \/ (\E k \in Ids : RefreshFind(t, k)) \/ RefreshUser(t) \/ RefreshRevoke(t)
      PROVE  L1 + A1 <= 1 + N + faults'
  <2>1. t \notin Adding' /\ \A u \in Threads \ {t} : thread'[u] = thread[u]
    <3>1. thread[t] \in Request /\ DOMAIN thread = Threads
      BY <1>2
    <3>2. thread'[t].pc \notin {"insert", "trim"}
      <4>1. CASE Login(t)
        BY <3>1, <4>1 DEF Login, Idle
      <4>2. ASSUME NEW k \in Ids, RefreshFind(t, k) PROVE thread'[t].pc = "found"
        BY <3>1, <4>2 DEF RefreshFind, Idle
      <4>3. CASE RefreshUser(t)
        BY <3>1, <4>3 DEF RefreshUser, Request
      <4>4. CASE RefreshRevoke(t)
        BY <3>1, <4>4 DEF RefreshRevoke, Goto, Request
      <4> QED BY <1>8, <4>1, <4>2, <4>3, <4>4
    <3>3. \A u \in Threads \ {t} : thread'[u] = thread[u]
      BY <1>8, <3>1 DEF Login, RefreshFind, RefreshUser, RefreshRevoke, Goto
    <3> QED BY <3>2, <3>3 DEF Adding
  <2>2. A1 <= A
    BY <1>5, <2>1, AddingStep
  <2>3. Live' \subseteq Live
    BY <1>3, <1>8 DEF Login, RefreshFind, RefreshUser, RefreshRevoke, Live
  <2>4. faults' >= faults
    <3>1. faults' = faults \/ faults' = faults + 1
      BY <1>8 DEF Login, RefreshFind, RefreshUser, RefreshRevoke, Fault
    <3>2. faults \in Nat
      BY <1>1
    <3> QED BY <3>1, <3>2
  <2> QED BY <1>4, <1>7, <2>2, <2>3, <2>4
<1>9. ASSUME NEW t \in Threads, StoreCount(t) PROVE L1 + A1 <= 1 + N + faults'
  <2>1. Live' = Live /\ \A u \in Threads \ {t} : thread'[u] = thread[u]
    BY <1>2, <1>9 DEF StoreCount, Goto, Live
  <2>2. L1 = L
    BY <2>1 DEF L, L1
  <2>3. CASE thread' = [thread EXCEPT ![t].pc = "trim", ![t].surplus = Surplus(L)] /\ UNCHANGED faults
    <3>1. thread'[t].pc = "trim" /\ thread'[t].surplus = Surplus(L)
      BY <1>2, <2>3 DEF Request
    <3>2. CASE L >= 2
      <4>1. t \notin Adding'
        BY <1>1, <3>1, <3>2 DEF Surplus, Adding
      <4>2. A1 <= A
        BY <1>5, <2>1, <4>1, AddingStep
      <4> QED BY <1>1, <2>2, <2>3, <4>2
    <3>3. CASE ~(L >= 2)
      <4>1. L1 + A1 <= 1 + N
        BY <1>1, <2>2, <3>3
      <4> QED BY <1>7, <4>1
    <3> QED BY <3>2, <3>3
  <2>4. CASE Goto(t, "insert") /\ Fault
    <3>1. t \in Adding' /\ faults' = faults + 1
      BY <1>2, <2>4 DEF Goto, Fault, Adding, Request
    <3>2. A1 <= A + 1
      BY <1>6, <2>1, <3>1, AddingStep
    <3> QED BY <1>1, <2>2, <3>1, <3>2
  <2> QED BY <1>9, <2>3, <2>4 DEF StoreCount, L
<1>10. ASSUME NEW t \in Threads, StoreTrim(t) PROVE L1 + A1 <= 1 + N + faults'
  <2>1. /\ t \in Adding' /\ thread[t].pc = "trim" /\ thread[t].surplus \in Nat
        /\ \A u \in Threads \ {t} : thread'[u] = thread[u]
    BY <1>2, <1>10 DEF StoreTrim, Goto, Adding, Request
  <2>2. Adding' = Adding \cup {t}
    BY <2>1, AddingStep
  <2>3. A1 <= A + 1
    BY <1>6, <2>2
  <2>4. CASE tokens' = Ended(Oldest(thread[t].surplus)) /\ UNCHANGED faults
    <3>1. CASE thread[t].surplus = 0
      <4>1. Adding' = Adding
        BY <2>1, <2>2, <3>1 DEF Adding
      <4>2. A1 = A
        BY <4>1 DEF A, A1
      <4> QED BY <1>1, <1>3, <2>4, <4>2
    <3>2. CASE thread[t].surplus > 0 /\ Live # {}
      <4>1. PICK k \in Live : k \in Oldest(thread[t].surplus)
        BY <2>1, <3>2, OldestIsThere
      <4>2. k \in Ids /\ Live' \subseteq Live
        BY <1>3, <2>4 DEF Live
      <4>3. k \notin Live'
        BY <1>2, <2>4, <4>1, <4>2, EndedTokens DEF Live
      <4>4. Live' \in SUBSET (Live \ {k}) /\ IsFiniteSet(Live \ {k})
        BY <1>1, <4>2, <4>3, FS_RemoveElement
      <4>5. L1 <= Cardinality(Live \ {k})
        BY <4>4, Sizes DEF L, L1
      <4>6. Cardinality(Live \ {k}) = L - 1
        BY <1>1, Sizes DEF L, L1
      <4> QED BY <1>1, <2>3, <2>4, <4>5, <4>6
    <3>3. CASE Live = {}
      <4>1. Live' = {}
        BY <1>3, <2>4, <3>3
      <4>2. L1 = 0
        BY <4>1, FS_EmptySet DEF L1
      <4>3. L1 + A1 <= 1 + N
        BY <1>1, <4>2
      <4> QED BY <1>7, <4>3
    <3> QED BY <2>1, <3>1, <3>2, <3>3
  <2>5. CASE Fault /\ UNCHANGED tokens
    <3>1. L1 = L
      BY <2>5 DEF L, L1, Live
    <3> QED BY <1>1, <2>3, <2>5, <3>1 DEF Fault
  <2> QED BY <1>10, <2>4, <2>5 DEF StoreTrim
<1>11. ASSUME NEW t \in Threads, StoreInsert(t) PROVE L1 + A1 <= 1 + N + faults'
  <2>1. t \in Adding /\ t \notin Adding' /\ \A u \in Threads \ {t} : thread'[u] = thread[u]
    BY <1>2, <1>11 DEF StoreInsert, Adding, Idle
  <2>2. A1 = A - 1
    <3>1. Adding' = Adding \ {t}
      BY <2>1, AddingStep
    <3> QED BY <1>1, <2>1, <3>1, Sizes DEF A, A1
  <2>3. ASSUME NEW k \in Ids, tokens' = [tokens EXCEPT ![k] = NewSession(thread[t])], UNCHANGED faults
        PROVE  L1 + A1 <= 1 + N + faults'
    <3>1. Live' \in SUBSET (Live \cup {k})
      BY <1>2, <2>3 DEF Live
    <3>2. L1 <= Cardinality(Live \cup {k}) /\ Cardinality(Live \cup {k}) <= L + 1
          /\ Cardinality(Live \cup {k}) \in Nat
      <4>1. IsFiniteSet(Live \cup {k}) /\ Cardinality(Live \cup {k}) <= L + 1
        BY <1>1, Sizes DEF L, L1
      <4> QED BY <3>1, <4>1, Sizes DEF L, L1
    <3> QED BY <1>1, <2>2, <2>3, <3>2
  <2>4. CASE Fault /\ UNCHANGED tokens
    <3>1. L1 = L
      BY <2>4 DEF L, L1, Live
    <3> QED BY <1>1, <2>2, <2>4, <3>1 DEF Fault
  <2> QED BY <1>11, <2>3, <2>4 DEF StoreInsert
<1>12. CASE (\E k \in Ids : Close(k)) \/ Reset \/ ToolRead \/ ToolWrite \/ UNCHANGED vars
  <2>1. Adding' = Adding
    <3>1. \A t \in Threads : thread'[t].pc = thread[t].pc /\ thread'[t].surplus = thread[t].surplus
      <4> SUFFICES ASSUME NEW t \in Threads
                   PROVE  thread'[t].pc = thread[t].pc /\ thread'[t].surplus = thread[t].surplus
        OBVIOUS
      <4>1. CASE Reset
        <5>1. thread'[t] = [thread[t] EXCEPT !.late = thread[t].old # None] /\ thread[t] \in Request
          BY <1>2, <4>1 DEF Reset, Overtaken
        <5> QED BY <5>1 DEF Request
      <4>2. CASE UNCHANGED thread
        BY <4>2
      <4> QED BY <1>12, <4>1, <4>2 DEF Close, ToolRead, ToolWrite, vars
    <3> QED BY <3>1 DEF Adding
  <2>2. A1 = A
    BY <2>1 DEF A, A1
  <2>3. Live' \subseteq Live
    BY <1>3, <1>12 DEF Close, Reset, ToolRead, ToolWrite, vars, Live
  <2>4. faults' = faults
    BY <1>12 DEF Close, Reset, ToolRead, ToolWrite, vars
  <2> QED BY <1>1, <1>4, <2>2, <2>3, <2>4
<1> QED BY <1>8, <1>9, <1>10, <1>11, <1>12 DEF Next

-----------------------------------------------------------------------------
(* How often a refresh token is rotated.                                   *)

\* The sessions a token was rotated into, the requests that have found it, and
\* those of them that have revoked it, or have failed to.
Children(k) == {i \in Ids : tokens[i].parent = k}
Holders(k) == {t \in Threads : thread[t].old = k}
Revokers(k) == {t \in Holders(k) : thread[t].pc \in {"count", "trim", "insert"}}

\* A token that is live was rotated, or will be, only where its revocation has
\* failed; once it is not, by no request but those that hold it.
Family(k) ==
  /\ tokens[k].state = "unused" => Children(k) = {} /\ Holders(k) = {}
  /\ k \in Live => Cardinality(Children(k)) + Cardinality(Revokers(k)) <= faults
  /\ k \notin Live => Cardinality(Children(k)) + Cardinality(Holders(k)) <= Cardinality(Threads) + faults

FamilySizes(C, H, R) ==
  /\ IsFiniteSet(C) /\ IsFiniteSet(H) /\ IsFiniteSet(R)
  /\ Cardinality(C) \in Nat /\ Cardinality(H) \in Nat /\ Cardinality(R) \in Nat
  /\ Cardinality(H) <= Cardinality(R) + Cardinality(Threads)

LEMMA FamilyIsFinite ==
  ASSUME NEW C \in SUBSET Ids, NEW H \in SUBSET Threads, NEW R \in SUBSET H
  PROVE  FamilySizes(C, H, R) /\ Cardinality(Threads) \in Nat
<1>1. IsFiniteSet(Ids) /\ IsFiniteSet(Threads) /\ Cardinality(Threads) \in Nat
  BY FS_Interval, SessionsAssumption, Sizes DEF Ids
<1>2. /\ IsFiniteSet(C) /\ IsFiniteSet(H) /\ Cardinality(C) \in Nat /\ Cardinality(H) \in Nat
      /\ Cardinality(H \ R) <= Cardinality(Threads)
  <2>1. H \ R \in SUBSET Threads
    OBVIOUS
  <2> QED BY <1>1, <2>1, Sizes
<1>3. IsFiniteSet(R) /\ Cardinality(R) \in Nat
  BY <1>2, Sizes
<1>4. Cardinality(H \ R) = Cardinality(H) - Cardinality(H \cap R) /\ H \cap R = R
  BY <1>2, <1>3, FS_Difference
<1> QED BY <1>1, <1>2, <1>3, <1>4 DEF FamilySizes

\* The same of a token and its family one step later.
LEMMA FamilyChanges ==
  ASSUME NEW k \in Ids, TypeOK, TypeOK', Family(k),
         tokens'[k].state = "unused" => tokens[k].state = "unused",
         Holders(k)' \subseteq Holders(k) \/ k \in Live',
         k \in Live' => k \in Live,
         \/ /\ faults' >= faults
            /\ Children(k)' \subseteq Children(k)
            /\ k \in Live' => Revokers(k)' \subseteq Revokers(k)
         \/ /\ faults' = faults + 1
            /\ Children(k)' \subseteq Children(k)
            /\ \E t \in Threads : Revokers(k)' \subseteq Revokers(k) \cup {t}
         \/ /\ faults' = faults
            /\ \E t \in Revokers(k) : /\ Holders(k)' = Holders(k) \ {t}
                                      /\ Revokers(k)' = Revokers(k) \ {t}
            /\ \E i \in Ids : Children(k)' \subseteq Children(k) \cup {i}
  PROVE  Family(k)'
<1> DEFINE C == Children(k)
           H == Holders(k)
           R == Revokers(k)
           C1 == Children(k)'
           H1 == Holders(k)'
           R1 == Revokers(k)'
           N == Cardinality(Threads)
           f == faults
           f1 == faults'
<1>1. /\ C \in SUBSET Ids /\ H \in SUBSET Threads /\ R \in SUBSET H
      /\ C1 \in SUBSET Ids /\ H1 \in SUBSET Threads /\ R1 \in SUBSET H1
  BY DEF Children, Holders, Revokers
<1>2. f \in Nat /\ f1 \in Nat
  BY DEF TypeOK
<1>3. FamilySizes(C, H, R) /\ FamilySizes(C1, H1, R1) /\ N \in Nat
  BY <1>1, FamilyIsFinite
<1>4. /\ k \in Live => Cardinality(C) + Cardinality(R) <= f
      /\ Cardinality(C) + Cardinality(H) <= N + f
  <2>1. /\ k \in Live => Cardinality(C) + Cardinality(R) <= f
        /\ k \notin Live => Cardinality(C) + Cardinality(H) <= N + f
    BY DEF Family
  <2> HIDE DEF C, H, R, f
  <2> QED BY <1>2, <1>3, <2>1 DEF FamilySizes
<1>5. \/ /\ f1 >= f /\ C1 \subseteq C
         /\ k \in Live' => R1 \subseteq R
      \/ /\ f1 = f + 1 /\ C1 \subseteq C
         /\ \E t \in Threads : R1 \subseteq R \cup {t}
      \/ /\ f1 = f
         /\ \E t \in R : H1 = H \ {t} /\ R1 = R \ {t}
         /\ \E i \in Ids : C1 \subseteq C \cup {i}
  OBVIOUS
<1>6. H1 \subseteq H \/ k \in Live'
  OBVIOUS
<1> HIDE DEF C, H, R, C1, H1, R1, N, f, f1
<1>7. /\ k \in Live' => Cardinality(C1) + Cardinality(R1) <= f1
      /\ k \notin Live' => Cardinality(C1) + Cardinality(H1) <= N + f1
  <2>1. H1 \subseteq H => Cardinality(H1) <= Cardinality(H)
    BY <1>3, Sizes DEF FamilySizes
  <2>2. C1 \subseteq C => Cardinality(C1) <= Cardinality(C)
    BY <1>3, Sizes DEF FamilySizes
  <2>3. R1 \subseteq R => Cardinality(R1) <= Cardinality(R)
    BY <1>3, Sizes DEF FamilySizes
  <2>4. ASSUME NEW t, R1 \subseteq R \cup {t} PROVE Cardinality(R1) <= Cardinality(R) + 1
    <3>1. /\ IsFiniteSet(R \cup {t}) /\ Cardinality(R \cup {t}) <= Cardinality(R) + 1
      BY <1>3, Sizes DEF FamilySizes
    <3>2. Cardinality(R \cup {t}) \in Nat /\ Cardinality(R1) <= Cardinality(R \cup {t})
      BY <2>4, <3>1, Sizes
    <3> QED BY <1>3, <3>1, <3>2 DEF FamilySizes
  <2>5. ASSUME NEW i, C1 \subseteq C \cup {i} PROVE Cardinality(C1) <= Cardinality(C) + 1
    <3>1. /\ IsFiniteSet(C \cup {i}) /\ Cardinality(C \cup {i}) <= Cardinality(C) + 1
      BY <1>3, Sizes DEF FamilySizes
    <3>2. Cardinality(C \cup {i}) \in Nat /\ Cardinality(C1) <= Cardinality(C \cup {i})
      BY <2>5, <3>1, Sizes
    <3> QED BY <1>3, <3>1, <3>2 DEF FamilySizes
  <2>6. ASSUME NEW t \in R, H1 = H \ {t}, R1 = R \ {t}
        PROVE  Cardinality(H1) = Cardinality(H) - 1 /\ Cardinality(R1) = Cardinality(R) - 1
    <3>1. t \in H
      BY <1>1
    <3> QED BY <1>3, <2>6, <3>1, Sizes DEF FamilySizes
  <2> DEFINE c == Cardinality(C)
             c1 == Cardinality(C1)
             h == Cardinality(H)
             h1 == Cardinality(H1)
             r == Cardinality(R)
             r1 == Cardinality(R1)
  <2>7. /\ c \in Nat /\ c1 \in Nat /\ h \in Nat /\ h1 \in Nat /\ r \in Nat /\ r1 \in Nat /\ N \in Nat
        /\ f \in Nat /\ f1 \in Nat
        /\ (k \in Live => c + r <= f) /\ c + h <= N + f
    BY <1>2, <1>3, <1>4 DEF FamilySizes
  <2>8. \/ f1 >= f /\ c1 <= c /\ (k \in Live' => r1 <= r) /\ (h1 <= h \/ k \in Live')
        \/ f1 = f + 1 /\ c1 <= c /\ r1 <= r + 1 /\ (h1 <= h \/ k \in Live')
        \/ f1 = f /\ c1 <= c + 1 /\ h1 = h - 1 /\ r1 = r - 1
    BY <1>5, <1>6, <2>1, <2>2, <2>3, <2>4, <2>5, <2>6
  <2> HIDE DEF c, c1, h, h1, r, r1
  <2>9. /\ k \in Live' => c1 + r1 <= f1
        /\ k \notin Live' => c1 + h1 <= N + f1
    BY <2>7, <2>8
  <2> QED BY <2>9 DEF c, c1, h, h1, r, r1
<1>8. tokens'[k].state = "unused" => C1 = {} /\ H1 = {}
  <2> SUFFICES ASSUME tokens'[k].state = "unused" PROVE C1 = {} /\ H1 = {}
    OBVIOUS
  <2>1. C = {} /\ H = {} /\ R = {} /\ k \notin Live'
    BY DEF Family, C, H, R, Live, Revokers
  <2> QED BY <1>5, <1>6, <2>1
<1> QED BY <1>7, <1>8 DEF Family, C1, H1, R1, N, f1

\* What the steps do to the family of a token.
LEMMA StepFamily ==
  ASSUME TypeOK, [Next]_vars, NEW k \in Ids, \A j \in Ids : Family(j)
  PROVE  Family(k)'
<1>1. TypeOK /\ TypeOK'
  BY StepTypeOK
<1>2. tokens \in [Ids -> Token] /\ thread \in [Threads -> Request] /\ faults \in Nat /\ Family(k)
  BY DEF TypeOK
<1>3. ASSUME tokens' = tokens \/ \E K : tokens' = Ended(K)
      PROVE  /\ Children(k)' = Children(k) /\ (k \in Live' => k \in Live)
             /\ tokens'[k].state = "unused" => tokens[k].state = "unused"
  BY <1>2, <1>3, EndedTokens DEF Children, Live
\* A step that neither finds the token nor gives it a child.
<1>4. ASSUME tokens' = tokens \/ \E K : tokens' = Ended(K), faults' = faults \/ faults' = faults + 1,
             Holders(k)' \subseteq Holders(k), Revokers(k)' \subseteq Revokers(k)
      PROVE  Family(k)'
  <2>1. faults' >= faults
    BY <1>2, <1>4
  <2> QED BY <1>1, <1>2, <1>3, <1>4, <2>1, FamilyChanges
<1>5. ASSUME NEW t \in Threads, thread'[t].old # k, \A u \in Threads \ {t} : thread'[u] = thread[u]
      PROVE  Holders(k)' \subseteq Holders(k) /\ Revokers(k)' \subseteq Revokers(k)
  BY <1>5 DEF Holders, Revokers
<1>6. ASSUME NEW t \in Threads, Login(t) PROVE Family(k)'
  <2>1. thread'[t].old # k /\ \A u \in Threads \ {t} : thread'[u] = thread[u]
    BY <1>2, <1>6, IdsAreNat DEF Login, Idle
  <2> QED BY <1>4, <1>5, <1>6, <2>1 DEF Login
<1>7. ASSUME NEW t \in Threads, NEW j \in Ids, RefreshFind(t, j) PROVE Family(k)'
  <2>1. thread'[t].old = j /\ thread'[t].pc = "found" /\ \A u \in Threads \ {t} : thread'[u] = thread[u]
    BY <1>2, <1>7 DEF RefreshFind, Idle
  <2>2. CASE j # k
    BY <1>4, <1>5, <1>7, <2>1, <2>2 DEF RefreshFind
  <2>3. CASE j = k
    <3>1. Revokers(k)' \subseteq Revokers(k)
      BY <2>1 DEF Holders, Revokers
    <3>2. k \in Live /\ k \in Live' /\ tokens' = tokens /\ faults' = faults
      BY <1>7, <2>3 DEF RefreshFind, Live
    <3> QED BY <1>1, <1>2, <1>3, <3>1, <3>2, FamilyChanges
  <2> QED BY <2>2, <2>3
\* The steps of a request before it stores.
<1>8. ASSUME NEW t \in Threads, thread'[t].old = thread[t].old,
             thread[t].pc \in {"count", "trim", "insert"} \/ thread'[t].pc \notin {"count", "trim", "insert"},
             \A u \in Threads \ {t} : thread'[u] = thread[u]
      PROVE  Holders(k)' \subseteq Holders(k) /\ Revokers(k)' \subseteq Revokers(k)
  BY <1>8 DEF Holders, Revokers
<1>9. ASSUME NEW t \in Threads, RefreshUser(t) \/ StoreCount(t) \/ StoreTrim(t) PROVE Family(k)'
  <2>1. thread[t] \in Request /\ DOMAIN thread = Threads
    BY <1>2
  <2>2. /\ thread'[t].old = thread[t].old
        /\ thread[t].pc \in {"count", "trim", "insert"} \/ thread'[t].pc \notin {"count", "trim", "insert"}
    BY <1>9, <2>1 DEF RefreshUser, StoreCount, StoreTrim, Goto, Request
  <2>3. \A u \in Threads \ {t} : thread'[u] = thread[u]
    BY <1>9, <2>1 DEF RefreshUser, StoreCount, StoreTrim, Goto
  <2>4. Holders(k)' \subseteq Holders(k) /\ Revokers(k)' \subseteq Revokers(k)
    BY <1>8, <2>2, <2>3
  <2>5. tokens' = tokens \/ \E K : tokens' = Ended(K)
    BY <1>9 DEF RefreshUser, StoreCount, StoreTrim
  <2>6. faults' = faults \/ faults' = faults + 1
    BY <1>9 DEF RefreshUser, StoreCount, StoreTrim, Fault
  <2> QED BY <1>4, <2>4, <2>5, <2>6
<1>10. ASSUME NEW t \in Threads, RefreshRevoke(t) PROVE Family(k)'
  <2>1. thread[t] \in Request /\ DOMAIN thread = Threads
    BY <1>2
  <2>2. thread'[t].old = thread[t].old /\ \A u \in Threads \ {t} : thread'[u] = thread[u]
    BY <1>10, <2>1 DEF RefreshRevoke, Goto, Request
  <2>3. tokens' = tokens \/ \E K : tokens' = Ended(K)
    BY <1>10 DEF RefreshRevoke
  <2>4. faults' = faults \/ faults' = faults + 1
    BY <1>10 DEF RefreshRevoke, Fault
  <2>5. CASE thread[t].old # k
    BY <1>4, <1>5, <2>2, <2>3, <2>4, <2>5
  <2>6. CASE thread[t].old = k
    <3>1. Holders(k)' \subseteq Holders(k) /\ Revokers(k)' \subseteq Revokers(k) \cup {t}
      BY <2>2, <2>6 DEF Holders, Revokers
    <3>2. CASE tokens' = Ended({k}) /\ UNCHANGED faults
      <4>1. k \notin Live'
        BY <1>2, <3>2, EndedTokens DEF Live
      <4>2. faults' >= faults
        BY <1>2, <3>2
      <4> QED BY <1>1, <1>2, <1>3, <2>3, <3>1, <4>1, <4>2, FamilyChanges
    <3>3. CASE faults' = faults + 1
      BY <1>1, <1>2, <1>3, <2>3, <3>1, <3>3, FamilyChanges
    <3> QED BY <1>10, <2>6, <3>2, <3>3 DEF RefreshRevoke, Fault
  <2> QED BY <2>5, <2>6
<1>11. ASSUME NEW t \in Threads, StoreInsert(t) PROVE Family(k)'
  <2>1. thread'[t].old = None /\ thread[t].pc = "insert" /\ \A u \in Threads \ {t} : thread'[u] = thread[u]
    BY <1>2, <1>11 DEF StoreInsert, Idle
  <2>2. CASE tokens' = tokens /\ Fault
    <3>1. thread'[t].old # k
      BY <2>1, IdsAreNat
    <3> QED BY <1>4, <1>5, <2>1, <2>2, <3>1 DEF Fault
  <2>3. ASSUME NEW j \in Ids, tokens[j].state = "unused", tokens' = [tokens EXCEPT ![j] = NewSession(thread[t])],
               UNCHANGED faults
        PROVE  Family(k)'
    <3>1. /\ tokens'[j].state = "live" /\ tokens'[j].parent = thread[t].old
          /\ \A i \in Ids \ {j} : tokens'[i] = tokens[i]
      BY <1>2, <2>3 DEF NewSession
    <3>2. Children(j) = {} /\ Holders(j) = {}
      BY <2>3 DEF Family
    <3>3. Holders(k)' \subseteq Holders(k) /\ Revokers(k)' \subseteq Revokers(k)
      <4>1. thread'[t].old # k
        BY <2>1, IdsAreNat
      <4> QED BY <1>5, <2>1, <4>1
    <3>4. tokens'[k].state = "unused" => tokens[k].state = "unused"
      BY <3>1
    <3>5. faults' >= faults
      BY <1>2, <2>3
    <3>6. CASE k = thread[t].old
      <4>1. j # k
        BY <3>2, <3>6 DEF Holders
      <4>2. k \in Live' => k \in Live
        BY <3>1, <4>1 DEF Live
      <4>3. Children(k)' \subseteq Children(k) \cup {j}
        BY <3>1 DEF Children
      <4>4. t \in Revokers(k) /\ Holders(k)' = Holders(k) \ {t} /\ Revokers(k)' = Revokers(k) \ {t}
        BY <2>1, <3>6, IdsAreNat DEF Holders, Revokers
      <4> QED BY <1>1, <1>2, <2>3, <3>3, <3>4, <4>2, <4>3, <4>4, FamilyChanges
    <3>7. CASE k # thread[t].old /\ k # j
      <4>1. k \in Live' => k \in Live
        BY <3>1, <3>7 DEF Live
      <4>2. Children(k)' \subseteq Children(k)
        BY <3>1, <3>7 DEF Children
      <4> QED BY <1>1, <1>2, <3>3, <3>4, <3>5, <4>1, <4>2, FamilyChanges
    <3>8. CASE k = j /\ k # thread[t].old
      <4>1. Children(k)' = {} /\ Holders(k)' = {} /\ Revokers(k)' = {}
        BY <3>1, <3>2, <3>3, <3>8 DEF Children, Revokers
      <4>2. k \in Live' /\ tokens'[k].state # "unused"
        BY <3>1, <3>8 DEF Live
      <4>3. Cardinality({}) = 0
        BY FS_EmptySet
      <4>4. Cardinality(Children(k)') + Cardinality(Revokers(k)') <= faults'
        BY <1>2, <2>3, <4>1, <4>3
      <4> QED BY <4>2, <4>4 DEF Family
    <3> QED BY <3>6, <3>7, <3>8
  <2> QED BY <1>11, <2>2, <2>3 DEF StoreInsert
<1>12. CASE (\E j \in Ids : Close(j)) \/ Reset \/ ToolRead \/ ToolWrite \/ UNCHANGED vars
  <2>1. ASSUME NEW t \in Threads PROVE thread'[t].pc = thread[t].pc /\ thread'[t].old = thread[t].old
    <3>1. CASE Reset
      <4>1. thread'[t] = [thread[t] EXCEPT !.late = thread[t].old # None] /\ thread[t] \in Request
        BY <1>2, <3>1 DEF Reset, Overtaken
      <4> QED BY <4>1 DEF Request
    <3>2. CASE UNCHANGED thread
      BY <3>2
    <3> QED BY <1>12, <3>1, <3>2 DEF Close, ToolRead, ToolWrite, vars
  <2>2. Holders(k)' \subseteq Holders(k) /\ Revokers(k)' \subseteq Revokers(k)
    BY <2>1 DEF Holders, Revokers
  <2>3. tokens' = tokens \/ \E K : tokens' = Ended(K)
    BY <1>12 DEF Close, Reset, ToolRead, ToolWrite, vars
  <2>4. faults' = faults
    BY <1>12 DEF Close, Reset, ToolRead, ToolWrite, vars
  <2> QED BY <1>4, <2>2, <2>3, <2>4
<1> QED BY <1>6, <1>7, <1>9, <1>10, <1>11, <1>12 DEF Next

FamilyInv == \A k \in Ids : Family(k)

\* The live sessions of a user are one, one more for each request served at the
\* same time and one for each statement that failed; a refresh token is rotated at
\* most once by each of the requests that presented it together, and once for each
\* revocation that failed (storeRefreshToken, Refresh).
THEOREM SessionsAreBounded == Spec => []SessionsBounded
<1>1. Init => CountInv /\ FamilyInv
  <2> SUFFICES ASSUME Init PROVE CountInv /\ FamilyInv
    OBVIOUS
  <2>1. /\ \A k \in Ids : tokens[k].state = "unused" /\ tokens[k].parent = None
        /\ \A t \in Threads : thread[t].pc = "idle" /\ thread[t].old = None
        /\ faults = 0
    BY DEF Init, Unused, Idle
  <2>2. Live = {} /\ Adding = {} /\ \A k \in Ids : Children(k) = {} /\ Holders(k) = {}
    BY <2>1, IdsAreNat DEF Live, Adding, Children, Holders
  <2>3. Cardinality({}) = 0 /\ Cardinality(Threads) \in Nat
    BY FS_EmptySet, AddingIsFinite
  <2>4. CountInv
    BY <2>1, <2>2, <2>3 DEF CountInv
  <2>5. FamilyInv
    <3> SUFFICES ASSUME NEW k \in Ids PROVE Family(k)
      BY DEF FamilyInv
    <3>1. Cardinality(Children(k)) = 0 /\ Cardinality(Holders(k)) = 0 /\ k \notin Live
      BY <2>2, <2>3
    <3>2. Cardinality(Children(k)) + Cardinality(Holders(k)) <= Cardinality(Threads) + faults
      BY <2>1, <2>3, <3>1
    <3> QED BY <2>2, <3>1, <3>2 DEF Family
  <2> QED BY <2>4, <2>5
<1>2. TypeOK /\ FamilyInv /\ [Next]_vars => FamilyInv'
  BY StepFamily DEF FamilyInv
<1>3. ASSUME TypeOK, CountInv, FamilyInv PROVE SessionsBounded
  <2>1. Cardinality(Live) <= 1 + Cardinality(Threads) + faults
    BY <1>3, LiveIsFinite, AddingIsFinite DEF CountInv, TypeOK
  <2>2. ASSUME NEW k \in Ids PROVE Cardinality(Children(k)) <= Cardinality(Threads) + faults
    <3>1. /\ Children(k) \in SUBSET Ids /\ Holders(k) \in SUBSET Threads
          /\ Revokers(k) \in SUBSET Holders(k)
      BY DEF Children, Holders, Revokers
    <3>2. FamilySizes(Children(k), Holders(k), Revokers(k)) /\ Cardinality(Threads) \in Nat /\ faults \in Nat
      BY <1>3, <3>1, FamilyIsFinite DEF TypeOK
    <3>3. \/ Cardinality(Children(k)) + Cardinality(Revokers(k)) <= faults
          \/ Cardinality(Children(k)) + Cardinality(Holders(k)) <= Cardinality(Threads) + faults
      BY <1>3 DEF FamilyInv, Family
    <3> QED BY <3>2, <3>3 DEF FamilySizes
  <2> QED BY <2>1, <2>2 DEF SessionsBounded, Children
<1> QED BY <1>1, <1>2, <1>3, StepCountInv, SessionsTyped, PTL DEF Spec

=============================================================================
