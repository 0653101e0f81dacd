------------------------------ MODULE Sessions ------------------------------
(***************************************************************************)
(* The sessions of one user: internal/services/auth.go over app.users and  *)
(* app.refresh_tokens, with the nightly reset of internal/scheduler and    *)
(* the password rotation of cmd/breakglass.  A login or a refresh is a     *)
(* sequence of separate statements, with no transaction around it.         *)
(***************************************************************************)
EXTENDS Naturals, FiniteSets

CONSTANTS
  Threads,   \* requests served at the same time
  MaxTokens, \* bound: refresh tokens ever issued
  MaxTrouble \* bound: resets and statements that fail

ASSUME SessionsAssumption ==
  /\ IsFiniteSet(Threads)
  /\ {MaxTokens, MaxTrouble} \subseteq Nat

VARIABLES
  version, \* token_version in app.users
  tokens,  \* app.refresh_tokens, numbered by created_at
  thread,  \* the requests
  tool,    \* cmd/breakglass: the version it read, or Closed
  resets,  \* how many resets there were
  undone,  \* the tool has undone what one of them did to token_version
  faults   \* how many statements failed

vars == <<version, tokens, thread, tool, resets, undone, faults>>

Ids == 1..MaxTokens
None == 0
Closed == MaxTrouble + 1

\* A refresh token that is live, or is revoked, deleted or expired.  ver is the
\* version in the access token issued with it and read the number of resets when
\* its user row was read; login is the number of resets at the end of the login
\* the session comes from; late says that one of the refreshes it comes from was
\* under way during a reset.  Both are forgotten with the session.
Token == [state : {"unused", "live", "dead"}, ver : Nat, read : Nat, login : Nat,
          late : BOOLEAN, parent : Ids \cup {None}]

\* old is the token a refresh has found, with its login and late; surplus is how
\* many sessions storeRefreshToken is about to delete.
Request == [pc : {"idle", "found", "revoke", "count", "trim", "insert"},
            old : Ids \cup {None}, login : Nat, late : BOOLEAN,
            ver : Nat, read : Nat, surplus : Nat]

Unused == [state |-> "unused", ver |-> 0, read |-> 0, login |-> 0, late |-> FALSE, parent |-> None]
Idle == [pc |-> "idle", old |-> None, login |-> 0, late |-> FALSE,
         ver |-> 0, read |-> 0, surplus |-> 0]

\* The variables keep their types.  No version is ever read that was not
\* counted up by a reset, and tokens are numbered in the order they are stored.
TypeOK ==
  /\ version \in 0..resets
  /\ tokens \in [Ids -> Token]
  /\ \A i, k \in Ids : i < k /\ tokens[i].state = "unused" => tokens[k].state = "unused"
  /\ thread \in [Threads -> Request]
  /\ tool \in 0..resets \cup {Closed}
  /\ resets \in Nat
  /\ undone \in BOOLEAN
  /\ faults \in Nat
  /\ resets + faults <= MaxTrouble

Init ==
  /\ version = 0
  /\ tokens = [k \in Ids |-> Unused]
  /\ thread = [t \in Threads |-> Idle]
  /\ tool = Closed
  /\ resets = 0
  /\ undone = FALSE
  /\ faults = 0

Live == {k \in Ids : tokens[k].state = "live"}

\* The n oldest of them.
Oldest(n) == {k \in Live : Cardinality({i \in Live : i < k}) < n}

Ended(K) == [k \in Ids |-> IF k \in K \cap Live THEN [tokens[k] EXCEPT !.state = "dead", !.login = 0, !.late = FALSE] ELSE tokens[k]]

Goto(t, pc) == thread' = [thread EXCEPT ![t].pc = pc]

Trouble == resets + faults < MaxTrouble

Fault == Trouble /\ faults' = faults + 1

-----------------------------------------------------------------------------

\* LoginLocal, LoginLDAP and LoginAzureAD differ in how they verify the user
\* and agree on the rest: read the row, then issue and store a pair.
Login(t) ==
  /\ thread[t].pc = "idle"
  /\ thread' = [thread EXCEPT ![t] = [Idle EXCEPT !.pc = "count", !.ver = version, !.read = resets]]
  /\ UNCHANGED <<version, tokens, tool, resets, undone, faults>>

\* Refresh looks the token up ...
RefreshFind(t, k) ==
  /\ thread[t].pc = "idle"
  /\ k \in Live
  /\ thread' = [thread EXCEPT ![t] = [Idle EXCEPT
       !.pc = "found", !.old = k, !.login = tokens[k].login, !.late = tokens[k].late]]
  /\ UNCHANGED <<version, tokens, tool, resets, undone, faults>>

\* ... then its user ...
RefreshUser(t) ==
  /\ thread[t].pc = "found"
  /\ thread' = [thread EXCEPT ![t].pc = "revoke", ![t].ver = version, ![t].read = resets]
  /\ UNCHANGED <<version, tokens, tool, resets, undone, faults>>

\* ... and revokes it, whether or not it is still live.  An error is ignored.
RefreshRevoke(t) ==
  /\ thread[t].pc = "revoke"
  /\ Goto(t, "count")
  /\ \/ tokens' = Ended({thread[t].old}) /\ UNCHANGED faults
     \/ Fault /\ UNCHANGED tokens
  /\ UNCHANGED <<version, tool, resets, undone>>

\* One session too few is deleted.
Surplus_bug(n) == IF n >= 2 THEN n - 2 ELSE 0

\* How many sessions to delete so that one is left.
Surplus(n) == IF n >= 2 THEN n - 1 ELSE 0

\* storeRefreshToken counts the live sessions; when the count fails it deletes
\* none.  The cleanup of expired rows before it touches no live one.
StoreCount(t) ==
  /\ thread[t].pc = "count"
  /\ \/ thread' = [thread EXCEPT ![t].pc = "trim", ![t].surplus = Surplus(Cardinality(Live))] /\ UNCHANGED faults
     \/ Goto(t, "insert") /\ Fault
  /\ UNCHANGED <<version, tokens, tool, resets, undone>>

\* It deletes as many of the oldest as it has counted too many ...
StoreTrim(t) ==
  /\ thread[t].pc = "trim"
  /\ Goto(t, "insert")
  /\ \/ tokens' = Ended(Oldest(thread[t].surplus)) /\ UNCHANGED faults
     \/ thread[t].surplus > 0 /\ Fault /\ UNCHANGED tokens
  /\ UNCHANGED <<version, tool, resets, undone>>

\* The session a request is about to store.
NewSession(q) ==
  [state |-> "live", ver |-> q.ver, read |-> q.read, parent |-> q.old,
   login |-> IF q.old = None THEN resets ELSE q.login, late |-> q.late]

\* ... and inserts the new one; or fails, and the client has nothing.
StoreInsert(t) ==
  /\ thread[t].pc = "insert"
  /\ thread' = [thread EXCEPT ![t] = Idle]
  /\ \/ \E k \in Ids :
          /\ tokens[k].state = "unused"
          /\ \A i \in Ids : i < k => tokens[i].state # "unused"
          /\ tokens' = [tokens EXCEPT ![k] = NewSession(thread[t])]
          /\ UNCHANGED faults
     \/ Fault /\ UNCHANGED tokens
  /\ UNCHANGED <<version, tool, resets, undone>>

\* Logout, or the passing of expires_at.
Close(k) ==
  /\ k \in Live
  /\ tokens' = Ended({k})
  /\ UNCHANGED <<version, thread, tool, resets, undone, faults>>

\* The refreshes a reset falls into.
Overtaken == [t \in Threads |-> [thread[t] EXCEPT !.late = thread[t].old # None]]

\* The refresh tokens left as they are.
Reset_bug ==
  /\ Trouble
  /\ version' = version + 1
  /\ resets' = resets + 1
  /\ thread' = Overtaken
  /\ UNCHANGED <<tokens, tool, undone, faults>>

\* The version left as it is.
Reset_bug2 ==
  /\ Trouble
  /\ tokens' = Ended(Ids)
  /\ resets' = resets + 1
  /\ thread' = Overtaken
  /\ UNCHANGED <<version, tool, undone, faults>>

\* ResetAllSessions, one transaction, at 00:00 UTC.
Reset ==
  /\ Trouble
  /\ version' = version + 1
  /\ tokens' = Ended(Ids)
  /\ resets' = resets + 1
  /\ thread' = Overtaken
  /\ UNCHANGED <<tool, undone, faults>>

\* cmd/breakglass reads the row ...
ToolRead ==
  /\ tool = Closed
  /\ tool' = version
  /\ UNCHANGED <<version, tokens, thread, resets, undone, faults>>

\* The user signed out on purpose.
ToolWrite_bug ==
  /\ tool # Closed
  /\ version' = tool + 1
  /\ undone' = (undone \/ tool < version)
  /\ tool' = Closed
  /\ UNCHANGED <<tokens, thread, resets, faults>>

\* ... and writes all of its columns back.
ToolWrite ==
  /\ tool # Closed
  /\ version' = tool
  /\ undone' = (undone \/ tool < version)
  /\ tool' = Closed
  /\ UNCHANGED <<tokens, thread, resets, faults>>

Next ==
  \/ \E t \in Threads :
       \/ Login(t)
       \/ \E k \in Ids : RefreshFind(t, k)
       \/ RefreshUser(t)
       \/ RefreshRevoke(t)
       \/ StoreCount(t)
       \/ StoreTrim(t)
       \/ StoreInsert(t)
  \/ \E k \in Ids : Close(k)
  \/ Reset
  \/ ToolRead
  \/ ToolWrite

Spec == Init /\ [][Next]_vars

-----------------------------------------------------------------------------

\* "Enforces max 2 sessions per user", as far as it does: each request served
\* at the same time can add one to a count it took before the others, and so
\* can each statement that fails.  With one thread and no failure it is two.  In
\* the same way a refresh token is rotated once by each of the requests that
\* present it at the same time, and once more for each revocation that fails:
\* never again by one that presents it later.
SessionsBounded ==
  /\ Cardinality(Live) <= 1 + Cardinality(Threads) + faults
  /\ \A k \in Ids :
       Cardinality({i \in Ids : tokens[i].parent = k}) <= Cardinality(Threads) + faults

\* A session outlives a reset only through a refresh that was under way: the
\* others that are live come from logins that ended after the last reset.
NoSurvivor == \A k \in Live : tokens[k].late \/ tokens[k].login = resets

\* An access token whose version is accepted (CheckTokenVersion) was issued on
\* a user row read since the last reset, unless the tool has undone a reset.
StaleAccessRefused ==
  \A k \in Ids : ~undone /\ tokens[k].state # "unused" /\ tokens[k].ver = version
                  => tokens[k].read = resets

==============================================================================
