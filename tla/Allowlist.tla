------------------------------ MODULE Allowlist ------------------------------
(***************************************************************************)
(* internal/notifyemail: app.notify_emails, the emails that may reach the  *)
(* admin routes, its own among them.  The handlers check the caller, then  *)
(* look at the list, then change it, in separate statements.               *)
(***************************************************************************)
EXTENDS Naturals, FiniteSets

CONSTANTS Emails,   \* normalized emails
          Seed,     \* those sql/notify_emails.sql starts with
          Requests, \* requests served at the same time
          Nobody

ASSUME AllowlistAssumption ==
  /\ Seed \subseteq Emails /\ Seed # {}
  /\ IsFiniteSet(Emails)
  /\ Nobody \notin Emails

VARIABLES emails,  \* the rows of app.notify_emails
          request  \* [pc, caller, target, raced] of each request

vars == <<emails, request>>

\* raced: since its caller was checked, another request has removed an email.
Idle == [pc |-> "idle", caller |-> Nobody, target |-> Nobody, raced |-> FALSE]

Init == emails = Seed /\ request = [q \in Requests |-> Idle]

\* requireNotifyEmail, for POST and for DELETE; anyone else gets a 403.
Enter(q, pc) ==
  /\ request[q].pc = "idle"
  /\ \E c \in emails, e \in Emails :
       request' = [request EXCEPT ![q] = [Idle EXCEPT !.pc = pc, !.caller = c, !.target = e]]
  /\ UNCHANGED emails

Leave(q) == request' = [request EXCEPT ![q] = Idle]

\* ON CONFLICT DO NOTHING.
Add(q) ==
  /\ request[q].pc = "add"
  /\ emails' = emails \cup {request[q].target}
  /\ Leave(q)

\* An empty list is refused, one of a single email is not.
MayRemove_bug == Cardinality(emails) > 0

MayRemove == Cardinality(emails) > 1

\* Remove: the count, and a 409 for the last email ...
Count(q) ==
  /\ request[q].pc = "count"
  /\ IF MayRemove THEN request' = [request EXCEPT ![q].pc = "remove"] ELSE Leave(q)
  /\ UNCHANGED emails

\* ... then the DELETE.
Remove(q) ==
  /\ request[q].pc = "remove"
  /\ emails' = emails \ {request[q].target}
  /\ request' = [p \in Requests |->
       IF p = q THEN Idle ELSE [request[p] EXCEPT !.raced = request[p].pc # "idle"]]

\* cmd/breakglass adds the email of its account.
Tool(e) ==
  /\ emails' = emails \cup {e}
  /\ UNCHANGED request

Next ==
  \/ \E q \in Requests : Enter(q, "add") \/ Enter(q, "count") \/ Add(q) \/ Count(q) \/ Remove(q)
  \/ \E e \in Emails : Tool(e)

Spec == Init /\ [][Next]_vars

-----------------------------------------------------------------------------

\* Somebody can always reach the admin routes: a removal empties the list only
\* when another one got in while it was being served.
LastEmailStays ==
  [][emails' = {} => \E q \in Requests : request[q].pc = "remove" /\ request[q].raced]_emails

==============================================================================
