----------------------------- MODULE TokenSource -----------------------------
(***************************************************************************)
(* What TokenCache promises the broker, without caching, sharing or time:  *)
(* a request for a key ends with an error or with a token the auth-service *)
(* granted for that very key, and a token is granted only while a request  *)
(* for its key is waiting.                                                 *)
(***************************************************************************)
CONSTANTS
  Calls,   \* requests for a token
  Keys,    \* (agentId, clientId, audience, scope) quadruples
  Tokens,  \* access tokens
  None     \* no key, no token

VARIABLES
  request,  \* the state of each request
  granted   \* the tokens the auth-service has granted for each key

vars == <<request, granted>>

Requests == [phase : {"new", "waiting", "returned", "threw"},
             key   : Keys \cup {None},
             token : Tokens \cup {None}]

TypeOK ==
  /\ request \in [Calls -> Requests]
  /\ granted \in [Keys -> SUBSET Tokens]

Init ==
  /\ request = [c \in Calls |-> [phase |-> "new", key |-> None, token |-> None]]
  /\ granted = [k \in Keys |-> {}]

GrantedBefore(t) == \E k \in Keys : t \in granted[k]

\* The request waits for an answer.
Ask(c, k) ==
  /\ request[c].phase = "new"
  /\ request' = [request EXCEPT ![c] =
                   [phase |-> "waiting", key |-> k, token |-> None]]
  /\ UNCHANGED granted

\* The request is answered on the spot with a token already granted.
AskAndReturn(c, k, t) ==
  /\ request[c].phase = "new"
  /\ t \in granted[k]
  /\ request' = [request EXCEPT ![c] =
                   [phase |-> "returned", key |-> k, token |-> t]]
  /\ UNCHANGED granted

\* The auth-service grants a token that was never granted before.
Grant(k, t) ==
  /\ \E c \in Calls : request[c].phase = "waiting" /\ request[c].key = k
  /\ ~GrantedBefore(t)
  /\ granted' = [granted EXCEPT ![k] = @ \cup {t}]
  /\ UNCHANGED request

Return(c, t) ==
  /\ request[c].phase = "waiting"
  /\ t \in granted[request[c].key]
  /\ request' = [request EXCEPT ![c] =
                   [phase |-> "returned", key |-> @.key, token |-> t]]
  /\ UNCHANGED granted

Throw(c) ==
  /\ request[c].phase = "waiting"
  /\ request' = [request EXCEPT ![c].phase = "threw"]
  /\ UNCHANGED granted

Next ==
  \/ \E c \in Calls, k \in Keys : Ask(c, k)
  \/ \E c \in Calls, k \in Keys, t \in Tokens : AskAndReturn(c, k, t)
  \/ \E k \in Keys, t \in Tokens : Grant(k, t)
  \/ \E c \in Calls, t \in Tokens : Return(c, t)
  \/ \E c \in Calls : Throw(c)

Spec == Init /\ [][Next]_vars
=============================================================================
