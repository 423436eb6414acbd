---------------------------- MODULE BrokerService ----------------------------
(***************************************************************************)
(* What BrokerCore promises the agents, without a cache, secrets or time:  *)
(* an execution ends with an error, or sends its request with a token that *)
(* was granted for its own agent and tool; told that the token is refused, *)
(* it may send the request once more, with a token the broker did not have *)
(* then.  A token is granted only while an execution needs one like it.    *)
(***************************************************************************)
CONSTANTS
  Executions,  \* tool executions
  Agents,      \* the agents that ask for them
  Served,      \* the agents that are in the allowlist and have a client
  Tools,       \* the registered tools
  Keys,        \* (agentId, clientId, audience, scope) quadruples
  Key,         \* the quadruple of each served agent and tool
  Tokens,      \* access tokens
  None         \* no agent, no tool, no token

VARIABLES
  request,  \* the state of each execution
  granted   \* the tokens the broker has been granted for each quadruple

vars == <<request, granted>>

Phases == {"idle", "preparing", "sent", "renewing", "resent", "answered", "threw"}

\* token: the one the request carries or, while it is renewed, will carry.
Requests == [phase : Phases,
             agent : Agents \cup {None},
             tool  : Tools \cup {None},
             token : Tokens \cup {None}]

TypeOK ==
  /\ request \in [Executions -> Requests]
  /\ granted \in [Keys -> SUBSET Tokens]

Init ==
  /\ request = [e \in Executions |-> [phase |-> "idle", agent |-> None,
                                      tool |-> None, token |-> None]]
  /\ granted = [k \in Keys |-> {}]

KeyOf(e) == Key[<<request[e].agent, request[e].tool>>]

GrantedBefore(t) == \E k \in Keys : t \in granted[k]

Become(e, phase, token) ==
  /\ request' = [request EXCEPT ![e] = [phase |-> phase, agent |-> @.agent,
                                        tool |-> @.tool, token |-> token]]
  /\ UNCHANGED granted

-----------------------------------------------------------------------------
Begin(e, a, b) ==
  /\ request[e].phase = "idle"
  /\ request' = [request EXCEPT ![e] =
                   [phase |-> IF a \in Served THEN "preparing" ELSE "threw",
                    agent |-> a, tool |-> b, token |-> None]]
  /\ UNCHANGED granted

\* The auth-service grants a token that was never granted before.
Grant(e, t) ==
  /\ request[e].phase \in {"preparing", "renewing"}
  /\ ~GrantedBefore(t)
  /\ granted' = [granted EXCEPT ![KeyOf(e)] = @ \cup {t}]
  /\ UNCHANGED request

Send(e, t) ==
  /\ request[e].phase = "preparing"
  /\ t \in granted[KeyOf(e)]
  /\ Become(e, "sent", t)

\* The token is refused: the next one, t, has yet to be granted.
Renew(e, t) ==
  /\ request[e].phase = "sent"
  /\ ~GrantedBefore(t)
  /\ Become(e, "renewing", t)

Resend(e) ==
  /\ request[e].phase = "renewing"
  /\ request[e].token \in granted[KeyOf(e)]
  /\ Become(e, "resent", request[e].token)

Answer(e) ==
  /\ request[e].phase \in {"sent", "resent"}
  /\ Become(e, "answered", None)

Throw(e) ==
  /\ request[e].phase \in {"preparing", "sent", "renewing", "resent"}
  /\ Become(e, "threw", None)

Next ==
  \E e \in Executions :
    \/ \E a \in Agents, b \in Tools : Begin(e, a, b)
    \/ \E t \in Tokens : Grant(e, t) \/ Send(e, t) \/ Renew(e, t)
    \/ Resend(e) \/ Answer(e) \/ Throw(e)

Spec == Init /\ [][Next]_vars
=============================================================================
