------------------------------ MODULE BrokerCore ------------------------------
(***************************************************************************)
(* One gateway process running the auth broker plugin: the tools that      *)
(* index.ts registers, their per-agent gate, and                           *)
(* BrokerCore.authorizedFetch() from the gate to the answer of the         *)
(* business service (broker/src/index.ts, broker-core.ts, registries.ts,   *)
(* secret-resolver.ts), on top of the token cache of module TokenCache,    *)
(* whose variables it shares.                                              *)
(*                                                                         *)
(* One element of Executions is one tool.execute() of the host.  It calls  *)
(* getToken() at most twice: <<e, 1>> before the first request, <<e, 2>>   *)
(* after a 401.                                                            *)
(***************************************************************************)
EXTENDS Integers, FiniteSets

CONSTANTS
  Executions,    \* tool executions
  Agents,        \* the agents the gateway serves
  Allowed,       \* enabledAgentIds
  ClientOf,      \* agentClients: the client id of each agent that has one
  CredentialRef, \* its credentialRef: every secret it may resolve to
  GlobalEnabled, \* globalEnabled, the kill switch
  Target,        \* targets: the audience and the origin of each target
  Capability,    \* the configured capabilities: target, scope, path, method (upper case)
  Adapters,      \* the capabilities that have an adapter (ADAPTERS)
  None,
  ExpiresIn, RefreshEarly, MinUsable, MaxTime, MaxClears

VARIABLES
  now, cache, pending, call, promise, rejected, clears,  \* of TokenCache
  execution,   \* the local state of each tool execution
  credential   \* _resolvedCredentials: the secret kept for each agent

cacheVars  == <<now, cache, pending, call, promise, rejected, clears>>
brokerVars == <<execution, credential>>
vars == <<cacheVars, brokerVars>>

TokenCalls == Executions \X {1, 2}

\* validateConfig(): a capability of an unknown target makes register() throw,
\* and no tool is registered, also none of a capability that is right.
ConfigIsValid == \A b \in DOMAIN Capability : Capability[b].target \in DOMAIN Target

\* The tools register() offers the gateway.
Tools ==
  IF GlobalEnabled /\ ConfigIsValid THEN DOMAIN Capability \cap Adapters ELSE {}

\* getCapability() and getTarget(); what they throw when nothing is found, no
\* tool that is registered meets.
TargetOf(b) == Target[Capability[b].target]

\* The quadruple getToken() is called with; _cacheKey joins its parts.
Quadruple(a, b) ==
  [agent    |-> a, client |-> ClientOf[a],
   audience |-> TargetOf(b).audience, scope |-> Capability[b].scope]

Secrets == UNION {CredentialRef[a] : a \in DOMAIN ClientOf}

CacheKeys == {Quadruple(a, b) : a \in DOMAIN ClientOf, b \in Tools}

\* What TokenCache assumes of its constants, and that a secret is something.
ASSUME CallsAssumption == IsFiniteSet(Executions) /\ None \notin TokenCalls
ASSUME TimeAssumption == /\ ExpiresIn \subseteq Int
                         /\ RefreshEarly \in Nat
                         /\ MinUsable \in Nat
                         /\ MaxTime \in Nat
                         /\ MaxClears \in Nat
ASSUME SecretsAssumption == None \notin Secrets

TC == INSTANCE TokenCache WITH Calls <- TokenCalls, Keys <- CacheKeys

ExecutionState ==
  [phase  : {"idle", "resolving", "credential", "token", "sent", "retryToken",
             "resent", "answered", "denied", "threw"},
   agent  : Agents \cup {None},
   tool   : Tools \cup {None},
   secret : Secrets \cup {None}]

Init ==
  /\ TC!Init
  /\ execution = [e \in Executions |-> [phase |-> "idle", agent |-> None,
                                        tool |-> None, secret |-> None]]
  /\ credential = [a \in Agents |-> None]

-----------------------------------------------------------------------------
KeyOf(e) == Quadruple(execution[e].agent, execution[e].tool)

GoTo(e, phase) == execution' = [execution EXCEPT ![e].phase = phase]

FirstToken(e)  == call[<<e, 1>>]
SecondToken(e) == call[<<e, 2>>]

\* A continuation of authorizedFetch() is in the microtask queue.
Runnable(e) ==
  \/ execution[e].phase = "credential"
  \/ execution[e].phase = "token" /\ ~TC!Waiting(<<e, 1>>)
  \/ execution[e].phase = "retryToken" /\ ~TC!Waiting(<<e, 2>>)

Quiescent == TC!Quiescent /\ \A e \in Executions : ~Runnable(e)

-----------------------------------------------------------------------------
\* The allowlist gate around the tool.  What assertAgentAllowed() throws is the
\* AgentNotAllowedError of registries.ts; the gate tests for the class of the
\* same name of broker-core.ts, and so throws it on.
GateRefuses(e, a, b) ==
  /\ a \notin Allowed
  /\ execution' = [execution EXCEPT ![e] = [phase |-> "threw", agent |-> a,
                                           tool |-> b, secret |-> None]]

\* getAgentClient() has no client for the agent.
NoClient(e, a, b) ==
  /\ a \in Allowed \ DOMAIN ClientOf
  /\ execution' = [execution EXCEPT ![e] = [phase |-> "threw", agent |-> a,
                                           tool |-> b, secret |-> None]]

\* Mutant: the map is read without looking whether the secret is there.
CredentialUnchecked(e, a, b) ==
  /\ a \in Allowed \cap DOMAIN ClientOf
  /\ execution' = [execution EXCEPT ![e] = [phase |-> "credential", agent |-> a,
                                           tool |-> b, secret |-> credential[a]]]

\* Mutant: secrets are kept per client.
KnownToClient(e, a, b) ==
  /\ a \in Allowed \cap DOMAIN ClientOf
  /\ \E d \in DOMAIN ClientOf :
       /\ ClientOf[d] = ClientOf[a] /\ credential[d] # None
       /\ execution' = [execution EXCEPT ![e] = [phase |-> "credential", agent |-> a,
                                                tool |-> b, secret |-> credential[d]]]

\* The secret of the agent is known; the await still yields.
KnownCredential(e, a, b) ==
  /\ a \in Allowed \cap DOMAIN ClientOf
  /\ credential[a] # None
  /\ execution' = [execution EXCEPT ![e] = [phase |-> "credential", agent |-> a,
                                           tool |-> b, secret |-> credential[a]]]

\* Mutant: the secret is looked up before the gate.
ResolveBeforeGate(e, a, b) ==
  /\ a \in DOMAIN ClientOf
  /\ credential[a] = None
  /\ execution' = [execution EXCEPT ![e] = [phase |-> "resolving", agent |-> a,
                                           tool |-> b, secret |-> None]]

\* resolveSecret() starts, also when another execution already waits for one.
StartResolving(e, a, b) ==
  /\ a \in Allowed \cap DOMAIN ClientOf
  /\ credential[a] = None
  /\ execution' = [execution EXCEPT ![e] = [phase |-> "resolving", agent |-> a,
                                           tool |-> b, secret |-> None]]

\* The host runs a tool for an agent: the gate, the look-ups of
\* authorizedFetch() and _resolveCredential(), up to the first await.
Execute(e, a, b) ==
  /\ execution[e].phase = "idle"
  /\ \/ GateRefuses(e, a, b)
     \/ NoClient(e, a, b)
     \/ KnownCredential(e, a, b)
     \/ StartResolving(e, a, b)
  /\ UNCHANGED <<cacheVars, credential>>

\* resolveSecret() resolves, with what the SecretRef held when it was read.
\* Nothing looks whether another execution has set the credential meanwhile.
CredentialResolves(e) ==
  /\ execution[e].phase = "resolving"
  /\ \E s \in CredentialRef[execution[e].agent] :
       /\ credential' = [credential EXCEPT ![execution[e].agent] = s]
       /\ execution' = [execution EXCEPT ![e] =
                          [@ EXCEPT !.phase = "credential", !.secret = s]]
  /\ UNCHANGED cacheVars

CredentialFails(e) ==
  /\ execution[e].phase = "resolving"
  /\ GoTo(e, "threw")
  /\ UNCHANGED <<cacheVars, credential>>

\* Mutant: the agent is left out of the cache key.
AskForClientToken(e) ==
  /\ execution[e].phase = "credential"
  /\ \E k \in CacheKeys : /\ [k EXCEPT !.agent = None] = [KeyOf(e) EXCEPT !.agent = None]
                         /\ TC!GetToken(<<e, 1>>, k)
  /\ GoTo(e, "token")
  /\ UNCHANGED credential

AskForToken(e) ==
  /\ execution[e].phase = "credential"
  /\ TC!GetToken(<<e, 1>>, KeyOf(e))
  /\ GoTo(e, "token")
  /\ UNCHANGED credential

-----------------------------------------------------------------------------
ValidRequest(e) ==
  /\ TargetOf(execution[e].tool).origin # None
  /\ Capability[execution[e].tool].path # None
  /\ Capability[execution[e].tool].method \in {"GET", "POST", "PUT", "DELETE"}

\* getToken() returned: _validateRequest(), and the request is sent.
SendRequest(e) ==
  /\ execution[e].phase = "token"
  /\ FirstToken(e).phase = "returned"
  /\ GoTo(e, IF ValidRequest(e) THEN "sent" ELSE "threw")
  /\ UNCHANGED <<cacheVars, credential>>

\* getToken() threw, for the first request or for the retry.
TokenFails(e) ==
  /\ \/ execution[e].phase = "token" /\ FirstToken(e).phase = "threw"
     \/ execution[e].phase = "retryToken" /\ SecondToken(e).phase = "threw"
  /\ GoTo(e, "threw")
  /\ UNCHANGED <<cacheVars, credential>>

\* Mutant: the retry asks for a token without invalidate().
RetryWithoutInvalidate(e) ==
  /\ Quiescent
  /\ execution[e].phase = "sent"
  /\ TC!GetToken(<<e, 2>>, KeyOf(e))
  /\ GoTo(e, "retryToken")
  /\ UNCHANGED credential

\* Mutant: invalidate() comes after the token was asked for.
InvalidateTooLate(e) ==
  /\ Quiescent
  /\ execution[e].phase = "sent"
  /\ TC!BeginCall(<<e, 2>>, KeyOf(e), cache[KeyOf(e)])
  /\ cache' = [cache EXCEPT ![KeyOf(e)] = None]
  /\ rejected' = rejected \cup ({cache[KeyOf(e)]} \ {None})
  /\ GoTo(e, "retryToken")
  /\ UNCHANGED <<now, clears, credential>>

\* Mutant: a token that is not the refused one stays in the cache and is used.
InvalidateOnlyRefused(e) ==
  /\ Quiescent
  /\ execution[e].phase = "sent"
  /\ \/ cache[KeyOf(e)] = FirstToken(e).token /\ TC!InvalidateAndGet(<<e, 2>>, KeyOf(e))
     \/ cache[KeyOf(e)] # FirstToken(e).token /\ TC!GetToken(<<e, 2>>, KeyOf(e))
  /\ GoTo(e, "retryToken")
  /\ UNCHANGED credential

\* A 401 on the first request: invalidate() and getToken() in one turn.
Unauthorized(e) ==
  /\ Quiescent
  /\ execution[e].phase = "sent"
  /\ TC!InvalidateAndGet(<<e, 2>>, KeyOf(e))
  /\ GoTo(e, "retryToken")
  /\ UNCHANGED credential

ResendRequest(e) ==
  /\ execution[e].phase = "retryToken"
  /\ SecondToken(e).phase = "returned"
  /\ GoTo(e, "resent")
  /\ UNCHANGED <<cacheVars, credential>>

\* The business service accepts, or the request ends in an error: a network
\* failure, a status that is not ok (401 again included), an unreadable body.
Accepted(e) ==
  /\ Quiescent
  /\ execution[e].phase \in {"sent", "resent"}
  /\ GoTo(e, "answered")
  /\ UNCHANGED <<cacheVars, credential>>

Failed(e) ==
  /\ Quiescent
  /\ execution[e].phase \in {"sent", "resent"}
  /\ GoTo(e, "threw")
  /\ UNCHANGED <<cacheVars, credential>>

-----------------------------------------------------------------------------
CacheResumes(c) == TC!Resume(c) /\ UNCHANGED brokerVars

\* The answer of the token endpoint is an I/O event of the same event loop.
AuthServiceAnswers(c) ==
  Quiescent /\ TC!AuthServiceAnswers(c) /\ UNCHANGED brokerVars

\* Mutant: clear() forgets the promises in flight but keeps the tokens.
ClearPendingOnly ==
  /\ clears < MaxClears
  /\ pending' = [k \in CacheKeys |-> None]
  /\ clears' = clears + 1
  /\ UNCHANGED <<now, cache, call, promise, rejected, brokerVars>>

ClearCache == TC!Clear /\ UNCHANGED brokerVars

Tick == TC!Tick /\ UNCHANGED brokerVars

Ended(e) == execution[e].phase \in {"answered", "denied", "threw"}

\* No execution is in progress.
Idle ==
  /\ \A e \in Executions : execution[e].phase = "idle" \/ Ended(e)
  /\ UNCHANGED vars

-----------------------------------------------------------------------------
Resolving(e) == CredentialResolves(e) \/ CredentialFails(e)

Continue(e) ==
  AskForToken(e) \/ SendRequest(e) \/ ResendRequest(e) \/ TokenFails(e)

BusinessAnswers(e) == Accepted(e) \/ Unauthorized(e) \/ Failed(e)

\* What an execution, or a call of getToken(), does next.
Proceeds(e) == Resolving(e) \/ Continue(e) \/ BusinessAnswers(e)

Settles(c) == CacheResumes(c) \/ AuthServiceAnswers(c)

Next ==
  \/ \E e \in Executions, a \in Agents, b \in Tools : Execute(e, a, b)
  \/ \E e \in Executions : Proceeds(e)
  \/ \E c \in TokenCalls : Settles(c)
  \/ ClearCache
  \/ Tick
  \/ Idle

Spec == Init /\ [][Next]_vars

\* Continuations run; the secret provider and both services answer, or the
\* HTTP client times out.  An execution awaits one thing at a time, so fairness
\* of all its steps is fairness of each.  Whether the host executes a tool is
\* its own choice.
Fairness ==
  /\ \A e \in Executions : WF_vars(Proceeds(e))
  /\ \A c \in TokenCalls : WF_vars(Settles(c))

FairSpec == Spec /\ Fairness

-----------------------------------------------------------------------------
(***************************************************************************)
(* Properties.                                                             *)
(***************************************************************************)

\* Type correctness of the broker's state; an execution goes on from
\* _resolveCredential() with a secret in hand.
TypeOK ==
  /\ TC!TypeOK
  /\ execution \in [Executions -> ExecutionState]
  /\ credential \in [Agents -> Secrets \cup {None}]
  /\ \A e \in Executions :
       execution[e].phase \in {"credential", "token", "sent", "retryToken", "resent"}
         => execution[e].secret \in Secrets

BearerOf(e) ==
  IF execution[e].phase = "sent" THEN FirstToken(e).token ELSE SecondToken(e).token

\* The token a request carries to the business service was granted for the
\* agent that runs the tool, its client, the audience of the target the request
\* goes to and the scope of the capability (broker-core.ts:118-168), whatever
\* other executions, retries and cache clearing happened in between.
BearerIsOwn ==
  \A e \in Executions : execution[e].phase \in {"sent", "resent"} =>
    /\ promise[BearerOf(e)].state = "fulfilled"
    /\ call[BearerOf(e)].key = KeyOf(e)

\* The first calls of an agent may resolve its secret at once, the later one
\* overwriting what the earlier kept (broker-core.ts:237-246): a secret is kept
\* for the agent it belongs to, and every token request in flight, also that of
\* a retry, carries a secret of the agent for whom its token will be cached.
SecretIsOwn ==
  /\ \A a \in Agents : credential[a] # None => credential[a] \in CredentialRef[a]
  /\ \A c \in TokenCalls : TC!InFlight(c) =>
       execution[c[1]].secret \in CredentialRef[call[c].key.agent]

\* 401 recovery (broker-core.ts:152-168, 302-314): the retry never carries the
\* token that was refused, although it may join an issuance another execution
\* started, and from the 401 on the cache does not hold that token any more.
RefusedTokenGone ==
  \A e \in Executions : execution[e].phase \in {"retryToken", "resent"} =>
    /\ SecondToken(e).token # FirstToken(e).token
    /\ cache[KeyOf(e)] # FirstToken(e).token
    /\ pending[KeyOf(e)] # FirstToken(e).token

\* "runs before any auth/token/fetch" (index.ts:114): no secret is read and no
\* token requested for an agent outside the allowlist.
GateComesFirst ==
  /\ \A a \in Agents \ Allowed : credential[a] = None
  /\ \A c \in TokenCalls : call[c].phase # "new" => call[c].key.agent \in Allowed
  /\ \A e \in Executions : execution[e].phase = "resolving" =>
       execution[e].agent \in Allowed

\* The broker drives the cache only as TokenCache allows: one new call at a
\* time, invalidation only from a 401 answer, no I/O event before the
\* continuations of the last one have run.
DrivesTokenCache == TC!Spec

\* BrokerCore implements BrokerService.
AbstractPhase(e) ==
  CASE execution[e].phase \in {"resolving", "credential", "token"} -> "preparing"
    [] execution[e].phase = "retryToken" -> "renewing"
    [] OTHER -> execution[e].phase

\* While a request is renewed, it is the token its call of getToken() awaits.
AbstractToken(e) ==
  CASE execution[e].phase \in {"sent", "resent"} -> BearerOf(e)
    [] execution[e].phase = "retryToken" -> SecondToken(e).awaits
    [] OTHER -> None

AbstractRequest ==
  [e \in Executions |-> [phase |-> AbstractPhase(e), agent |-> execution[e].agent,
                         tool |-> execution[e].tool, token |-> AbstractToken(e)]]

Served == Agents \cap Allowed \cap DOMAIN ClientOf

QuadrupleOf == [ab \in Served \X Tools |-> Quadruple(ab[1], ab[2])]

Service == INSTANCE BrokerService WITH
             Keys <- CacheKeys, Key <- QuadrupleOf, Tokens <- TokenCalls,
             request <- AbstractRequest, granted <- TC!Granted

\* "On 401, triggers at most one retry with a fresh token"
\* (broker-core.ts:118-168, 268): whatever tokens and issuances executions share,
\* each ends with an error or sends a request with a token of its own agent and
\* tool, and after a 401 once more, with a token the broker got after that 401
\* and not merely with another one.
ImplementsService == Service!Spec

\* Every tool execution comes to its end, whatever the two services answer and
\* whichever executions share its token request.
EveryExecutionEnds ==
  \A e \in Executions : execution[e].phase # "idle" ~> Ended(e)

\* What the gate (index.ts:118-125) is written to do: an agent outside the
\* allowlist is told that the tool is not available.
DeniedIsAnswered ==
  \A e \in Executions :
    Ended(e) /\ execution[e].agent \notin Allowed => execution[e].phase = "denied"
=============================================================================
