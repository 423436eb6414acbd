-------------------------- MODULE BrokerCoreProofs --------------------------
(***************************************************************************)
(* Theorems about the broker's tool executions, for every configuration    *)
(* and any number of executions.  What the token cache guarantees is taken *)
(* from TokenCacheProofs, instantiated as the broker instantiates it.      *)
(***************************************************************************)
EXTENDS BrokerCore, TLAPS, FiniteSetTheorems

TP == INSTANCE TokenCacheProofs WITH Calls <- TokenCalls, Keys <- CacheKeys

LEMMA CacheAssumptions ==
  TP!CallsAssumption /\ TP!TimeAssumption /\ TP!ClearAssumption
  <1>1. IsFiniteSet({1, 2})
    <2>1. IsFiniteSet({1})
      BY FS_Singleton
    <2>2. IsFiniteSet({1} \cup {2})
      BY <2>1, FS_AddElement
    <2>3. {1} \cup {2} = {1, 2}
      OBVIOUS
    <2> QED
      BY <2>2, <2>3
  <1>2. IsFiniteSet(TokenCalls)
    BY <1>1, CallsAssumption, FS_Product DEF TokenCalls
  <1>3. TP!IsFiniteSet(TokenCalls)
    BY <1>2 DEF IsFiniteSet, TP!IsFiniteSet
  <1> QED
    BY <1>3, CallsAssumption, TimeAssumption
       DEF TP!CallsAssumption, TP!TimeAssumption, TP!ClearAssumption

-----------------------------------------------------------------------------
\* The phases in which an execution has passed the gate and has a client.
Admitted == {"resolving", "credential", "token", "sent", "retryToken", "resent"}

GateOf(e) ==
  execution[e].phase \in Admitted =>
    /\ execution[e].agent \in Agents \cap Allowed \cap DOMAIN ClientOf
    /\ execution[e].tool \in Tools

SecretOf(e) ==
  execution[e].phase \in {"credential", "token", "sent", "retryToken", "resent"} =>
    execution[e].secret \in CredentialRef[execution[e].agent]

\* Secrets are kept only for agents that may run a tool, and each for its own.
CredentialsAreOwn ==
  \A a \in Agents : credential[a] # None =>
    a \in Allowed \cap DOMAIN ClientOf /\ credential[a] \in CredentialRef[a]

\* Which calls of getToken() an execution has made, and how they ended.
CallsOf(e) ==
  LET phase == execution[e].phase
  IN  /\ phase \in {"idle", "resolving", "credential"} => FirstToken(e).phase = "new"
      /\ phase \in {"idle", "resolving", "credential", "token", "sent"} =>
           SecondToken(e).phase = "new"
      /\ phase \in {"token", "sent", "retryToken", "resent"} =>
           FirstToken(e).phase # "new" /\ FirstToken(e).key = KeyOf(e)
      /\ phase \in {"retryToken", "resent"} =>
           SecondToken(e).phase # "new" /\ SecondToken(e).key = KeyOf(e)
      /\ phase \in {"sent", "retryToken", "resent"} => FirstToken(e).phase = "returned"
      /\ phase = "resent" => SecondToken(e).phase = "returned"

\* From the 401 on, nothing the second call can get hold of is the token that
\* was refused.
RefusedOf(e) ==
  execution[e].phase \in {"retryToken", "resent"} =>
    LET refused == FirstToken(e).token
    IN  /\ cache[KeyOf(e)] # refused
        /\ pending[KeyOf(e)] # refused
        /\ <<e, 2>> # refused
        /\ SecondToken(e).cached = None
        /\ SecondToken(e).awaits # refused
        /\ SecondToken(e).token # refused

\* A call of getToken() waits only while its execution waits for it.
WaitsOf(e) ==
  /\ TP!Waiting(<<e, 1>>) => execution[e].phase = "token"
  /\ TP!Waiting(<<e, 2>>) => execution[e].phase = "retryToken"

\* The second call had to wait, and returned what it waited for.
RenewalOf(e) ==
  execution[e].phase \in {"retryToken", "resent"} =>
    /\ SecondToken(e).awaits \in TokenCalls
    /\ SecondToken(e).phase = "returned" =>
         SecondToken(e).token = SecondToken(e).awaits

ExecutionInv(e) ==
  GateOf(e) /\ SecretOf(e) /\ CallsOf(e) /\ RefusedOf(e) /\ WaitsOf(e) /\ RenewalOf(e)

IInv ==
  /\ TP!IInv
  /\ TypeOK
  /\ GateComesFirst
  /\ CredentialsAreOwn
  /\ \A e \in Executions : ExecutionInv(e)

-----------------------------------------------------------------------------
(***************************************************************************)
(* The cache as the broker sees it and as TokenCacheProofs does.           *)
(***************************************************************************)

LEMMA SameInit == TC!Init <=> TP!Init
  BY DEF TC!Init, TP!Init, TC!NewCall, TP!NewCall, TC!Unused, TP!Unused

LEMMA SameType == TC!TypeOK <=> TP!TypeOK
  BY DEF TC!TypeOK, TP!TypeOK, TC!CallState, TP!CallState, TC!Phases, TP!Phases,
         TC!PromiseState, TP!PromiseState

LEMMA SameTypeNext == TC!TypeOK' <=> TP!TypeOK'
  BY DEF TC!TypeOK, TP!TypeOK, TC!CallState, TP!CallState, TC!Phases, TP!Phases,
         TC!PromiseState, TP!PromiseState

LEMMA SameQuiescent == TC!Quiescent <=> TP!Quiescent
  BY DEF TC!Quiescent, TP!Quiescent, TC!Runnable, TP!Runnable, TC!Waiting, TP!Waiting,
         TC!Settled, TP!Settled

LEMMA SameBegin ==
  ASSUME NEW c \in TokenCalls, NEW k \in CacheKeys, NEW found
  PROVE  TC!BeginCall(c, k, found) <=> TP!BeginCall(c, k, found)
  BY DEF TC!BeginCall, TP!BeginCall, TC!ServeFromCache, TP!ServeFromCache,
         TC!JoinPending, TP!JoinPending, TC!StartIssuance, TP!StartIssuance,
         TC!Fresh, TP!Fresh, TC!TimeLeft, TP!TimeLeft

LEMMA SameGet ==
  ASSUME NEW c \in TokenCalls, NEW k \in CacheKeys
  PROVE  /\ TC!GetToken(c, k) <=> TP!GetToken(c, k)
         /\ TC!InvalidateAndGet(c, k) <=> TP!InvalidateAndGet(c, k)
  BY SameBegin, SameQuiescent
     DEF TC!GetToken, TP!GetToken, TC!InvalidateAndGet, TP!InvalidateAndGet

LEMMA SameResume ==
  ASSUME NEW c \in TokenCalls
  PROVE  TC!Resume(c) <=> TP!Resume(c)
  BY DEF TC!Resume, TP!Resume, TC!OwnerReturns, TP!OwnerReturns, TC!OwnerFallsBack,
         TP!OwnerFallsBack, TC!OwnerThrows, TP!OwnerThrows, TC!WaiterResumes,
         TP!WaiterResumes, TC!Return, TP!Return, TC!Throw, TP!Throw, TC!ForgetPending,
         TP!ForgetPending, TC!Fallback, TP!Fallback, TC!TimeLeft, TP!TimeLeft,
         TC!Settled, TP!Settled

LEMMA SameAnswer ==
  ASSUME NEW c \in TokenCalls
  PROVE  TC!AuthServiceAnswers(c) <=> TP!AuthServiceAnswers(c)
  BY SameQuiescent
     DEF TC!AuthServiceAnswers, TP!AuthServiceAnswers, TC!IssuanceSucceeds,
         TP!IssuanceSucceeds, TC!IssuanceFails, TP!IssuanceFails, TC!InFlight,
         TP!InFlight, TC!Unused, TP!Unused

LEMMA SameOther == (TC!Clear <=> TP!Clear) /\ (TC!Tick <=> TP!Tick)
  BY DEF TC!Clear, TP!Clear, TC!Tick, TP!Tick

\* Every step of the broker leaves the cache as it is or takes one of its steps.
CacheStep ==
  \/ UNCHANGED cacheVars
  \/ \E c \in TokenCalls, k \in CacheKeys : TP!GetToken(c, k) \/ TP!InvalidateAndGet(c, k)
  \/ \E c \in TokenCalls : TP!AuthServiceAnswers(c) \/ TP!Resume(c)
  \/ TP!Clear
  \/ TP!Tick

LEMMA KeyIsKnown ==
  ASSUME NEW e \in Executions, GateOf(e), execution[e].phase \in Admitted
  PROVE  KeyOf(e) \in CacheKeys
  BY DEF GateOf, KeyOf, CacheKeys

LEMMA CallNames ==
  ASSUME NEW e \in Executions
  PROVE  /\ <<e, 1>> \in TokenCalls /\ <<e, 2>> \in TokenCalls
         /\ \A d \in Executions : /\ <<e, 1>> # <<d, 2>>
                                  /\ <<e, 1>> = <<d, 1>> => e = d
                                  /\ <<e, 2>> = <<d, 2>> => e = d
  BY DEF TokenCalls

LEMMA NextIsCacheStep ==
  ASSUME \A e \in Executions : GateOf(e), [Next]_vars
  PROVE  CacheStep
  <1>1. ASSUME NEW e \in Executions, AskForToken(e) PROVE CacheStep
    <2>1. KeyOf(e) \in CacheKeys
      BY <1>1, KeyIsKnown DEF AskForToken, Admitted
    <2> QED
      BY <1>1, <2>1, CallNames, SameGet DEF AskForToken, CacheStep
  <1>2. ASSUME NEW e \in Executions, Unauthorized(e) PROVE CacheStep
    <2>1. KeyOf(e) \in CacheKeys
      BY <1>2, KeyIsKnown DEF Unauthorized, Admitted
    <2> QED
      BY <1>2, <2>1, CallNames, SameGet DEF Unauthorized, CacheStep
  <1>3. ASSUME NEW c \in TokenCalls, Settles(c) PROVE CacheStep
    BY <1>3, SameResume, SameAnswer
       DEF Settles, CacheResumes, AuthServiceAnswers, CacheStep
  <1>4. CASE ClearCache \/ Tick
    BY <1>4, SameOther DEF ClearCache, Tick, CacheStep
  <1>5. CASE UNCHANGED cacheVars
    BY <1>5 DEF CacheStep
  <1>6. ASSUME NEW e \in Executions, NEW a \in Agents, NEW b \in Tools, Execute(e, a, b)
        PROVE  CacheStep
    BY <1>5, <1>6 DEF Execute
  <1>7. ASSUME NEW e \in Executions, Proceeds(e) PROVE CacheStep
    BY <1>1, <1>2, <1>5, <1>7
       DEF Proceeds, Resolving, CredentialResolves, CredentialFails, Continue, SendRequest,
           ResendRequest, TokenFails, BusinessAnswers, Accepted, Failed
  <1>8. CASE Idle \/ UNCHANGED vars
    BY <1>5, <1>8 DEF Idle, vars
  <1> QED
    BY <1>3, <1>4, <1>6, <1>7, <1>8 DEF Next

LEMMA CacheStepIsNext == CacheStep => [TP!Next]_TP!vars
  BY DEF CacheStep, TP!Next, TP!vars, cacheVars

\* What TokenCacheProofs says of such a step.
LEMMA CacheGoesOn ==
  ASSUME TP!IInv, CacheStep
  PROVE  /\ TP!IInv'
         /\ \A c \in TokenCalls : TP!CallGoesOn(c) /\ TP!StaysOut(c)
  <1>1. TP!IInv'
    BY CacheStepIsNext, CacheAssumptions, TP!NextIInv
  <1>2. CASE UNCHANGED cacheVars
    BY <1>1, <1>2 DEF cacheVars, TP!CallGoesOn, TP!StaysOut
  <1>3. ASSUME NEW c \in TokenCalls, NEW k \in CacheKeys,
               TP!GetToken(c, k) \/ TP!InvalidateAndGet(c, k)
        PROVE  \A d \in TokenCalls : TP!CallGoesOn(d) /\ TP!StaysOut(d)
    BY <1>3, CacheAssumptions, TP!BeginGoesOn DEF TP!GetToken, TP!InvalidateAndGet
  <1>4. ASSUME NEW c \in TokenCalls, TP!AuthServiceAnswers(c) \/ TP!Resume(c)
        PROVE  \A d \in TokenCalls : TP!CallGoesOn(d) /\ TP!StaysOut(d)
    BY <1>4, CacheAssumptions, TP!AnswerGoesOn, TP!ResumeGoesOn
  <1>5. CASE TP!Clear \/ TP!Tick
    BY <1>1, <1>5, CacheAssumptions, TP!OtherGoesOn
  <1> QED
    BY <1>1, <1>2, <1>3, <1>4, <1>5 DEF CacheStep

-----------------------------------------------------------------------------
(***************************************************************************)
(* Executions.                                                             *)
(***************************************************************************)

\* An execution that does not move keeps its invariant, whatever the cache and
\* the other executions do, if none of its calls begins.
LEMMA OtherExecution ==
  ASSUME IInv, CacheStep, NEW d \in Executions, execution'[d] = execution[d],
         FirstToken(d).phase = "new" => FirstToken(d)'.phase = "new",
         SecondToken(d).phase = "new" => SecondToken(d)'.phase = "new"
  PROVE  ExecutionInv(d)'
  <1>1. /\ TP!CallGoesOn(<<d, 1>>) /\ TP!CallGoesOn(<<d, 2>>)
        /\ <<d, 1>> \in TokenCalls /\ <<d, 2>> \in TokenCalls
    BY CacheGoesOn, CallNames DEF IInv
  <1>2. KeyOf(d)' = KeyOf(d)
    BY DEF KeyOf
  <1>3. GateOf(d)' /\ SecretOf(d)'
    BY DEF IInv, ExecutionInv, GateOf, SecretOf
  <1>4. CallsOf(d)'
    BY <1>1, <1>2 DEF IInv, ExecutionInv, CallsOf, FirstToken, SecondToken, TP!CallGoesOn
  <1>5. RefusedOf(d)'
    <2> SUFFICES ASSUME execution[d].phase \in {"retryToken", "resent"}
                 PROVE  RefusedOf(d)'
      BY DEF RefusedOf
    <2>1. call[<<d, 1>>].phase = "returned" /\ call'[<<d, 1>>] = call[<<d, 1>>]
      BY <1>1 DEF IInv, ExecutionInv, CallsOf, FirstToken, TP!CallGoesOn
    <2>2. PICK refused : refused = call[<<d, 1>>].token
      OBVIOUS
    <2>3. refused \in TokenCalls /\ promise[refused].state = "fulfilled"
      BY <1>1, <2>1, <2>2 DEF IInv, TP!IInv, TP!TypeOK, TP!TokenBinding, TP!CallState
    <2>4. TP!StaysOut(refused) /\ KeyOf(d) \in CacheKeys
      BY <2>3, CacheGoesOn, KeyIsKnown DEF IInv, ExecutionInv, Admitted
    <2>5. /\ cache[KeyOf(d)] # refused /\ pending[KeyOf(d)] # refused /\ <<d, 2>> # refused
          /\ call[<<d, 2>>].cached = None /\ call[<<d, 2>>].awaits # refused
          /\ call[<<d, 2>>].token # refused /\ call[<<d, 2>>].phase # "new"
      BY <2>2 DEF IInv, ExecutionInv, RefusedOf, CallsOf, FirstToken, SecondToken
    <2>6. cache'[KeyOf(d)] # refused /\ pending'[KeyOf(d)] # refused
      BY <2>3, <2>4, <2>5 DEF TP!StaysOut
    <2>7. /\ call'[<<d, 2>>].cached = None /\ call'[<<d, 2>>].awaits # refused
          /\ call'[<<d, 2>>].token # refused
      BY <1>1, <2>3, <2>5, CallsAssumption DEF TP!CallGoesOn
    <2>8. call'[<<d, 1>>].token = refused
      BY <2>1, <2>2
    <2> QED
      BY <1>2, <2>5, <2>6, <2>7, <2>8 DEF RefusedOf, FirstToken, SecondToken
  <1>6. TP!IInv /\ TP!IInv'
    BY CacheGoesOn DEF IInv
  <1>7. WaitsOf(d)'
    <2>1. ASSUME NEW c \in {<<d, 1>>, <<d, 2>>}, TP!Waiting(c)' PROVE TP!Waiting(c)
      <3>1. call[c].phase \in TP!Phases
        BY <1>1, <1>6 DEF TP!IInv, TP!TypeOK, TP!CallState
      <3> QED
        BY <1>1, <2>1, <3>1
           DEF TP!Waiting, TP!CallGoesOn, TP!Phases, FirstToken, SecondToken
    <2> QED
      BY <2>1 DEF WaitsOf, IInv, ExecutionInv
  <1>8. RenewalOf(d)'
    <2> SUFFICES ASSUME execution[d].phase \in {"retryToken", "resent"}
                 PROVE  RenewalOf(d)'
      BY DEF RenewalOf
    <2>1. /\ call[<<d, 2>>].phase # "new" /\ call[<<d, 2>>].cached = None
          /\ call[<<d, 2>>].awaits \in TokenCalls
          /\ call[<<d, 2>>].phase = "returned" =>
               call[<<d, 2>>].token = call[<<d, 2>>].awaits
      BY DEF IInv, ExecutionInv, RefusedOf, CallsOf, RenewalOf, SecondToken
    <2>2. call'[<<d, 2>>].awaits = call[<<d, 2>>].awaits
      BY <1>1, <2>1 DEF TP!CallGoesOn
    <2>3. call[<<d, 2>>].phase \in {"owner", "waiter", "returned", "threw"}
      BY <1>1, <1>6, <2>1 DEF TP!IInv, TP!TypeOK, TP!CallState, TP!Phases
    <2>4. CASE TP!Waiting(<<d, 2>>)
      BY <1>1, <1>6, <2>1, <2>2, <2>4, CacheAssumptions, TP!ReturnsAwaited
         DEF RenewalOf, SecondToken
    <2>5. CASE call[<<d, 2>>].phase \in {"returned", "threw"}
      BY <1>1, <2>1, <2>5 DEF RenewalOf, SecondToken, TP!CallGoesOn
    <2> QED
      BY <2>3, <2>4, <2>5 DEF TP!Waiting
  <1> QED
    BY <1>3, <1>4, <1>5, <1>7, <1>8 DEF ExecutionInv

LEMMA SecretIsSecret ==
  ASSUME NEW e \in Executions, ExecutionInv(e)'
  PROVE  execution'[e].phase \in {"credential", "token", "sent", "retryToken", "resent"} =>
           execution'[e].secret \in Secrets
  BY DEF ExecutionInv, GateOf, SecretOf, Admitted, Secrets

\* A step keeps the invariant if it keeps that of each execution, and lets no
\* agent outside the allowlist have a secret or a call.
LEMMA StepInv ==
  ASSUME IInv, CacheStep,
         execution' \in [Executions -> ExecutionState],
         credential' \in [Agents -> Secrets \cup {None}],
         CredentialsAreOwn',
         \A c \in TokenCalls : call[c].phase = "new" /\ call'[c].phase # "new" =>
           call'[c].key.agent \in Allowed,
         \A e \in Executions : ExecutionInv(e)'
  PROVE  IInv'
  <1>1. TP!IInv' /\ \A c \in TokenCalls : TP!CallGoesOn(c)
    BY CacheGoesOn DEF IInv
  <1>2. TypeOK'
    <2>1. TC!TypeOK'
      BY <1>1, SameTypeNext DEF TP!IInv
    <2> QED
      BY <2>1, SecretIsSecret DEF TypeOK, ExecutionInv
  <1>3. \A c \in TokenCalls : call'[c].phase # "new" => call'[c].key.agent \in Allowed
    BY <1>1 DEF IInv, GateComesFirst, TP!CallGoesOn
  <1>4. GateComesFirst'
    BY <1>3 DEF GateComesFirst, CredentialsAreOwn, ExecutionInv, GateOf, Admitted
  <1> QED
    BY <1>1, <1>2, <1>4 DEF IInv

\* One execution moves and the cache stays as it is.
LEMMA QuietStep ==
  ASSUME IInv, UNCHANGED cacheVars, NEW e \in Executions,
         execution' \in [Executions -> ExecutionState],
         \A d \in Executions \ {e} : execution'[d] = execution[d],
         credential' \in [Agents -> Secrets \cup {None}],
         CredentialsAreOwn',
         ExecutionInv(e)'
  PROVE  IInv'
  <1>1. CacheStep /\ call' = call
    BY DEF CacheStep, cacheVars
  <1>2. ASSUME NEW d \in Executions PROVE ExecutionInv(d)'
    BY <1>1, OtherExecution DEF FirstToken, SecondToken
  <1> QED
    BY <1>1, <1>2, StepInv

LEMMA GoToType ==
  ASSUME TypeOK, NEW e \in Executions,
         NEW phase \in {"token", "sent", "retryToken", "resent", "answered", "threw"},
         GoTo(e, phase)
  PROVE  /\ execution' \in [Executions -> ExecutionState]
         /\ execution'[e].phase = phase
         /\ execution'[e].agent = execution[e].agent
         /\ execution'[e].tool = execution[e].tool
         /\ execution'[e].secret = execution[e].secret
         /\ KeyOf(e)' = KeyOf(e)
         /\ \A d \in Executions \ {e} : execution'[d] = execution[d]
  <1>1. /\ execution' \in [Executions -> ExecutionState]
        /\ execution'[e].phase = phase
        /\ execution'[e].agent = execution[e].agent
        /\ execution'[e].tool = execution[e].tool
        /\ execution'[e].secret = execution[e].secret
        /\ \A d \in Executions \ {e} : execution'[d] = execution[d]
    BY DEF GoTo, TypeOK, ExecutionState
  <1> QED
    BY <1>1 DEF KeyOf

LEMMA ResolvedType ==
  ASSUME TypeOK, NEW e \in Executions, CredentialResolves(e),
         execution[e].agent \in DOMAIN ClientOf
  PROVE  \E s \in CredentialRef[execution[e].agent] :
           /\ credential' = [credential EXCEPT ![execution[e].agent] = s]
           /\ execution'[e].phase = "credential" /\ execution'[e].agent = execution[e].agent
           /\ execution'[e].tool = execution[e].tool /\ execution'[e].secret = s
           /\ \A d \in Executions \ {e} : execution'[d] = execution[d]
           /\ execution' \in [Executions -> ExecutionState]
  <1>1. PICK s \in CredentialRef[execution[e].agent] :
          /\ credential' = [credential EXCEPT ![execution[e].agent] = s]
          /\ execution' = [execution EXCEPT ![e] =
                             [@ EXCEPT !.phase = "credential", !.secret = s]]
    BY DEF CredentialResolves
  <1> DEFINE resolved == [execution[e] EXCEPT !.phase = "credential", !.secret = s]
  <1>2. /\ execution \in [Executions -> ExecutionState]
        /\ execution[e] \in ExecutionState
        /\ s \in Secrets
    BY DEF TypeOK, Secrets
  <1>3. /\ resolved \in ExecutionState
        /\ resolved.phase = "credential" /\ resolved.agent = execution[e].agent
        /\ resolved.tool = execution[e].tool /\ resolved.secret = s
    BY <1>2 DEF ExecutionState
  <1>4. execution' = [execution EXCEPT ![e] = resolved]
    BY <1>1
  <1> HIDE DEF resolved
  <1> QED
    BY <1>1, <1>2, <1>3, <1>4

LEMMA ExecuteInv ==
  ASSUME IInv, NEW e \in Executions, NEW a \in Agents, NEW b \in Tools, Execute(e, a, b)
  PROVE  IInv'
  <1>1. /\ UNCHANGED cacheVars /\ credential' = credential /\ execution[e].phase = "idle"
        /\ execution \in [Executions -> ExecutionState]
        /\ credential \in [Agents -> Secrets \cup {None}]
    BY DEF Execute, IInv, TypeOK
  <1>2. PICK phase \in {"threw", "credential", "resolving"}, secret \in Secrets \cup {None} :
          /\ execution' = [execution EXCEPT ![e] = [phase |-> phase, agent |-> a,
                                                   tool |-> b, secret |-> secret]]
          /\ phase # "threw" => a \in Allowed \cap DOMAIN ClientOf
          /\ phase = "credential" => secret \in CredentialRef[a]
    BY <1>1 DEF IInv, CredentialsAreOwn, Execute, GateRefuses, NoClient, KnownCredential, StartResolving
  <1>3. /\ execution'[e].phase = phase /\ execution'[e].agent = a
        /\ execution'[e].tool = b /\ execution'[e].secret = secret
        /\ \A d \in Executions \ {e} : execution'[d] = execution[d]
        /\ execution' \in [Executions -> ExecutionState]
    BY <1>1, <1>2 DEF ExecutionState
  <1>4. GateOf(e)' /\ SecretOf(e)' /\ RefusedOf(e)'
    BY <1>2, <1>3 DEF GateOf, SecretOf, RefusedOf, Admitted
  <1>5. CallsOf(e)'
    BY <1>1, <1>2, <1>3 DEF IInv, ExecutionInv, CallsOf, FirstToken, SecondToken, cacheVars
  <1>6. WaitsOf(e)' /\ RenewalOf(e)'
    BY <1>1, <1>2, <1>3
       DEF IInv, ExecutionInv, WaitsOf, RenewalOf, TP!Waiting, cacheVars
  <1> QED
    BY <1>1, <1>3, <1>4, <1>5, <1>6, QuietStep DEF IInv, CredentialsAreOwn, ExecutionInv

LEMMA ResolvingInv ==
  ASSUME IInv, NEW e \in Executions, Resolving(e)
  PROVE  IInv'
  <1>1. /\ UNCHANGED cacheVars /\ execution[e].phase = "resolving"
        /\ execution \in [Executions -> ExecutionState]
        /\ credential \in [Agents -> Secrets \cup {None}]
    BY DEF Resolving, CredentialResolves, CredentialFails, IInv, TypeOK
  <1>2. execution[e].agent \in Agents \cap Allowed \cap DOMAIN ClientOf
          /\ execution[e].tool \in Tools
    BY <1>1 DEF IInv, ExecutionInv, GateOf, Admitted
  <1>3. CASE CredentialFails(e)
    <2>1. credential' = credential /\ GoTo(e, "threw")
      BY <1>3 DEF CredentialFails
    <2>2. /\ execution'[e].phase = "threw" /\ execution' \in [Executions -> ExecutionState]
          /\ \A d \in Executions \ {e} : execution'[d] = execution[d]
      BY <2>1, GoToType DEF IInv
    <2>3. WaitsOf(e)'
      BY <1>1, <2>2 DEF IInv, ExecutionInv, WaitsOf, TP!Waiting, cacheVars
    <2>4. ExecutionInv(e)'
      BY <2>2, <2>3 DEF ExecutionInv, GateOf, SecretOf, CallsOf, RefusedOf, RenewalOf, Admitted
    <2> QED
      BY <1>1, <2>1, <2>2, <2>4, QuietStep DEF IInv, CredentialsAreOwn
  <1>4. CASE CredentialResolves(e)
    <2>1. PICK s \in CredentialRef[execution[e].agent] :
            /\ credential' = [credential EXCEPT ![execution[e].agent] = s]
            /\ execution'[e].phase = "credential" /\ execution'[e].agent = execution[e].agent
            /\ execution'[e].tool = execution[e].tool /\ execution'[e].secret = s
            /\ \A d \in Executions \ {e} : execution'[d] = execution[d]
            /\ execution' \in [Executions -> ExecutionState]
      BY <1>2, <1>4, ResolvedType DEF IInv
    <2>2. credential' \in [Agents -> Secrets \cup {None}] /\ CredentialsAreOwn'
      BY <1>1, <1>2, <2>1 DEF IInv, CredentialsAreOwn, Secrets
    <2>3. GateOf(e)' /\ SecretOf(e)' /\ RefusedOf(e)'
      BY <1>2, <2>1 DEF GateOf, SecretOf, RefusedOf
    <2>4. CallsOf(e)'
      BY <1>1, <2>1 DEF IInv, ExecutionInv, CallsOf, FirstToken, SecondToken, cacheVars
    <2>5. WaitsOf(e)' /\ RenewalOf(e)'
      BY <1>1, <2>1 DEF IInv, ExecutionInv, WaitsOf, RenewalOf, TP!Waiting, cacheVars
    <2> QED
      BY <1>1, <2>1, <2>2, <2>3, <2>4, <2>5, QuietStep DEF ExecutionInv
  <1> QED
    BY <1>3, <1>4 DEF Resolving

\* A request is sent, or an execution ends.
LEMMA RequestInv ==
  ASSUME IInv, NEW e \in Executions,
         \/ SendRequest(e) \/ ResendRequest(e) \/ TokenFails(e)
         \/ Accepted(e) \/ Failed(e)
  PROVE  IInv'
  <1>1. UNCHANGED cacheVars /\ credential' = credential
    BY DEF SendRequest, ResendRequest, TokenFails, Accepted, Failed
  <1>2. PICK phase \in {"sent", "resent", "answered", "threw"} :
          /\ GoTo(e, phase)
          /\ phase = "sent" => /\ execution[e].phase = "token"
                               /\ FirstToken(e).phase = "returned"
          /\ phase = "resent" => /\ execution[e].phase = "retryToken"
                                 /\ SecondToken(e).phase = "returned"
    BY DEF SendRequest, ResendRequest, TokenFails, Accepted, Failed
  <1>3. /\ execution' \in [Executions -> ExecutionState]
        /\ execution'[e].phase = phase
        /\ execution'[e].agent = execution[e].agent
        /\ execution'[e].tool = execution[e].tool
        /\ execution'[e].secret = execution[e].secret
        /\ KeyOf(e)' = KeyOf(e)
        /\ \A d \in Executions \ {e} : execution'[d] = execution[d]
    BY <1>2, GoToType DEF IInv
  <1>4. GateOf(e)' /\ SecretOf(e)'
    BY <1>2, <1>3 DEF IInv, ExecutionInv, GateOf, SecretOf, Admitted
  <1>5. CallsOf(e)'
    BY <1>1, <1>2, <1>3 DEF IInv, ExecutionInv, CallsOf, FirstToken, SecondToken, cacheVars
  <1>6. RefusedOf(e)'
    BY <1>1, <1>2, <1>3 DEF IInv, ExecutionInv, RefusedOf, FirstToken, SecondToken, cacheVars
  <1>7. ~TP!Waiting(<<e, 1>>) /\ ~TP!Waiting(<<e, 2>>)
    BY DEF SendRequest, ResendRequest, TokenFails, Accepted, Failed, IInv, ExecutionInv,
           WaitsOf, TP!Waiting, FirstToken, SecondToken
  <1>8. WaitsOf(e)'
    BY <1>1, <1>7 DEF WaitsOf, TP!Waiting, cacheVars
  <1>9. RenewalOf(e)'
    BY <1>1, <1>2, <1>3 DEF IInv, ExecutionInv, RenewalOf, SecondToken, cacheVars
  <1> QED
    BY <1>1, <1>3, <1>4, <1>5, <1>6, <1>8, <1>9, QuietStep
       DEF IInv, TypeOK, CredentialsAreOwn, ExecutionInv

LEMMA AskForTokenInv ==
  ASSUME IInv, NEW e \in Executions, AskForToken(e)
  PROVE  IInv'
  <1>1. /\ execution[e].phase = "credential" /\ GoTo(e, "token")
        /\ credential' = credential
        /\ KeyOf(e) \in CacheKeys
        /\ execution[e].agent \in Allowed
    BY KeyIsKnown DEF AskForToken, IInv, ExecutionInv, GateOf, Admitted
  <1>2. TP!GetToken(<<e, 1>>, KeyOf(e))
    BY <1>1, SameGet, CallNames DEF AskForToken
  <1>3. CacheStep
    BY <1>1, <1>2, CallNames DEF CacheStep
  <1>4. /\ call'[<<e, 1>>].phase # "new" /\ call'[<<e, 1>>].key = KeyOf(e)
        /\ \A c \in TokenCalls \ {<<e, 1>>} : call'[c] = call[c]
    BY <1>1, <1>2, CallNames, CacheAssumptions, TP!BeginsOne DEF TP!GetToken, IInv
  <1>5. /\ execution' \in [Executions -> ExecutionState]
        /\ execution'[e].phase = "token"
        /\ execution'[e].agent = execution[e].agent
        /\ execution'[e].tool = execution[e].tool
        /\ execution'[e].secret = execution[e].secret
        /\ KeyOf(e)' = KeyOf(e)
        /\ \A d \in Executions \ {e} : execution'[d] = execution[d]
    BY <1>1, GoToType DEF IInv
  <1>6. ASSUME NEW d \in Executions \ {e} PROVE ExecutionInv(d)'
    <2>1. call'[<<d, 1>>] = call[<<d, 1>>] /\ call'[<<d, 2>>] = call[<<d, 2>>]
      BY <1>4, CallNames
    <2> QED
      BY <1>3, <1>5, <2>1, OtherExecution DEF FirstToken, SecondToken
  <1>7. ExecutionInv(e)'
    <2>1. call'[<<e, 2>>] = call[<<e, 2>>] /\ call[<<e, 2>>].phase = "new"
      BY <1>1, <1>4, CallNames DEF IInv, ExecutionInv, CallsOf, SecondToken
    <2>2. CallsOf(e)' /\ RefusedOf(e)'
      BY <1>4, <1>5, <2>1 DEF CallsOf, RefusedOf, FirstToken, SecondToken
    <2>3. GateOf(e)' /\ SecretOf(e)'
      BY <1>1, <1>5 DEF IInv, ExecutionInv, GateOf, SecretOf, Admitted
    <2>4. WaitsOf(e)' /\ RenewalOf(e)'
      BY <1>5, <2>1 DEF WaitsOf, RenewalOf, TP!Waiting
    <2> QED
      BY <2>2, <2>3, <2>4 DEF ExecutionInv
  <1>8. KeyOf(e).agent = execution[e].agent
    BY DEF KeyOf, Quadruple
  <1>9. \A c \in TokenCalls : call[c].phase = "new" /\ call'[c].phase # "new" =>
          call'[c].key.agent \in Allowed
    BY <1>1, <1>4, <1>8
  <1> QED
    BY <1>1, <1>3, <1>5, <1>6, <1>7, <1>9, StepInv DEF IInv, TypeOK, CredentialsAreOwn

LEMMA UnauthorizedInv ==
  ASSUME IInv, NEW e \in Executions, Unauthorized(e)
  PROVE  IInv'
  <1>1. /\ execution[e].phase = "sent" /\ GoTo(e, "retryToken")
        /\ credential' = credential
        /\ KeyOf(e) \in CacheKeys
        /\ execution[e].agent \in Allowed
    BY KeyIsKnown DEF Unauthorized, IInv, ExecutionInv, GateOf, Admitted
  <1>2. TP!InvalidateAndGet(<<e, 2>>, KeyOf(e))
    BY <1>1, SameGet, CallNames DEF Unauthorized
  <1>3. CacheStep
    BY <1>1, <1>2, CallNames DEF CacheStep
  <1>4. /\ call'[<<e, 2>>].phase # "new" /\ call'[<<e, 2>>].key = KeyOf(e)
        /\ \A c \in TokenCalls \ {<<e, 2>>} : call'[c] = call[c]
    BY <1>1, <1>2, CallNames, CacheAssumptions, TP!BeginsOne DEF TP!InvalidateAndGet, IInv
  <1>5. /\ execution' \in [Executions -> ExecutionState]
        /\ execution'[e].phase = "retryToken"
        /\ execution'[e].agent = execution[e].agent
        /\ execution'[e].tool = execution[e].tool
        /\ execution'[e].secret = execution[e].secret
        /\ KeyOf(e)' = KeyOf(e)
        /\ \A d \in Executions \ {e} : execution'[d] = execution[d]
    BY <1>1, GoToType DEF IInv
  <1>6. ASSUME NEW d \in Executions \ {e} PROVE ExecutionInv(d)'
    <2>1. call'[<<d, 1>>] = call[<<d, 1>>] /\ call'[<<d, 2>>] = call[<<d, 2>>]
      BY <1>4, CallNames
    <2> QED
      BY <1>3, <1>5, <2>1, OtherExecution DEF FirstToken, SecondToken
  <1>7. call'[<<e, 1>>] = call[<<e, 1>>] /\ call[<<e, 1>>].phase = "returned"
          /\ call[<<e, 1>>].key = KeyOf(e)
    BY <1>1, <1>4, CallNames DEF IInv, ExecutionInv, CallsOf, FirstToken
  <1>8. GateOf(e)' /\ SecretOf(e)' /\ CallsOf(e)'
    BY <1>1, <1>4, <1>5, <1>7
       DEF IInv, ExecutionInv, GateOf, SecretOf, Admitted, CallsOf, FirstToken, SecondToken
  <1>9. RefusedOf(e)'
    <2>1. PICK refused : refused = call[<<e, 1>>].token
      OBVIOUS
    <2>2. refused \in TokenCalls /\ promise[refused].state = "fulfilled"
      BY <1>7, <2>1, CallNames DEF IInv, TP!IInv, TP!TypeOK, TP!TokenBinding, TP!CallState
    <2>3. /\ refused # <<e, 2>>
          /\ cache'[KeyOf(e)] # refused /\ pending'[KeyOf(e)] # refused
          /\ call'[<<e, 2>>].cached = None /\ call'[<<e, 2>>].awaits # refused
          /\ call'[<<e, 2>>].token # refused
      BY <1>1, <1>2, <2>2, CallNames, CacheAssumptions, TP!InvalidatedIsGone DEF IInv
    <2>4. call'[<<e, 1>>].token = refused
      BY <1>7, <2>1
    <2> QED
      BY <1>5, <2>3, <2>4 DEF RefusedOf, FirstToken, SecondToken
  <1>10. KeyOf(e).agent = execution[e].agent
    BY DEF KeyOf, Quadruple
  <1>11. \A c \in TokenCalls : call[c].phase = "new" /\ call'[c].phase # "new" =>
           call'[c].key.agent \in Allowed
    BY <1>1, <1>4, <1>10
  <1>12. WaitsOf(e)' /\ RenewalOf(e)'
    <2>1. /\ call'[<<e, 2>>].phase \in {"owner", "waiter"}
          /\ call'[<<e, 2>>].awaits \in TokenCalls
      BY <1>1, <1>2, CallNames, CacheAssumptions, TP!InvalidatedWaits DEF IInv
    <2> QED
      BY <1>5, <1>7, <2>1 DEF WaitsOf, RenewalOf, TP!Waiting, SecondToken
  <1>13. ExecutionInv(e)'
    BY <1>8, <1>9, <1>12 DEF ExecutionInv
  <1> QED
    BY <1>1, <1>3, <1>5, <1>6, <1>11, <1>13, StepInv DEF IInv, TypeOK, CredentialsAreOwn

\* A call of getToken() goes on, or the cache is cleared.
LEMMA SettlesInv ==
  ASSUME IInv, UNCHANGED brokerVars, CacheStep,
         \A c \in TokenCalls : call[c].phase = "new" => call'[c].phase = "new"
  PROVE  IInv'
  <1>1. execution' = execution /\ credential' = credential
    BY DEF brokerVars
  <1>2. ASSUME NEW d \in Executions PROVE ExecutionInv(d)'
    BY <1>1, CallNames, OtherExecution DEF FirstToken, SecondToken
  <1> QED
    BY <1>1, <1>2, StepInv DEF IInv, TypeOK, CredentialsAreOwn

-----------------------------------------------------------------------------
LEMMA InitInv == Init => IInv
  <1> SUFFICES ASSUME Init PROVE IInv
    OBVIOUS
  <1>1. TP!Init
    BY SameInit DEF Init
  <1>2. TP!IInv
    BY <1>1, CacheAssumptions, TP!InitIInv
  <1>3. \A e \in Executions : execution[e].phase = "idle"
    BY DEF Init
  <1>4. \A c \in TokenCalls : call[c].phase = "new"
    BY <1>1 DEF TP!Init, TP!NewCall
  <1>5. TypeOK
    BY <1>2, <1>3, SameType DEF Init, TypeOK, TP!IInv, ExecutionState
  <1>6. GateComesFirst
    BY <1>3, <1>4 DEF Init, GateComesFirst
  <1>8. CredentialsAreOwn
    BY DEF Init, CredentialsAreOwn
  <1>7. \A e \in Executions : ExecutionInv(e)
    BY <1>3, <1>4, CallNames
       DEF ExecutionInv, GateOf, SecretOf, CallsOf, RefusedOf, WaitsOf, RenewalOf, Admitted,
           FirstToken, SecondToken, TP!Waiting
  <1> QED
    BY <1>2, <1>5, <1>6, <1>7, <1>8 DEF IInv

LEMMA NextInv == IInv /\ [Next]_vars => IInv'
  <1> SUFFICES ASSUME IInv, [Next]_vars PROVE IInv'
    OBVIOUS
  <1>1. CacheStep
    BY NextIsCacheStep DEF IInv, ExecutionInv
  <1>2. ASSUME NEW e \in Executions, NEW a \in Agents, NEW b \in Tools, Execute(e, a, b)
        PROVE  IInv'
    BY <1>2, ExecuteInv
  <1>3. ASSUME NEW e \in Executions, Proceeds(e) PROVE IInv'
    BY <1>3, ResolvingInv, RequestInv, AskForTokenInv, UnauthorizedInv
       DEF Proceeds, Continue, BusinessAnswers
  <1>4. ASSUME NEW c \in TokenCalls, Settles(c) PROVE IInv'
    <2>1. UNCHANGED brokerVars /\ (TP!Resume(c) \/ TP!AuthServiceAnswers(c))
      BY <1>4, SameResume, SameAnswer DEF Settles, CacheResumes, AuthServiceAnswers
    <2>2. \A d \in TokenCalls : call[d].phase = "new" => call'[d] = call[d]
      BY <2>1, CacheAssumptions, TP!ResumeGoesOn, TP!AnswerGoesOn DEF IInv
    <2> QED
      BY <1>1, <2>1, <2>2, SettlesInv
  <1>5. CASE ClearCache \/ Tick
    <2>1. UNCHANGED brokerVars /\ call' = call
      BY <1>5 DEF ClearCache, Tick, TC!Clear, TC!Tick
    <2> QED
      BY <1>1, <2>1, SettlesInv
  <1>6. CASE UNCHANGED vars
    <2>1. UNCHANGED brokerVars /\ call' = call
      BY <1>6 DEF vars, cacheVars, brokerVars
    <2> QED
      BY <1>1, <2>1, SettlesInv
  <1> QED
    BY <1>2, <1>3, <1>4, <1>5, <1>6 DEF Next, Idle

-----------------------------------------------------------------------------
\* The inductive invariant of the broker and its cache.
THEOREM Invariance == Spec => []IInv
  BY InitInv, NextInv, PTL DEF Spec

\* Type correctness; an execution goes on only with a secret in hand
\* (broker-core.ts:232-246).
THEOREM TypeCorrect == Spec => []TypeOK
  BY Invariance, PTL DEF IInv

\* No secret is read and no token requested for an agent outside the allowlist
\* (index.ts:114).
THEOREM TheGateComesFirst == Spec => []GateComesFirst
  BY Invariance, PTL DEF IInv

\* The token a request carries was granted for the quadruple of its execution
\* (broker-core.ts:118-168).
THEOREM BearersAreOwn == Spec => []BearerIsOwn
  <1>1. IInv => BearerIsOwn
    <2> SUFFICES ASSUME IInv, NEW e \in Executions,
                        execution[e].phase \in {"sent", "resent"}
                 PROVE  /\ promise[BearerOf(e)].state = "fulfilled"
                        /\ call[BearerOf(e)].key = KeyOf(e)
      BY DEF BearerIsOwn
    <2>1. PICK c \in TokenCalls : /\ call[c].phase = "returned" /\ call[c].key = KeyOf(e)
                                  /\ BearerOf(e) = call[c].token
      BY CallNames DEF IInv, ExecutionInv, CallsOf, BearerOf, FirstToken, SecondToken
    <2> QED
      BY <2>1 DEF IInv, TP!IInv, TP!TokenBinding
  <1> QED
    BY <1>1, Invariance, PTL

\* A token request carries a secret of the agent its token will be cached for,
\* whoever else resolves a secret meanwhile (broker-core.ts:125-168, 237-246).
THEOREM SecretsAreOwn == Spec => []SecretIsOwn
  <1>1. IInv => SecretIsOwn
    <2> SUFFICES ASSUME IInv, NEW c \in TokenCalls, TC!InFlight(c)
                 PROVE  execution[c[1]].secret \in CredentialRef[call[c].key.agent]
      BY DEF SecretIsOwn, IInv, CredentialsAreOwn
    <2>1. PICK e \in Executions : c[1] = e /\ c \in {<<e, 1>>, <<e, 2>>}
      BY DEF TokenCalls
    <2>2. TP!Waiting(c)
      BY DEF TC!InFlight, TP!InFlight, TP!Waiting, IInv, TP!IInv, TP!Shape
    <2>3. execution[e].phase \in {"token", "retryToken"} /\ call[c].key = KeyOf(e)
      BY <2>1, <2>2, CallNames
         DEF IInv, ExecutionInv, WaitsOf, CallsOf, FirstToken, SecondToken
    <2>4. execution[e].secret \in CredentialRef[execution[e].agent]
      BY <2>3 DEF IInv, ExecutionInv, SecretOf
    <2> QED
      BY <2>1, <2>3, <2>4 DEF KeyOf, Quadruple
  <1> QED
    BY <1>1, Invariance, PTL

\* After a 401 the refused token is neither carried by the retry nor kept in
\* the cache (broker-core.ts:152-168, 302-314).
THEOREM RefusedTokensAreGone == Spec => []RefusedTokenGone
  <1>1. IInv => RefusedTokenGone
    BY DEF IInv, ExecutionInv, RefusedOf, RefusedTokenGone
  <1> QED
    BY <1>1, Invariance, PTL

\* The broker drives the cache only as TokenCache allows
\* (broker-core.ts:118-168).
THEOREM CacheIsDrivenRight == Spec => DrivesTokenCache
  <1>1. Init => TC!Init
    BY DEF Init
  <1>2. IInv /\ [Next]_vars => [TC!Next]_cacheVars
    <2> SUFFICES ASSUME IInv, [Next]_vars PROVE [TC!Next]_cacheVars
      OBVIOUS
    <2>1. CacheStep
      BY NextIsCacheStep DEF IInv, ExecutionInv
    <2>2. ASSUME NEW c \in TokenCalls, NEW k \in CacheKeys,
                 TP!GetToken(c, k) \/ TP!InvalidateAndGet(c, k)
          PROVE  TC!Next
      BY <2>2, SameGet DEF TC!Next
    <2>3. ASSUME NEW c \in TokenCalls, TP!AuthServiceAnswers(c) \/ TP!Resume(c)
          PROVE  TC!Next
      BY <2>3, SameAnswer, SameResume DEF TC!Next
    <2> QED
      BY <2>1, <2>2, <2>3, SameOther DEF CacheStep, TC!Next
  <1>3. IInv /\ [Next]_vars => [TC!Next]_TC!vars
    BY <1>2 DEF cacheVars, TC!vars
  <1> QED
    BY <1>1, <1>3, Invariance, PTL DEF Spec, DrivesTokenCache, TC!Spec

\* However many executions share it, the cache inside the broker lets at most
\* clears + 1 issuances of a quadruple run at once, keeps out what a 401 deleted
\* but for the fallback of a call that had read it before, and serves no token
\* that has expired (broker-core.ts:129-168).
THEOREM SharedCacheIsSound ==
  Spec => /\ []TP!SingleFlight
          /\ []TP!RejectedStaysOut
          /\ TP!StaleUseIsFallback
          /\ TP!HitIsLive
  <1>1. Init => TP!Init
    BY SameInit DEF Init
  <1>2. IInv /\ [Next]_vars => [TP!Next]_TP!vars
    BY NextIsCacheStep, CacheStepIsNext DEF IInv, ExecutionInv
  <1>3. Spec => TP!Spec
    BY <1>1, <1>2, Invariance, PTL DEF Spec, TP!Spec
  <1> QED
    BY <1>3, CacheAssumptions, TP!IssuancesAreShared, TP!RejectedNeverReturns,
       TP!OnlyFallbacksAreStale, TP!HitsAreLive
=============================================================================
