------------------------- MODULE BrokerCoreRefinement -------------------------
(***************************************************************************)
(* BrokerCore implements BrokerService: every initial state maps to an     *)
(* initial state, and every step to a step of BrokerService or a stutter.  *)
(***************************************************************************)
EXTENDS BrokerCoreProofs

AbstractExecution(e) ==
  [phase |-> AbstractPhase(e), agent |-> execution[e].agent,
   tool |-> execution[e].tool, token |-> AbstractToken(e)]

InPlace(t) == promise[t].state = "fulfilled"

-----------------------------------------------------------------------------
(***************************************************************************)
(* The tokens granted.                                                     *)
(***************************************************************************)

GrantedSet(k) == {t \in TokenCalls : InPlace(t) /\ call[t].key = k}

LEMMA GrantedIs == TC!Granted = [k \in CacheKeys |-> GrantedSet(k)]
  BY DEF TC!Granted, GrantedSet, InPlace

LEMMA GrantedIsNext == TC!Granted' = [k \in CacheKeys |-> GrantedSet(k)']
  BY DEF TC!Granted, GrantedSet, InPlace

\* A token in place is one of its owner's key, which no longer changes.
LEMMA KeyOfToken ==
  ASSUME IInv, CacheStep, NEW t \in TokenCalls, InPlace(t)
  PROVE  call[t].key \in CacheKeys /\ call'[t].key = call[t].key
  <1>1. call[t].phase # "new"
    BY DEF InPlace, IInv, TP!IInv, TP!Shape
  <1>2. TP!CallGoesOn(t)
    BY CacheGoesOn DEF IInv
  <1> QED
    BY <1>1, <1>2 DEF IInv, TP!IInv, TP!Shape, TP!CallGoesOn

LEMMA GrantedBeforeIs ==
  ASSUME IInv, CacheStep, NEW t \in TokenCalls
  PROVE  Service!GrantedBefore(t) <=> InPlace(t)
  <1>1. \A k \in CacheKeys : t \in TC!Granted[k] <=> InPlace(t) /\ call[t].key = k
    BY GrantedIs DEF GrantedSet
  <1>2. InPlace(t) => call[t].key \in CacheKeys
    BY KeyOfToken
  <1> QED
    BY <1>1, <1>2 DEF Service!GrantedBefore

LEMMA GrantedKept ==
  ASSUME IInv, CacheStep, \A t \in TokenCalls : InPlace(t)' <=> InPlace(t)
  PROVE  TC!Granted' = TC!Granted
  <1>1. \A t \in TokenCalls : InPlace(t) => call'[t].key = call[t].key
    BY KeyOfToken
  <1>2. \A k \in CacheKeys : GrantedSet(k)' = GrantedSet(k)
    BY <1>1 DEF GrantedSet
  <1> QED
    BY <1>2, GrantedIs, GrantedIsNext

\* Only a token the auth-service grants comes into place.
LEMMA BeginKeepsTokens ==
  ASSUME IInv, NEW c \in TokenCalls, NEW k \in CacheKeys,
         TP!GetToken(c, k) \/ TP!InvalidateAndGet(c, k)
  PROVE  \A t \in TokenCalls : InPlace(t)' <=> InPlace(t)
  <1>1. promise[c].state = "unused"
    BY DEF TP!GetToken, TP!InvalidateAndGet, TP!BeginCall, IInv, TP!IInv, TP!Shape
  <1> QED
    BY <1>1 DEF TP!GetToken, TP!InvalidateAndGet, TP!BeginCall, TP!ServeFromCache,
                TP!JoinPending, TP!StartIssuance, InPlace, IInv, TP!IInv, TP!TypeOK

LEMMA FailureKeepsTokens ==
  ASSUME IInv, NEW c \in TokenCalls, TP!IssuanceFails(c)
  PROVE  \A t \in TokenCalls : InPlace(t)' <=> InPlace(t)
  BY DEF TP!IssuanceFails, TP!InFlight, TP!Unused, InPlace, IInv, TP!IInv, TP!TypeOK

-----------------------------------------------------------------------------
(***************************************************************************)
(* The executions.                                                         *)
(***************************************************************************)

LEMMA RequestIs == AbstractRequest = [e \in Executions |-> AbstractExecution(e)]
  BY DEF AbstractRequest, AbstractExecution

LEMMA RequestIsNext == AbstractRequest' = [e \in Executions |-> AbstractExecution(e)']
  BY DEF AbstractRequest, AbstractExecution

\* An execution that does not move looks the same, whatever the cache does.
LEMMA LooksTheSame ==
  ASSUME IInv, CacheStep, NEW d \in Executions, execution'[d] = execution[d]
  PROVE  AbstractExecution(d)' = AbstractExecution(d)
  <1>1. /\ TP!CallGoesOn(<<d, 1>>) /\ TP!CallGoesOn(<<d, 2>>)
        /\ CallsOf(d)
    BY CacheGoesOn, CallNames DEF IInv, ExecutionInv
  <1>2. AbstractPhase(d)' = AbstractPhase(d)
    BY DEF AbstractPhase
  <1>3. CASE execution[d].phase \in {"sent", "resent"}
    <2>1. BearerOf(d)' = BearerOf(d)
      BY <1>1, <1>3 DEF CallsOf, BearerOf, FirstToken, SecondToken, TP!CallGoesOn
    <2> QED
      BY <1>2, <1>3, <2>1 DEF AbstractExecution, AbstractToken
  <1>4. CASE execution[d].phase = "retryToken"
    <2>1. SecondToken(d).awaits' = SecondToken(d).awaits
      BY <1>1, <1>4 DEF CallsOf, SecondToken, TP!CallGoesOn
    <2> QED
      BY <1>2, <1>4, <2>1 DEF AbstractExecution, AbstractToken
  <1>5. CASE execution[d].phase \notin {"sent", "resent", "retryToken"}
    BY <1>2, <1>5 DEF AbstractExecution, AbstractToken
  <1> QED
    BY <1>3, <1>4, <1>5

\* A step that moves no execution but e, which then looks like r.
LEMMA OneMoves ==
  ASSUME IInv, CacheStep, NEW e \in Executions, NEW r,
         \A d \in Executions \ {e} : execution'[d] = execution[d],
         AbstractExecution(e)' = r
  PROVE  AbstractRequest' = [AbstractRequest EXCEPT ![e] = r]
  <1>1. \A d \in Executions \ {e} : AbstractExecution(d)' = AbstractExecution(d)
    BY LooksTheSame
  <1> QED
    BY <1>1, RequestIs, RequestIsNext

LEMMA NoneMoves ==
  ASSUME IInv, CacheStep, execution' = execution
  PROVE  AbstractRequest' = AbstractRequest
  <1>1. \A d \in Executions : AbstractExecution(d)' = AbstractExecution(d)
    BY LooksTheSame
  <1> QED
    BY <1>1, RequestIs, RequestIsNext

\* One execution goes on to another phase while no token is granted.
LEMMA BecomeMaps ==
  ASSUME IInv, CacheStep, NEW e \in Executions, NEW phase, NEW token,
         \A d \in Executions \ {e} : execution'[d] = execution[d],
         execution'[e].agent = execution[e].agent,
         execution'[e].tool = execution[e].tool,
         AbstractPhase(e)' = phase, AbstractToken(e)' = token,
         \A t \in TokenCalls : InPlace(t)' <=> InPlace(t)
  PROVE  Service!Become(e, phase, token)
  <1>1. /\ AbstractRequest[e].agent = execution[e].agent
        /\ AbstractRequest[e].tool = execution[e].tool
    BY DEF AbstractRequest
  <1>2. AbstractExecution(e)' =
          [phase |-> phase, agent |-> AbstractRequest[e].agent,
           tool |-> AbstractRequest[e].tool, token |-> token]
    BY <1>1 DEF AbstractExecution
  <1>3. AbstractRequest' = [AbstractRequest EXCEPT ![e] =
          [phase |-> phase, agent |-> AbstractRequest[e].agent,
           tool |-> AbstractRequest[e].tool, token |-> token]]
    BY <1>2, OneMoves
  <1>4. TC!Granted' = TC!Granted
    BY GrantedKept
  <1> QED
    BY <1>3, <1>4 DEF Service!Become

\* The quadruple of an execution that was admitted is that of its agent and tool.
LEMMA KeyMaps ==
  ASSUME IInv, NEW e \in Executions, execution[e].phase \in Admitted
  PROVE  Service!KeyOf(e) = KeyOf(e) /\ KeyOf(e) \in CacheKeys
  <1>1. GateOf(e)
    BY DEF IInv, ExecutionInv
  <1>2. /\ AbstractRequest[e].agent = execution[e].agent
        /\ AbstractRequest[e].tool = execution[e].tool
    BY DEF AbstractRequest
  <1>3. /\ execution[e].agent \in Served /\ execution[e].tool \in Tools
    BY <1>1 DEF GateOf, Served
  <1>4. Service!KeyOf(e) = KeyOf(e)
    BY <1>2, <1>3 DEF Service!KeyOf, QuadrupleOf, KeyOf
  <1> QED
    BY <1>1, <1>4, KeyIsKnown

\* The token a finished call returned was granted for its key.
LEMMA ReturnedIsGranted ==
  ASSUME IInv, NEW c \in TokenCalls, call[c].phase = "returned"
  PROVE  /\ call[c].token \in TokenCalls
         /\ call[c].token \in TC!Granted[call[c].key]
  <1>1. PICK t : t = call[c].token
    OBVIOUS
  <1>2. PICK k : k = call[c].key
    OBVIOUS
  <1>3. t \in TokenCalls /\ k \in CacheKeys /\ InPlace(t) /\ call[t].key = k
    BY <1>1, <1>2 DEF IInv, TP!IInv, TP!TypeOK, TP!CallState, TP!Shape, TP!TokenBinding, InPlace
  <1>4. t \in GrantedSet(k)
    BY <1>3 DEF GrantedSet
  <1> QED
    BY <1>1, <1>2, <1>3, <1>4, GrantedIs

-----------------------------------------------------------------------------
(***************************************************************************)
(* The steps of an execution.                                              *)
(***************************************************************************)

\* A phase change that leaves the cache alone.
LEMMA GoToMaps ==
  ASSUME IInv, NEW e \in Executions,
         NEW phase \in {"sent", "resent", "answered", "threw"},
         GoTo(e, phase), UNCHANGED cacheVars, NEW token, AbstractToken(e)' = token
  PROVE  Service!Become(e, phase, token)
  <1>1. /\ execution'[e].phase = phase
        /\ execution'[e].agent = execution[e].agent
        /\ execution'[e].tool = execution[e].tool
        /\ \A d \in Executions \ {e} : execution'[d] = execution[d]
    BY GoToType DEF IInv
  <1>2. AbstractPhase(e)' = phase
    BY <1>1 DEF AbstractPhase
  <1>3. CacheStep /\ \A t \in TokenCalls : InPlace(t)' <=> InPlace(t)
    BY DEF CacheStep, InPlace, cacheVars
  <1> QED
    BY <1>1, <1>2, <1>3, BecomeMaps

LEMMA ExecuteMaps ==
  ASSUME IInv, NEW e \in Executions, NEW a \in Agents, NEW b \in Tools, Execute(e, a, b)
  PROVE  Service!Begin(e, a, b)
  <1>1. /\ execution[e].phase = "idle" /\ UNCHANGED cacheVars
        /\ execution \in [Executions -> ExecutionState]
    BY DEF Execute, IInv, TypeOK
  <1>2. PICK phase \in {"threw", "credential", "resolving"},
               secret \in Secrets \cup {None} :
          /\ execution' = [execution EXCEPT ![e] = [phase |-> phase, agent |-> a,
                                                   tool |-> b, secret |-> secret]]
          /\ phase = "threw" <=> a \notin Served
    BY DEF Execute, GateRefuses, NoClient, KnownCredential, StartResolving, Served,
           IInv, TypeOK
  <1>3. /\ execution'[e].phase = phase /\ execution'[e].agent = a /\ execution'[e].tool = b
        /\ \A d \in Executions \ {e} : execution'[d] = execution[d]
    BY <1>1, <1>2
  <1>4. AbstractExecution(e)' =
          [phase |-> IF a \in Served THEN "preparing" ELSE "threw",
           agent |-> a, tool |-> b, token |-> None]
    BY <1>2, <1>3 DEF AbstractExecution, AbstractPhase, AbstractToken
  <1>5. CacheStep /\ \A t \in TokenCalls : InPlace(t)' <=> InPlace(t)
    BY <1>1 DEF CacheStep, InPlace, cacheVars
  <1>6. AbstractRequest' = [AbstractRequest EXCEPT ![e] =
          [phase |-> IF a \in Served THEN "preparing" ELSE "threw",
           agent |-> a, tool |-> b, token |-> None]]
    BY <1>3, <1>4, <1>5, OneMoves
  <1>7. AbstractRequest[e].phase = "idle"
    BY <1>1 DEF AbstractRequest, AbstractPhase
  <1>8. UNCHANGED TC!Granted
    BY <1>5, GrantedKept
  <1> QED
    BY <1>6, <1>7, <1>8 DEF Service!Begin

\* Resolving the secret and asking for a token look like nothing.
LEMMA PreparingMaps ==
  ASSUME IInv, NEW e \in Executions, CredentialResolves(e) \/ AskForToken(e)
  PROVE  UNCHANGED <<AbstractRequest, TC!Granted>>
  <1>1. CacheStep /\ \A t \in TokenCalls : InPlace(t)' <=> InPlace(t)
    <2>1. CASE CredentialResolves(e)
      BY <2>1 DEF CredentialResolves, CacheStep, InPlace, cacheVars
    <2>2. CASE AskForToken(e)
      <3>1. KeyOf(e) \in CacheKeys
        BY <2>2, KeyMaps DEF AskForToken, Admitted
      <3>2. TP!GetToken(<<e, 1>>, KeyOf(e))
        BY <2>2, <3>1, SameGet, CallNames DEF AskForToken
      <3> QED
        BY <3>1, <3>2, CallNames, BeginKeepsTokens DEF CacheStep
    <2> QED
      BY <2>1, <2>2
  <1>2. /\ execution[e].phase \in {"resolving", "credential"}
        /\ execution'[e].phase \in {"credential", "token"}
        /\ execution'[e].agent = execution[e].agent
        /\ execution'[e].tool = execution[e].tool
        /\ \A d \in Executions \ {e} : execution'[d] = execution[d]
    <2>1. CASE CredentialResolves(e)
      <3>1. execution[e].agent \in DOMAIN ClientOf
        BY <2>1 DEF CredentialResolves, IInv, ExecutionInv, GateOf, Admitted
      <3> QED
        BY <2>1, <3>1, ResolvedType DEF CredentialResolves, IInv
    <2>2. CASE AskForToken(e)
      BY <2>2, GoToType DEF AskForToken, IInv
    <2> QED
      BY <2>1, <2>2
  <1>3. AbstractExecution(e)' = AbstractExecution(e)
    BY <1>2 DEF AbstractExecution, AbstractPhase, AbstractToken
  <1>4. AbstractRequest' = [AbstractRequest EXCEPT ![e] = AbstractExecution(e)]
    BY <1>1, <1>2, <1>3, OneMoves
  <1> QED
    BY <1>1, <1>4, RequestIs, GrantedKept

LEMMA SendMaps ==
  ASSUME IInv, NEW e \in Executions, SendRequest(e)
  PROVE  Service!Throw(e) \/ \E t \in TokenCalls : Service!Send(e, t)
  <1>1. /\ execution[e].phase = "token" /\ call[<<e, 1>>].phase = "returned"
        /\ UNCHANGED cacheVars
    BY DEF SendRequest, FirstToken
  <1>2. AbstractRequest[e].phase = "preparing"
    BY <1>1 DEF AbstractRequest, AbstractPhase
  <1>3. CASE GoTo(e, "threw")
    <2>1. AbstractToken(e)' = None
      BY <1>3, GoToType DEF AbstractToken, IInv
    <2> QED
      BY <1>1, <1>2, <1>3, <2>1, GoToMaps DEF Service!Throw
  <1>4. CASE GoTo(e, "sent")
    <2>1. PICK t : t = call[<<e, 1>>].token
      OBVIOUS
    <2>2. AbstractToken(e)' = t
      BY <1>1, <1>4, <2>1, GoToType
         DEF AbstractToken, BearerOf, FirstToken, IInv, cacheVars
    <2>3. call[<<e, 1>>].key = KeyOf(e)
      BY <1>1 DEF IInv, ExecutionInv, CallsOf, FirstToken
    <2>4. t \in TokenCalls /\ t \in TC!Granted[Service!KeyOf(e)]
      BY <1>1, <2>1, <2>3, CallNames, ReturnedIsGranted, KeyMaps DEF Admitted
    <2>5. Service!Become(e, "sent", t)
      BY <1>1, <1>4, <2>2, GoToMaps
    <2> QED
      BY <1>2, <2>4, <2>5 DEF Service!Send
  <1> QED
    BY <1>3, <1>4 DEF SendRequest

LEMMA RenewMaps ==
  ASSUME IInv, NEW e \in Executions, Unauthorized(e)
  PROVE  \E t \in TokenCalls : Service!Renew(e, t)
  <1>1. execution[e].phase = "sent" /\ GoTo(e, "retryToken") /\ KeyOf(e) \in CacheKeys
    BY KeyMaps DEF Unauthorized, Admitted
  <1>2. TP!InvalidateAndGet(<<e, 2>>, KeyOf(e))
    BY <1>1, SameGet, CallNames DEF Unauthorized
  <1>3. CacheStep /\ \A t \in TokenCalls : InPlace(t)' <=> InPlace(t)
    BY <1>1, <1>2, CallNames, BeginKeepsTokens DEF CacheStep
  <1>4. PICK t : t = call'[<<e, 2>>].awaits
    OBVIOUS
  <1>5. t \in TokenCalls /\ ~InPlace(t)
    BY <1>1, <1>2, <1>4, CallNames, CacheAssumptions, TP!InvalidatedWaits DEF IInv, InPlace
  <1>6. /\ execution'[e].phase = "retryToken"
        /\ execution'[e].agent = execution[e].agent
        /\ execution'[e].tool = execution[e].tool
        /\ \A d \in Executions \ {e} : execution'[d] = execution[d]
    BY <1>1, GoToType DEF IInv
  <1>7. AbstractPhase(e)' = "renewing" /\ AbstractToken(e)' = t
    BY <1>4, <1>6 DEF AbstractPhase, AbstractToken, SecondToken
  <1>8. Service!Become(e, "renewing", t)
    BY <1>3, <1>6, <1>7, BecomeMaps
  <1>9. ~Service!GrantedBefore(t)
    BY <1>3, <1>5, GrantedBeforeIs
  <1>10. AbstractRequest[e].phase = "sent"
    BY <1>1 DEF AbstractRequest, AbstractPhase
  <1> QED
    BY <1>5, <1>8, <1>9, <1>10 DEF Service!Renew

LEMMA ResendMaps ==
  ASSUME IInv, NEW e \in Executions, ResendRequest(e)
  PROVE  Service!Resend(e)
  <1>1. /\ execution[e].phase = "retryToken" /\ call[<<e, 2>>].phase = "returned"
        /\ GoTo(e, "resent") /\ UNCHANGED cacheVars
    BY DEF ResendRequest, SecondToken
  <1>2. PICK t : t = call[<<e, 2>>].awaits
    OBVIOUS
  <1>3. call[<<e, 2>>].token = t /\ call[<<e, 2>>].key = KeyOf(e)
    BY <1>1, <1>2 DEF IInv, ExecutionInv, RenewalOf, CallsOf, SecondToken
  <1>4. AbstractRequest[e].phase = "renewing" /\ AbstractRequest[e].token = t
    BY <1>1, <1>2 DEF AbstractRequest, AbstractPhase, AbstractToken, SecondToken
  <1>5. t \in TC!Granted[Service!KeyOf(e)]
    BY <1>1, <1>3, CallNames, ReturnedIsGranted, KeyMaps DEF Admitted
  <1>6. AbstractToken(e)' = t
    BY <1>1, <1>3, GoToType DEF AbstractToken, BearerOf, SecondToken, IInv, cacheVars
  <1>7. Service!Become(e, "resent", t)
    BY <1>1, <1>6, GoToMaps
  <1> QED
    BY <1>4, <1>5, <1>7 DEF Service!Resend

\* An execution ends.
LEMMA EndMaps ==
  ASSUME IInv, NEW e \in Executions,
         CredentialFails(e) \/ TokenFails(e) \/ Accepted(e) \/ Failed(e)
  PROVE  Service!Throw(e) \/ Service!Answer(e)
  <1>1. PICK phase \in {"answered", "threw"} :
          /\ GoTo(e, phase) /\ UNCHANGED cacheVars
          /\ execution[e].phase \in {"resolving", "token", "sent", "retryToken", "resent"}
          /\ phase = "answered" => execution[e].phase \in {"sent", "resent"}
    BY DEF CredentialFails, TokenFails, Accepted, Failed
  <1>2. AbstractToken(e)' = None
    BY <1>1, GoToType DEF AbstractToken, IInv
  <1>3. Service!Become(e, phase, None)
    BY <1>1, <1>2, GoToMaps
  <1>4. /\ AbstractRequest[e].phase \in {"preparing", "sent", "renewing", "resent"}
        /\ phase = "answered" => AbstractRequest[e].phase \in {"sent", "resent"}
    BY <1>1 DEF AbstractRequest, AbstractPhase
  <1> QED
    BY <1>3, <1>4 DEF Service!Throw, Service!Answer

-----------------------------------------------------------------------------
(***************************************************************************)
(* The steps of the cache.                                                 *)
(***************************************************************************)

\* The execution whose call issues a token is one that needs it.
LEMMA GrantMaps ==
  ASSUME IInv, NEW c \in TokenCalls, TP!IssuanceSucceeds(c), execution' = execution
  PROVE  \E e \in Executions, t \in TokenCalls : Service!Grant(e, t)
  <1>1. CacheStep
    BY DEF CacheStep, TP!AuthServiceAnswers
  <1>2. /\ promise[c].state = "inFlight" /\ call[c].phase = "owner"
        /\ InPlace(c)' /\ call' = call
        /\ \A t \in TokenCalls \ {c} : promise'[t] = promise[t]
    BY DEF TP!IssuanceSucceeds, TP!InFlight, InPlace, IInv, TP!IInv, TP!Shape, TP!TypeOK
  <1>3. PICK e \in Executions, i \in {1, 2} : c = <<e, i>>
    BY DEF TokenCalls
  <1>4. /\ execution[e].phase \in {"token", "retryToken"}
        /\ call[c].key = KeyOf(e)
    <2>1. WaitsOf(e) /\ CallsOf(e)
      BY DEF IInv, ExecutionInv
    <2> QED
      BY <1>2, <1>3, <2>1 DEF WaitsOf, CallsOf, TP!Waiting, FirstToken, SecondToken
  <1>5. Service!KeyOf(e) = call[c].key /\ call[c].key \in CacheKeys
    BY <1>4, KeyMaps DEF Admitted
  <1>6. AbstractRequest[e].phase \in {"preparing", "renewing"}
    BY <1>4 DEF AbstractRequest, AbstractPhase
  <1>7. ~Service!GrantedBefore(c)
    BY <1>1, <1>2, GrantedBeforeIs DEF InPlace
  <1>8. TC!Granted' = [TC!Granted EXCEPT ![call[c].key] = @ \cup {c}]
    <2>1. \A k \in CacheKeys : GrantedSet(k)' = IF k = call[c].key
                                                THEN GrantedSet(k) \cup {c}
                                                ELSE GrantedSet(k)
      BY <1>2 DEF GrantedSet, InPlace
    <2> QED
      BY <1>5, <2>1, GrantedIs, GrantedIsNext
  <1>9. UNCHANGED AbstractRequest
    BY <1>1, NoneMoves
  <1>10. Service!Grant(e, c)
    BY <1>5, <1>6, <1>7, <1>8, <1>9 DEF Service!Grant
  <1> QED
    BY <1>10

LEMMA QuietMaps ==
  ASSUME IInv, CacheStep, execution' = execution,
         \A t \in TokenCalls : InPlace(t)' <=> InPlace(t)
  PROVE  UNCHANGED <<AbstractRequest, TC!Granted>>
  BY NoneMoves, GrantedKept

-----------------------------------------------------------------------------
LEMMA InitMaps == Init => Service!Init
  <1> SUFFICES ASSUME Init PROVE Service!Init
    OBVIOUS
  <1>1. \A t \in TokenCalls : ~InPlace(t)
    BY SameInit DEF Init, InPlace, TP!Init, TP!Unused
  <1>2. TC!Granted = [k \in CacheKeys |-> {}]
    BY <1>1, GrantedIs DEF GrantedSet
  <1>3. AbstractRequest = [e \in Executions |-> [phase |-> "idle", agent |-> None,
                                                 tool |-> None, token |-> None]]
    BY DEF Init, AbstractRequest, AbstractPhase, AbstractToken
  <1> QED
    BY <1>2, <1>3 DEF Service!Init

LEMMA StepMaps == IInv /\ [Next]_vars => [Service!Next]_(Service!vars)
  <1> SUFFICES ASSUME IInv, [Next]_vars PROVE [Service!Next]_(Service!vars)
    OBVIOUS
  <1>1. ASSUME NEW e \in Executions, NEW a \in Agents, NEW b \in Tools, Execute(e, a, b)
        PROVE  Service!Next
    BY <1>1, ExecuteMaps DEF Service!Next
  <1>2. ASSUME NEW e \in Executions, Proceeds(e)
        PROVE  [Service!Next]_(Service!vars)
    <2>1. CASE CredentialResolves(e) \/ AskForToken(e)
      BY <2>1, PreparingMaps DEF Service!vars
    <2>2. CASE SendRequest(e)
      BY <2>2, SendMaps DEF Service!Next
    <2>3. CASE Unauthorized(e)
      BY <2>3, RenewMaps DEF Service!Next
    <2>4. CASE ResendRequest(e)
      BY <2>4, ResendMaps DEF Service!Next
    <2>5. CASE CredentialFails(e) \/ TokenFails(e) \/ Accepted(e) \/ Failed(e)
      BY <2>5, EndMaps DEF Service!Next
    <2> QED
      BY <1>2, <2>1, <2>2, <2>3, <2>4, <2>5
         DEF Proceeds, Resolving, Continue, BusinessAnswers
  <1>3. CacheStep
    BY NextIsCacheStep DEF IInv, ExecutionInv
  <1>4. ASSUME NEW c \in TokenCalls, Settles(c)
        PROVE  [Service!Next]_(Service!vars)
    <2>1. /\ execution' = execution
          /\ TP!Resume(c) \/ TP!IssuanceSucceeds(c) \/ TP!IssuanceFails(c)
      BY <1>4, SameResume, SameAnswer
         DEF Settles, CacheResumes, AuthServiceAnswers, brokerVars, TP!AuthServiceAnswers
    <2>2. CASE TP!IssuanceSucceeds(c)
      BY <2>1, <2>2, GrantMaps DEF Service!Next
    <2>3. CASE TP!IssuanceFails(c)
      BY <1>3, <2>1, <2>3, FailureKeepsTokens, QuietMaps DEF Service!vars
    <2>4. CASE TP!Resume(c)
      <3>1. promise' = promise
        BY <2>4 DEF TP!Resume, TP!OwnerReturns, TP!OwnerFallsBack, TP!OwnerThrows,
                    TP!WaiterResumes
      <3> QED
        BY <1>3, <2>1, <3>1, QuietMaps DEF InPlace, Service!vars
    <2> QED
      BY <2>1, <2>2, <2>3, <2>4
  <1>5. CASE ClearCache \/ Tick \/ Idle \/ UNCHANGED vars
    <2>1. execution' = execution /\ promise' = promise
      BY <1>5 DEF ClearCache, Tick, TC!Clear, TC!Tick, Idle, vars, cacheVars, brokerVars
    <2> QED
      BY <1>3, <2>1, QuietMaps DEF InPlace, Service!vars
  <1> QED
    BY <1>1, <1>2, <1>4, <1>5 DEF Next

\* BrokerCore implements BrokerService: whatever executions share, join, renew
\* and clear, an agent gets an error or a request under a token of its own agent
\* and tool, and after a 401 one more under a token the broker did not have when
\* the first was refused (broker-core.ts:118-168, 268).
THEOREM Refinement == Spec => ImplementsService
  <1>1. Spec => [][Service!Next]_(Service!vars)
    BY StepMaps, Invariance, PTL DEF Spec
  <1>2. Spec => Service!Init
    BY InitMaps DEF Spec
  <1> QED
    BY <1>1, <1>2 DEF ImplementsService, Service!Spec
=============================================================================
