-------------------------- MODULE CanaryPluginProofs --------------------------
(***************************************************************************)
(* Where the canary's tool sends what it knows, for every configuration    *)
(* and every interleaving of its executions.                               *)
(***************************************************************************)
EXTENDS CanaryPlugin, CanaryToolProofs

\* Check by check, the validator lets pass exactly the canonical origins with a
\* port from 1 to 65535, for every set of port numbers (origin-validator.ts:56-131).
THEOREM ValidatorIsExactTheorem == ValidatorIsExact
  <1> SUFFICES ASSUME NEW o \in Origins
               PROVE  Accepts(o) <=> o.number \in 1 .. MaxPort /\ o = Canonical(o.number)
    BY DEF ValidatorIsExact, Exact
  <1>1. ASSUME Accepts(o)
        PROVE  o.number \in 1 .. MaxPort /\ o = Canonical(o.number)
    <2>1. o.rest \notin Paths \cup Queries \cup Fragments
      BY <1>1 DEF Accepts, NothingFollows, Pathname, Search, Hash, Paths, Queries, Fragments
    <2>2. o = Canonical(o.number)
      BY <1>1, <2>1 DEF Accepts, NothingFollows, EndsCanonical, Paths, Queries, Fragments
    <2> QED
      BY <1>1, <2>2 DEF Accepts, PortInRange
  <1>2. ASSUME NEW number \in 1 .. MaxPort, o = Canonical(number)
        PROVE  Accepts(o)
    <2>1. number \in Nat /\ 1 <= number /\ number <= MaxPort /\ o.number = number
      <3>1. MaxPort \in Nat
        BY DEF MaxPort
      <3>2. o.number = number
        BY <1>2 DEF Canonical
      <3> QED
        BY <3>1, <3>2
    <2>2. Parses(o) /\ PortInRange(o)
      BY <2>1 DEF Parses, PortInRange
    <2>3. Protocol(o) = "http:" /\ NoUserinfo(o) /\ NothingFollows(o)
      BY <1>2 DEF Canonical, Protocol, NoUserinfo, Username, Password,
                  NothingFollows, Pathname, Search, Hash, Paths, Queries, Fragments
    <2>4. MatchesHostPort(o)
      <3>1. number # NoPort
        BY <2>1, PortAssumption
      <3> QED
        BY <3>1, <1>2 DEF Canonical, MatchesHostPort
    <2>5. EndsCanonical(o)
      BY <1>2, <2>1 DEF EndsCanonical
    <2> QED
      BY <2>2, <2>3, <2>4, <2>5 DEF Accepts
  <1>3. ASSUME o.number \in 1 .. MaxPort, o = Canonical(o.number)
        PROVE  Accepts(o)
    <2>1. PICK number \in 1 .. MaxPort : number = o.number
      BY <1>3
    <2>2. o = Canonical(number)
      BY <1>3, <2>1
    <2> QED
      BY <1>2, <2>2
  <1> QED
    BY <1>1, <1>3

-----------------------------------------------------------------------------
PluginInv == config \in Configurations /\ SecretStaysOnLoopback

\* A request begins with SendsSecret or SendsToken, and in no other way.
LEMMA RequestsBegin ==
  ASSUME TypeOK, [Next]_vars, NEW e \in Executions
  PROVE  /\ exec'[e].phase \in TokenPhases => exec[e].phase \in TokenPhases \/ SendsSecret(e)
         /\ exec'[e].phase \in AdcPhases => exec[e].phase \in AdcPhases \/ SendsToken(e)
  <1> USE DEF TokenPhases, AdcPhases, SendsSecret, SendsToken
  <1>1. exec \in [Executions -> ExecState]
    BY DEF TypeOK
  <1>2. CASE UNCHANGED exec
    BY <1>2
  <1>3. ASSUME NEW d \in Executions, Execute(d)
        PROVE  exec'[e].phase \in TokenPhases \cup AdcPhases => exec'[e] = exec[e]
    BY <1>1, <1>3 DEF Execute, Ends, Become, At
  <1>4. ASSUME NEW d \in Executions, ReadEnds(d)
        PROVE  exec'[e].phase \in TokenPhases \cup AdcPhases =>
                 exec'[e] = exec[e] \/ SendsSecret(e)
    BY <1>1, <1>4 DEF ReadEnds, Sends, Ends, Become, At
  <1>5. ASSUME NEW d \in Executions, Grant(d) \/ TokenHeaders(d) \/ AdcHeaders(d)
        PROVE  /\ exec'[e].phase \in TokenPhases => exec[e].phase \in TokenPhases
               /\ exec'[e].phase \in AdcPhases => exec[e].phase \in AdcPhases
    <2>1. exec[d] \in ExecState
      BY <1>1
    <2> QED
      BY <1>1, <1>5, <2>1 DEF Grant, TokenHeaders, AdcHeaders, Become, ExecState, At
  <1>6. ASSUME NEW d \in Executions, TokenBody(d)
        PROVE  exec'[e].phase \in TokenPhases \cup AdcPhases =>
                 exec'[e] = exec[e] \/ SendsToken(e)
    BY <1>1, <1>6 DEF TokenBody, Sends, Ends, Become, At
  <1>7. ASSUME NEW d \in Executions, AdcBody(d) \/ RequestFails(d) \/ Abort(d)
        PROVE  exec'[e].phase \in TokenPhases \cup AdcPhases => exec'[e] = exec[e]
    BY <1>1, <1>7 DEF AdcBody, RequestFails, Abort, Ends, Become, At
  <1>8. CASE Tick
    BY <1>1, <1>8 DEF Tick, At
  <1> QED
    BY <1>2, <1>3, <1>4, <1>5, <1>6, <1>7, <1>8
       DEF Next, Read, ReadStep, Answer, vars

LEMMA PluginStep == TypeOK /\ PluginInv /\ [PluginNext]_pluginVars => PluginInv'
  <1> SUFFICES ASSUME TypeOK, PluginInv, [PluginNext]_pluginVars
               PROVE  PluginInv'
    OBVIOUS
  <1>1. [Next]_vars /\ UNCHANGED config
    BY DEF PluginNext, pluginVars
  <1>2. ASSUME NEW e \in Executions PROVE Validated(e)
    <2>1. CASE PluginNext
      BY <2>1 DEF PluginNext
    <2>2. CASE UNCHANGED pluginVars
      BY <2>2 DEF pluginVars, vars, Validated, SendsSecret, SendsToken
    <2> QED
      BY <2>1, <2>2
  <1>3. config.authService \in Origins /\ config.adcMock \in Origins
    BY ConfigurationAssumption DEF PluginInv
  <1>4. /\ Accepts(config.authService) => Exact(config.authService)
        /\ Accepts(config.adcMock) => Exact(config.adcMock)
    BY <1>3, ValidatorIsExactTheorem DEF ValidatorIsExact
  <1>5. ASSUME NEW e \in Executions
        PROVE  /\ exec'[e].phase \in TokenPhases => Exact(config.authService)
               /\ exec'[e].phase \in AdcPhases =>
                    Exact(config.authService) /\ Exact(config.adcMock)
    <2>1. SendsToken(e) => exec[e].phase \in TokenPhases
      BY DEF SendsToken, TokenPhases
    <2> QED
      BY <1>1, <1>2, <1>4, <2>1, RequestsBegin DEF Validated, PluginInv, SecretStaysOnLoopback
  <1> QED
    BY <1>1, <1>5 DEF PluginInv, SecretStaysOnLoopback

-----------------------------------------------------------------------------
\* The tool with its configuration does only what the tool may do; what is proved
\* of the tool holds whatever origins are configured.
THEOREM PluginIsTool == PluginSpec => Spec
  <1>1. PluginInit => Init
    BY DEF PluginInit
  <1>2. [PluginNext]_pluginVars => [Next]_vars
    BY DEF PluginNext, pluginVars
  <1> QED
    BY <1>1, <1>2, PTL DEF PluginSpec, Spec

\* Types, as register() runs the tool (index.ts).
THEOREM PluginTypeCorrect == PluginSpec => []TypeOK
  BY PluginIsTool, TypeCorrect, PTL

\* The configured tool, too, sends only whole secrets (secrets.ts:87-204).
THEOREM PluginSecretsAreWhole == PluginSpec => SecretIsWhole
  BY PluginIsTool, SecretsAreWhole

\* The configured tool, too, sends only what it read from a regular file within the
\* limit, which fstat() did not find writable for everybody (secrets.ts:158-204).
THEOREM PluginSecretsAreChecked == PluginSpec => SecretIsChecked
  BY PluginIsTool, SecretsAreChecked

\* The configured tool, too, presents only tokens that are still valid
\* (auth-service-client.ts:54, :141).
THEOREM PluginTokensAreLive == PluginSpec => TokenIsLive
  BY PluginIsTool, TokensAreLive

\* Whatever is configured, a secret or a token leaves the tool only for an origin
\* written exactly as the validator demands (tool.ts:100-117).
THEOREM SecretsStayOnLoopback == PluginSpec => []SecretStaysOnLoopback
  <1>1. PluginInit => PluginInv
    BY DEF PluginInit, Init, At, PluginInv, SecretStaysOnLoopback, TokenPhases, AdcPhases
  <1>2. PluginInv => SecretStaysOnLoopback
    BY DEF PluginInv
  <1> QED
    BY <1>1, <1>2, PluginStep, PluginTypeCorrect, PTL DEF PluginSpec
=============================================================================
