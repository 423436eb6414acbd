---------------------------- MODULE Provisioning ----------------------------
(***************************************************************************)
(* The reconcile command (broker/src/provisioning-cli.ts): two passes over *)
(* the authoritative mapping, claiming the principal and then the client   *)
(* of each agent, a comparison of the two, and the verdict.  An operator   *)
(* runs the command again after a crash or a failure; what the API has     *)
(* bound by then stays.                                                    *)
(***************************************************************************)
EXTENDS PrincipalRegistry

CONSTANTS
  Mapping,     \* the agents of the mapping file, in its order
  MaxRetries,  \* maxRetries of retryOnRateLimit()
  MaxRuns      \* bound of the model: how often the command is run

ASSUME MappingAssumption == Mapping \in Seq(Agents) /\ Mapping # <<>>
ASSUME RunsAssumption == MaxRetries \in Nat /\ MaxRuns \in Nat

VARIABLES
  runs,     \* history: how often the command was run
  stage,    \* where the process is; "idle": there is none
  turn,     \* the claim whose turn it is: pass, position in Mapping, kind
  attempt,  \* `attempt` of retryOnRateLimit()
  result,   \* the outcome of each claim of each pass
  report    \* what was printed on standard output

cliVars == <<runs, stage, turn, attempt, result, report>>
vars == <<registryVars, cliVars>>

Positions == DOMAIN Mapping

Turns == [pass : {1, 2}, position : Positions, kind : Kinds]

TurnOf(pass, position, kind) ==
  [pass |-> pass, position |-> position, kind |-> kind]

FirstTurn(pass) == TurnOf(pass, 1, "principal")

\* The lines of the report that are not constants.  ready: the last line,
\* ..._READY_FOR_INDEPENDENT_AUDIT=true.
Lines == [principals : BOOLEAN, blocker : BOOLEAN, idempotent : BOOLEAN, ready : BOOLEAN]

TypeOK ==
  /\ RegistryTypeOK
  /\ runs \in 0 .. MaxRuns
  /\ stage \in {"idle", "claiming", "waiting", "checking", "reporting",
                "passed", "failed"}
  /\ turn \in Turns
  /\ attempt \in 0 .. MaxRetries
  /\ result \in [Turns -> {"none", "pass", "fail"}]
  /\ report \in Lines \cup {None}

NoResult == [t \in Turns |-> "none"]

Init ==
  /\ RegistryInit
  /\ runs = 0
  /\ stage = "idle"
  /\ turn = FirstTurn(1)
  /\ attempt = 0
  /\ result = NoResult
  /\ report = None

Running == stage \in {"claiming", "waiting", "checking", "reporting"}

-----------------------------------------------------------------------------
\* The operator runs the command.
NewRun ==
  /\ ~Running
  /\ runs < MaxRuns
  /\ NewSession
  /\ runs' = runs + 1
  /\ turn' = FirstTurn(1)
  /\ attempt' = 0
  /\ result' = NoResult
  /\ report' = None

\* An argument is missing, or readMapping() refuses the file: it cannot be read
\* or parsed, has no agents, or an entry lacks one of the required fields.
Refuse == NewRun /\ stage' = "failed"

Start == NewRun /\ stage' = "claiming"

Claim ==
  /\ stage = "claiming"
  /\ StartClaim(<<turn.kind, Mapping[turn.position]>>)
  /\ UNCHANGED cliVars

\* onSuccess() or onError(), and the next step of the loop: the client of the
\* same agent, also when its principal failed, then the next agent.
Record(outcome) ==
  /\ result' = [result EXCEPT ![turn] = outcome]
  /\ attempt' = 0
  /\ ForgetClaim
  /\ IF turn.kind = "principal" THEN
       turn' = [turn EXCEPT !.kind = "client"] /\ UNCHANGED stage
     ELSE IF turn.position < Len(Mapping) THEN
       turn' = TurnOf(turn.pass, turn.position + 1, "principal") /\ UNCHANGED stage
     ELSE
       UNCHANGED turn /\ stage' = IF turn.pass = 1 THEN "checking" ELSE "reporting"
  /\ UNCHANGED <<runs, report>>

ClaimPassed ==
  /\ stage = "claiming"
  /\ claim.phase = "passed"
  /\ Record("pass")

\* Mutant: every failure is tried again.
RetryAnyFailure == claim.answer # None /\ attempt < MaxRetries

\* Mutant: one attempt too many.
RetryOnceMore == claim.answer = "limited" /\ attempt <= MaxRetries

\* A 429 of a claim endpoint is tried again.
MayRetry == claim.answer = "limited" /\ attempt < MaxRetries

ClaimFailed ==
  /\ stage = "claiming"
  /\ claim.phase = "failed"
  /\ ~MayRetry
  /\ Record("fail")

BackOff ==
  /\ stage = "claiming"
  /\ claim.phase = "failed"
  /\ MayRetry
  /\ stage' = "waiting"
  /\ ForgetClaim
  /\ UNCHANGED <<runs, turn, attempt, result, report>>

\* Mutant: the attempts are not counted.
TryAgainUncounted ==
  /\ stage = "waiting"
  /\ stage' = "claiming"
  /\ UNCHANGED <<registryVars, runs, turn, attempt, result, report>>

\* The timer fires.
TryAgain ==
  /\ stage = "waiting"
  /\ stage' = "claiming"
  /\ attempt' = attempt + 1
  /\ UNCHANGED <<registryVars, runs, turn, result, report>>

\* Between the passes: which credential files can be read is printed and goes
\* into nothing else, the report included; the token is dropped.
CheckCredentials ==
  /\ stage = "checking"
  /\ ClearTokenCache
  /\ stage' = "claiming"
  /\ turn' = FirstTurn(2)
  /\ UNCHANGED <<runs, attempt, result, report>>

-----------------------------------------------------------------------------
\* Mutant: only the claims of the principals are compared.
ComparePrincipals ==
  \A i \in Positions :
    result[TurnOf(1, i, "principal")] = result[TurnOf(2, i, "principal")]

\* comparePasses()
SamePasses ==
  \A i \in Positions, kind \in Kinds :
    result[TurnOf(1, i, kind)] = result[TurnOf(2, i, kind)]

\* Mutant: only the claims of the principals are counted.
NoPrincipalFailed ==
  \A i \in Positions : result[TurnOf(1, i, "principal")] # "fail"

\* report.failed and report.principalClaimPass, of the first pass.
NoneFailed ==
  \A i \in Positions, kind \in Kinds : result[TurnOf(1, i, kind)] # "fail"

AllPrincipalsPassed ==
  \A i \in Positions : result[TurnOf(1, i, "principal")] = "pass"

Idempotent == SamePasses /\ AllPrincipalsPassed

\* compileReport() and printReport().  Both numbers of new objects and that of
\* secrets returned are 0, whatever the claims were answered.
Printed ==
  [principals |-> AllPrincipalsPassed,
   blocker    |-> ~NoneFailed,
   idempotent |-> Idempotent,
   ready      |-> NoneFailed /\ Idempotent]

Report ==
  /\ stage = "reporting"
  /\ report' = Printed
  /\ stage' = IF NoneFailed /\ Idempotent THEN "passed" ELSE "failed"
  /\ UNCHANGED <<registryVars, runs, turn, attempt, result>>

\* The process is killed.
Crash ==
  /\ Running
  /\ stage' = "idle"
  /\ ForgetClaim
  /\ UNCHANGED <<runs, turn, attempt, result, report>>

\* No process runs and nobody starts one.
Idle == ~Running /\ UNCHANGED vars

-----------------------------------------------------------------------------
ClaimSteps ==
  /\ ApiAnswers \/ TokenGranted \/ TokenRefused \/ AnswerArrives \/ NetworkFails
  /\ UNCHANGED cliVars

Proceed ==
  \/ Claim \/ ClaimPassed \/ ClaimFailed \/ BackOff \/ TryAgain
  \/ CheckCredentials \/ Report

Next ==
  \/ Start
  \/ Refuse
  \/ Proceed
  \/ ClaimSteps
  \/ (TokenAges \/ LateRequest) /\ UNCHANGED cliVars
  \/ Crash
  \/ Idle

Spec == Init /\ [][Next]_vars

\* A live process goes on, timers fire, and every request of the HTTP client
\* ends: with an answer, an error or its own time-out.
Fairness == WF_vars(Proceed) /\ WF_vars(ClaimSteps)

FairSpec == Spec /\ Fairness

-----------------------------------------------------------------------------
(***************************************************************************)
(* Properties.                                                             *)
(***************************************************************************)

\* "78/78 principals claimed via expected_principal_id" (provisioning-cli.ts:18):
\* a run passes only if the API has every principal of the mapping bound to the
\* principal the mapping names, whatever was lost, late or left by earlier runs.
PassedMeansClaimed ==
  stage = "passed" => \A i \in Positions :
                        bound[<<"principal", Mapping[i]>>] = Expected

\* "Zero new objects created" (provisioning-cli.ts:21): no run passes whose own
\* requests made an object, also when the answer that said so was lost and a
\* later claim of the run found the object.
CreationFailsTheRun == stage = "passed" => created = {}

\* "Repeat run produces identical results" (provisioning-cli.ts:20): a claim
\* that failed in either pass fails the run.
FailureFailsTheRun ==
  stage = "passed" => \A t \in Turns : result[t] = "pass"

\* The command implements Reconciliation.
Verdict == IF Running THEN "running" ELSE IF stage = "idle" THEN "none" ELSE stage

ClaimsOf(kind) == {<<kind, Mapping[i]>> : i \in Positions}

Promise == INSTANCE Reconciliation WITH
             Principals <- ClaimsOf("principal"), Clients <- ClaimsOf("client"),
             verdict <- Verdict, made <- created # {}

\* The command as a whole (provisioning-cli.ts:16-21, 210-224): nothing it does
\* takes back a binding; it passes at a moment when every principal is bound as
\* the mapping says and every client to something, none of it made by the run;
\* and no request of a run that has passed is still on its way to make an object.
ImplementsReconciliation == Promise!Spec

\* Every run comes to a verdict unless it is killed, also when every claim is
\* answered with 429 (retryOnRateLimit, provisioning-cli.ts:298-321).
EveryRunEnds == Running ~> ~Running

\* "78/78 clients claimed via expected_client_id" (provisioning-cli.ts:19)
\* and "We verify it matches the expected public client ID"
\* (principal-registry.ts:206-207): a run passes only if every client is bound
\* to the client the mapping names.
PassedMeansClientsClaimed ==
  stage = "passed" => \A i \in Positions :
                        bound[<<"client", Mapping[i]>>] = Expected
=============================================================================
