------------------------- MODULE ProvisioningProofs -------------------------
(***************************************************************************)
(* Theorems about the reconcile command, for every mapping, every set of   *)
(* agents and every number of runs and retries.                            *)
(***************************************************************************)
EXTENDS Provisioning, TLAPS

\* The reference whose turn it is.
RefOf(t) == <<t.kind, Mapping[t.position]>>

\* Turn t comes before turn u.
Before(t, u) ==
  \/ t.pass < u.pass
  \/ t.pass = u.pass /\ t.position < u.position
  \/ t.pass = u.pass /\ t.position = u.position /\ t.kind = "principal" /\ u.kind = "client"

\* A claim is in progress only while it is its turn.
ClaimInv ==
  /\ stage # "claiming" => claim = NoClaim
  /\ claim.phase # "none" => claim.ref = RefOf(turn)
  /\ stage = "waiting" => attempt < MaxRetries

\* The outcomes on record are those of the turns that are over.
TurnInv ==
  /\ stage \in {"claiming", "waiting"} =>
       \A t \in Turns : result[t] # "none" <=> Before(t, turn)
  /\ stage = "checking" => \A t \in Turns : result[t] # "none" <=> t.pass = 1
  /\ stage \in {"reporting", "passed"} => \A t \in Turns : result[t] # "none"
  /\ stage = "passed" => NoneFailed /\ Idempotent

\* Bound, and a principal to the expected object.
Claimed(r) == bound[r] # None /\ (r[1] = "principal" => bound[r] = Expected)

\* A reference whose claim passed is claimed.
BoundInv ==
  /\ claim.phase = "answered" /\ claim.answer = "claimed" => bound[claim.ref] = Expected
  /\ claim.phase = "answered" /\ claim.answer = "other" => bound[claim.ref] # None
  /\ claim.phase = "passed" => Claimed(claim.ref)
  /\ \A t \in Turns : result[t] = "pass" => Claimed(RefOf(t))

\* A request of this run has made an object, or may still make one.
Trouble == created # {} \/ \E request \in travelling : request.mine

\* The run has met a failure, which no later claim takes back.
Doomed ==
  \/ \E t \in Turns : result[t] = "fail"
  \/ claim.phase = "answered" /\ claim.answer = "created"
  \/ claim.phase = "failed" /\ claim.answer # "limited"

TroubleInv == stage # "idle" /\ Trouble => Doomed

IInv == TypeOK /\ ClaimInv /\ TurnInv /\ BoundInv /\ TroubleInv

-----------------------------------------------------------------------------
(***************************************************************************)
(* The registry and the API, while the command waits.                      *)
(***************************************************************************)

\* Every turn claims a reference of the mapping.
LEMMA RefOfType ==
  /\ \A t \in Turns : RefOf(t) \in References
  /\ IInv /\ claim.phase # "none" => claim.ref \in References
  <1>1. \A t \in Turns : RefOf(t) \in References
    BY MappingAssumption DEF Turns, RefOf, References, Positions
  <1> QED
    BY <1>1 DEF IInv, ClaimInv, TypeOK

\* What was recorded holds as long as the command, and what is bound, stay.
LEMMA RecordStays ==
  ASSUME IInv, UNCHANGED cliVars,
         \A r \in References : bound[r] # None => bound'[r] = bound[r]
  PROVE  /\ TurnInv'
         /\ \A r \in References : Claimed(r) => Claimed(r)'
         /\ \A t \in Turns : result'[t] = "pass" => Claimed(RefOf(t))'
  <1>1. TurnInv'
    BY DEF IInv, TurnInv, cliVars, NoneFailed, Idempotent, SamePasses, AllPrincipalsPassed
  <1>2. ASSUME NEW r \in References, Claimed(r) PROVE Claimed(r)'
    BY <1>2 DEF Claimed
  <1>3. ASSUME NEW t \in Turns, result'[t] = "pass" PROVE Claimed(RefOf(t))'
    <2>1. RefOf(t) \in References /\ RefOf(t)' = RefOf(t)
      BY RefOfType DEF RefOf
    <2>2. Claimed(RefOf(t))
      BY <1>3 DEF IInv, BoundInv, cliVars
    <2> QED
      BY <1>2, <2>1, <2>2
  <1> QED
    BY <1>1, <1>2, <1>3

\* The API never takes back what it has bound.
LEMMA HandlesInv ==
  ASSUME IInv, NEW r \in References, NEW mine \in BOOLEAN, NEW answer \in Answers,
         Handles(r, mine, answer)
  PROVE  /\ bound' \in [References -> {None, Expected, Other}]
         /\ \A s \in References : bound[s] # None => bound'[s] = bound[s]
         /\ answer = "claimed" => bound'[r] = Expected
         /\ answer = "other" => bound'[r] # None
         /\ created' \subseteq References
         /\ created' # created => mine /\ answer = "created"
  BY DEF Handles, Binds, Creates, Finds, Refuses, IInv, TypeOK, RegistryTypeOK

LEMMA ApiAnswersInv ==
  ASSUME IInv, ApiAnswers, UNCHANGED cliVars
  PROVE  IInv'
  <1>1. claim.phase = "sent" /\ UNCHANGED <<token, travelling>>
    BY DEF ApiAnswers
  <1>2. PICK answer \in Answers :
          /\ Handles(claim.ref, TRUE, answer)
          /\ claim' = [claim EXCEPT !.phase = "answered", !.answer = answer]
    BY DEF ApiAnswers
  <1>3. stage = "claiming" /\ claim.ref = RefOf(turn)
    BY <1>1 DEF IInv, ClaimInv, NoClaim
  <1>4. claim.ref \in References
    BY <1>1, RefOfType
  <1>5. /\ bound' \in [References -> {None, Expected, Other}]
        /\ \A s \in References : bound[s] # None => bound'[s] = bound[s]
        /\ answer = "claimed" => bound'[claim.ref] = Expected
        /\ answer = "other" => bound'[claim.ref] # None
        /\ created' \subseteq References
        /\ created' # created => answer = "created"
    BY <1>2, <1>4, HandlesInv
  <1>6. /\ claim' \in ClaimState /\ claim'.ref = claim.ref
        /\ claim'.phase = "answered" /\ claim'.answer = answer
    BY <1>2 DEF IInv, TypeOK, RegistryTypeOK, ClaimState
  <1>7. TypeOK'
    BY <1>1, <1>5, <1>6 DEF IInv, TypeOK, RegistryTypeOK, cliVars
  <1>8. ClaimInv'
    BY <1>3, <1>6 DEF IInv, ClaimInv, cliVars, RefOf
  <1>9. TurnInv' /\ BoundInv'
    BY <1>5, <1>6, RecordStays DEF BoundInv
  <1>10. TroubleInv'
    BY <1>1, <1>5, <1>6 DEF IInv, TroubleInv, Trouble, Doomed, cliVars
  <1> QED
    BY <1>7, <1>8, <1>9, <1>10 DEF IInv

\* A late request finds its run already doomed, or belongs to an earlier run.
LEMMA LateRequestInv ==
  ASSUME IInv, LateRequest, UNCHANGED cliVars
  PROVE  IInv'
  <1>1. UNCHANGED <<token, claim>>
    BY DEF LateRequest
  <1>2. PICK request \in travelling, answer \in Answers :
          /\ Handles(request.ref, request.mine, answer)
          /\ travelling' = travelling \ {request}
    BY DEF LateRequest
  <1>3. request.ref \in References /\ request.mine \in BOOLEAN
    BY DEF IInv, TypeOK, RegistryTypeOK, Requests
  <1>4. /\ bound' \in [References -> {None, Expected, Other}]
        /\ \A s \in References : bound[s] # None => bound'[s] = bound[s]
        /\ created' \subseteq References
        /\ created' # created => request.mine
    BY <1>2, <1>3, HandlesInv
  <1>5. TypeOK'
    BY <1>1, <1>2, <1>4 DEF IInv, TypeOK, RegistryTypeOK, cliVars
  <1>6. ClaimInv'
    BY <1>1 DEF IInv, ClaimInv, cliVars, RefOf
  <1>7. claim.phase # "none" => claim.ref \in References
    BY RefOfType
  <1>8. TurnInv' /\ BoundInv'
    BY <1>1, <1>4, <1>7, RecordStays, ObjectsAssumption DEF BoundInv, IInv
  <1>9. TroubleInv'
    BY <1>1, <1>2, <1>4 DEF IInv, TroubleInv, Trouble, Doomed, cliVars
  <1> QED
    BY <1>5, <1>6, <1>8, <1>9 DEF IInv

\* Steps of the claim that leave the API alone.
LEMMA ClaimStepInv ==
  ASSUME IInv, UNCHANGED cliVars,
         TokenGranted \/ TokenRefused \/ AnswerArrives \/ TokenAges
  PROVE  IInv'
  <1>1. UNCHANGED <<bound, created, travelling>>
    BY DEF TokenGranted, TokenRefused, AnswerArrives, TokenAges
  <1>2. /\ claim' \in ClaimState /\ claim'.ref = claim.ref
        /\ token' \in {None, "valid", "stale"}
    BY DEF TokenGranted, TokenRefused, AnswerArrives, TokenAges, IInv, TypeOK,
           RegistryTypeOK, ClaimState, Answers
  <1>3. TypeOK'
    BY <1>1, <1>2 DEF IInv, TypeOK, RegistryTypeOK, cliVars
  <1>4. claim.phase # "none" \/ claim' = claim
    BY DEF TokenGranted, TokenRefused, AnswerArrives, TokenAges
  <1>5. ClaimInv'
    BY <1>2, <1>4 DEF IInv, ClaimInv, cliVars, RefOf, NoClaim
  <1>6. /\ claim'.phase \in {"answered", "passed"} =>
             claim'.answer = claim.answer
        /\ claim'.phase = "answered" => claim.phase = "answered"
        /\ claim'.phase = "passed" =>
             \/ claim.phase = "passed"
             \/ claim.phase = "answered" /\ Passes(claim.ref[1], claim.answer)
    BY DEF TokenGranted, TokenRefused, AnswerArrives, TokenAges, IInv, TypeOK,
           RegistryTypeOK, ClaimState
  <1>7. TurnInv' /\ BoundInv'
    BY <1>1, <1>2, <1>6, RecordStays, ObjectsAssumption
       DEF BoundInv, Claimed, IInv, Passes
  <1>8. TroubleInv'
    <2>1. Doomed => Doomed'
      BY DEF TokenGranted, TokenRefused, AnswerArrives, TokenAges, Doomed, cliVars,
             Passes, IInv, TypeOK, RegistryTypeOK, ClaimState
    <2> QED
      BY <1>1, <2>1 DEF IInv, TroubleInv, Trouble, cliVars
  <1> QED
    BY <1>3, <1>5, <1>7, <1>8 DEF IInv

\* A claim given up keeps its request on the way, of this run.
LEMMA StillTravellingType ==
  ASSUME IInv
  PROVE  /\ StillTravelling \subseteq Requests
         /\ claim.phase # "sent" => StillTravelling = travelling
  <1>1. claim.phase = "sent" => claim.ref \in References
    BY RefOfType
  <1>2. claim.phase = "sent" => [ref |-> claim.ref, mine |-> TRUE] \in Requests
    BY <1>1 DEF Requests
  <1> QED
    BY <1>2 DEF StillTravelling, IInv, TypeOK, RegistryTypeOK

LEMMA NetworkFailsInv ==
  ASSUME IInv, NetworkFails, UNCHANGED cliVars
  PROVE  IInv'
  <1>1. /\ claim.phase \in {"sent", "answered"}
        /\ claim' = [claim EXCEPT !.phase = "failed", !.answer = "error"]
        /\ travelling' = StillTravelling
        /\ UNCHANGED <<token, bound, created>>
    BY DEF NetworkFails
  <1>2. /\ claim' \in ClaimState /\ claim'.ref = claim.ref
        /\ claim'.phase = "failed" /\ claim'.answer = "error"
    BY <1>1 DEF IInv, TypeOK, RegistryTypeOK, ClaimState, Answers
  <1>3. TypeOK'
    BY <1>1, <1>2, StillTravellingType DEF IInv, TypeOK, RegistryTypeOK, cliVars
  <1>4. ClaimInv'
    BY <1>1, <1>2 DEF IInv, ClaimInv, cliVars, RefOf, NoClaim
  <1>5. TurnInv' /\ BoundInv'
    BY <1>1, <1>2, RecordStays DEF BoundInv
  <1>6. TroubleInv'
    BY <1>2 DEF TroubleInv, Doomed
  <1> QED
    BY <1>3, <1>4, <1>5, <1>6 DEF IInv

-----------------------------------------------------------------------------
(***************************************************************************)
(* The command.                                                            *)
(***************************************************************************)

LEMMA FirstTurns ==
  ASSUME NEW pass \in {1, 2}
  PROVE  /\ FirstTurn(pass) \in Turns
         /\ \A t \in Turns : Before(t, FirstTurn(pass)) <=> t.pass < pass
  <1>1. 1 \in Positions /\ Positions \subseteq Nat \ {0}
    BY MappingAssumption DEF Positions
  <1>2. FirstTurn(pass) = [pass |-> pass, position |-> 1, kind |-> "principal"]
    BY DEF FirstTurn, TurnOf
  <1>3. FirstTurn(pass) \in Turns
    BY <1>1, <1>2 DEF Turns, Kinds
  <1>4. ASSUME NEW t \in Turns
        PROVE  Before(t, FirstTurn(pass)) <=> t.pass < pass
    <2>1. t.position \in Nat \ {0} /\ t.pass \in {1, 2}
      BY <1>1 DEF Turns
    <2> QED
      BY <1>2, <2>1 DEF Before
  <1> QED
    BY <1>3, <1>4

LEMMA NewRunInv ==
  ASSUME IInv, Start \/ Refuse
  PROVE  IInv'
  <1>1. /\ runs < MaxRuns /\ runs' = runs + 1 /\ turn' = FirstTurn(1) /\ attempt' = 0
        /\ result' = NoResult /\ report' = None /\ token' = None /\ claim' = NoClaim
        /\ created' = {} /\ bound' = bound
        /\ travelling' = {[request EXCEPT !.mine = FALSE] : request \in travelling}
        /\ stage' \in {"claiming", "failed"}
    BY DEF Start, Refuse, NewRun, NewSession
  <1>2. /\ travelling' \subseteq Requests
        /\ \A request \in travelling' : ~request.mine
    BY <1>1 DEF IInv, TypeOK, RegistryTypeOK, Requests
  <1>3. runs' \in 0 .. MaxRuns /\ attempt' \in 0 .. MaxRetries
    BY <1>1, RunsAssumption DEF IInv, TypeOK
  <1>4. NoClaim \in ClaimState /\ NoClaim.phase = "none"
    BY DEF NoClaim, ClaimState
  <1>5. TypeOK'
    BY <1>1, <1>2, <1>3, <1>4, FirstTurns DEF IInv, TypeOK, RegistryTypeOK, NoResult
  <1>6. ClaimInv'
    BY <1>1, <1>4 DEF ClaimInv
  <1>7. TurnInv'
    <2>1. \A t \in Turns : ~Before(t, FirstTurn(1)) /\ result'[t] = "none"
      BY <1>1, FirstTurns DEF NoResult, Turns
    <2> QED
      BY <1>1, <2>1 DEF TurnInv
  <1>8. BoundInv'
    BY <1>1, <1>4 DEF BoundInv, Claimed, NoResult
  <1>9. TroubleInv'
    BY <1>1, <1>2 DEF TroubleInv, Trouble
  <1> QED
    BY <1>5, <1>6, <1>7, <1>8, <1>9 DEF IInv

LEMMA ClaimBegins ==
  ASSUME IInv, Claim
  PROVE  IInv'
  <1>1. /\ stage = "claiming" /\ claim.phase = "none"
        /\ claim' = [phase |-> IF token = "valid" THEN "sent" ELSE "token",
                     ref |-> RefOf(turn), answer |-> None]
        /\ UNCHANGED <<token, bound, created, travelling>> /\ UNCHANGED cliVars
    BY DEF Claim, StartClaim, RefOf
  <1>2. RefOf(turn) \in References
    BY RefOfType DEF IInv, TypeOK
  <1>3. /\ claim' \in ClaimState /\ claim'.ref = RefOf(turn)
        /\ claim'.phase \in {"sent", "token"}
    BY <1>1, <1>2 DEF ClaimState
  <1>4. TypeOK'
    BY <1>1, <1>3 DEF IInv, TypeOK, RegistryTypeOK, cliVars
  <1>5. ClaimInv'
    BY <1>1, <1>3 DEF IInv, ClaimInv, cliVars, RefOf
  <1>6. TurnInv' /\ BoundInv'
    BY <1>1, <1>3, RecordStays DEF BoundInv
  <1>7. TroubleInv'
    BY <1>1 DEF IInv, TroubleInv, Trouble, Doomed, cliVars
  <1> QED
    BY <1>4, <1>5, <1>6, <1>7 DEF IInv

\* Recording an outcome ends its turn.
LEMMA RecordTurn ==
  ASSUME IInv, stage = "claiming", NEW outcome \in {"pass", "fail"}, Record(outcome)
  PROVE  /\ turn' \in Turns
         /\ stage' \in {"claiming", "checking", "reporting"}
         /\ result' \in [Turns -> {"none", "pass", "fail"}]
         /\ result'[turn] = outcome /\ \A t \in Turns \ {turn} : result'[t] = result[t]
         /\ result[turn] = "none"
         /\ TurnInv'
  <1>1. /\ turn \in Turns /\ turn.pass \in {1, 2} /\ turn.position \in 1 .. Len(Mapping)
        /\ turn.kind \in Kinds /\ Len(Mapping) \in Nat
        /\ Positions = 1 .. Len(Mapping)
    BY MappingAssumption DEF IInv, TypeOK, Turns, Positions
  <1>2. \A t \in Turns : t.pass \in {1, 2} /\ t.position \in 1 .. Len(Mapping) /\ t.kind \in Kinds
    BY <1>1 DEF Turns
  <1>3. ~Before(turn, turn)
    BY <1>1 DEF Before
  <1>4. result[turn] = "none"
    BY <1>1, <1>3 DEF IInv, TurnInv
  <1>5. /\ result' \in [Turns -> {"none", "pass", "fail"}]
        /\ result'[turn] = outcome /\ \A t \in Turns \ {turn} : result'[t] = result[t]
    BY <1>1 DEF Record, IInv, TypeOK
  <1>6. \A t \in Turns : result'[t] # "none" <=> Before(t, turn) \/ t = turn
    BY <1>1, <1>5 DEF IInv, TurnInv
  <1>7. \A t \in Turns : t = turn <=>
          t.pass = turn.pass /\ t.position = turn.position /\ t.kind = turn.kind
    BY <1>1 DEF Turns
  <1>8. CASE turn.kind = "principal"
    <2>1. turn' = [turn EXCEPT !.kind = "client"] /\ stage' = "claiming"
      BY <1>8 DEF Record
    <2>2. turn' \in Turns /\ turn'.pass = turn.pass /\ turn'.position = turn.position
            /\ turn'.kind = "client"
      BY <1>1, <2>1 DEF Turns, Kinds
    <2>3. \A t \in Turns : Before(t, turn') <=> Before(t, turn) \/ t = turn
      BY <1>1, <1>2, <1>7, <1>8, <2>2 DEF Before, Kinds
    <2> QED
      BY <1>4, <1>5, <1>6, <2>1, <2>2, <2>3 DEF TurnInv
  <1>9. CASE turn.kind # "principal" /\ turn.position < Len(Mapping)
    <2>1. turn' = TurnOf(turn.pass, turn.position + 1, "principal") /\ stage' = "claiming"
      BY <1>9 DEF Record
    <2>2. turn' \in Turns /\ turn'.pass = turn.pass /\ turn'.position = turn.position + 1
            /\ turn'.kind = "principal"
      BY <1>1, <1>9, <2>1 DEF Turns, Kinds, TurnOf
    <2>3. \A t \in Turns : Before(t, turn') <=> Before(t, turn) \/ t = turn
      BY <1>1, <1>2, <1>7, <1>9, <2>2 DEF Before, Kinds
    <2> QED
      BY <1>4, <1>5, <1>6, <2>1, <2>2, <2>3 DEF TurnInv
  <1>10. CASE turn.kind # "principal" /\ ~(turn.position < Len(Mapping))
    <2>1. turn' = turn /\ stage' = IF turn.pass = 1 THEN "checking" ELSE "reporting"
      BY <1>10 DEF Record
    <2>2. turn.position = Len(Mapping) /\ turn.kind = "client"
      BY <1>1, <1>10 DEF Kinds
    <2>3. \A t \in Turns : Before(t, turn) \/ t = turn <=> t.pass <= turn.pass
      BY <1>1, <1>2, <1>7, <2>2 DEF Before, Kinds
    <2>4. CASE turn.pass = 1
      <3>1. \A t \in Turns : result'[t] # "none" <=> t.pass = 1
        BY <1>2, <1>6, <2>3, <2>4
      <3> QED
        BY <1>1, <1>4, <1>5, <2>1, <2>4, <3>1 DEF TurnInv
    <2>5. CASE turn.pass = 2
      <3>1. \A t \in Turns : result'[t] # "none"
        BY <1>2, <1>6, <2>3, <2>5
      <3> QED
        BY <1>1, <1>4, <1>5, <2>1, <2>5, <3>1 DEF TurnInv
    <2> QED
      BY <1>1, <2>4, <2>5
  <1> QED
    BY <1>8, <1>9, <1>10

LEMMA RecordInv ==
  ASSUME IInv, ClaimPassed \/ ClaimFailed
  PROVE  IInv'
  <1>1. PICK outcome \in {"pass", "fail"} :
          /\ Record(outcome)
          /\ outcome = "pass" => claim.phase = "passed"
          /\ claim.phase \in {"passed", "failed"}
    BY DEF ClaimPassed, ClaimFailed
  <1>2. stage = "claiming" /\ claim.ref = RefOf(turn) /\ turn \in Turns
    BY <1>1 DEF ClaimPassed, ClaimFailed, IInv, ClaimInv, TypeOK
  <1>3. /\ turn' \in Turns
        /\ stage' \in {"claiming", "checking", "reporting"}
        /\ result' \in [Turns -> {"none", "pass", "fail"}]
        /\ result'[turn] = outcome /\ \A t \in Turns \ {turn} : result'[t] = result[t]
        /\ result[turn] = "none"
        /\ TurnInv'
    BY <1>1, <1>2, RecordTurn
  <1>4. /\ attempt' = 0 /\ claim' = NoClaim /\ travelling' = travelling
        /\ UNCHANGED <<runs, report, token, bound, created>>
    BY <1>1, StillTravellingType DEF Record, ForgetClaim
  <1>5. NoClaim \in ClaimState /\ NoClaim.phase = "none"
    BY DEF NoClaim, ClaimState
  <1>6. TypeOK'
    BY <1>3, <1>4, <1>5, RunsAssumption DEF IInv, TypeOK, RegistryTypeOK
  <1>7. ClaimInv'
    BY <1>3, <1>4, <1>5 DEF ClaimInv
  <1>8. BoundInv'
    <2>1. outcome = "pass" => Claimed(RefOf(turn))
      BY <1>1, <1>2 DEF IInv, BoundInv
    <2>2. \A t \in Turns : result'[t] = "pass" => Claimed(RefOf(t))
      BY <1>3, <2>1 DEF IInv, BoundInv
    <2> QED
      BY <1>4, <1>5, <2>2 DEF BoundInv, Claimed, RefOf
  <1>9. TroubleInv'
    <2>1. CASE outcome = "fail"
      BY <1>2, <1>3, <2>1 DEF TroubleInv, Doomed
    <2>2. CASE outcome = "pass"
      <3>1. ASSUME Trouble PROVE \E t \in Turns : result'[t] = "fail"
        <4>1. PICK t \in Turns : result[t] = "fail"
          BY <1>1, <1>2, <2>2, <3>1 DEF IInv, TroubleInv, Doomed
        <4> QED
          BY <1>3, <4>1
      <3> QED
        BY <1>4, <3>1 DEF TroubleInv, Trouble, Doomed
    <2> QED
      BY <2>1, <2>2
  <1> QED
    BY <1>3, <1>6, <1>7, <1>8, <1>9 DEF IInv

\* Only an attempt answered with 429 is made again, and it made nothing.
LEMMA RetryInv ==
  ASSUME IInv, BackOff \/ TryAgain
  PROVE  IInv'
  <1>1. NoClaim \in ClaimState /\ NoClaim.phase = "none"
    BY DEF NoClaim, ClaimState
  <1>2. /\ stage \in {"claiming", "waiting"} /\ stage' \in {"claiming", "waiting"}
        /\ UNCHANGED <<runs, turn, result, report, token, bound, created, travelling>>
        /\ claim' = NoClaim
        /\ claim.phase \in {"none", "failed"}
        /\ claim.phase = "failed" => claim.answer = "limited"
    BY <1>1, StillTravellingType
       DEF BackOff, TryAgain, MayRetry, ForgetClaim, registryVars, IInv, ClaimInv
  <1>3. attempt' \in 0 .. MaxRetries /\ (stage' = "waiting" => attempt' < MaxRetries)
    BY RunsAssumption DEF BackOff, TryAgain, MayRetry, IInv, TypeOK, ClaimInv
  <1>4. TypeOK'
    BY <1>1, <1>2, <1>3 DEF IInv, TypeOK, RegistryTypeOK
  <1>5. ClaimInv'
    BY <1>1, <1>2, <1>3 DEF ClaimInv
  <1>6. TurnInv'
    BY <1>2 DEF IInv, TurnInv
  <1>7. BoundInv'
    BY <1>1, <1>2 DEF IInv, BoundInv, Claimed, RefOf
  <1>8. TroubleInv'
    BY <1>2 DEF IInv, TroubleInv, Trouble, Doomed
  <1> QED
    BY <1>4, <1>5, <1>6, <1>7, <1>8 DEF IInv

LEMMA CheckInv ==
  ASSUME IInv, CheckCredentials
  PROVE  IInv'
  <1>1. /\ stage = "checking" /\ stage' = "claiming" /\ turn' = FirstTurn(2)
        /\ token' = None
        /\ UNCHANGED <<runs, attempt, result, report, claim, bound, created, travelling>>
    BY DEF CheckCredentials, ClearTokenCache
  <1>2. claim = NoClaim /\ NoClaim.phase = "none"
    BY <1>1 DEF IInv, ClaimInv, NoClaim
  <1>3. TypeOK'
    BY <1>1, FirstTurns DEF IInv, TypeOK, RegistryTypeOK
  <1>4. ClaimInv'
    BY <1>1, <1>2 DEF ClaimInv
  <1>5. TurnInv'
    <2>1. \A t \in Turns : Before(t, FirstTurn(2)) <=> t.pass = 1
      BY FirstTurns DEF Turns
    <2> QED
      BY <1>1, <2>1 DEF IInv, TurnInv
  <1>6. BoundInv'
    BY <1>1, <1>2 DEF IInv, BoundInv, Claimed, RefOf
  <1>7. TroubleInv'
    BY <1>1 DEF IInv, TroubleInv, Trouble, Doomed
  <1> QED
    BY <1>3, <1>4, <1>5, <1>6, <1>7 DEF IInv

LEMMA ReportInv ==
  ASSUME IInv, Report
  PROVE  IInv'
  <1>1. /\ stage = "reporting" /\ report' = Printed
        /\ stage' = IF NoneFailed /\ Idempotent THEN "passed" ELSE "failed"
        /\ UNCHANGED <<token, claim, bound, created, travelling, runs, turn, attempt, result>>
    BY DEF Report, registryVars
  <1>2. AllPrincipalsPassed \in BOOLEAN /\ NoneFailed \in BOOLEAN /\ Idempotent \in BOOLEAN
    BY DEF AllPrincipalsPassed, NoneFailed, Idempotent
  <1>3. Printed \in Lines
    BY <1>2 DEF Printed, Lines
  <1>4. TypeOK'
    BY <1>1, <1>3 DEF IInv, TypeOK, RegistryTypeOK
  <1>5. ClaimInv'
    BY <1>1 DEF IInv, ClaimInv, NoClaim
  <1>6. TurnInv'
    BY <1>1 DEF IInv, TurnInv, NoneFailed, Idempotent, SamePasses, AllPrincipalsPassed
  <1>7. BoundInv'
    BY <1>1 DEF IInv, BoundInv, Claimed, RefOf
  <1>8. TroubleInv'
    BY <1>1 DEF IInv, TroubleInv, Trouble, Doomed
  <1> QED
    BY <1>4, <1>5, <1>6, <1>7, <1>8 DEF IInv

LEMMA CrashInv ==
  ASSUME IInv, Crash
  PROVE  IInv'
  <1>1. /\ stage' = "idle" /\ claim' = NoClaim /\ travelling' = StillTravelling
        /\ UNCHANGED <<runs, turn, attempt, result, report, token, bound, created>>
    BY DEF Crash, ForgetClaim
  <1>2. NoClaim \in ClaimState /\ NoClaim.phase = "none"
    BY DEF NoClaim, ClaimState
  <1>3. TypeOK'
    BY <1>1, <1>2, StillTravellingType DEF IInv, TypeOK, RegistryTypeOK
  <1>4. ClaimInv' /\ TurnInv' /\ TroubleInv'
    BY <1>1, <1>2 DEF ClaimInv, TurnInv, TroubleInv
  <1>5. BoundInv'
    BY <1>1, <1>2 DEF IInv, BoundInv, Claimed, RefOf
  <1> QED
    BY <1>3, <1>4, <1>5 DEF IInv

-----------------------------------------------------------------------------
LEMMA InitInv == Init => IInv
  <1> SUFFICES ASSUME Init PROVE IInv
    OBVIOUS
  <1>1. NoClaim \in ClaimState /\ NoClaim.phase = "none"
    BY DEF NoClaim, ClaimState
  <1>2. TypeOK
    BY <1>1, FirstTurns, RunsAssumption
       DEF Init, RegistryInit, TypeOK, RegistryTypeOK, NoResult
  <1>3. ClaimInv /\ TurnInv /\ TroubleInv
    BY <1>1 DEF Init, RegistryInit, ClaimInv, TurnInv, TroubleInv
  <1>4. BoundInv
    BY <1>1 DEF Init, RegistryInit, BoundInv, NoResult
  <1> QED
    BY <1>2, <1>3, <1>4 DEF IInv

LEMMA NextInv == IInv /\ [Next]_vars => IInv'
  <1> SUFFICES ASSUME IInv, [Next]_vars PROVE IInv'
    OBVIOUS
  <1>1. CASE Start \/ Refuse
    BY <1>1, NewRunInv
  <1>2. CASE Proceed
    BY <1>2, ClaimBegins, RecordInv, RetryInv, CheckInv, ReportInv DEF Proceed
  <1>3. CASE ClaimSteps
    BY <1>3, ApiAnswersInv, ClaimStepInv, NetworkFailsInv DEF ClaimSteps
  <1>4. CASE (TokenAges \/ LateRequest) /\ UNCHANGED cliVars
    BY <1>4, ClaimStepInv, LateRequestInv
  <1>5. CASE Crash
    BY <1>5, CrashInv
  <1>6. CASE UNCHANGED vars
    BY <1>6 DEF vars, registryVars, cliVars, IInv, TypeOK, RegistryTypeOK, ClaimInv, TurnInv,
                BoundInv, Claimed, TroubleInv, Trouble, Doomed, RefOf, NoneFailed, Idempotent,
                SamePasses, AllPrincipalsPassed
  <1> QED
    BY <1>1, <1>2, <1>3, <1>4, <1>5, <1>6 DEF Next, Idle

-----------------------------------------------------------------------------
\* The inductive invariant of the command.
THEOREM Invariance == Spec => []IInv
  BY InitInv, NextInv, PTL DEF Spec

\* Type correctness; no more than maxRetries retries of a claim
\* (provisioning-cli.ts:298-321).
THEOREM TypeCorrect == Spec => []TypeOK
  BY Invariance, PTL DEF IInv

\* What a run has done whose claims all passed, twice.
LEMMA CleanRun ==
  ASSUME IInv, stage \in {"reporting", "passed"}, NoneFailed, Idempotent
  PROVE  /\ \A t \in Turns : result[t] = "pass"
         /\ created = {}
         /\ \A r \in ClaimsOf("principal") : bound[r] = Expected
         /\ \A r \in ClaimsOf("client") : bound[r] # None
  <1>1. claim = NoClaim /\ claim.phase = "none"
    BY DEF IInv, ClaimInv, NoClaim
  <1>2. ASSUME NEW t \in Turns PROVE result[t] = "pass"
    <2>1. /\ t.pass \in {1, 2} /\ t.position \in Positions /\ t.kind \in Kinds
          /\ t = TurnOf(t.pass, t.position, t.kind)
      BY DEF Turns, TurnOf
    <2>2. result[TurnOf(1, t.position, t.kind)] = result[TurnOf(2, t.position, t.kind)]
      BY <2>1 DEF Idempotent, SamePasses
    <2>3. result[TurnOf(1, t.position, t.kind)] # "fail"
      BY <2>1 DEF NoneFailed
    <2>4. result[t] # "fail"
      BY <2>1, <2>2, <2>3
    <2> QED
      BY <2>4 DEF IInv, TypeOK, TurnInv
  <1>3. created = {}
    BY <1>1, <1>2 DEF IInv, TroubleInv, Trouble, Doomed
  <1>4. ASSUME NEW i \in Positions, NEW kind \in Kinds
        PROVE  Claimed(<<kind, Mapping[i]>>)
    <2> DEFINE t == TurnOf(1, i, kind)
    <2>1. t \in Turns /\ RefOf(t) = <<kind, Mapping[i]>>
      BY DEF Turns, TurnOf, RefOf
    <2> QED
      BY <1>2, <2>1 DEF IInv, BoundInv
  <1>5. /\ \A r \in ClaimsOf("principal") : bound[r] = Expected
        /\ \A r \in ClaimsOf("client") : bound[r] # None
    BY <1>4 DEF ClaimsOf, Claimed, Kinds
  <1> QED
    BY <1>2, <1>3, <1>5

LEMMA PassedInv ==
  ASSUME IInv, stage = "passed"
  PROVE  /\ \A t \in Turns : result[t] = "pass"
         /\ created = {}
         /\ \A r \in ClaimsOf("principal") : bound[r] = Expected
  BY CleanRun DEF IInv, TurnInv

\* A run that passes has every principal bound to the one the mapping names
\* (provisioning-cli.ts:18).
THEOREM PassedRunsClaimed == Spec => []PassedMeansClaimed
  <1>1. IInv => PassedMeansClaimed
    BY PassedInv DEF PassedMeansClaimed, ClaimsOf
  <1> QED
    BY <1>1, Invariance, PTL

\* A run whose own requests made an object does not pass
\* (provisioning-cli.ts:21).
THEOREM CreationsFailTheRun == Spec => []CreationFailsTheRun
  <1>1. IInv => CreationFailsTheRun
    BY PassedInv DEF CreationFailsTheRun
  <1> QED
    BY <1>1, Invariance, PTL

\* A claim that failed in either pass fails the run (provisioning-cli.ts:20).
THEOREM FailuresFailTheRun == Spec => []FailureFailsTheRun
  <1>1. IInv => FailureFailsTheRun
    BY PassedInv DEF FailureFailsTheRun
  <1> QED
    BY <1>1, Invariance, PTL

-----------------------------------------------------------------------------
(***************************************************************************)
(* The command implements Reconciliation.                                  *)
(***************************************************************************)

\* A request that arrives binds a reference to the expected object or makes one.
LEMMA HandlesMaps ==
  ASSUME IInv, NEW r \in References, NEW mine \in BOOLEAN, NEW answer \in Answers,
         Handles(r, mine, answer), UNCHANGED Verdict,
         mine => Verdict # "passed"
  PROVE  [Promise!Next]_Promise!vars
  <1>1. CASE Binds(r, answer)
    BY <1>1 DEF Binds, Promise!Next, Promise!Bind
  <1>2. CASE Creates(r, mine, answer)
    <2>1. (created' # {}) = (created # {} \/ mine)
      BY <1>2 DEF Creates
    <2> QED
      BY <1>2, <2>1 DEF Creates, Promise!Next, Promise!Make
  <1>3. CASE Finds(r, answer) \/ Refuses(answer)
    BY <1>3 DEF Finds, Refuses, Promise!vars
  <1> QED
    BY <1>1, <1>2, <1>3 DEF Handles

\* No request of a run that has passed is still on its way.
LEMMA NothingFollowsPass ==
  ASSUME IInv, stage = "passed"
  PROVE  \A request \in travelling : ~request.mine
  <1>1. claim.phase = "none"
    BY DEF IInv, ClaimInv, NoClaim
  <1> QED
    BY <1>1, PassedInv DEF IInv, TroubleInv, Trouble, Doomed

LEMMA ReportMaps ==
  ASSUME IInv, Report
  PROVE  [Promise!Next]_Promise!vars
  <1>1. /\ stage = "reporting" /\ UNCHANGED <<bound, created>>
        /\ stage' = IF NoneFailed /\ Idempotent THEN "passed" ELSE "failed"
    BY DEF Report, registryVars
  <1>2. Verdict = "running" /\ Verdict' = stage'
    BY <1>1 DEF Verdict, Running
  <1>3. CASE NoneFailed /\ Idempotent
    BY <1>1, <1>2, <1>3, CleanRun DEF Promise!Next, Promise!Pass
  <1>4. CASE ~(NoneFailed /\ Idempotent)
    BY <1>1, <1>2, <1>4 DEF Promise!Next, Promise!Fail
  <1> QED
    BY <1>1, <1>3, <1>4

LEMMA StepMaps == IInv /\ [Next]_vars => [Promise!Next]_Promise!vars
  <1> SUFFICES ASSUME IInv, [Next]_vars PROVE [Promise!Next]_Promise!vars
    OBVIOUS
  <1>1. CASE Start \/ Refuse
    <2>1. Verdict # "running" /\ Verdict' \in {"running", "failed"}
      BY <1>1 DEF Start, Refuse, NewRun, Verdict, Running, IInv, TypeOK
    <2> QED
      BY <1>1, <2>1 DEF Start, Refuse, NewRun, NewSession, Promise!Next, Promise!Begin
  <1>2. CASE Report
    BY <1>2, ReportMaps
  <1>3. CASE Claim \/ ClaimPassed \/ ClaimFailed \/ BackOff \/ TryAgain \/ CheckCredentials
    <2>1. Verdict = "running" /\ Verdict' = "running"
      BY <1>3 DEF Claim, ClaimPassed, ClaimFailed, BackOff, TryAgain, CheckCredentials,
                  Record, Verdict, Running, cliVars
    <2>2. UNCHANGED <<bound, created>>
      BY <1>3 DEF Claim, StartClaim, ClaimPassed, ClaimFailed, BackOff, TryAgain,
                  CheckCredentials, ClearTokenCache, Record, ForgetClaim, registryVars
    <2> QED
      BY <2>1, <2>2 DEF Promise!vars
  <1>4. CASE ClaimSteps
    <2>1. UNCHANGED Verdict
      BY <1>4 DEF ClaimSteps, cliVars, Verdict, Running
    <2>2. CASE ApiAnswers
      <3>1. claim.ref \in References /\ Verdict # "passed"
        BY <2>2, RefOfType DEF ApiAnswers, IInv, ClaimInv, NoClaim, Verdict, Running
      <3>2. PICK answer \in Answers : Handles(claim.ref, TRUE, answer)
        BY <2>2 DEF ApiAnswers
      <3> QED
        BY <2>1, <3>1, <3>2, HandlesMaps
    <2>3. CASE TokenGranted \/ TokenRefused \/ AnswerArrives \/ NetworkFails
      BY <2>1, <2>3 DEF TokenGranted, TokenRefused, AnswerArrives, NetworkFails, Promise!vars
    <2> QED
      BY <1>4, <2>2, <2>3 DEF ClaimSteps
  <1>5. CASE (TokenAges \/ LateRequest) /\ UNCHANGED cliVars
    <2>1. UNCHANGED Verdict
      BY <1>5 DEF cliVars, Verdict, Running
    <2>2. CASE TokenAges
      BY <2>1, <2>2 DEF TokenAges, Promise!vars
    <2>3. CASE LateRequest
      <3>1. PICK request \in travelling, answer \in Answers :
              Handles(request.ref, request.mine, answer)
        BY <2>3 DEF LateRequest
      <3>2. request.ref \in References /\ request.mine \in BOOLEAN
        BY DEF IInv, TypeOK, RegistryTypeOK, Requests
      <3>3. request.mine => Verdict # "passed"
        BY NothingFollowsPass DEF Verdict, Running
      <3> QED
        BY <2>1, <3>1, <3>2, <3>3, HandlesMaps
    <2> QED
      BY <1>5, <2>2, <2>3
  <1>6. CASE Crash
    BY <1>6 DEF Crash, ForgetClaim, Verdict, Running, Promise!Next, Promise!Die
  <1>7. CASE UNCHANGED vars
    BY <1>7 DEF vars, registryVars, cliVars, Verdict, Running, Promise!vars
  <1> QED
    BY <1>1, <1>2, <1>3, <1>4, <1>5, <1>6, <1>7 DEF Next, Proceed, Idle

\* The reconcile command implements Reconciliation, whatever is lost, late,
\* repeated or killed (provisioning-cli.ts:16-21, 210-224).
THEOREM Refinement == Spec => ImplementsReconciliation
  <1>1. Init => Promise!Init
    BY DEF Init, RegistryInit, Verdict, Running, Promise!Init
  <1> QED
    BY <1>1, StepMaps, Invariance, PTL DEF Spec, ImplementsReconciliation, Promise!Spec
=============================================================================
