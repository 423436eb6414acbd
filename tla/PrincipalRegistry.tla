-------------------------- MODULE PrincipalRegistry --------------------------
(***************************************************************************)
(* The claim client of the auth broker (broker/src/principal-registry.ts)  *)
(* and the Auth V1 API it talks to.                                        *)
(*                                                                         *)
(* A claim binds the external_ref of an agent to the principal, or to the  *)
(* client, the authoritative mapping names.  The registry has one claim in *)
(* progress at a time: its caller awaits each.  The API is external: what  *)
(* is modelled of it is what the registry relies on, that a reference once *)
(* bound stays bound, and every answer the registry has a branch for.      *)
(* Requests and answers may be lost, and a request may reach the API after *)
(* its sender has given it up.                                             *)
(***************************************************************************)
EXTENDS Naturals, Sequences, FiniteSets

CONSTANTS
  Agents,    \* canonical agent ids
  None,      \* no token, no answer; the object of a reference not yet bound
  Expected,  \* the object the mapping names for a reference
  Other      \* any other object

ASSUME ObjectsAssumption == Expected # Other /\ None \notin {Expected, Other}

VARIABLES
  token,      \* _cachedToken: None, or whether more than 30 s of it are left
  claim,      \* the claim in progress
  bound,      \* API: the object each reference is bound to
  created,    \* API: references this session's requests made a new object for
  travelling  \* requests given up by their sender that the API may still get

registryVars == <<token, claim, bound, created, travelling>>

Kinds == {"principal", "client"}

References == Kinds \X Agents

\* Answers of the claim endpoints.  "claimed": 200, created=false, the expected
\* object; "other": 200, created=false, another object; "created": 201;
\* "secret": 200 with a secret; "limited": 429; "error": any other failure.
Answers == {"claimed", "other", "created", "secret", "limited", "error"}

ClaimState ==
  [phase  : {"none", "token", "sent", "answered", "passed", "failed"},
   ref    : References \cup {None},
   answer : Answers \cup {None}]

NoClaim == [phase |-> "none", ref |-> None, answer |-> None]

\* `mine`: the request is one of the current session.
Requests == [ref : References, mine : BOOLEAN]

RegistryTypeOK ==
  /\ token \in {None, "valid", "stale"}
  /\ claim \in ClaimState
  /\ bound \in [References -> {None, Expected, Other}]
  /\ created \subseteq References
  /\ travelling \subseteq Requests

RegistryInit ==
  /\ token = None
  /\ claim = NoClaim
  /\ bound \in [References -> {None, Expected, Other}]
  /\ created = {}
  /\ travelling = {}

-----------------------------------------------------------------------------
(***************************************************************************)
(* The API.                                                                *)
(***************************************************************************)

\* What a request for reference r does there, and what it answers.
Binds(r, answer) ==
  /\ bound[r] = None
  /\ bound' = [bound EXCEPT ![r] = Expected]
  /\ answer = "claimed"
  /\ UNCHANGED created

Creates(r, mine, answer) ==
  /\ bound[r] = None
  /\ bound' = [bound EXCEPT ![r] = Other]
  /\ created' = IF mine THEN created \cup {r} ELSE created
  /\ answer = "created"

Finds(r, answer) ==
  /\ bound[r] # None
  /\ \/ bound[r] = Expected /\ answer = "claimed"
     \/ bound[r] = Other /\ answer = "other"
     \/ r[1] = "client" /\ answer = "secret"
  /\ UNCHANGED <<bound, created>>

Refuses(answer) ==
  /\ answer \in {"limited", "error"}
  /\ UNCHANGED <<bound, created>>

Handles(r, mine, answer) ==
  \/ Binds(r, answer)
  \/ Creates(r, mine, answer)
  \/ Finds(r, answer)
  \/ Refuses(answer)

ApiAnswers ==
  /\ claim.phase = "sent"
  /\ \E answer \in Answers :
       /\ Handles(claim.ref, TRUE, answer)
       /\ claim' = [claim EXCEPT !.phase = "answered", !.answer = answer]
  /\ UNCHANGED <<token, travelling>>

\* A request whose sender is gone, or was told of a network error, arrives.
LateRequest ==
  /\ \E request \in travelling :
       /\ \E answer \in Answers : Handles(request.ref, request.mine, answer)
       /\ travelling' = travelling \ {request}
  /\ UNCHANGED <<token, claim>>

-----------------------------------------------------------------------------
(***************************************************************************)
(* The registry.                                                           *)
(***************************************************************************)

\* setBrokerAuth(), on a registry just made: a new session.
NewSession ==
  /\ token' = None
  /\ claim' = NoClaim
  /\ created' = {}
  /\ travelling' = {[request EXCEPT !.mine = FALSE] : request \in travelling}
  /\ UNCHANGED bound

\* claimPrincipal() or claimClient() is called: _getBrokerToken() has a token
\* that is good for more than 30 s, or asks for one.
StartClaim(r) ==
  /\ claim.phase = "none"
  /\ claim' = [phase |-> IF token = "valid" THEN "sent" ELSE "token",
               ref |-> r, answer |-> None]
  /\ UNCHANGED <<token, bound, created, travelling>>

\* The token endpoint grants a token, perhaps for 30 s or less.
TokenGranted ==
  /\ claim.phase = "token"
  /\ token' \in {"valid", "stale"}
  /\ claim' = [claim EXCEPT !.phase = "sent"]
  /\ UNCHANGED <<bound, created, travelling>>

\* An AuthTokenError, which has no statusCode: also for a 429.
TokenRefused ==
  /\ claim.phase = "token"
  /\ claim' = [claim EXCEPT !.phase = "failed", !.answer = "error"]
  /\ UNCHANGED <<token, bound, created, travelling>>

\* Time passes until less than 30 s of the token are left.
TokenAges ==
  /\ token = "valid"
  /\ token' = "stale"
  /\ UNCHANGED <<claim, bound, created, travelling>>

\* Mutant: the id of the principal is not compared.
PassesAnyId(kind, answer) == answer \in {"claimed", "other"}

\* claimPrincipal() compares the id of the answer with the expected one;
\* claimClient() only looks whether there is a client_id.
Passes(kind, answer) ==
  answer = "claimed" \/ (kind = "client" /\ answer = "other")

AnswerArrives ==
  /\ claim.phase = "answered"
  /\ claim' = [claim EXCEPT !.phase =
                 IF Passes(claim.ref[1], claim.answer) THEN "passed" ELSE "failed"]
  /\ UNCHANGED <<token, bound, created, travelling>>

\* A request that was sent may yet arrive.  Once its reference is bound it has
\* nothing left to change and is not kept.
StillTravelling ==
  IF claim.phase = "sent" /\ bound[claim.ref] = None
    THEN travelling \cup {[ref |-> claim.ref, mine |-> TRUE]}
    ELSE travelling

\* fetch() rejects, before or after the API handled the request.
NetworkFails ==
  /\ claim.phase \in {"sent", "answered"}
  /\ claim' = [claim EXCEPT !.phase = "failed", !.answer = "error"]
  /\ travelling' = StillTravelling
  /\ UNCHANGED <<token, bound, created>>

\* The process dies, or its caller has taken the outcome of the claim.
ForgetClaim ==
  /\ claim' = NoClaim
  /\ travelling' = StillTravelling
  /\ UNCHANGED <<token, bound, created>>

\* clearTokenCache(), between two claims.
ClearTokenCache ==
  /\ token' = None
  /\ UNCHANGED <<claim, bound, created, travelling>>
=============================================================================
