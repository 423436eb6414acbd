------------------------------ MODULE TokenCache ------------------------------
(***************************************************************************)
(* The token cache of the auth broker (broker/src/token-cache.ts).         *)
(*                                                                         *)
(* One element of Calls is one invocation of getToken().  An invocation    *)
(* that issues owns exactly one promise and at most one token, so promises *)
(* and tokens are named by the call that owns them.  A key stands for the  *)
(* quadruple (agentId, clientId, audience, scope) that _cacheKey joins.    *)
(*                                                                         *)
(* The grain of atomicity is that of the JavaScript event loop: an action  *)
(* is what runs between two awaits.  The continuations of one settled      *)
(* promise run in the order they were attached, the owner's first, and the *)
(* next I/O event is taken only when no continuation is left to run.       *)
(***************************************************************************)
EXTENDS Integers, FiniteSets

CONSTANTS
  Calls,         \* invocations of getToken()
  Keys,          \* cache keys
  None,          \* the absent call, promise or token (undefined)
  ExpiresIn,     \* the values of expires_in the auth-service may grant
  RefreshEarly,  \* REFRESH_EARLY_SECONDS
  MinUsable,     \* MIN_USABLE_TTL_SECONDS
  MaxTime,       \* bound of the model: the clock stops here
  MaxClears      \* bound of the model: how often clear() is called

ASSUME CallsAssumption == IsFiniteSet(Calls) /\ None \notin Calls
ASSUME TimeAssumption  == /\ ExpiresIn \subseteq Int
                          /\ RefreshEarly \in Nat
                          /\ MinUsable \in Nat
                          /\ MaxTime \in Nat
ASSUME ClearAssumption == MaxClears \in Nat

VARIABLES
  now,       \* Date.now()
  cache,     \* _cache: the token each key holds
  pending,   \* _pending: the issuance each key waits for
  call,      \* the local state of each invocation of getToken()
  promise,   \* the promise of _issueAndCache() each owner created
  rejected,  \* history: the tokens invalidate() has deleted
  clears     \* history: how often clear() ran

vars == <<now, cache, pending, call, promise, rejected, clears>>

Phases == {"new", "owner", "waiter", "returned", "threw"}

CallState == [phase  : Phases,
              key    : Keys \cup {None},
              awaits : Calls \cup {None},  \* the promise it awaits
              cached : Calls \cup {None},  \* `cached`, read before the await
              token  : Calls \cup {None}]  \* the token it returned

PromiseState == [state     : {"unused", "inFlight", "fulfilled", "rejected"},
                 sentAt    : Nat,  \* when the request left
                 late      : Nat,  \* time from the grant to its receipt
                 expiresAt : Int]  \* expiresAtMs, computed on receipt

NewCall == [phase |-> "new", key |-> None, awaits |-> None,
            cached |-> None, token |-> None]

Unused == [state |-> "unused", sentAt |-> 0, late |-> 0, expiresAt |-> 0]

-----------------------------------------------------------------------------
Settled(p) == promise[p].state \in {"fulfilled", "rejected"}

InFlight(p) == promise[p].state = "inFlight"

Waiting(c) == call[c].phase \in {"owner", "waiter"}

\* The continuation of c is in the microtask queue.
Runnable(c) == Waiting(c) /\ Settled(call[c].awaits)

\* The microtask queue is empty: the event loop may take the next I/O event.
Quiescent == \A c \in Calls : ~Runnable(c)

TimeLeft(t) == promise[t].expiresAt - now

-----------------------------------------------------------------------------
Init ==
  /\ now = 0
  /\ cache = [k \in Keys |-> None]
  /\ pending = [k \in Keys |-> None]
  /\ call = [c \in Calls |-> NewCall]
  /\ promise = [c \in Calls |-> Unused]
  /\ rejected = {}
  /\ clears = 0

\* Mutant: a token is served until it expires.
ServeUntilExpiry(found) == found # None /\ TimeLeft(found) > 0

\* The token in `found` is served without asking anyone.
Fresh(found) == found # None /\ TimeLeft(found) > RefreshEarly

\* The synchronous part of getToken(), up to its first await, when the cache
\* entry of the key is `found`.
ServeFromCache(c, k, found) ==
  /\ Fresh(found)
  /\ call' = [call EXCEPT ![c] = [phase |-> "returned", key |-> k,
                awaits |-> None, cached |-> found, token |-> found]]
  /\ UNCHANGED <<pending, promise>>

\* Mutant: the pending map is searched without the key.
JoinAnyPending(c, k, found) ==
  /\ ~Fresh(found)
  /\ \E other \in Keys :
       /\ pending[other] # None
       /\ call' = [call EXCEPT ![c] = [phase |-> "waiter", key |-> k,
                    awaits |-> pending[other], cached |-> found, token |-> None]]
  /\ UNCHANGED <<pending, promise>>

JoinPending(c, k, found) ==
  /\ ~Fresh(found)
  /\ pending[k] # None
  /\ call' = [call EXCEPT ![c] = [phase |-> "waiter", key |-> k,
                awaits |-> pending[k], cached |-> found, token |-> None]]
  /\ UNCHANGED <<pending, promise>>

\* Mutant: no look at the pending map.
StartSecondIssuance(c, k, found) ==
  /\ ~Fresh(found)
  /\ call' = [call EXCEPT ![c] = [phase |-> "owner", key |-> k,
                awaits |-> c, cached |-> found, token |-> None]]
  /\ promise' = [promise EXCEPT ![c] = [state |-> "inFlight", sentAt |-> now,
                                       late |-> 0, expiresAt |-> 0]]
  /\ pending' = [pending EXCEPT ![k] = c]

StartIssuance(c, k, found) ==
  /\ ~Fresh(found)
  /\ pending[k] = None
  /\ call' = [call EXCEPT ![c] = [phase |-> "owner", key |-> k,
                awaits |-> c, cached |-> found, token |-> None]]
  /\ promise' = [promise EXCEPT ![c] = [state |-> "inFlight", sentAt |-> now,
                                       late |-> 0, expiresAt |-> 0]]
  /\ pending' = [pending EXCEPT ![k] = c]

BeginCall(c, k, found) ==
  /\ call[c].phase = "new"
  /\ \/ ServeFromCache(c, k, found)
     \/ JoinPending(c, k, found)
     \/ StartIssuance(c, k, found)

GetToken(c, k) ==
  /\ BeginCall(c, k, cache[k])
  /\ UNCHANGED <<now, cache, rejected, clears>>

-----------------------------------------------------------------------------
\* invalidate() on its own.  Its caller runs on an I/O event, a 401 answer.
Invalidate(k) ==
  /\ Quiescent
  /\ cache[k] # None
  /\ cache' = [cache EXCEPT ![k] = None]
  /\ rejected' = rejected \cup {cache[k]}
  /\ UNCHANGED <<now, pending, call, promise, clears>>

\* invalidate() and getToken() in one turn, as the 401 handler of
\* BrokerCore.authorizedFetch() runs them: nothing comes between the two.
InvalidateAndGet(c, k) ==
  /\ Quiescent
  /\ cache' = [cache EXCEPT ![k] = None]
  /\ rejected' = rejected \cup ({cache[k]} \ {None})
  /\ BeginCall(c, k, None)
  /\ UNCHANGED <<now, clears>>

\* clear(): the promises themselves stay in flight.
Clear ==
  /\ clears < MaxClears
  /\ cache' = [k \in Keys |-> None]
  /\ pending' = [k \in Keys |-> None]
  /\ clears' = clears + 1
  /\ UNCHANGED <<now, call, promise, rejected>>

-----------------------------------------------------------------------------
\* The issuer resolves: _issueAndCache() stamps the expiry with the time of
\* receipt and stores the token.  The auth-service granted it at some moment
\* since the request left.
IssuanceSucceeds(c) ==
  /\ Quiescent
  /\ InFlight(c)
  /\ \E expiresIn \in ExpiresIn, late \in 0 .. (now - promise[c].sentAt) :
       promise' = [promise EXCEPT ![c] = [state |-> "fulfilled", sentAt |-> 0,
                                  late |-> late, expiresAt |-> now + expiresIn]]
  /\ cache' = [cache EXCEPT ![call[c].key] = c]
  /\ UNCHANGED <<now, pending, call, rejected, clears>>

\* Mutant: a failure puts the token read before the await back in the cache.
FailureRestoresCached(c) ==
  /\ Quiescent
  /\ InFlight(c)
  /\ promise' = [promise EXCEPT ![c] = [Unused EXCEPT !.state = "rejected"]]
  /\ cache' = [cache EXCEPT ![call[c].key] = call[c].cached]
  /\ UNCHANGED <<now, pending, call, rejected, clears>>

\* The issuer throws: network error, refusal or malformed answer.
IssuanceFails(c) ==
  /\ Quiescent
  /\ InFlight(c)
  /\ promise' = [promise EXCEPT ![c] = [Unused EXCEPT !.state = "rejected"]]
  /\ UNCHANGED <<now, cache, pending, call, rejected, clears>>

\* Mutant: no `finally`.
KeepPending(c) == UNCHANGED pending

\* `finally`: whatever the key waits for now is forgotten.
ForgetPending(c) == pending' = [pending EXCEPT ![call[c].key] = None]

Return(c, t) ==
  call' = [call EXCEPT ![c] = [@ EXCEPT !.phase = "returned", !.token = t]]

Throw(c) == call' = [call EXCEPT ![c].phase = "threw"]

OwnerReturns(c) ==
  /\ call[c].phase = "owner"
  /\ promise[c].state = "fulfilled"
  /\ Return(c, c)
  /\ ForgetPending(c)
  /\ UNCHANGED <<now, cache, promise, rejected, clears>>

\* Mutant: the test for an absent token is lost.
FallbackUnchecked(c) ==
  call[c].cached = None \/ TimeLeft(call[c].cached) > -MinUsable

\* The token read before the await may still serve.
Fallback(c) == call[c].cached # None /\ TimeLeft(call[c].cached) > -MinUsable

OwnerFallsBack(c) ==
  /\ call[c].phase = "owner"
  /\ promise[c].state = "rejected"
  /\ Fallback(c)
  /\ Return(c, call[c].cached)
  /\ ForgetPending(c)
  /\ UNCHANGED <<now, cache, promise, rejected, clears>>

OwnerThrows(c) ==
  /\ call[c].phase = "owner"
  /\ promise[c].state = "rejected"
  /\ ~Fallback(c)
  /\ Throw(c)
  /\ ForgetPending(c)
  /\ UNCHANGED <<now, cache, promise, rejected, clears>>

\* Mutant: a waiter takes the promise's token even when it was rejected.
WaiterIgnoresFailure(c) ==
  /\ call[c].phase = "waiter"
  /\ Settled(call[c].awaits)
  /\ call[call[c].awaits].phase # "owner"
  /\ Return(c, call[c].awaits)
  /\ UNCHANGED <<now, cache, pending, promise, rejected, clears>>

\* Mutant: a waiter is only told of a success.
WaiterMissesFailure(c) ==
  /\ call[c].phase = "waiter"
  /\ promise[call[c].awaits].state = "fulfilled"
  /\ call[call[c].awaits].phase # "owner"
  /\ Return(c, call[c].awaits)
  /\ UNCHANGED <<now, cache, pending, promise, rejected, clears>>

\* Mutant: a waiter falls back like an owner.
WaiterFallsBack(c) ==
  /\ call[c].phase = "waiter"
  /\ Settled(call[c].awaits)
  /\ call[call[c].awaits].phase # "owner"
  /\ \/ promise[call[c].awaits].state = "fulfilled" /\ Return(c, call[c].awaits)
     \/ promise[call[c].awaits].state = "rejected" /\ Fallback(c) /\ Return(c, call[c].cached)
     \/ promise[call[c].awaits].state = "rejected" /\ ~Fallback(c) /\ Throw(c)
  /\ UNCHANGED <<now, cache, pending, promise, rejected, clears>>

\* A waiter attached its continuation after the owner's, and so runs after it.
WaiterResumes(c) ==
  /\ call[c].phase = "waiter"
  /\ Settled(call[c].awaits)
  /\ call[call[c].awaits].phase # "owner"
  /\ IF promise[call[c].awaits].state = "fulfilled"
       THEN Return(c, call[c].awaits)
       ELSE Throw(c)
  /\ UNCHANGED <<now, cache, pending, promise, rejected, clears>>

Tick ==
  /\ now < MaxTime
  /\ now' = now + 1
  /\ UNCHANGED <<cache, pending, call, promise, rejected, clears>>

\* No call is in progress and the host asks for nothing more.
Idle == (\A c \in Calls : ~Waiting(c)) /\ UNCHANGED vars

-----------------------------------------------------------------------------
Resume(c) == OwnerReturns(c) \/ OwnerFallsBack(c) \/ OwnerThrows(c)
               \/ WaiterResumes(c)

AuthServiceAnswers(c) == IssuanceSucceeds(c) \/ IssuanceFails(c)

Next ==
  \/ \E c \in Calls, k \in Keys : GetToken(c, k) \/ InvalidateAndGet(c, k)
  \/ \E k \in Keys : Invalidate(k)
  \/ Clear
  \/ \E c \in Calls : AuthServiceAnswers(c) \/ Resume(c)
  \/ Tick
  \/ Idle

Spec == Init /\ [][Next]_vars

-----------------------------------------------------------------------------
(***************************************************************************)
(* Properties.                                                             *)
(***************************************************************************)

\* Type correctness; getToken() never returns undefined, and it throws or
\* returns exactly once.
TypeOK ==
  /\ now \in Nat
  /\ clears \in Nat
  /\ cache \in [Keys -> Calls \cup {None}]
  /\ pending \in [Keys -> Calls \cup {None}]
  /\ call \in [Calls -> CallState]
  /\ promise \in [Calls -> PromiseState]
  /\ rejected \subseteq Calls
  /\ \A c \in Calls : (call[c].phase = "returned") <=> (call[c].token # None)

\* "NEVER returned for another" (token-cache.ts:8-9): the token a call returns
\* was granted to an issuance of the same key, on every path: hit, join, own
\* issuance and fallback, with clear() and invalidate() in between.
TokenBinding ==
  \A c \in Calls : call[c].phase = "returned" =>
    /\ promise[call[c].token].state = "fulfilled"
    /\ call[call[c].token].key = call[c].key

\* Deduplication (token-cache.ts:83-94): a key has one issuance in flight, and
\* at most one more for each time clear() forgot a promise still in flight;
\* an old owner's `finally`, which may delete a newer owner's entry, never
\* adds to that.
SingleFlight ==
  \A k \in Keys :
    Cardinality({c \in Calls : InFlight(c) /\ call[c].key = k}) <= clears + 1

\* _pending never keeps a promise nobody will clean up (token-cache.ts:106-108):
\* the entry of a key is an issuance for that key whose owner has yet to
\* resume, so a failed issuance cannot be joined for ever after.
PendingIsLive ==
  \A k \in Keys : pending[k] # None =>
    call[pending[k]].phase = "owner" /\ call[pending[k]].key = k

\* Once invalidate() deleted a token (token-cache.ts:116-119), nothing a later
\* call reads leads to it: late answers and fallbacks never bring it back.
RejectedStaysOut ==
  \A k \in Keys : cache[k] \notin rejected /\ pending[k] \notin rejected

ServedFromCache(c) == call[c].phase = "new" /\ call'[c].phase = "returned"

\* The early refresh (token-cache.ts:77) pays for the time the answer took: a
\* token served from the cache is still valid at the auth-service, whose clock
\* started when it granted the token, if that answer took RefreshEarly at most.
HitIsLive ==
  [][\A c \in Calls : ServedFromCache(c) =>
       LET p == promise[call'[c].token]
       IN  p.late <= RefreshEarly => p.expiresAt - p.late > now]_vars

\* TokenCache implements TokenSource.
AbstractPhase(c) == IF Waiting(c) THEN "waiting" ELSE call[c].phase

AbstractRequest ==
  [c \in Calls |-> [phase |-> AbstractPhase(c), key |-> call[c].key,
                    token |-> call[c].token]]

Granted ==
  [k \in Keys |-> {t \in Calls : /\ promise[t].state = "fulfilled"
                                 /\ call[t].key = k}]

Source == INSTANCE TokenSource WITH
            Tokens <- Calls, request <- AbstractRequest, granted <- Granted

\* Caching, deduplication and fallback only ever do what TokenSource allows.
ImplementsSource == Source!Spec

\* What token-cache.ts:113-114 promises of invalidate(), "to prevent repeated
\* use of a known-stale token": no call returns a token after its deletion.
NoUseAfterInvalidate ==
  [][\A c \in Calls : call'[c].token # call[c].token =>
       call'[c].token \notin rejected]_vars

\* What is left of it: a deleted token is returned only by the fallback of a
\* call that read it before the deletion and whose own issuance failed
\* (token-cache.ts:95-105), never by a hit, a join or a late answer.
StaleUseIsFallback ==
  [][\A c \in Calls :
       /\ call[c].phase = "new" /\ call'[c].phase # "new" =>
            call'[c].cached \notin rejected'
       /\ call'[c].token # call[c].token /\ call'[c].token \in rejected' =>
            /\ call[c].phase = "owner"
            /\ promise[c].state = "rejected"
            /\ call'[c].token = call[c].cached]_vars
=============================================================================
