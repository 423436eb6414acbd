--------------------------- MODULE TokenCacheProofs ---------------------------
(***************************************************************************)
(* Proofs about TokenCache, for every set of calls and keys, every clock   *)
(* and every number of clear()s.                                           *)
(***************************************************************************)
EXTENDS TokenCache, TLAPS, FiniteSetTheorems

\* Which fields of a call and of its promise go together in each phase.
Shape ==
  \A c \in Calls :
    /\ call[c].phase = "new" => /\ promise[c].state = "unused"
                                /\ call[c].cached = None
    /\ call[c].phase # "new" => call[c].key \in Keys
    /\ call[c].phase = "owner" => /\ call[c].awaits = c
                                  /\ promise[c].state # "unused"
    /\ call[c].phase = "waiter" => call[c].awaits \in Calls
    /\ InFlight(c) => call[c].phase = "owner"

\* The token t was granted to an issuance for k.
GrantedFor(t, k) == promise[t].state = "fulfilled" /\ call[t].key = k

\* Whatever a call can get hold of belongs to its key.
CacheIsBound  == \A k \in Keys : cache[k] # None => GrantedFor(cache[k], k)
CachedIsBound == \A c \in Calls :
                   call[c].cached # None => GrantedFor(call[c].cached, call[c].key)
AwaitsIsBound == \A c \in Calls : call[c].phase = "waiter" =>
                   /\ promise[call[c].awaits].state # "unused"
                   /\ call[call[c].awaits].key = call[c].key

IInv == /\ TypeOK
        /\ Shape
        /\ CacheIsBound
        /\ CachedIsBound
        /\ AwaitsIsBound
        /\ PendingIsLive
        /\ TokenBinding

LEMMA InitIInv == Init => IInv
  BY CallsAssumption
  DEF Init, IInv, TypeOK, Shape, CacheIsBound, CachedIsBound, AwaitsIsBound,
      PendingIsLive, TokenBinding, GrantedFor, InFlight, NewCall, Unused,
      CallState, PromiseState, Phases

LEMMA ServeFromCacheIInv ==
  ASSUME IInv, NEW c \in Calls, NEW k \in Keys, NEW found \in {cache[k], None},
         call[c].phase = "new", ServeFromCache(c, k, found),
         cache' = cache \/ cache' = [cache EXCEPT ![k] = None],
         rejected' \subseteq Calls, UNCHANGED <<now, clears>>
  PROVE  IInv'
  <1> USE CallsAssumption DEF IInv, ServeFromCache, Fresh
  <1>1. TypeOK'
    BY DEF TypeOK, CallState, Phases
  <1>2. Shape'
    BY DEF TypeOK, CallState, Shape, InFlight
  <1>3. CacheIsBound' /\ CachedIsBound' /\ AwaitsIsBound'
    BY DEF TypeOK, CallState, Shape, CacheIsBound, CachedIsBound, AwaitsIsBound, GrantedFor
  <1>4. PendingIsLive' /\ TokenBinding'
    BY DEF TypeOK, CallState, Shape, CacheIsBound, PendingIsLive, TokenBinding, GrantedFor
  <1> QED
    BY <1>1, <1>2, <1>3, <1>4

LEMMA JoinPendingIInv ==
  ASSUME IInv, NEW c \in Calls, NEW k \in Keys, NEW found \in {cache[k], None},
         call[c].phase = "new", JoinPending(c, k, found),
         cache' = cache \/ cache' = [cache EXCEPT ![k] = None],
         rejected' \subseteq Calls, UNCHANGED <<now, clears>>
  PROVE  IInv'
  <1> USE CallsAssumption DEF IInv, JoinPending
  <1>1. TypeOK'
    BY DEF TypeOK, CallState, Phases
  <1>2. Shape'
    BY DEF TypeOK, CallState, Shape, InFlight
  <1>3. CacheIsBound' /\ CachedIsBound'
    BY DEF TypeOK, CallState, Shape, CacheIsBound, CachedIsBound, GrantedFor
  <1>4. AwaitsIsBound'
    BY DEF TypeOK, CallState, Shape, AwaitsIsBound, PendingIsLive
  <1>5. PendingIsLive' /\ TokenBinding'
    BY DEF TypeOK, CallState, Shape, PendingIsLive, TokenBinding
  <1> QED
    BY <1>1, <1>2, <1>3, <1>4, <1>5

LEMMA StartIssuanceIInv ==
  ASSUME IInv, NEW c \in Calls, NEW k \in Keys, NEW found \in {cache[k], None},
         call[c].phase = "new", StartIssuance(c, k, found),
         cache' = cache \/ cache' = [cache EXCEPT ![k] = None],
         rejected' \subseteq Calls, UNCHANGED <<now, clears>>
  PROVE  IInv'
  <1> USE CallsAssumption DEF IInv, StartIssuance
  <1>1. TypeOK'
    BY DEF TypeOK, CallState, PromiseState, Phases
  <1>2. Shape'
    BY DEF TypeOK, CallState, PromiseState, Shape, InFlight
  <1>3. CacheIsBound' /\ CachedIsBound'
    <2>1. ASSUME NEW t \in Calls, NEW j \in Keys, GrantedFor(t, j)
          PROVE  GrantedFor(t, j)'
      BY <2>1 DEF TypeOK, CallState, PromiseState, Shape, GrantedFor
    <2>2. CacheIsBound'
      BY <2>1 DEF TypeOK, CacheIsBound
    <2>3. ASSUME NEW d \in Calls, (call[d].cached # None)'
          PROVE  GrantedFor(call[d].cached, call[d].key)'
      <3>1. CASE d = c
        BY <2>1, <2>3, <3>1 DEF TypeOK, CallState, CacheIsBound
      <3>2. CASE d # c
        BY <2>1, <2>3, <3>2 DEF TypeOK, CallState, Shape, CachedIsBound
      <3> QED
        BY <3>1, <3>2
    <2> QED
      BY <2>2, <2>3 DEF CachedIsBound
  <1>4. AwaitsIsBound'
    BY DEF TypeOK, CallState, PromiseState, Shape, AwaitsIsBound
  <1>5. PendingIsLive' /\ TokenBinding'
    BY DEF TypeOK, CallState, PromiseState, Shape, PendingIsLive, TokenBinding
  <1> QED
    BY <1>1, <1>2, <1>3, <1>4, <1>5

\* getToken() up to its first await, with the cache entry kept or deleted.
LEMMA BeginCallIInv ==
  ASSUME IInv, NEW c \in Calls, NEW k \in Keys, NEW found \in {cache[k], None},
         BeginCall(c, k, found),
         cache' = cache \/ cache' = [cache EXCEPT ![k] = None],
         rejected' \subseteq Calls, UNCHANGED <<now, clears>>
  PROVE  IInv'
  BY ServeFromCacheIInv, JoinPendingIInv, StartIssuanceIInv DEF BeginCall

LEMMA GetTokenIInv ==
  ASSUME IInv, NEW c \in Calls, NEW k \in Keys, GetToken(c, k)
  PROVE  IInv'
  <1>1. rejected' \subseteq Calls /\ UNCHANGED <<now, clears>> /\ cache' = cache
    BY DEF IInv, TypeOK, GetToken
  <1> QED
    BY <1>1, BeginCallIInv DEF GetToken

LEMMA InvalidateAndGetIInv ==
  ASSUME IInv, NEW c \in Calls, NEW k \in Keys, InvalidateAndGet(c, k)
  PROVE  IInv'
  <1>1. rejected' \subseteq Calls
    BY DEF IInv, TypeOK, InvalidateAndGet
  <1>2. cache' = [cache EXCEPT ![k] = None] /\ UNCHANGED <<now, clears>>
    BY DEF InvalidateAndGet
  <1> QED
    BY <1>1, <1>2, BeginCallIInv DEF InvalidateAndGet

LEMMA InvalidateIInv ==
  ASSUME IInv, NEW k \in Keys, Invalidate(k)
  PROVE  IInv'
  BY DEF IInv, Invalidate, TypeOK, Shape, CacheIsBound, CachedIsBound,
         AwaitsIsBound, PendingIsLive, TokenBinding, GrantedFor, InFlight

LEMMA ClearIInv ==
  ASSUME IInv, Clear
  PROVE  IInv'
  BY DEF IInv, Clear, TypeOK, Shape, CacheIsBound, CachedIsBound,
         AwaitsIsBound, PendingIsLive, TokenBinding, GrantedFor, InFlight

LEMMA IssuanceSucceedsIInv ==
  ASSUME IInv, NEW c \in Calls, IssuanceSucceeds(c)
  PROVE  IInv'
  <1> PICK expiresIn \in ExpiresIn, late \in 0 .. (now - promise[c].sentAt) :
        promise' = [promise EXCEPT ![c] = [state |-> "fulfilled", sentAt |-> 0,
                                   late |-> late, expiresAt |-> now + expiresIn]]
    BY DEF IssuanceSucceeds
  <1>1. late \in Nat /\ now + expiresIn \in Int
    BY TimeAssumption DEF IInv, TypeOK, PromiseState
  <1> USE CallsAssumption DEF IInv, IssuanceSucceeds, InFlight
  <1>2. TypeOK'
    BY <1>1 DEF TypeOK, CallState, PromiseState, Shape
  <1>3. Shape'
    BY DEF TypeOK, PromiseState, Shape
  <1>4. CacheIsBound' /\ CachedIsBound'
    BY DEF TypeOK, CallState, PromiseState, Shape, CacheIsBound, CachedIsBound, GrantedFor
  <1>5. AwaitsIsBound' /\ PendingIsLive' /\ TokenBinding'
    BY DEF TypeOK, CallState, PromiseState, Shape, AwaitsIsBound, PendingIsLive, TokenBinding
  <1> QED
    BY <1>2, <1>3, <1>4, <1>5

LEMMA IssuanceFailsIInv ==
  ASSUME IInv, NEW c \in Calls, IssuanceFails(c)
  PROVE  IInv'
  <1> USE CallsAssumption DEF IInv, IssuanceFails, InFlight, Unused
  <1>1. TypeOK' /\ Shape'
    BY DEF TypeOK, CallState, PromiseState, Shape
  <1>2. CacheIsBound' /\ CachedIsBound'
    BY DEF TypeOK, CallState, PromiseState, CacheIsBound, CachedIsBound, GrantedFor
  <1>3. AwaitsIsBound' /\ PendingIsLive' /\ TokenBinding'
    BY DEF TypeOK, CallState, PromiseState, AwaitsIsBound, PendingIsLive, TokenBinding
  <1> QED
    BY <1>1, <1>2, <1>3

\* What a return, or a throw, does to the local states of the calls.
LEMMA ReturnType ==
  ASSUME TypeOK, NEW c \in Calls, NEW t \in Calls, Return(c, t)
  PROVE  /\ call' \in [Calls -> CallState]
         /\ \A d \in Calls : (call'[d].phase = "returned") <=> (call'[d].token # None)
  <1> DEFINE done == [call[c] EXCEPT !.phase = "returned", !.token = t]
  <1>1. call[c] \in CallState /\ call \in [Calls -> CallState]
    BY DEF TypeOK
  <1>2. done \in CallState /\ done.phase = "returned" /\ done.token = t
    BY <1>1 DEF CallState, Phases
  <1>3. call' = [call EXCEPT ![c] = done]
    BY DEF Return
  <1>4. call' \in [Calls -> CallState]
    BY <1>1, <1>2, <1>3
  <1>5. \A d \in Calls : call'[d] = IF d = c THEN done ELSE call[d]
    BY <1>1, <1>3
  <1> QED
    BY <1>2, <1>4, <1>5, CallsAssumption DEF TypeOK

LEMMA ThrowType ==
  ASSUME TypeOK, NEW c \in Calls, call[c].phase # "returned", Throw(c)
  PROVE  /\ call' \in [Calls -> CallState]
         /\ \A d \in Calls : (call'[d].phase = "returned") <=> (call'[d].token # None)
  <1> DEFINE done == [call[c] EXCEPT !.phase = "threw"]
  <1>1. call[c] \in CallState /\ call \in [Calls -> CallState]
    BY DEF TypeOK
  <1>2. done \in CallState /\ done.phase = "threw" /\ done.token = call[c].token
    BY <1>1 DEF CallState, Phases
  <1>3. call' = [call EXCEPT ![c] = done]
    BY DEF Throw
  <1>4. call' \in [Calls -> CallState]
    BY <1>1, <1>2, <1>3
  <1>5. \A d \in Calls : call'[d] = IF d = c THEN done ELSE call[d]
    BY <1>1, <1>3
  <1> QED
    BY <1>2, <1>4, <1>5 DEF TypeOK

\* An owner resumes: it returns t, a token bound to its key, or throws.
LEMMA OwnerReturnIInv ==
  ASSUME IInv, NEW c \in Calls, NEW t \in Calls, call[c].phase = "owner",
         ~InFlight(c), GrantedFor(t, call[c].key), Return(c, t),
         ForgetPending(c), UNCHANGED <<now, cache, promise, rejected, clears>>
  PROVE  IInv'
  <1> USE CallsAssumption DEF IInv, Return, ForgetPending
  <1>1. TypeOK'
    BY ReturnType DEF TypeOK
  <1>2. Shape'
    BY DEF TypeOK, CallState, Shape, InFlight
  <1>3. CacheIsBound' /\ CachedIsBound' /\ AwaitsIsBound'
    BY DEF TypeOK, CallState, Shape, CacheIsBound, CachedIsBound, AwaitsIsBound, GrantedFor
  <1>4. PendingIsLive' /\ TokenBinding'
    BY DEF TypeOK, CallState, Shape, PendingIsLive, TokenBinding, GrantedFor
  <1> QED
    BY <1>1, <1>2, <1>3, <1>4

LEMMA OwnerReturnsIInv ==
  ASSUME IInv, NEW c \in Calls, OwnerReturns(c)
  PROVE  IInv'
  <1>1. GrantedFor(c, call[c].key) /\ ~InFlight(c)
    BY DEF OwnerReturns, GrantedFor, InFlight
  <1> QED
    BY <1>1, OwnerReturnIInv DEF OwnerReturns

LEMMA OwnerFallsBackIInv ==
  ASSUME IInv, NEW c \in Calls, OwnerFallsBack(c)
  PROVE  IInv'
  <1>1. call[c].cached \in Calls
    BY DEF OwnerFallsBack, Fallback, IInv, TypeOK, CallState
  <1>2. GrantedFor(call[c].cached, call[c].key) /\ ~InFlight(c)
    BY <1>1, CallsAssumption DEF OwnerFallsBack, Fallback, IInv, CachedIsBound, InFlight
  <1> QED
    BY <1>1, <1>2, OwnerReturnIInv DEF OwnerFallsBack

LEMMA OwnerThrowsIInv ==
  ASSUME IInv, NEW c \in Calls, OwnerThrows(c)
  PROVE  IInv'
  <1> USE CallsAssumption DEF IInv, OwnerThrows, Throw, ForgetPending
  <1>1. TypeOK'
    BY ThrowType DEF TypeOK
  <1>2. Shape'
    BY DEF TypeOK, CallState, Shape, InFlight
  <1>3. CacheIsBound' /\ CachedIsBound' /\ AwaitsIsBound'
    BY DEF TypeOK, CallState, Shape, CacheIsBound, CachedIsBound, AwaitsIsBound, GrantedFor
  <1>4. PendingIsLive' /\ TokenBinding'
    BY DEF TypeOK, CallState, Shape, PendingIsLive, TokenBinding
  <1> QED
    BY <1>1, <1>2, <1>3, <1>4

LEMMA WaiterResumesIInv ==
  ASSUME IInv, NEW c \in Calls, WaiterResumes(c)
  PROVE  IInv'
  <1>1. call[c].awaits \in Calls /\ call[call[c].awaits].key = call[c].key
    BY DEF IInv, Shape, AwaitsIsBound, WaiterResumes
  <1>2. call[c].phase = "waiter" /\ ~InFlight(c)
    BY DEF IInv, Shape, WaiterResumes
  <1>3. UNCHANGED <<now, cache, pending, promise, rejected, clears>>
    BY DEF WaiterResumes
  <1>4. CASE promise[call[c].awaits].state = "fulfilled"
    <2>1. Return(c, call[c].awaits)
      BY <1>4 DEF WaiterResumes
    <2> USE <1>1, <1>2, <1>3, <1>4, <2>1, CallsAssumption DEF IInv, Return
    <2>2. TypeOK'
      BY ReturnType DEF TypeOK
    <2>3. Shape'
      BY DEF TypeOK, CallState, Shape, InFlight
    <2>4. CacheIsBound' /\ CachedIsBound' /\ AwaitsIsBound'
      BY DEF TypeOK, CallState, Shape, CacheIsBound, CachedIsBound, AwaitsIsBound, GrantedFor
    <2>5. PendingIsLive' /\ TokenBinding'
      BY DEF TypeOK, CallState, Shape, PendingIsLive, TokenBinding
    <2> QED
      BY <2>2, <2>3, <2>4, <2>5
  <1>5. CASE promise[call[c].awaits].state # "fulfilled"
    <2>1. Throw(c)
      BY <1>5 DEF WaiterResumes
    <2> USE <1>1, <1>2, <1>3, <2>1, CallsAssumption DEF IInv, Throw
    <2>2. TypeOK'
      BY ThrowType DEF TypeOK
    <2>3. Shape'
      BY DEF TypeOK, CallState, Shape, InFlight
    <2>4. CacheIsBound' /\ CachedIsBound' /\ AwaitsIsBound'
      BY DEF TypeOK, CallState, Shape, CacheIsBound, CachedIsBound, AwaitsIsBound, GrantedFor
    <2>5. PendingIsLive' /\ TokenBinding'
      BY DEF TypeOK, CallState, Shape, PendingIsLive, TokenBinding
    <2> QED
      BY <2>2, <2>3, <2>4, <2>5
  <1> QED
    BY <1>4, <1>5

LEMMA StutterIInv ==
  ASSUME IInv, UNCHANGED <<cache, pending, call, promise, rejected, clears>>,
         now' \in Nat
  PROVE  IInv'
  BY DEF IInv, TypeOK, Shape, CacheIsBound, CachedIsBound, AwaitsIsBound,
         PendingIsLive, TokenBinding, GrantedFor, InFlight

LEMMA NextIInv == IInv /\ [Next]_vars => IInv'
  <1> SUFFICES ASSUME IInv, [Next]_vars PROVE IInv'
    OBVIOUS
  <1>1. ASSUME NEW c \in Calls, NEW k \in Keys, GetToken(c, k) PROVE IInv'
    BY <1>1, GetTokenIInv
  <1>2. ASSUME NEW c \in Calls, NEW k \in Keys, InvalidateAndGet(c, k) PROVE IInv'
    BY <1>2, InvalidateAndGetIInv
  <1>3. ASSUME NEW k \in Keys, Invalidate(k) PROVE IInv'
    BY <1>3, InvalidateIInv
  <1>4. ASSUME NEW c \in Calls, AuthServiceAnswers(c) PROVE IInv'
    BY <1>4, IssuanceSucceedsIInv, IssuanceFailsIInv DEF AuthServiceAnswers
  <1>5. ASSUME NEW c \in Calls, Resume(c) PROVE IInv'
    BY <1>5, OwnerReturnsIInv, OwnerFallsBackIInv, OwnerThrowsIInv, WaiterResumesIInv
    DEF Resume
  <1>6. CASE Tick
    <2>1. now' \in Nat
      BY <1>6 DEF Tick, IInv, TypeOK
    <2> QED
      BY <1>6, <2>1, StutterIInv DEF Tick
  <1>7. CASE Idle \/ UNCHANGED vars
    <2>1. now' \in Nat
      BY <1>7 DEF Idle, vars, IInv, TypeOK
    <2> QED
      BY <1>7, <2>1, StutterIInv DEF Idle, vars
  <1> QED
    BY <1>1, <1>2, <1>3, <1>4, <1>5, <1>6, <1>7, ClearIInv DEF Next

THEOREM Invariance == Spec => []IInv
  BY InitIInv, NextIInv, PTL DEF Spec

-----------------------------------------------------------------------------
(***************************************************************************)
(* What a reader should know.                                              *)
(***************************************************************************)

\* Every variable keeps its type, and a call that ended without an error ended
\* with a token (token-cache.ts:64-109).
THEOREM TypeCorrect == Spec => []TypeOK
  BY Invariance, PTL DEF IInv

\* A token issued for one quadruple is never returned for another
\* (token-cache.ts:8-9), on any path and with any number of clear()s.
THEOREM TokensAreBound == Spec => []TokenBinding
  BY Invariance, PTL DEF IInv

\* _pending only ever names an issuance for its key whose owner will still
\* clean up (token-cache.ts:92-94 and 106-108).
THEOREM PendingStaysLive == Spec => []PendingIsLive
  BY Invariance, PTL DEF IInv

-----------------------------------------------------------------------------
(***************************************************************************)
(* Deduplication.  The issuances whose owner has yet to resume, plus one   *)
(* if the key could start another at once, stay within clears + 1: only    *)
(* clear() forgets an issuance that still runs.  An owner's `finally` may  *)
(* also delete a newer entry, but then its own issuance leaves the count.  *)
(***************************************************************************)
Flights(k) == {c \in Calls : call[c].phase = "owner" /\ call[c].key = k}

Vacancy(k) == IF pending[k] = None THEN 1 ELSE 0

FlightBound == \A k \in Keys : Cardinality(Flights(k)) + Vacancy(k) <= clears + 1

LEMMA FlightsFinite ==
  ASSUME NEW k
  PROVE  IsFiniteSet(Flights(k)) /\ Cardinality(Flights(k)) \in Nat
  <1>1. Flights(k) \in SUBSET Calls
    BY DEF Flights
  <1>2. IsFiniteSet(Flights(k))
    BY <1>1, FS_Subset, CallsAssumption
  <1> QED
    BY <1>2, FS_CardinalityType

LEMMA InitFlightBound == Init => FlightBound
  <1> SUFFICES ASSUME Init, NEW k \in Keys
               PROVE  Cardinality(Flights(k)) + Vacancy(k) <= clears + 1
    BY DEF FlightBound
  <1>1. Flights(k) = {}
    BY DEF Init, Flights, NewCall
  <1> QED
    BY <1>1, FS_EmptySet DEF Init, Vacancy

\* A step that neither starts nor ends an issuance, nor forgets one.
LEMMA SameFlights ==
  ASSUME IInv, FlightBound, UNCHANGED <<pending, clears>>,
         \A k \in Keys : Flights(k)' = Flights(k)
  PROVE  FlightBound'
  BY DEF FlightBound, Vacancy

LEMMA BeginCallFlights ==
  ASSUME IInv, FlightBound, NEW c \in Calls, NEW k \in Keys, NEW found,
         BeginCall(c, k, found), clears' = clears
  PROVE  FlightBound'
  <1>1. call[c].phase = "new"
    BY DEF BeginCall
  <1>2. CASE ServeFromCache(c, k, found) \/ JoinPending(c, k, found)
    <2>1. \A j \in Keys : Flights(j)' = Flights(j)
      BY <1>1, <1>2 DEF ServeFromCache, JoinPending, Flights, IInv, TypeOK
    <2>2. UNCHANGED pending
      BY <1>2 DEF ServeFromCache, JoinPending
    <2> QED
      BY <2>1, <2>2, SameFlights
  <1>3. CASE StartIssuance(c, k, found)
    <2> SUFFICES ASSUME NEW j \in Keys
                 PROVE  (Cardinality(Flights(j)) + Vacancy(j) <= clears + 1)'
      BY DEF FlightBound
    <2>1. CASE j = k
      <3>1. Flights(k)' = Flights(k) \cup {c} /\ c \notin Flights(k)
        BY <1>1, <1>3 DEF StartIssuance, Flights, IInv, TypeOK
      <3>2. Cardinality(Flights(k)') = Cardinality(Flights(k)) + 1
        BY <3>1, FlightsFinite, FS_AddElement
      <3>3. Vacancy(k) = 1 /\ Vacancy(k)' = 0
        BY <1>3, CallsAssumption DEF StartIssuance, Vacancy, IInv, TypeOK
      <3> QED
        BY <2>1, <3>2, <3>3, FlightsFinite DEF FlightBound, IInv, TypeOK
    <2>2. CASE j # k
      <3>1. Flights(j)' = Flights(j)
        BY <1>1, <1>3, <2>2 DEF StartIssuance, Flights, IInv, TypeOK
      <3>2. Vacancy(j)' = Vacancy(j)
        BY <1>3, <2>2 DEF StartIssuance, Vacancy, IInv, TypeOK
      <3> QED
        BY <3>1, <3>2 DEF FlightBound
    <2> QED
      BY <2>1, <2>2
  <1> QED
    BY <1>2, <1>3 DEF BeginCall

LEMMA OwnerResumesFlights ==
  ASSUME IInv, FlightBound, NEW c \in Calls, call[c].phase = "owner",
         \/ Throw(c)
         \/ \E t : Return(c, t),
         ForgetPending(c), clears' = clears
  PROVE  FlightBound'
  <1> SUFFICES ASSUME NEW j \in Keys
               PROVE  (Cardinality(Flights(j)) + Vacancy(j) <= clears + 1)'
    BY DEF FlightBound
  <1>1. call \in [Calls -> CallState]
    BY DEF IInv, TypeOK
  <1>2. call'[c].phase # "owner" /\ \A d \in Calls \ {c} : call'[d] = call[d]
    <2>1. CASE Throw(c)
      BY <1>1, <2>1 DEF Throw, CallState
    <2>2. ASSUME NEW t, Return(c, t)
          PROVE  call'[c].phase # "owner" /\ \A d \in Calls \ {c} : call'[d] = call[d]
      BY <1>1, <2>2 DEF Return, CallState
    <2> QED
      BY <2>1, <2>2
  <1>3. CASE j = call[c].key
    <2>1. Flights(j)' = Flights(j) \ {c} /\ c \in Flights(j)
      BY <1>3, <1>2 DEF Flights
    <2>2. Cardinality(Flights(j)') = Cardinality(Flights(j)) - 1
      BY <2>1, FlightsFinite, FS_RemoveElement
    <2>3. Vacancy(j) \in {0, 1} /\ Vacancy(j)' = 1
      BY <1>3 DEF ForgetPending, Vacancy, IInv, TypeOK
    <2> QED
      BY <2>2, <2>3, FlightsFinite DEF FlightBound, IInv, TypeOK
  <1>4. CASE j # call[c].key
    <2>1. Flights(j)' = Flights(j)
      BY <1>4, <1>2 DEF Flights
    <2>2. Vacancy(j)' = Vacancy(j)
      BY <1>4 DEF ForgetPending, Vacancy, IInv, TypeOK
    <2> QED
      BY <2>1, <2>2 DEF FlightBound
  <1> QED
    BY <1>3, <1>4

LEMMA WaiterResumesFlights ==
  ASSUME IInv, FlightBound, NEW c \in Calls, WaiterResumes(c)
  PROVE  FlightBound'
  <1>1. call \in [Calls -> CallState]
    BY DEF IInv, TypeOK
  <1>2. /\ call[c].phase # "owner" /\ call'[c].phase # "owner"
        /\ \A d \in Calls \ {c} : call'[d] = call[d]
    <2>1. ASSUME NEW t, Return(c, t)
          PROVE  call'[c].phase # "owner" /\ \A d \in Calls \ {c} : call'[d] = call[d]
      BY <1>1, <2>1 DEF Return, CallState
    <2>2. ASSUME Throw(c)
          PROVE  call'[c].phase # "owner" /\ \A d \in Calls \ {c} : call'[d] = call[d]
      BY <1>1, <2>2 DEF Throw, CallState
    <2>3. call[c].phase # "owner" /\ (Return(c, call[c].awaits) \/ Throw(c))
      BY DEF WaiterResumes
    <2> QED
      BY <2>1, <2>2, <2>3
  <1>3. \A j \in Keys : Flights(j)' = Flights(j)
    BY <1>2 DEF Flights
  <1> QED
    BY <1>3, SameFlights DEF WaiterResumes

LEMMA ClearFlights ==
  ASSUME IInv, FlightBound, Clear
  PROVE  FlightBound'
  <1> SUFFICES ASSUME NEW j \in Keys
               PROVE  (Cardinality(Flights(j)) + Vacancy(j) <= clears + 1)'
    BY DEF FlightBound
  <1>1. Flights(j)' = Flights(j)
    BY DEF Clear, Flights
  <1>2. Vacancy(j) \in {0, 1} /\ Vacancy(j)' = 1 /\ clears' = clears + 1
    BY DEF Clear, Vacancy
  <1> QED
    BY <1>1, <1>2, FlightsFinite DEF FlightBound, IInv, TypeOK

LEMMA NextFlightBound == IInv /\ FlightBound /\ [Next]_vars => FlightBound'
  <1> SUFFICES ASSUME IInv, FlightBound, [Next]_vars PROVE FlightBound'
    OBVIOUS
  <1>1. ASSUME NEW c \in Calls, NEW k \in Keys,
               GetToken(c, k) \/ InvalidateAndGet(c, k)
        PROVE  FlightBound'
    BY <1>1, BeginCallFlights DEF GetToken, InvalidateAndGet
  <1>2. ASSUME NEW c \in Calls, OwnerReturns(c) \/ OwnerFallsBack(c) \/ OwnerThrows(c)
        PROVE  FlightBound'
    BY <1>2, OwnerResumesFlights DEF OwnerReturns, OwnerFallsBack, OwnerThrows
  <1>3. CASE \/ \E k \in Keys : Invalidate(k)
             \/ \E c \in Calls : AuthServiceAnswers(c)
             \/ Tick
             \/ Idle
             \/ UNCHANGED vars
    <2>1. UNCHANGED <<pending, call, clears>>
      BY <1>3 DEF Invalidate, AuthServiceAnswers, IssuanceSucceeds, IssuanceFails,
                  Tick, Idle, vars
    <2> QED
      BY <2>1, SameFlights DEF Flights
  <1> QED
    BY <1>1, <1>2, <1>3, WaiterResumesFlights, ClearFlights DEF Next, Resume

LEMMA FlightBoundImpliesSingleFlight == IInv /\ FlightBound => SingleFlight
  <1> SUFFICES ASSUME IInv, FlightBound, NEW k \in Keys
               PROVE  Cardinality({c \in Calls : InFlight(c) /\ call[c].key = k})
                        <= clears + 1
    BY DEF SingleFlight
  <1> DEFINE S == {c \in Calls : InFlight(c) /\ call[c].key = k}
  <1>1. S \in SUBSET Flights(k)
    BY DEF Flights, IInv, Shape
  <1>2. IsFiniteSet(S) /\ Cardinality(S) <= Cardinality(Flights(k))
    BY <1>1, FlightsFinite, FS_Subset
  <1>3. Cardinality(S) \in Nat
    BY <1>2, FS_CardinalityType
  <1>4. Vacancy(k) \in {0, 1}
    BY DEF Vacancy
  <1> QED
    BY <1>2, <1>3, <1>4, FlightsFinite DEF FlightBound, IInv, TypeOK

\* Concurrent requests for one key share one issuance (token-cache.ts:11 and
\* 83-94); each clear() adds at most one, whatever older owners' `finally`s
\* delete from _pending later.
THEOREM IssuancesAreShared == Spec => []SingleFlight
  <1>1. Spec => []FlightBound
    BY InitFlightBound, NextFlightBound, Invariance, PTL DEF Spec
  <1> QED
    BY <1>1, Invariance, FlightBoundImpliesSingleFlight, PTL

-----------------------------------------------------------------------------
(***************************************************************************)
(* Invalidation.  A deleted token was granted, and its owner has resumed:  *)
(* invalidate() runs on an I/O event, when no continuation is left.        *)
(***************************************************************************)
RejectedIsOver ==
  \A t \in rejected : /\ promise[t].state = "fulfilled"
                      /\ call[t].phase \notin {"new", "owner"}

RInv == RejectedIsOver /\ RejectedStaysOut

LEMMA GrantedOverAtIO ==
  ASSUME IInv, Quiescent, NEW t \in Calls, promise[t].state = "fulfilled"
  PROVE  call[t].phase \notin {"new", "owner"}
  BY DEF IInv, Shape, Quiescent, Runnable, Waiting, Settled

\* Deleting the entry of k, whatever it is, on an I/O event.
LEMMA DeleteRInv ==
  ASSUME IInv, RInv, NEW k \in Keys, Quiescent, UNCHANGED <<call, promise, pending>>,
         cache' = [cache EXCEPT ![k] = None],
         rejected' = rejected \cup ({cache[k]} \ {None})
  PROVE  RInv'
  <1>1. cache[k] # None => /\ cache[k] \in Calls
                           /\ promise[cache[k]].state = "fulfilled"
                           /\ call[cache[k]].key = k
                           /\ call[cache[k]].phase \notin {"new", "owner"}
    BY GrantedOverAtIO DEF IInv, TypeOK, CacheIsBound, GrantedFor
  <1>2. RejectedIsOver'
    BY <1>1 DEF RInv, RejectedIsOver
  <1>3. \A j \in Keys : cache'[j] \notin rejected'
    <2> SUFFICES ASSUME NEW j \in Keys PROVE cache'[j] \notin rejected'
      OBVIOUS
    <2>1. CASE j = k
      BY <2>1, CallsAssumption DEF RInv, RejectedStaysOut, IInv, TypeOK
    <2>2. CASE j # k
      BY <1>1, <2>2 DEF RInv, RejectedStaysOut, IInv, TypeOK, CacheIsBound, GrantedFor
    <2> QED
      BY <2>1, <2>2
  <1>4. \A j \in Keys : pending[j] \notin rejected'
    BY <1>1, CallsAssumption DEF RInv, RejectedStaysOut, IInv, PendingIsLive
  <1> QED
    BY <1>2, <1>3, <1>4 DEF RInv, RejectedStaysOut

\* A step that leaves the tokens as they are and starts no old call anew.
LEMMA KeepRInv ==
  ASSUME RInv, IInv, IInv', UNCHANGED rejected,
         \A t \in rejected : promise'[t].state = "fulfilled",
         \A t \in rejected : call'[t].phase \notin {"new", "owner"},
         \A k \in Keys : cache'[k] \in {cache[k], None} \/ cache'[k] \notin rejected
  PROVE  RInv'
  <1>1. RejectedIsOver'
    BY DEF RejectedIsOver
  <1>2. \A k \in Keys : cache'[k] \notin rejected
    BY CallsAssumption DEF RInv, RejectedStaysOut, IInv, TypeOK
  <1>3. \A k \in Keys : pending'[k] \notin rejected
    BY CallsAssumption DEF IInv, TypeOK, PendingIsLive
  <1> QED
    BY <1>1, <1>2, <1>3 DEF RInv, RejectedStaysOut

LEMMA BeginCallKeepsOver ==
  ASSUME IInv, RInv, NEW c \in Calls, NEW k \in Keys, NEW found, BeginCall(c, k, found)
  PROVE  /\ \A t \in rejected : promise'[t].state = "fulfilled"
         /\ \A t \in rejected : call'[t].phase \notin {"new", "owner"}
  BY DEF BeginCall, ServeFromCache, JoinPending, StartIssuance, RInv, RejectedIsOver,
         IInv, TypeOK

LEMMA NextRInv == IInv /\ IInv' /\ RInv /\ [Next]_vars => RInv'
  <1> SUFFICES ASSUME IInv, IInv', RInv, [Next]_vars PROVE RInv'
    OBVIOUS
  <1>1. ASSUME NEW c \in Calls, NEW k \in Keys, GetToken(c, k) PROVE RInv'
    BY <1>1, BeginCallKeepsOver, KeepRInv DEF GetToken
  <1>2. ASSUME NEW c \in Calls, NEW k \in Keys, InvalidateAndGet(c, k) PROVE RInv'
    <2>1. cache[k] # None => /\ cache[k] \in Calls
                             /\ promise[cache[k]].state = "fulfilled"
                             /\ call[cache[k]].key = k
                             /\ call[cache[k]].phase \notin {"new", "owner"}
      BY <1>2, GrantedOverAtIO DEF InvalidateAndGet, IInv, TypeOK, CacheIsBound, GrantedFor
    <2>2. BeginCall(c, k, None) /\ cache' = [cache EXCEPT ![k] = None]
          /\ rejected' = rejected \cup ({cache[k]} \ {None})
      BY <1>2 DEF InvalidateAndGet
    <2>3. RejectedIsOver'
      <3> SUFFICES ASSUME NEW t \in rejected'
                   PROVE  /\ promise'[t].state = "fulfilled"
                          /\ call'[t].phase \notin {"new", "owner"}
        BY DEF RejectedIsOver
      <3>1. CASE t \in rejected
        BY <3>1, <2>2, BeginCallKeepsOver
      <3>2. CASE t = cache[k] /\ t # None
        BY <3>2, <2>1, <2>2
        DEF BeginCall, ServeFromCache, JoinPending, StartIssuance, IInv, TypeOK, Shape
      <3> QED
        BY <3>1, <3>2, <2>2
    <2>4. \A j \in Keys : cache'[j] \notin rejected'
      <3> SUFFICES ASSUME NEW j \in Keys PROVE cache'[j] \notin rejected'
        OBVIOUS
      <3>1. CASE j = k
        BY <3>1, <2>2, CallsAssumption DEF IInv, TypeOK
      <3>2. CASE j # k
        BY <3>2, <2>1, <2>2 DEF RInv, RejectedStaysOut, IInv, TypeOK, CacheIsBound, GrantedFor
      <3> QED
        BY <3>1, <3>2
    <2>5. \A j \in Keys : pending'[j] \notin rejected'
      BY <2>3, CallsAssumption DEF RejectedIsOver, IInv, TypeOK, PendingIsLive
    <2> QED
      BY <2>3, <2>4, <2>5 DEF RInv, RejectedStaysOut
  <1>3. ASSUME NEW k \in Keys, Invalidate(k) PROVE RInv'
    <2>1. rejected \cup {cache[k]} = rejected \cup ({cache[k]} \ {None})
      BY <1>3 DEF Invalidate
    <2> QED
      BY <1>3, <2>1, DeleteRInv DEF Invalidate
  <1>4. ASSUME NEW c \in Calls, AuthServiceAnswers(c) PROVE RInv'
    <2>1. c \notin rejected
      BY <1>4 DEF AuthServiceAnswers, IssuanceSucceeds, IssuanceFails, InFlight, RInv,
                  RejectedIsOver
    <2>2. \A t \in rejected : promise'[t] = promise[t]
      BY <1>4, <2>1 DEF AuthServiceAnswers, IssuanceSucceeds, IssuanceFails, IInv, TypeOK
    <2>3. \A k \in Keys : cache'[k] \in {cache[k], c}
      BY <1>4 DEF AuthServiceAnswers, IssuanceSucceeds, IssuanceFails, IInv, TypeOK
    <2>4. UNCHANGED <<call, rejected>>
      BY <1>4 DEF AuthServiceAnswers, IssuanceSucceeds, IssuanceFails
    <2> QED
      BY <2>1, <2>2, <2>3, <2>4, KeepRInv DEF RInv, RejectedIsOver
  <1>5. ASSUME NEW c \in Calls, Resume(c) PROVE RInv'
    <2>1. Throw(c) \/ \E t : Return(c, t)
      BY <1>5 DEF Resume, OwnerReturns, OwnerFallsBack, OwnerThrows, WaiterResumes
    <2>2. \A t \in Calls : call'[t].phase \in {call[t].phase, "returned", "threw"}
      <3>1. CASE Throw(c)
        BY <3>1 DEF Throw, IInv, TypeOK, CallState
      <3>2. ASSUME NEW t, Return(c, t)
            PROVE  \A u \in Calls : call'[u].phase \in {call[u].phase, "returned", "threw"}
        BY <3>2 DEF Return, IInv, TypeOK, CallState
      <3> QED
        BY <2>1, <3>1, <3>2
    <2>3. UNCHANGED <<promise, cache, rejected>>
      BY <1>5 DEF Resume, OwnerReturns, OwnerFallsBack, OwnerThrows, WaiterResumes
    <2>4. \A t \in rejected : call'[t].phase \notin {"new", "owner"}
      BY <2>2 DEF RInv, RejectedIsOver, IInv, TypeOK
    <2> QED
      BY <2>3, <2>4, KeepRInv DEF RInv, RejectedIsOver
  <1>6. CASE Clear
    <2>1. UNCHANGED <<call, promise, rejected>> /\ \A k \in Keys : cache'[k] = None
      BY <1>6 DEF Clear
    <2> QED
      BY <2>1, KeepRInv DEF RInv, RejectedIsOver
  <1>7. CASE Tick \/ Idle \/ UNCHANGED vars
    <2>1. UNCHANGED <<call, promise, rejected, cache>>
      BY <1>7 DEF Tick, Idle, vars
    <2> QED
      BY <2>1, KeepRInv DEF RInv, RejectedIsOver
  <1> QED
    BY <1>1, <1>2, <1>3, <1>4, <1>5, <1>6, <1>7 DEF Next

LEMMA RejectedInvariance == Spec => []RInv
  <1>1. Init => RInv
    BY DEF Init, RInv, RejectedIsOver, RejectedStaysOut
  <1> QED
    BY <1>1, NextRInv, Invariance, PTL DEF Spec

\* After invalidate() nothing that a later call reads leads to the deleted
\* token (token-cache.ts:116-119).
THEOREM RejectedNeverReturns == Spec => []RejectedStaysOut
  BY RejectedInvariance, PTL DEF RInv

-----------------------------------------------------------------------------
(***************************************************************************)
(* The exception.  A call that waits when the event loop takes an I/O      *)
(* event waits for a promise that has not settled, so no 401 deletes the   *)
(* token a waiter will be given.                                           *)
(***************************************************************************)
AwaitedIsNotRejected ==
  \A c \in Calls : call[c].phase = "waiter" => call[c].awaits \notin rejected

SInv == IInv /\ RInv /\ AwaitedIsNotRejected

\* A step that deletes no token and turns no call into a waiter.
LEMMA KeepAwaited ==
  ASSUME SInv, UNCHANGED rejected,
         \A c \in Calls : call'[c].phase = "waiter" =>
           call[c].phase = "waiter" /\ call'[c].awaits = call[c].awaits
  PROVE  AwaitedIsNotRejected'
  BY DEF SInv, AwaitedIsNotRejected

\* The token at k is granted, so on an I/O event nothing waits for it.
LEMMA CachedIsNotAwaited ==
  ASSUME SInv, Quiescent, NEW k \in Keys, NEW c \in Calls, call[c].phase = "waiter"
  PROVE  call[c].awaits # cache[k]
  <1>1. cache[k] # None => promise[cache[k]].state = "fulfilled"
    BY DEF SInv, IInv, CacheIsBound, GrantedFor
  <1>2. call[c].awaits \in Calls
    BY DEF SInv, IInv, Shape
  <1> QED
    BY <1>1, <1>2, CallsAssumption DEF Quiescent, Runnable, Waiting, Settled

LEMMA BeginCallAwaited ==
  ASSUME SInv, IInv', RInv', NEW c \in Calls, NEW k \in Keys, NEW found,
         BeginCall(c, k, found),
         \A d \in Calls : call[d].phase = "waiter" => call[d].awaits \notin rejected'
  PROVE  AwaitedIsNotRejected'
  <1> SUFFICES ASSUME NEW d \in Calls, call'[d].phase = "waiter"
               PROVE  call'[d].awaits \notin rejected'
    BY DEF AwaitedIsNotRejected
  <1>1. call \in [Calls -> CallState]
    BY DEF SInv, IInv, TypeOK
  <1>2. CASE d = c
    <2>1. JoinPending(c, k, found)
      BY <1>1, <1>2 DEF BeginCall, ServeFromCache, StartIssuance
    <2>2. call'[d].awaits = pending'[k]
      BY <1>1, <1>2, <2>1 DEF JoinPending
    <2> QED
      BY <2>2 DEF RInv, RejectedStaysOut
  <1>3. CASE d # c
    <2>1. call'[d] = call[d]
      BY <1>1, <1>3 DEF BeginCall, ServeFromCache, JoinPending, StartIssuance
    <2> QED
      BY <2>1
  <1> QED
    BY <1>2, <1>3

LEMMA NextAwaited == SInv /\ IInv' /\ RInv' /\ [Next]_vars => AwaitedIsNotRejected'
  <1> SUFFICES ASSUME SInv, IInv', RInv', [Next]_vars PROVE AwaitedIsNotRejected'
    OBVIOUS
  <1>1. ASSUME NEW c \in Calls, NEW k \in Keys, GetToken(c, k)
        PROVE  AwaitedIsNotRejected'
    BY <1>1, BeginCallAwaited DEF GetToken, SInv, AwaitedIsNotRejected
  <1>2. ASSUME NEW c \in Calls, NEW k \in Keys, InvalidateAndGet(c, k)
        PROVE  AwaitedIsNotRejected'
    <2>1. \A d \in Calls : call[d].phase = "waiter" => call[d].awaits \notin rejected'
      BY <1>2, CachedIsNotAwaited DEF InvalidateAndGet, SInv, AwaitedIsNotRejected
    <2> QED
      BY <1>2, <2>1, BeginCallAwaited DEF InvalidateAndGet
  <1>3. ASSUME NEW k \in Keys, Invalidate(k) PROVE AwaitedIsNotRejected'
    BY <1>3, CachedIsNotAwaited DEF Invalidate, SInv, AwaitedIsNotRejected
  <1>4. ASSUME NEW c \in Calls, Resume(c) PROVE AwaitedIsNotRejected'
    <2>1. UNCHANGED rejected /\ (Throw(c) \/ \E t : Return(c, t))
      BY <1>4 DEF Resume, OwnerReturns, OwnerFallsBack, OwnerThrows, WaiterResumes
    <2>2. call \in [Calls -> CallState]
      BY DEF SInv, IInv, TypeOK
    <2>3. \A d \in Calls : call'[d].phase = "waiter" => call'[d] = call[d]
      <3>1. CASE Throw(c)
        BY <2>2, <3>1 DEF Throw, CallState
      <3>2. ASSUME NEW t, Return(c, t)
            PROVE  \A d \in Calls : call'[d].phase = "waiter" => call'[d] = call[d]
        BY <2>2, <3>2 DEF Return, CallState
      <3> QED
        BY <2>1, <3>1, <3>2
    <2> QED
      BY <2>1, <2>3, KeepAwaited
  <1>5. CASE \/ \E c \in Calls : AuthServiceAnswers(c)
             \/ Clear
             \/ Tick
             \/ Idle
             \/ UNCHANGED vars
    <2>1. UNCHANGED <<call, rejected>>
      BY <1>5 DEF AuthServiceAnswers, IssuanceSucceeds, IssuanceFails, Clear, Tick,
                  Idle, vars
    <2> QED
      BY <2>1, KeepAwaited
  <1> QED
    BY <1>1, <1>2, <1>3, <1>4, <1>5 DEF Next

\* The two halves of StaleUseIsFallback, of one step and one call.
StartsClean(c) ==
  call[c].phase = "new" /\ call'[c].phase # "new" => call'[c].cached \notin rejected'

UsesByFallback(c) ==
  call'[c].token # call[c].token /\ call'[c].token \in rejected' =>
    /\ call[c].phase = "owner"
    /\ promise[c].state = "rejected"
    /\ call'[c].token = call[c].cached

LEMMA BeginCallStartsClean ==
  ASSUME SInv, RInv', NEW d \in Calls, NEW k \in Keys, NEW found \in {cache'[k], None},
         BeginCall(d, k, found), rejected' \subseteq Calls, NEW c \in Calls
  PROVE  StartsClean(c) /\ UsesByFallback(c)
  <1>1. call \in [Calls -> CallState]
    BY DEF SInv, IInv, TypeOK
  <1>2. found \notin rejected'
    BY CallsAssumption DEF RInv, RejectedStaysOut
  <1>3. CASE c = d
    <2>1. call'[c].cached = found /\ call'[c].token \in {found, None}
      BY <1>1, <1>3 DEF BeginCall, ServeFromCache, JoinPending, StartIssuance
    <2> QED
      BY <1>2, <2>1, CallsAssumption DEF StartsClean, UsesByFallback
  <1>4. CASE c # d
    <2>1. call'[c] = call[c]
      BY <1>1, <1>4 DEF BeginCall, ServeFromCache, JoinPending, StartIssuance
    <2> QED
      BY <2>1 DEF StartsClean, UsesByFallback
  <1> QED
    BY <1>3, <1>4

LEMMA ResumeIsClean ==
  ASSUME SInv, NEW d \in Calls, Resume(d), NEW c \in Calls
  PROVE  StartsClean(c) /\ UsesByFallback(c)
  <1>1. call \in [Calls -> CallState] /\ rejected' = rejected /\ call[d].phase # "new"
    BY DEF SInv, IInv, TypeOK, Resume, OwnerReturns, OwnerFallsBack, OwnerThrows,
           WaiterResumes
  <1>2. ASSUME Throw(d)
        PROVE  call'[c].token = call[c].token /\ (c # d => call'[c] = call[c])
    BY <1>1, <1>2 DEF Throw, CallState
  <1>3. ASSUME NEW t, Return(d, t)
        PROVE  (c = d => call'[c].token = t) /\ (c # d => call'[c] = call[c])
    BY <1>1, <1>3 DEF Return, CallState
  <1>4. CASE OwnerReturns(d)
    <2>1. d \notin rejected /\ Return(d, d)
      BY <1>4 DEF OwnerReturns, SInv, RInv, RejectedIsOver
    <2> QED
      BY <1>1, <1>3, <2>1 DEF StartsClean, UsesByFallback
  <1>5. CASE OwnerFallsBack(d)
    BY <1>1, <1>3, <1>5 DEF OwnerFallsBack, StartsClean, UsesByFallback
  <1>6. CASE OwnerThrows(d)
    BY <1>1, <1>2, <1>6 DEF OwnerThrows, StartsClean, UsesByFallback
  <1>7. CASE WaiterResumes(d)
    <2>1. call[d].awaits \notin rejected /\ (Throw(d) \/ Return(d, call[d].awaits))
      BY <1>7 DEF WaiterResumes, SInv, AwaitedIsNotRejected
    <2> QED
      BY <1>1, <1>2, <1>3, <2>1 DEF StartsClean, UsesByFallback
  <1> QED
    BY <1>4, <1>5, <1>6, <1>7 DEF Resume

LEMMA StepIsClean ==
  ASSUME SInv, IInv', RInv', [Next]_vars, NEW c \in Calls
  PROVE  StartsClean(c) /\ UsesByFallback(c)
  <1>1. rejected' \subseteq Calls
    BY DEF IInv, TypeOK
  <1>2. ASSUME NEW d \in Calls, NEW k \in Keys, GetToken(d, k)
        PROVE  StartsClean(c) /\ UsesByFallback(c)
    BY <1>1, <1>2, BeginCallStartsClean DEF GetToken
  <1>3. ASSUME NEW d \in Calls, NEW k \in Keys, InvalidateAndGet(d, k)
        PROVE  StartsClean(c) /\ UsesByFallback(c)
    BY <1>1, <1>3, BeginCallStartsClean DEF InvalidateAndGet
  <1>4. CASE \/ \E k \in Keys : Invalidate(k)
             \/ \E d \in Calls : AuthServiceAnswers(d)
             \/ Clear
             \/ Tick
             \/ Idle
             \/ UNCHANGED vars
    <2>1. UNCHANGED call
      BY <1>4 DEF Invalidate, AuthServiceAnswers, IssuanceSucceeds, IssuanceFails, Clear,
                  Tick, Idle, vars
    <2> QED
      BY <2>1 DEF StartsClean, UsesByFallback
  <1> QED
    BY <1>2, <1>3, <1>4, ResumeIsClean DEF Next

StaleOnlyByFallback ==
  \A c \in Calls :
    /\ call[c].phase = "new" /\ call'[c].phase # "new" =>
         call'[c].cached \notin rejected'
    /\ call'[c].token # call[c].token /\ call'[c].token \in rejected' =>
         /\ call[c].phase = "owner"
         /\ promise[c].state = "rejected"
         /\ call'[c].token = call[c].cached

\* No call starts from a deleted token, and only the fallback of one that read
\* the token before its deletion, and whose own issuance then failed, returns
\* it (token-cache.ts:95-105).
THEOREM OnlyFallbacksAreStale == Spec => StaleUseIsFallback
  <1>1. SInv /\ IInv' /\ RInv' /\ [Next]_vars => StaleOnlyByFallback
    BY StepIsClean DEF StaleOnlyByFallback, StartsClean, UsesByFallback
  <1>2. Init => AwaitedIsNotRejected
    BY DEF Init, NewCall, AwaitedIsNotRejected
  <1>3. SInv <=> IInv /\ RInv /\ AwaitedIsNotRejected
    BY DEF SInv
  <1>4. Spec => [][StaleOnlyByFallback]_vars
    BY <1>1, <1>2, <1>3, NextAwaited, Invariance, RejectedInvariance, PTL DEF Spec
  <1> QED
    BY <1>4, PTL DEF StaleUseIsFallback, StaleOnlyByFallback

-----------------------------------------------------------------------------
LiveHits ==
  \A c \in Calls : ServedFromCache(c) =>
    LET p == promise[call'[c].token]
    IN  p.late <= RefreshEarly => p.expiresAt - p.late > now

\* Only the cache answers a call in the step that starts it.
LEMMA HitComesFromCache ==
  ASSUME IInv, [Next]_vars, NEW c \in Calls, ServedFromCache(c)
  PROVE  \E k \in Keys : \E found \in {cache[k], None} : ServeFromCache(c, k, found)
  <1> USE DEF ServedFromCache
  <1>1. ASSUME NEW d \in Calls, NEW k \in Keys, NEW found \in {cache[k], None},
               BeginCall(d, k, found)
        PROVE  ServeFromCache(c, k, found)
    <2>1. c = d
      BY <1>1 DEF BeginCall, ServeFromCache, JoinPending, StartIssuance, IInv, TypeOK
    <2>2. ~JoinPending(c, k, found) /\ ~StartIssuance(c, k, found)
      BY DEF JoinPending, StartIssuance, IInv, TypeOK
    <2> QED
      BY <1>1, <2>1, <2>2 DEF BeginCall
  <1>2. ASSUME NEW d \in Calls, Resume(d) PROVE FALSE
    <2>1. call[d].phase # "new" /\ (Throw(d) \/ \E t : Return(d, t))
      BY <1>2 DEF Resume, OwnerReturns, OwnerFallsBack, OwnerThrows, WaiterResumes
    <2>2. CASE Throw(d)
      BY <2>1, <2>2 DEF Throw, IInv, TypeOK, CallState
    <2>3. ASSUME NEW t, Return(d, t) PROVE FALSE
      BY <2>1, <2>3 DEF Return, IInv, TypeOK, CallState
    <2> QED
      BY <2>1, <2>2, <2>3
  <1>3. CASE UNCHANGED call
    BY <1>3
  <1>4. CASE \E d \in Calls, k \in Keys : GetToken(d, k) \/ InvalidateAndGet(d, k)
    BY <1>1, <1>4 DEF GetToken, InvalidateAndGet
  <1>5. CASE \/ \E k \in Keys : Invalidate(k)
             \/ \E d \in Calls : AuthServiceAnswers(d)
             \/ Clear
             \/ Tick
             \/ Idle
             \/ UNCHANGED vars
    BY <1>3, <1>5 DEF Invalidate, AuthServiceAnswers, IssuanceSucceeds, IssuanceFails,
                      Clear, Tick, Idle, vars
  <1> QED
    BY <1>2, <1>4, <1>5 DEF Next

LEMMA StepLiveHits == IInv /\ [Next]_vars => LiveHits
  <1> SUFFICES ASSUME IInv, [Next]_vars, NEW c \in Calls, ServedFromCache(c),
                      promise[call'[c].token].late <= RefreshEarly
               PROVE  promise[call'[c].token].expiresAt
                        - promise[call'[c].token].late > now
    BY DEF LiveHits
  <1> PICK k \in Keys : \E found \in {cache[k], None} : ServeFromCache(c, k, found)
    BY HitComesFromCache
  <1>1. PICK found \in {cache[k], None} : ServeFromCache(c, k, found)
    OBVIOUS
  <1>2. found \in Calls /\ call'[c].token = found
    BY <1>1 DEF ServeFromCache, Fresh, IInv, TypeOK
  <1>3. promise[found].expiresAt \in Int /\ promise[found].late \in Nat /\ now \in Nat
    BY <1>2 DEF IInv, TypeOK, PromiseState
  <1>4. promise[found].expiresAt - now > RefreshEarly
    BY <1>1 DEF ServeFromCache, Fresh, TimeLeft
  <1> QED
    BY <1>2, <1>3, <1>4, TimeAssumption

\* A token served from the cache is valid at the auth-service at that moment,
\* if the answer that brought it took no longer than the early refresh allows
\* for (token-cache.ts:73-81 and 142-147).
THEOREM HitsAreLive == Spec => HitIsLive
  <1>1. Spec => [][LiveHits]_vars
    BY StepLiveHits, Invariance, PTL DEF Spec
  <1> QED
    BY <1>1, PTL DEF HitIsLive, LiveHits
-----------------------------------------------------------------------------
(***************************************************************************)
(* What a caller of the cache may rely on from one step to the next.       *)
(***************************************************************************)

\* A call that has begun keeps its key and what it awaits, and gets its token
\* from these or from its own issuance; one that has ended does not change.
CallGoesOn(c) ==
  /\ call[c].phase # "new" =>
       /\ call'[c].phase # "new"
       /\ call'[c].key = call[c].key
       /\ call'[c].awaits = call[c].awaits
       /\ call'[c].cached = call[c].cached
       /\ call'[c].token \in {call[c].token, call[c].cached, call[c].awaits}
  /\ call[c].phase \in {"returned", "threw"} => call'[c] = call[c]

\* A token granted before does not come back into a map it is not in.
StaysOut(t) ==
  promise[t].state = "fulfilled" =>
    \A k \in Keys : /\ cache[k] # t => cache'[k] # t
                    /\ pending[k] # t => pending'[k] # t

LEMMA BeginsOne ==
  ASSUME IInv, NEW c \in Calls, NEW k \in Keys, NEW found, BeginCall(c, k, found)
  PROVE  /\ call[c].phase = "new" /\ call'[c].phase # "new" /\ call'[c].key = k
         /\ \A d \in Calls \ {c} : call'[d] = call[d]
         /\ pending' = pending \/ pending' = [pending EXCEPT ![k] = c]
  BY DEF BeginCall, ServeFromCache, JoinPending, StartIssuance, IInv, TypeOK

LEMMA BeginGoesOn ==
  ASSUME IInv, NEW c \in Calls, NEW k \in Keys, NEW found, BeginCall(c, k, found),
         cache' = cache \/ cache' = [cache EXCEPT ![k] = None]
  PROVE  \A d \in Calls : CallGoesOn(d) /\ StaysOut(d)
  <1>1. /\ call[c].phase = "new"
        /\ \A d \in Calls \ {c} : call'[d] = call[d]
        /\ pending' = pending \/ pending' = [pending EXCEPT ![k] = c]
    BY BeginsOne
  <1>2. promise[c].state # "fulfilled"
    BY <1>1 DEF IInv, Shape
  <1> QED
    BY <1>1, <1>2, CallsAssumption DEF CallGoesOn, StaysOut, IInv, TypeOK

LEMMA AnswerGoesOn ==
  ASSUME IInv, NEW c \in Calls, AuthServiceAnswers(c)
  PROVE  /\ \A d \in Calls : CallGoesOn(d) /\ StaysOut(d)
         /\ call' = call
  <1>1. /\ promise[c].state = "inFlight" /\ call' = call /\ pending' = pending
        /\ cache' = cache \/ cache' = [cache EXCEPT ![call[c].key] = c]
    BY DEF AuthServiceAnswers, IssuanceSucceeds, IssuanceFails, InFlight
  <1> QED
    BY <1>1 DEF CallGoesOn, StaysOut, IInv, TypeOK

LEMMA ResumeGoesOn ==
  ASSUME IInv, NEW c \in Calls, Resume(c)
  PROVE  /\ \A d \in Calls : CallGoesOn(d) /\ StaysOut(d)
         /\ \A d \in Calls : call[d].phase = "new" => call'[d] = call[d]
  <1>1. /\ call[c].phase \in {"owner", "waiter"} /\ cache' = cache
        /\ pending' = pending \/ pending' = [pending EXCEPT ![call[c].key] = None]
        /\ \/ Throw(c)
           \/ \E t \in {call[c].cached, call[c].awaits} : Return(c, t)
    BY DEF Resume, OwnerReturns, OwnerFallsBack, OwnerThrows, WaiterResumes, ForgetPending,
           IInv, Shape
  <1>2. \A d \in Calls : StaysOut(d)
    BY <1>1, CallsAssumption DEF StaysOut, IInv, TypeOK
  <1>3. CASE Throw(c)
    BY <1>1, <1>2, <1>3 DEF Throw, CallGoesOn, IInv, TypeOK, CallState
  <1>4. ASSUME NEW t \in {call[c].cached, call[c].awaits}, Return(c, t)
        PROVE  \A d \in Calls : /\ CallGoesOn(d)
                                /\ call[d].phase = "new" => call'[d] = call[d]
    BY <1>1, <1>4 DEF Return, CallGoesOn, IInv, TypeOK, CallState
  <1> QED
    BY <1>1, <1>2, <1>3, <1>4

LEMMA OtherGoesOn ==
  ASSUME IInv, Clear \/ Tick
  PROVE  /\ \A d \in Calls : CallGoesOn(d) /\ StaysOut(d)
         /\ call' = call
  BY CallsAssumption DEF Clear, Tick, CallGoesOn, StaysOut, IInv, TypeOK

\* After invalidate() and getToken() in one turn no token granted before can
\* come back to the call just begun, nor into the maps at its key.
LEMMA InvalidatedIsGone ==
  ASSUME IInv, NEW c \in Calls, NEW k \in Keys, InvalidateAndGet(c, k),
         NEW t \in Calls, promise[t].state = "fulfilled"
  PROVE  /\ t # c /\ cache'[k] # t /\ pending'[k] # t
         /\ call'[c].cached = None /\ call'[c].awaits # t /\ call'[c].token # t
  <1>1. call[c].phase = "new" /\ t # c
    BY DEF InvalidateAndGet, BeginCall, IInv, Shape
  <1>2. pending[k] # t
    <2> SUFFICES ASSUME pending[k] = t PROVE FALSE
      OBVIOUS
    <2>1. call[t].phase = "owner" /\ call[t].awaits = t
      BY CallsAssumption DEF IInv, PendingIsLive, Shape
    <2>2. Runnable(t)
      BY <2>1 DEF Runnable, Waiting, Settled
    <2> QED
      BY <2>2 DEF InvalidateAndGet, Quiescent
  <1>3. cache'[k] # t
    BY CallsAssumption DEF InvalidateAndGet, IInv, TypeOK
  <1>4. JoinPending(c, k, None) \/ StartIssuance(c, k, None)
    BY DEF InvalidateAndGet, BeginCall, ServeFromCache, Fresh
  <1> QED
    BY <1>1, <1>2, <1>3, <1>4, CallsAssumption
       DEF JoinPending, StartIssuance, IInv, TypeOK

\* The call just begun has to wait, for a promise that is still in flight or its
\* own: the token it will return is not there yet.
LEMMA InvalidatedWaits ==
  ASSUME IInv, NEW c \in Calls, NEW k \in Keys, InvalidateAndGet(c, k)
  PROVE  /\ call'[c].phase \in {"owner", "waiter"}
         /\ call'[c].awaits \in Calls
         /\ promise[call'[c].awaits].state # "fulfilled"
  <1>1. \A t \in Calls : promise[t].state = "fulfilled" => call'[c].awaits # t
    BY InvalidatedIsGone
  <1>2. JoinPending(c, k, None) \/ StartIssuance(c, k, None)
    BY DEF InvalidateAndGet, BeginCall, ServeFromCache, Fresh
  <1>3. call'[c].phase \in {"owner", "waiter"} /\ call'[c].awaits \in Calls
    BY <1>2 DEF JoinPending, StartIssuance, IInv, TypeOK
  <1> QED
    BY <1>1, <1>3

\* What a call of phase "returned" holds was its cached token or what it awaited.
LEMMA ReturnsAwaited ==
  ASSUME IInv, IInv', NEW c \in Calls, CallGoesOn(c), Waiting(c), call[c].cached = None,
         call'[c].phase = "returned"
  PROVE  call'[c].token = call[c].awaits
  <1>1. call'[c].token # None /\ call[c].token = None
    BY CallsAssumption DEF IInv, TypeOK, CallState, Waiting
  <1> QED
    BY <1>1 DEF CallGoesOn, Waiting
=============================================================================
