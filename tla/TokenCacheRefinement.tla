------------------------- MODULE TokenCacheRefinement -------------------------
(***************************************************************************)
(* TokenCache implements TokenSource: every initial state maps to an       *)
(* initial state, and every step to a step of TokenSource or a stutter.    *)
(***************************************************************************)
EXTENDS TokenCacheProofs

AbstractCall(c) == [phase |-> AbstractPhase(c), key |-> call[c].key,
                    token |-> call[c].token]

GrantedSet(k) == {t \in Calls : promise[t].state = "fulfilled" /\ call[t].key = k}

LEMMA InitMaps == Init => Source!Init
  <1> SUFFICES ASSUME Init PROVE Source!Init
    OBVIOUS
  <1>1. AbstractRequest = [c \in Calls |-> [phase |-> "new", key |-> None, token |-> None]]
    BY DEF Init, AbstractRequest, AbstractPhase, Waiting, NewCall
  <1>2. Granted = [k \in Keys |-> {}]
    BY DEF Init, Granted, Unused
  <1> QED
    BY <1>1, <1>2 DEF Source!Init

\* A step that changes no call but c, which ends up as r.
LEMMA RequestUpdate ==
  ASSUME NEW c \in Calls, NEW r,
         \A d \in Calls \ {c} : call'[d] = call[d],
         AbstractCall(c)' = r
  PROVE  AbstractRequest' = [AbstractRequest EXCEPT ![c] = r]
  <1>1. \A d \in Calls \ {c} : AbstractCall(d)' = AbstractCall(d)
    BY DEF AbstractCall, AbstractPhase, Waiting
  <1>2. AbstractRequest = [d \in Calls |-> AbstractCall(d)]
    BY DEF AbstractRequest, AbstractCall
  <1>3. AbstractRequest' = [d \in Calls |-> AbstractCall(d)']
    BY DEF AbstractRequest, AbstractCall
  <1> QED
    BY <1>1, <1>2, <1>3

\* A step after which every token is granted as before.
LEMMA GrantedKept ==
  ASSUME \A t \in Calls, k \in Keys : GrantedFor(t, k)' <=> GrantedFor(t, k)
  PROVE  Granted' = Granted
  BY DEF Granted, GrantedFor

LEMMA BeginMaps ==
  ASSUME IInv, NEW c \in Calls, NEW k \in Keys, NEW found \in {cache[k], None},
         BeginCall(c, k, found)
  PROVE  Source!Next
  <1>1. call[c].phase = "new" /\ promise[c].state = "unused"
    BY DEF BeginCall, IInv, Shape
  <1>2. AbstractRequest[c].phase = "new"
    BY <1>1 DEF AbstractRequest, AbstractPhase, Waiting
  <1>3. CASE ServeFromCache(c, k, found)
    <2>1. found \in Calls /\ GrantedFor(found, k)
      BY <1>3, CallsAssumption DEF ServeFromCache, Fresh, IInv, TypeOK, CacheIsBound
    <2>2. found \in Granted[k]
      BY <2>1 DEF Granted, GrantedFor
    <2>3. AbstractCall(c)' = [phase |-> "returned", key |-> k, token |-> found]
      BY <1>3 DEF ServeFromCache, AbstractCall, AbstractPhase, Waiting, IInv, TypeOK
    <2>4. \A d \in Calls \ {c} : call'[d] = call[d]
      BY <1>3 DEF ServeFromCache, IInv, TypeOK
    <2>5. Granted' = Granted
      BY <1>1, <1>3, <2>4, GrantedKept DEF ServeFromCache, GrantedFor
    <2>6. Source!AskAndReturn(c, k, found)
      BY <1>2, <2>2, <2>3, <2>4, <2>5, RequestUpdate DEF Source!AskAndReturn
    <2> QED
      BY <2>1, <2>6 DEF Source!Next
  <1>4. CASE JoinPending(c, k, found) \/ StartIssuance(c, k, found)
    <2>1. AbstractCall(c)' = [phase |-> "waiting", key |-> k, token |-> None]
      BY <1>4 DEF JoinPending, StartIssuance, AbstractCall, AbstractPhase, Waiting,
                  IInv, TypeOK
    <2>2. \A d \in Calls \ {c} : call'[d] = call[d] /\ promise'[d] = promise[d]
      BY <1>4 DEF JoinPending, StartIssuance, IInv, TypeOK
    <2>3. promise'[c].state # "fulfilled"
      BY <1>1, <1>4 DEF JoinPending, StartIssuance, IInv, TypeOK, PromiseState
    <2>4. Granted' = Granted
      BY <1>1, <2>2, <2>3, GrantedKept DEF GrantedFor
    <2>5. Source!Ask(c, k)
      BY <1>2, <2>1, <2>2, <2>4, RequestUpdate DEF Source!Ask
    <2> QED
      BY <2>5 DEF Source!Next
  <1> QED
    BY <1>3, <1>4 DEF BeginCall

LEMMA SuccessMaps ==
  ASSUME IInv, NEW c \in Calls, IssuanceSucceeds(c)
  PROVE  Source!Next
  <1> DEFINE k == call[c].key
  <1>1. call[c].phase = "owner" /\ k \in Keys
    BY DEF IssuanceSucceeds, IInv, Shape
  <1>2. AbstractRequest[c].phase = "waiting" /\ AbstractRequest[c].key = k
    BY <1>1 DEF AbstractRequest, AbstractPhase, Waiting
  <1>3. promise[c].state = "inFlight" /\ promise'[c].state = "fulfilled"
    BY DEF IssuanceSucceeds, InFlight, IInv, TypeOK
  <1>4. \A d \in Calls \ {c} : promise'[d] = promise[d]
    BY DEF IssuanceSucceeds, IInv, TypeOK
  <1>5. UNCHANGED call
    BY DEF IssuanceSucceeds
  <1>6. ~Source!GrantedBefore(c)
    BY <1>3 DEF Source!GrantedBefore, Granted
  <1>7. Granted' = [Granted EXCEPT ![k] = @ \cup {c}]
    <2>1. Granted = [j \in Keys |-> GrantedSet(j)]
      BY DEF Granted, GrantedSet
    <2>2. Granted' = [j \in Keys |-> GrantedSet(j)']
      BY DEF Granted, GrantedSet
    <2>3. \A j \in Keys : GrantedSet(j)' = IF j = k THEN GrantedSet(j) \cup {c}
                                                    ELSE GrantedSet(j)
      BY <1>3, <1>4, <1>5 DEF GrantedSet
    <2> HIDE DEF GrantedSet
    <2> QED
      BY <1>1, <2>1, <2>2, <2>3
  <1>8. UNCHANGED AbstractRequest
    BY <1>5 DEF AbstractRequest, AbstractPhase, Waiting
  <1>9. Source!Grant(k, c)
    BY <1>1, <1>2, <1>6, <1>7, <1>8 DEF Source!Grant
  <1> QED
    BY <1>1, <1>9 DEF Source!Next

\* A waiting call returns t, a token bound to its key.
LEMMA ReturnMaps ==
  ASSUME IInv, NEW c \in Calls, NEW t \in Calls, Waiting(c),
         GrantedFor(t, call[c].key), Return(c, t), UNCHANGED promise
  PROVE  Source!Next
  <1>1. call[c].key \in Keys
    BY DEF IInv, Shape, Waiting
  <1>2. AbstractRequest[c] = AbstractCall(c) /\ AbstractPhase(c) = "waiting"
    BY DEF AbstractRequest, AbstractCall, AbstractPhase
  <1>3. t \in Granted[AbstractRequest[c].key]
    BY <1>1, <1>2 DEF Granted, GrantedFor, AbstractCall
  <1>4. \A d \in Calls \ {c} : call'[d] = call[d]
    BY DEF Return, IInv, TypeOK
  <1>5. /\ call'[c].phase = "returned"
        /\ call'[c].token = t
        /\ call'[c].key = call[c].key
    BY DEF Return, IInv, TypeOK, CallState
  <1>6. AbstractCall(c)' = [phase |-> "returned", key |-> call[c].key, token |-> t]
    BY <1>5 DEF AbstractCall, AbstractPhase, Waiting
  <1>7. AbstractRequest[c].key = call[c].key
    BY <1>2 DEF AbstractCall
  <1>8. AbstractRequest' = [AbstractRequest EXCEPT ![c] =
          [phase |-> "returned", key |-> AbstractRequest[c].key, token |-> t]]
    BY <1>4, <1>6, <1>7, RequestUpdate
  <1>9. Granted' = Granted
    BY <1>4, <1>5, GrantedKept DEF GrantedFor
  <1>10. Source!Return(c, t)
    BY <1>2, <1>3, <1>8, <1>9 DEF Source!Return, AbstractCall
  <1> QED
    BY <1>10 DEF Source!Next

LEMMA ThrowMaps ==
  ASSUME IInv, NEW c \in Calls, Waiting(c), Throw(c), UNCHANGED promise
  PROVE  Source!Next
  <1>1. AbstractRequest[c] = AbstractCall(c) /\ AbstractPhase(c) = "waiting"
    BY DEF AbstractRequest, AbstractCall, AbstractPhase
  <1>2. \A d \in Calls \ {c} : call'[d] = call[d]
    BY DEF Throw, IInv, TypeOK
  <1>3. /\ call'[c].phase = "threw"
        /\ call'[c].token = call[c].token
        /\ call'[c].key = call[c].key
    BY DEF Throw, IInv, TypeOK, CallState
  <1>4. AbstractCall(c)' = [phase |-> "threw", key |-> call[c].key, token |-> call[c].token]
    BY <1>3 DEF AbstractCall, AbstractPhase, Waiting
  <1>5. [AbstractRequest[c] EXCEPT !.phase = "threw"]
          = [phase |-> "threw", key |-> call[c].key, token |-> call[c].token]
    BY <1>1 DEF AbstractCall
  <1>6. AbstractRequest' = [AbstractRequest EXCEPT ![c] =
                              [AbstractRequest[c] EXCEPT !.phase = "threw"]]
    BY <1>2, <1>4, <1>5, RequestUpdate
  <1>7. Granted' = Granted
    BY <1>2, <1>3, GrantedKept DEF GrantedFor
  <1>8. Source!Throw(c)
    BY <1>1, <1>6, <1>7 DEF Source!Throw, AbstractCall
  <1> QED
    BY <1>8 DEF Source!Next

LEMMA ResumeMaps ==
  ASSUME IInv, NEW c \in Calls, Resume(c)
  PROVE  Source!Next
  <1>1. Waiting(c) /\ UNCHANGED promise
    BY DEF Resume, OwnerReturns, OwnerFallsBack, OwnerThrows, WaiterResumes, Waiting
  <1>2. CASE OwnerReturns(c)
    BY <1>1, <1>2, ReturnMaps DEF OwnerReturns, GrantedFor
  <1>3. CASE OwnerFallsBack(c)
    <2>1. call[c].cached \in Calls /\ GrantedFor(call[c].cached, call[c].key)
      BY <1>3, CallsAssumption
      DEF OwnerFallsBack, Fallback, IInv, TypeOK, CallState, CachedIsBound
    <2> QED
      BY <1>1, <1>3, <2>1, ReturnMaps DEF OwnerFallsBack
  <1>4. CASE OwnerThrows(c)
    BY <1>1, <1>4, ThrowMaps DEF OwnerThrows
  <1>5. CASE WaiterResumes(c) /\ promise[call[c].awaits].state = "fulfilled"
    <2>1. call[c].awaits \in Calls /\ GrantedFor(call[c].awaits, call[c].key)
      BY <1>5 DEF WaiterResumes, IInv, Shape, AwaitsIsBound, GrantedFor
    <2> QED
      BY <1>1, <1>5, <2>1, ReturnMaps DEF WaiterResumes
  <1>6. CASE WaiterResumes(c) /\ promise[call[c].awaits].state # "fulfilled"
    BY <1>1, <1>6, ThrowMaps DEF WaiterResumes
  <1> QED
    BY <1>2, <1>3, <1>4, <1>5, <1>6 DEF Resume

LEMMA FailureMaps ==
  ASSUME IInv, NEW c \in Calls, IssuanceFails(c)
  PROVE  UNCHANGED Source!vars
  <1>1. UNCHANGED call
    BY DEF IssuanceFails
  <1>2. \A t \in Calls : promise'[t].state = "fulfilled" <=> promise[t].state = "fulfilled"
    BY DEF IssuanceFails, InFlight, IInv, TypeOK, Unused
  <1>3. UNCHANGED AbstractRequest
    BY <1>1 DEF AbstractRequest, AbstractPhase, Waiting
  <1>4. UNCHANGED Granted
    BY <1>1, <1>2, GrantedKept DEF GrantedFor
  <1> QED
    BY <1>3, <1>4 DEF Source!vars

LEMMA StepMaps == IInv /\ [Next]_vars => [Source!Next]_(Source!vars)
  <1> SUFFICES ASSUME IInv, [Next]_vars PROVE [Source!Next]_(Source!vars)
    OBVIOUS
  <1>1. ASSUME NEW c \in Calls, NEW k \in Keys, GetToken(c, k) \/ InvalidateAndGet(c, k)
        PROVE  Source!Next
    BY <1>1, BeginMaps DEF GetToken, InvalidateAndGet
  <1>2. ASSUME NEW c \in Calls, AuthServiceAnswers(c)
        PROVE  [Source!Next]_(Source!vars)
    BY <1>2, SuccessMaps, FailureMaps DEF AuthServiceAnswers
  <1>3. ASSUME NEW c \in Calls, Resume(c)
        PROVE  Source!Next
    BY <1>3, ResumeMaps
  <1>4. CASE (\E k \in Keys : Invalidate(k)) \/ Clear \/ Tick \/ Idle \/ UNCHANGED vars
    <2>1. UNCHANGED <<call, promise>>
      BY <1>4 DEF Invalidate, Clear, Tick, Idle, vars
    <2> QED
      BY <2>1 DEF Source!vars, AbstractRequest, AbstractPhase, Waiting, Granted
  <1> QED
    BY <1>1, <1>2, <1>3, <1>4 DEF Next

\* TokenCache implements TokenSource: with caching, deduplication, early
\* refresh, fallback, invalidate() and clear() in any order, every call still
\* gets an error or a token granted for its own quadruple, and the auth-service
\* is asked only while a call for that quadruple waits (token-cache.ts:64-149).
THEOREM Refinement == Spec => ImplementsSource
  <1>1. Spec => [][Source!Next]_(Source!vars)
    BY StepMaps, Invariance, PTL DEF Spec
  <1>2. Spec => Source!Init
    BY InitMaps DEF Spec
  <1> QED
    BY <1>1, <1>2 DEF ImplementsSource, Source!Spec
=============================================================================
