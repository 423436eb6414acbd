------------------------------ MODULE CanaryTool ------------------------------
(***************************************************************************)
(* The canary's tool, adc_workflow_read (src/tool.ts): an execution checks *)
(* its agent, reads the secret file, asks the auth-service for a token     *)
(* (auth-service-client.ts) and presents it to the ADC mock                *)
(* (adc-mock-client.ts).  Executions share nothing but the event loop.     *)
(*                                                                         *)
(* Each of the two requests has an abort timer, set before it is sent and  *)
(* cleared when its body has been read.  Both servers are external: they   *)
(* may answer anything, late, or never.  Time is counted down for a timer  *)
(* and up for a token, so that no bound on the clock is needed.            *)
(***************************************************************************)
EXTENDS SecretFile

CONSTANTS
  Executions,  \* invocations of the tool that may be in progress at once
  Timeout,     \* DEFAULT_TIMEOUT_MS
  MaxLag,      \* how long the event loop may leave a timer that is due
  ExpiresIn    \* the lifetime of a token

\* The auth-service's 600 s against the 10 s of a request (lines 11 and 54).
ASSUME TimeAssumption ==
  /\ Timeout \in Nat
  /\ MaxLag \in Nat
  /\ ExpiresIn \in Nat
  /\ Timeout + MaxLag < ExpiresIn

VARIABLE exec  \* the state of each execution

vars == <<disk, reader, exec>>

\* "refused": the body of an error answer is being read.
TokenPhases == {"token", "tokenBody", "refused"}
AdcPhases == {"adc", "adcBody"}
Phases == {"idle", "reading", "ok", "threw"} \cup TokenPhases \cup AdcPhases

\* left: time to the abort, not above 0 when it is due, TooLate when the event loop
\* has left it for longer than MaxLag.  age: how long ago the auth-service granted
\* the token, ExpiresIn when it has expired.
TooLate == -MaxLag - 1

ExecState ==
  [phase : Phases,
   left  : TooLate .. Timeout,
   age   : (0 .. ExpiresIn) \cup {None}]

At(phase, left, age) == [phase |-> phase, left |-> left, age |-> age]

TypeOK ==
  /\ FileTypeOK
  /\ exec \in [Executions -> ExecState]

Init ==
  /\ FileInit
  /\ exec = [e \in Executions |-> At("idle", 0, None)]

\* Mutant: the timer is cleared when fetch() resolves.
ArmedForHeaders(e) == exec[e].phase \in {"token", "adc"}

\* Mutant: the token request is sent without a signal.
ArmedForAdc(e) == exec[e].phase \in AdcPhases

Armed(e) == exec[e].phase \in TokenPhases \cup AdcPhases

Running(e) == exec[e].phase \notin {"idle", "ok", "threw"}

\* The thread is in no system call: it may take the next event.
Free == reader = NotReading

Blocked == reader.at = "blocked"

Become(e, state) == exec' = [exec EXCEPT ![e] = state]

Ends(e, outcome) == Become(e, At(outcome, 0, None))

\* A request is sent, or refused by the origin validator or the proxy guard.
Sends(e, phase) == Become(e, At(phase, Timeout, None)) \/ Ends(e, "threw")

-----------------------------------------------------------------------------
Execute(e) ==
  /\ Free
  /\ ~Running(e)
  /\ \/ Ends(e, "threw") /\ UNCHANGED reader  \* another agent's context
     \/ Become(e, At("reading", 0, None)) /\ StartReading
  /\ UNCHANGED disk

ReadStep ==
  /\ Lstat \/ Open \/ Fstat
  /\ UNCHANGED exec

ReadEnds(e) ==
  /\ exec[e].phase = "reading"
  /\ \/ ReadRefuses /\ Ends(e, "threw")
     \/ ReadAccepts /\ Sends(e, "token")
  /\ reader' = NotReading
  /\ UNCHANGED disk

\* Whatever the operator does, a system call returns something, unless it is
\* blocked in open().
Read == ReadStep \/ \E e \in Executions : ReadEnds(e)

\* The auth-service grants a token; its answer is on the way.
Grant(e) ==
  /\ exec[e].phase = "token"
  /\ exec[e].age = None
  /\ Become(e, [exec[e] EXCEPT !.age = 0])
  /\ UNCHANGED fileVars

\* The headers of an answer arrive; a refusal needs no grant.
TokenHeaders(e) ==
  /\ exec[e].phase = "token"
  /\ \/ exec[e].age # None /\ Become(e, [exec[e] EXCEPT !.phase = "tokenBody"])
     \/ Become(e, At("refused", exec[e].left, None))

TokenBody(e) ==
  /\ exec[e].phase = "tokenBody"
  /\ Sends(e, "adc")

AdcHeaders(e) ==
  /\ exec[e].phase = "adc"
  /\ Become(e, [exec[e] EXCEPT !.phase = "adcBody"])

AdcBody(e) ==
  /\ exec[e].phase = "adcBody"
  /\ Ends(e, "ok")

\* The network fails, the answer is a redirect or an error, its body is not
\* what it should be, or the body of a refusal has been read.
RequestFails(e) ==
  /\ exec[e].phase \in TokenPhases \cup AdcPhases
  /\ Ends(e, "threw")

Answer(e) ==
  /\ Free
  /\ \/ TokenHeaders(e) \/ TokenBody(e) \/ AdcHeaders(e) \/ AdcBody(e)
     \/ RequestFails(e)
  /\ UNCHANGED fileVars

\* The abort timer fires and rejects fetch() or the reading of the body; each
\* path from there ends in a thrown error.
Abort(e) ==
  /\ Free
  /\ Armed(e)
  /\ exec[e].left <= 0
  /\ Ends(e, "threw")
  /\ UNCHANGED fileVars

Later(left) == IF left = TooLate THEN left ELSE left - 1

Older(age) == IF age \in {None, ExpiresIn} THEN age ELSE age + 1

\* Nothing bounds the lag: a system call may block, and with it every timer.
Tick ==
  /\ exec' = [e \in Executions |->
                At(exec[e].phase,
                   IF Armed(e) THEN Later(exec[e].left) ELSE exec[e].left,
                   Older(exec[e].age))]
  /\ UNCHANGED fileVars

Next ==
  \/ Operator /\ UNCHANGED exec
  \/ Read
  \/ \E e \in Executions : Execute(e) \/ Grant(e) \/ Answer(e) \/ Abort(e)
  \/ Tick

Spec == Init /\ [][Next]_vars

\* Time passes, system calls that do not block return, and the event loop comes
\* back to its timers however many executions begin.  Nothing is assumed of the
\* servers, nor that anybody writes to a FIFO.
Fairness ==
  /\ WF_vars(Tick)
  /\ WF_vars(Read)
  /\ \A e \in Executions : SF_vars(Abort(e))

FairSpec == Spec /\ Fairness

-----------------------------------------------------------------------------
(***************************************************************************)
(* Properties.                                                             *)
(***************************************************************************)

SendsSecret(e) == exec[e].phase = "reading" /\ exec'[e].phase = "token"

\* What is sent to the auth-service is the whole of a secret, unless the file
\* was written in place while it was open: renaming a new file over it
\* (setup-canary.sh:118-121), removing it or changing its mode, at any point
\* between lstat(), open(), fstat() and read(), never yields a part of a secret.
SecretIsWhole ==
  [][\A e \in Executions : SendsSecret(e) => reader.rewritten \/ Whole(Secret)]_vars

\* "TOCTOU mitigation" (secrets.ts:158-162): whatever lstat() saw, what is sent
\* was read from a regular file, never more of it than the limit, also when it
\* grew while it was open; everybody may write that file only if its mode was
\* changed after fstat().
SecretIsChecked ==
  [][\A e \in Executions : SendsSecret(e) =>
       /\ Opened.kind \in Regular
       /\ Opened.kind = "shared" => reader.widened
       /\ Secret.len \in 1 .. MaxBytes]_vars

\* "This prevents the classic TOCTOU: attacker swaps the file between our lstat
\* check and the actual open" (secrets.ts:161-162): what is sent was not read
\* through a link that came to the path after lstat().
SwapIsPrevented ==
  [][\A e \in Executions : SendsSecret(e) => Opened.kind # "link"]_vars

\* The tool never looks at expires_in after it has checked it: a token is valid
\* when it is presented because its request was aborted otherwise, as long as
\* the event loop has not left that timer for longer than MaxLag.
TokenIsLive ==
  [][\A e \in Executions :
       exec[e].phase = "tokenBody" /\ exec'[e].phase = "adc" /\ exec[e].left # TooLate =>
         exec[e].age # ExpiresIn]_vars

\* Every execution ends, also when neither server ever answers, unless a read
\* stays blocked in open(): then no timer of any execution is served.
EveryExecutionEnds ==
  []<>~Blocked => \A e \in Executions : Running(e) ~> ~Running(e)
=============================================================================
