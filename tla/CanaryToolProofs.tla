--------------------------- MODULE CanaryToolProofs ---------------------------
(***************************************************************************)
(* Theorems about the canary's tool, for every set of secrets and of       *)
(* executions and every value of the times.                                *)
(***************************************************************************)
EXTENDS CanaryTool, TLAPS

\* An open descriptor refers to a file, to a whole one unless somebody wrote it
\* in place, and the buffer has the size of that file; its kind was looked at,
\* and only its mode may have changed since.
DescriptorInv ==
  /\ reader.at \in {"blocked", "fstat", "read"} =>
       /\ Opened \in FileState
       /\ reader.rewritten \/ Whole(Opened)
  /\ reader.at = "read" => /\ reader.rewritten \/ reader.size = Opened.len
                           /\ Opened.kind \in Regular
                           /\ Opened.kind = "shared" => reader.widened
  /\ reader.at \notin {"blocked", "fstat", "read"} => reader.held = None

FileInv == FileTypeOK /\ DescriptorInv

\* A token is no older than the time its request has taken, for as long as that
\* is counted.
AgeOf(x) ==
  x.phase \in {"token", "tokenBody"} /\ x.age # None /\ x.left # TooLate =>
    x.age + x.left <= Timeout

AgeInv == \A e \in Executions : AgeOf(exec[e])

IInv == TypeOK /\ DescriptorInv /\ AgeInv

-----------------------------------------------------------------------------
(***************************************************************************)
(* The file and its reader.                                                *)
(***************************************************************************)

LEMMA WholeLength ==
  ASSUME NEW f \in FileState
  PROVE  /\ f.len \in Nat /\ Length[f.of] \in Nat /\ Length[f.of] > 0
         /\ f.len <= Length[f.of]
  BY SecretsAssumption DEF FileState


LEMMA RepathInv ==
  ASSUME FileInv, NEW f \in FileState \cup {None}, Repath(f)
  PROVE  FileInv'
  <1> USE DEF AtPath, Regular
  <1>1. CASE AtPath
    <2>1. disk' = f /\ reader' = [reader EXCEPT !.held = disk]
      BY <1>1 DEF Repath
    <2>2. Opened = disk /\ disk \in FileState
      BY <1>1 DEF FileInv, DescriptorInv, Opened
    <2> QED
      BY <1>1, <2>1, <2>2, NoneAssumption
         DEF FileInv, FileTypeOK, DescriptorInv, ReaderState, Opened, Whole
  <1>2. CASE ~AtPath
    BY <1>2 DEF Repath, FileInv, FileTypeOK, DescriptorInv, ReaderState, Opened, Whole
  <1> QED
    BY <1>1, <1>2

LEMMA WriteInv ==
  ASSUME FileInv, NEW f \in FileState, f.kind = disk.kind, WriteInPlace(f)
  PROVE  FileInv'
  <1> USE DEF AtPath, Regular
  <1>1. CASE AtPath
    BY <1>1 DEF WriteInPlace, FileInv, FileTypeOK, DescriptorInv, ReaderState, Opened
  <1>2. CASE ~AtPath
    BY <1>2 DEF WriteInPlace, FileInv, FileTypeOK, DescriptorInv, ReaderState,
                Opened, Whole
  <1> QED
    BY <1>1, <1>2

LEMMA OperatorInv ==
  ASSUME FileInv, Operator
  PROVE  FileInv'
  <1>1. ASSUME NEW s \in Secrets, Install(s) PROVE FileInv'
    <2>1. [kind |-> "file", readable |-> FALSE, of |-> s, len |-> Length[s]] \in FileState
      BY SecretsAssumption DEF FileState, Kinds
    <2> QED
      BY <1>1, <2>1, RepathInv DEF Install
  <1>2. ASSUME NEW s \in Secrets, Misplace(s) PROVE FileInv'
    <2>1. PICK kind \in {"shared", "link"} :
            Repath([kind |-> kind, readable |-> TRUE, of |-> s, len |-> Length[s]])
      BY <1>2 DEF Misplace
    <2>2. [kind |-> kind, readable |-> TRUE, of |-> s, len |-> Length[s]] \in FileState
      BY SecretsAssumption DEF FileState, Kinds
    <2> QED
      BY <2>1, <2>2, RepathInv
  <1>3. CASE Remove
    BY <1>3, RepathInv DEF Remove
  <1>4. ASSUME NEW s \in Secrets, Truncate(s) PROVE FileInv'
    <2>1. disk \in FileState
      BY <1>4 DEF Truncate, FileInv, FileTypeOK
    <2>2. /\ disk \in [kind : Kinds, readable : BOOLEAN, of : Secrets, len : Nat]
          /\ 0 <= Length[s]
      BY <2>1, SecretsAssumption DEF FileState
    <2>3. /\ [disk EXCEPT !.of = s, !.len = 0] \in FileState
          /\ [disk EXCEPT !.of = s, !.len = 0].kind = disk.kind
      BY <2>2 DEF FileState
    <2> QED
      BY <1>4, <2>3, WriteInv DEF Truncate
  <1>5. CASE Grow
    <2>1. disk \in FileState /\ disk.len # Length[disk.of]
      BY <1>5 DEF Grow, Idle, Whole, FileInv, FileTypeOK
    <2>2. /\ [disk EXCEPT !.len = @ + 1] \in FileState
          /\ [disk EXCEPT !.len = @ + 1].kind = disk.kind
      BY <2>1, WholeLength DEF FileState
    <2> QED
      BY <1>5, <2>2, WriteInv DEF Grow
  <1>6. CASE SetPermissions
    <2>1. disk \in FileState
      BY <1>6 DEF SetPermissions, FileInv, FileTypeOK
    <2>2. /\ disk' \in FileState
          /\ disk'.of = disk.of /\ disk'.len = disk.len /\ disk'.kind = "file"
      BY <1>6, <2>1 DEF SetPermissions, FileState, Kinds
    <2> QED
      BY <1>6, <2>2 DEF SetPermissions, FileInv, FileTypeOK, DescriptorInv, Opened, Whole,
                        Regular
  <1>7. CASE Obstruct
    <2>1. PICK s \in Secrets :
            Repath([kind |-> "other", readable |-> TRUE, of |-> s, len |-> Length[s]])
      BY <1>7, SecretsAssumption DEF Obstruct
    <2>2. [kind |-> "other", readable |-> TRUE, of |-> s, len |-> Length[s]] \in FileState
      BY SecretsAssumption DEF FileState, Kinds
    <2> QED
      BY <2>1, <2>2, RepathInv
  <1>8. CASE Share
    <2>1. disk \in FileState
      BY <1>8 DEF Share, FileInv, FileTypeOK
    <2>2. /\ disk' \in FileState
          /\ disk'.of = disk.of /\ disk'.len = disk.len /\ disk'.kind = "shared"
      BY <1>8, <2>1 DEF Share, FileState, Kinds
    <2>3. CASE AtPath /\ reader.at = "read"
      BY <1>8, <2>1, <2>2, <2>3 DEF Share, AtPath, FileInv, FileTypeOK, DescriptorInv,
                                    ReaderState, Opened, Whole, Regular
    <2>4. CASE ~(AtPath /\ reader.at = "read")
      BY <1>8, <2>1, <2>2, <2>4 DEF Share, AtPath, FileInv, FileTypeOK, DescriptorInv,
                                    ReaderState, Opened, Whole, Regular
    <2> QED
      BY <2>3, <2>4
  <1>9. CASE OpenOtherEnd
    BY <1>9 DEF OpenOtherEnd, FileInv, FileTypeOK, DescriptorInv, ReaderState, Opened
  <1> QED
    BY <1>1, <1>2, <1>3, <1>4, <1>5, <1>6, <1>7, <1>8, <1>9 DEF Operator

LEMMA ReadStepInv ==
  ASSUME FileInv, ReadStep
  PROVE  FileInv'
  <1>1. CASE Lstat
    <2>1. disk \in FileState /\ disk.len \in 0 .. MaxBytes
      BY <1>1, WholeLength, SecretsAssumption
         DEF Lstat, LstatRefuses, FileInv, FileTypeOK
    <2> QED
      BY <1>1, <2>1 DEF Lstat, FileInv, FileTypeOK, DescriptorInv, ReaderState
  <1>2. CASE Open
    <2>1. PICK next \in {"fstat", "blocked"} :
            reader' = [reader EXCEPT !.at = next, !.rewritten = ~Whole(disk)]
      BY <1>2 DEF Open
    <2>2. (~Whole(disk)) \in BOOLEAN
      BY DEF Whole
    <2> QED
      BY <1>2, <2>1, <2>2 DEF Open, OpenRefuses, FileInv, FileTypeOK, DescriptorInv,
                              ReaderState, Opened
  <1>3. CASE Fstat
    <2>1. /\ Opened \in FileState /\ Opened.len \in 0 .. MaxBytes
          /\ Opened.kind \in {"file", "link"}
      BY <1>3, WholeLength, SecretsAssumption
         DEF Fstat, FstatRefuses, FileInv, DescriptorInv
    <2>2. Opened' = Opened
      BY <1>3 DEF Fstat, Opened, FileInv, FileTypeOK, ReaderState
    <2> QED
      BY <1>3, <2>1, <2>2 DEF Fstat, FileInv, FileTypeOK, DescriptorInv, ReaderState, Whole,
                              Regular
  <1> QED
    BY <1>1, <1>2, <1>3 DEF ReadStep

\* A reader that starts or ends holds no file.
LEMMA ReaderReset ==
  ASSUME FileInv, UNCHANGED disk,
         \/ reader' = NotReading
         \/ StartReading
  PROVE  FileInv'
  <1>1. /\ reader' \in ReaderState
        /\ reader'.at \in {"none", "lstat"} /\ reader'.held = None
    <2>1. PICK call \in {"none", "lstat"} : reader' = Before(call)
      BY DEF NotReading, StartReading
    <2>2. 0 \in 0 .. MaxBytes
      BY SecretsAssumption
    <2> QED
      BY <2>1, <2>2 DEF ReaderState, Before
  <1> QED
    BY <1>1 DEF FileInv, FileTypeOK, DescriptorInv

-----------------------------------------------------------------------------
(***************************************************************************)
(* The executions.                                                         *)
(***************************************************************************)

LEMMA EndsInv ==
  ASSUME IInv, NEW e \in Executions, NEW outcome \in {"ok", "threw"}, Ends(e, outcome)
  PROVE  exec' \in [Executions -> ExecState] /\ AgeInv'
  <1>1. At(outcome, 0, None) \in ExecState
    BY TimeAssumption DEF At, ExecState, TooLate, Phases
  <1> QED
    BY <1>1 DEF IInv, TypeOK, AgeInv, AgeOf, Ends, Become, At

LEMMA SendsInv ==
  ASSUME IInv, NEW e \in Executions, NEW phase \in {"token", "adc"}, Sends(e, phase)
  PROVE  exec' \in [Executions -> ExecState] /\ AgeInv'
  <1>1. CASE Ends(e, "threw")
    BY <1>1, EndsInv
  <1>2. CASE Become(e, At(phase, Timeout, None))
    <2>1. At(phase, Timeout, None) \in ExecState
      BY TimeAssumption DEF At, ExecState, TooLate, Phases, TokenPhases, AdcPhases
    <2> QED
      BY <1>2, <2>1 DEF IInv, TypeOK, AgeInv, AgeOf, Become, At
  <1> QED
    BY <1>1, <1>2 DEF Sends

LEMMA ExecuteInv ==
  ASSUME IInv, NEW e \in Executions, Execute(e)
  PROVE  IInv'
  <1>1. CASE Ends(e, "threw") /\ UNCHANGED reader
    BY <1>1, EndsInv DEF Execute, IInv, TypeOK, FileTypeOK, DescriptorInv, Opened
  <1>2. CASE Become(e, At("reading", 0, None)) /\ StartReading
    <2>1. FileInv'
      BY <1>2, ReaderReset DEF Execute, IInv, TypeOK, FileInv
    <2>2. At("reading", 0, None) \in ExecState
      BY TimeAssumption DEF At, ExecState, TooLate, Phases
    <2> QED
      BY <1>2, <2>1, <2>2 DEF IInv, TypeOK, FileInv, AgeInv, AgeOf, Become, At
  <1> QED
    BY <1>1, <1>2 DEF Execute

LEMMA ReadInv ==
  ASSUME IInv, Read
  PROVE  IInv'
  <1>1. CASE ReadStep
    BY <1>1, ReadStepInv DEF ReadStep, IInv, TypeOK, FileInv, AgeInv
  <1>2. ASSUME NEW e \in Executions, ReadEnds(e) PROVE IInv'
    <2>1. FileInv'
      BY <1>2, ReaderReset DEF ReadEnds, IInv, TypeOK, FileInv
    <2>2. exec' \in [Executions -> ExecState] /\ AgeInv'
      BY <1>2, EndsInv, SendsInv DEF ReadEnds
    <2> QED
      BY <2>1, <2>2 DEF IInv, TypeOK, FileInv
  <1> QED
    BY <1>1, <1>2 DEF Read

\* The rest leaves the file alone.
LEMMA FileUnchanged ==
  ASSUME IInv, UNCHANGED fileVars
  PROVE  FileTypeOK' /\ DescriptorInv'
  BY DEF IInv, TypeOK, FileTypeOK, DescriptorInv, Opened, fileVars

LEMMA GrantInv ==
  ASSUME IInv, NEW e \in Executions, Grant(e)
  PROVE  IInv'
  <1>1. exec[e] \in ExecState
    BY DEF IInv, TypeOK
  <1>2. [exec[e] EXCEPT !.age = 0] \in ExecState
    BY <1>1, TimeAssumption DEF ExecState, TooLate
  <1>3. 0 + exec[e].left <= Timeout
    BY <1>1, TimeAssumption DEF ExecState, TooLate
  <1>4. exec' \in [Executions -> ExecState] /\ AgeInv'
    BY <1>1, <1>2, <1>3 DEF Grant, Become, IInv, TypeOK, AgeInv, AgeOf, ExecState
  <1> QED
    BY <1>4, FileUnchanged DEF Grant, IInv, TypeOK

LEMMA AnswerInv ==
  ASSUME IInv, NEW e \in Executions, Answer(e)
  PROVE  IInv'
  <1>1. exec[e] \in ExecState
    BY DEF IInv, TypeOK
  <1>2. ASSUME NEW phase \in Phases,
               phase = "tokenBody" => exec[e].phase = "token",
               phase # "token",
               Become(e, [exec[e] EXCEPT !.phase = phase])
        PROVE  exec' \in [Executions -> ExecState] /\ AgeInv'
    <2>1. [exec[e] EXCEPT !.phase = phase] \in ExecState
      BY <1>1 DEF ExecState, TooLate
    <2> QED
      BY <1>1, <1>2, <2>1 DEF Become, IInv, TypeOK, AgeInv, AgeOf, ExecState
  <1>3. exec' \in [Executions -> ExecState] /\ AgeInv'
    <2>1. CASE TokenHeaders(e)
      <3>1. CASE Become(e, At("refused", exec[e].left, None))
        <4>1. At("refused", exec[e].left, None) \in ExecState
          BY <1>1 DEF At, ExecState, Phases, TokenPhases
        <4> QED
          BY <3>1, <4>1 DEF IInv, TypeOK, AgeInv, AgeOf, Become, At
      <3> QED
        BY <2>1, <3>1, <1>2 DEF TokenHeaders, Phases, TokenPhases
    <2>2. CASE TokenBody(e)
      BY <2>2, SendsInv DEF TokenBody
    <2>3. CASE AdcHeaders(e)
      BY <2>3, <1>2 DEF AdcHeaders, Phases, AdcPhases
    <2>4. CASE AdcBody(e) \/ RequestFails(e)
      BY <2>4, EndsInv DEF AdcBody, RequestFails
    <2> QED
      BY <2>1, <2>2, <2>3, <2>4 DEF Answer
  <1> QED
    BY <1>3, FileUnchanged DEF Answer, IInv, TypeOK

LEMMA TickInv ==
  ASSUME IInv, Tick
  PROVE  IInv'
  <1> USE TimeAssumption, SecretsAssumption DEF TooLate
  <1>1. ASSUME NEW e \in Executions
        PROVE  exec'[e] \in ExecState /\ AgeOf(exec'[e])
    <2>1. /\ exec[e] \in ExecState /\ AgeOf(exec[e])
          /\ exec'[e] = At(exec[e].phase,
                           IF Armed(e) THEN Later(exec[e].left) ELSE exec[e].left,
                           Older(exec[e].age))
      BY <1>1 DEF IInv, TypeOK, AgeInv, Tick
    <2>2. Later(exec[e].left) \in TooLate .. Timeout
      BY <2>1 DEF ExecState, Later
    <2>3. exec'[e].left \in TooLate .. Timeout
      BY <2>1, <2>2 DEF ExecState, At
    <2>4. /\ exec'[e].age \in (0 .. ExpiresIn) \cup {None}
          /\ exec'[e].age # None => exec[e].age # None /\ exec'[e].age <= exec[e].age + 1
      BY <2>1 DEF ExecState, At, Older
    <2>5. exec'[e] \in ExecState
      BY <2>1, <2>3, <2>4 DEF ExecState, At
    <2>6. ASSUME exec'[e].phase \in {"token", "tokenBody"}, exec'[e].age # None,
                 exec'[e].left # TooLate
          PROVE  exec'[e].age + exec'[e].left <= Timeout
      <3>1. /\ exec[e].phase \in {"token", "tokenBody"}
            /\ exec[e].left # TooLate /\ exec'[e].left = exec[e].left - 1
        BY <2>1, <2>6 DEF At, Armed, Later, TokenPhases
      <3>2. exec[e].age + exec[e].left <= Timeout
        BY <2>1, <2>4, <2>6, <3>1 DEF AgeOf
      <3> QED
        BY <2>1, <2>4, <2>6, <3>1, <3>2 DEF ExecState
    <2> QED
      BY <2>5, <2>6 DEF AgeOf
  <1>2. exec' \in [Executions -> ExecState] /\ AgeInv'
    BY <1>1 DEF Tick, AgeInv
  <1> QED
    BY <1>2, FileUnchanged DEF Tick, IInv, TypeOK

LEMMA InitInv == Init => IInv
  <1>1. At("idle", 0, None) \in ExecState
    BY TimeAssumption DEF At, ExecState, TooLate, Phases
  <1>2. NotReading \in ReaderState
    BY SecretsAssumption DEF NotReading, Before, ReaderState
  <1> QED
    BY <1>1, <1>2 DEF Init, FileInit, IInv, TypeOK, FileTypeOK, DescriptorInv, AgeInv,
                      AgeOf, NotReading, Before, At

LEMMA NextInv == IInv /\ [Next]_vars => IInv'
  <1> SUFFICES ASSUME IInv, [Next]_vars PROVE IInv'
    OBVIOUS
  <1>1. CASE Operator /\ UNCHANGED exec
    BY <1>1, OperatorInv DEF IInv, TypeOK, FileInv, AgeInv
  <1>2. CASE Read
    BY <1>2, ReadInv
  <1>3. ASSUME NEW e \in Executions, Execute(e) \/ Grant(e) \/ Answer(e)
        PROVE  IInv'
    BY <1>3, ExecuteInv, GrantInv, AnswerInv
  <1>4. ASSUME NEW e \in Executions, Abort(e) PROVE IInv'
    BY <1>4, EndsInv, FileUnchanged DEF Abort, IInv, TypeOK
  <1>5. CASE Tick
    BY <1>5, TickInv
  <1>6. CASE UNCHANGED vars
    BY <1>6, FileUnchanged DEF vars, fileVars, IInv, TypeOK, AgeInv
  <1> QED
    BY <1>1, <1>2, <1>3, <1>4, <1>5, <1>6 DEF Next

\* Nothing but an accepted read leads from the file to a request.
LEMMA SecretIsRead ==
  ASSUME IInv, Next, NEW e \in Executions, SendsSecret(e)
  PROVE  ReadAccepts
  <1> USE DEF SendsSecret
  <1>1. exec \in [Executions -> ExecState]
    BY DEF IInv, TypeOK
  <1>2. CASE UNCHANGED exec
    BY <1>2
  <1>3. ASSUME NEW d \in Executions, ReadEnds(d) PROVE ReadAccepts
    BY <1>1, <1>3 DEF ReadEnds, Ends, Become, At
  <1>4. ASSUME NEW d \in Executions, Execute(d) PROVE FALSE
    BY <1>1, <1>4 DEF Execute, Ends, Become, At, Running
  <1>5. ASSUME NEW d \in Executions, Grant(d) \/ Answer(d) \/ Abort(d) PROVE FALSE
    <2>1. exec[d].phase \in TokenPhases \cup AdcPhases
      BY <1>5 DEF Grant, Answer, Abort, Armed, TokenHeaders, TokenBody, AdcHeaders,
                  AdcBody, RequestFails, TokenPhases, AdcPhases
    <2>2. \E x : Become(d, x)
      BY <1>5 DEF Grant, Answer, Abort, TokenHeaders, TokenBody, AdcHeaders,
                  AdcBody, RequestFails, Sends, Ends
    <2> QED
      BY <1>1, <2>1, <2>2 DEF Become, TokenPhases, AdcPhases
  <1>6. CASE Tick
    BY <1>1, <1>6 DEF Tick, At
  <1> QED
    BY <1>2, <1>3, <1>4, <1>5, <1>6 DEF Next, Read, ReadStep

-----------------------------------------------------------------------------
\* The inductive invariant of the tool (tool.ts:64-133) and its secret file.
THEOREM Invariance == Spec => []IInv
  BY InitInv, NextInv, PTL DEF Spec

\* Type correctness: no buffer is larger than the limit, and a request that has met
\* its time-out waits for nothing but its timer.
THEOREM TypeCorrect == Spec => []TypeOK
  BY Invariance, PTL DEF IInv

\* A secret that reaches the auth-service is whole, wherever between two system
\* calls of the reader (secrets.ts:119-194) its file is replaced.
THEOREM SecretsAreWhole == Spec => SecretIsWhole
  <1>1. IInv /\ [Next]_vars =>
          [\A e \in Executions : SendsSecret(e) => reader.rewritten \/ Whole(Secret)]_vars
    <2> SUFFICES ASSUME IInv, Next, NEW e \in Executions, SendsSecret(e)
                 PROVE  reader.rewritten \/ Whole(Secret)
      OBVIOUS
    <2>1. reader.at = "read"
      BY SecretIsRead DEF ReadAccepts
    <2>2. Opened \in FileState /\ (reader.rewritten \/ Whole(Opened))
      BY <2>1 DEF IInv, DescriptorInv
    <2>3. reader.rewritten \/ reader.size = Opened.len
      BY <2>1 DEF IInv, DescriptorInv
    <2> QED
      BY <2>2, <2>3, WholeLength DEF Secret, BytesRead, Buffer, Whole
  <1> QED
    BY <1>1, Invariance, PTL DEF Spec, SecretIsWhole

\* A secret that reaches the auth-service comes from a regular file, within the
\* limit, that fstat() did not find writable for everybody, whatever is done to the
\* path or to the file between two system calls (secrets.ts:119-204).
THEOREM SecretsAreChecked == Spec => SecretIsChecked
  <1>1. IInv /\ [Next]_vars =>
          [\A e \in Executions : SendsSecret(e) =>
             /\ Opened.kind \in Regular
             /\ Opened.kind = "shared" => reader.widened
             /\ Secret.len \in 1 .. MaxBytes]_vars
    <2> SUFFICES ASSUME IInv, Next, NEW e \in Executions, SendsSecret(e)
                 PROVE  /\ Opened.kind \in Regular
                        /\ Opened.kind = "shared" => reader.widened
                        /\ Secret.len \in 1 .. MaxBytes
      OBVIOUS
    <2>1. reader.at = "read" /\ Secret.len # 0
      BY SecretIsRead DEF ReadAccepts
    <2>2. /\ Opened \in FileState /\ Opened.kind \in Regular
          /\ Opened.kind = "shared" => reader.widened
      BY <2>1 DEF IInv, DescriptorInv
    <2>3. Opened.len \in Nat /\ Buffer \in 1 .. MaxBytes
      BY <2>2, WholeLength, SecretsAssumption
         DEF IInv, TypeOK, FileTypeOK, ReaderState, Buffer
    <2>4. Secret.len \in 0 .. MaxBytes
      BY <2>3, SecretsAssumption DEF Secret, BytesRead
    <2> QED
      BY <2>1, <2>2, <2>4, SecretsAssumption
  <1> QED
    BY <1>1, Invariance, PTL DEF Spec, SecretIsChecked

\* A token presented to the ADC has not expired: the abort timer
\* (auth-service-client.ts:97) ends the request first, unless the event loop leaves
\* it for longer than MaxLag, although nothing in the tool compares a time with
\* expires_in.
THEOREM TokensAreLive == Spec => TokenIsLive
  <1>1. IInv => [\A e \in Executions :
                   exec[e].phase = "tokenBody" /\ exec'[e].phase = "adc"
                     /\ exec[e].left # TooLate => exec[e].age # ExpiresIn]_vars
    <2> SUFFICES ASSUME IInv, NEW e \in Executions, exec[e].phase = "tokenBody",
                        exec[e].left # TooLate
                 PROVE  exec[e].age # ExpiresIn
      OBVIOUS
    <2>1. exec[e] \in ExecState
      BY DEF IInv, TypeOK
    <2> QED
      BY <2>1, TimeAssumption, SecretsAssumption DEF IInv, AgeInv, AgeOf, ExecState, TooLate
  <1> QED
    BY <1>1, Invariance, PTL DEF TokenIsLive
=============================================================================
