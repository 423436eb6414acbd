--------------------------- MODULE Reconciliation ---------------------------
(***************************************************************************)
(* What the reconcile command promises its operator, without passes,       *)
(* retries, tokens or messages: a run passes only when every principal of  *)
(* the mapping is bound to the expected one, every client is bound, and    *)
(* the run itself made nothing; once it has passed, it makes nothing more. *)
(* What is bound stays bound, whoever asked for it and however late.       *)
(***************************************************************************)
CONSTANTS
  References,  \* what may be claimed
  Principals,  \* the principals of the mapping
  Clients,     \* its clients
  None, Expected, Other

VARIABLES
  bound,    \* the object each reference is bound to
  verdict,  \* of the run: "none" when none runs and the last gave none
  made      \* whether a request of the run made an object

vars == <<bound, verdict, made>>

Init ==
  /\ bound \in [References -> {None, Expected, Other}]
  /\ verdict = "none"
  /\ made = FALSE

\* A run begins; it may be refused at once.
Begin ==
  /\ verdict # "running"
  /\ verdict' \in {"running", "failed"}
  /\ made' = FALSE
  /\ UNCHANGED bound

\* A request arrives, of this run or of an earlier one.
Bind(r) ==
  /\ bound[r] = None
  /\ bound' = [bound EXCEPT ![r] = Expected]
  /\ UNCHANGED <<verdict, made>>

Make(r) ==
  /\ bound[r] = None
  /\ bound' = [bound EXCEPT ![r] = Other]
  /\ \E own \in BOOLEAN : made' = (made \/ own) /\ (own => verdict # "passed")
  /\ UNCHANGED verdict

Pass ==
  /\ verdict = "running"
  /\ ~made
  /\ \A r \in Principals : bound[r] = Expected
  /\ \A r \in Clients : bound[r] # None
  /\ verdict' = "passed"
  /\ UNCHANGED <<bound, made>>

Fail ==
  /\ verdict = "running"
  /\ verdict' = "failed"
  /\ UNCHANGED <<bound, made>>

\* The command is killed.
Die ==
  /\ verdict = "running"
  /\ verdict' = "none"
  /\ UNCHANGED <<bound, made>>

Next ==
  \/ Begin
  \/ \E r \in References : Bind(r) \/ Make(r)
  \/ Pass \/ Fail \/ Die

Spec == Init /\ [][Next]_vars
=============================================================================
