------------------------------ MODULE CanaryHost ------------------------------
(***************************************************************************)
(* The canary host with all of its scripts: setup and cleanup (module      *)
(* Lifecycle) and scripts/start-canary.sh, which starts the ADC mock and   *)
(* the gateway, has the canary's agent run the tool and stops the mock.    *)
(*                                                                         *)
(* What the script leaves running outlives it: a later run meets the       *)
(* processes of earlier ones on their ports.  One script runs at a time.   *)
(* The auth-service, the openclaw command and the agent are external.      *)
(***************************************************************************)
EXTENDS Lifecycle

CONSTANT MaxStarts  \* bound of the model: how often start-canary.sh is run

ASSUME StartsAssumption == MaxStarts \in Nat /\ None \notin Nat

VARIABLES
  at,       \* the step start-canary.sh is about to take; "none": not running
  starts,   \* history: how often it was run; the last run
  ended,    \* history: how each run ended
  mock,     \* the run whose mock server has port 9099
  gateway   \* the run whose gateway has port 19002

startVars == <<at, starts, ended, mock, gateway>>
hostVars == <<vars, startVars>>

StartSteps == {"mock", "stopGateway", "gateway", "health", "message", "stopMock"}

StartRuns == 1 .. MaxStarts

HostInit ==
  /\ Init
  /\ at = "none"
  /\ starts = 0
  /\ ended = [r \in StartRuns |-> "none"]
  /\ mock = None
  /\ gateway = None

NoScript == step = "none" /\ at = "none"

EndStart(how) == at' = "none" /\ ended' = [ended EXCEPT ![starts] = how]

\* kill "${ADC_MOCK_PID}" || true: the server this run started, if it lives.
KillMock == mock' = IF mock = starts THEN None ELSE mock

-----------------------------------------------------------------------------
\* Pre-flight: without the auth-service the script ends.  That the port of the
\* mock is in use is printed and changes nothing.
StartCanary ==
  /\ NoScript
  /\ starts < MaxStarts
  /\ starts' = starts + 1
  /\ \/ at' = "mock" /\ UNCHANGED ended
     \/ at' = "none" /\ ended' = [ended EXCEPT ![starts'] = "refused"]
  /\ UNCHANGED <<mock, gateway>>

\* The server gets the port if it is free and nothing goes wrong; whether it
\* answers is asked, and "ADC Mock responding" printed in any case.
StartMock ==
  /\ at = "mock"
  /\ mock' \in IF mock = None THEN {starts, None} ELSE {mock}
  /\ at' = "stopGateway"
  /\ UNCHANGED <<starts, ended, gateway>>

\* Any previous gateway is told to stop; a failure is ignored.
StopGateway ==
  /\ at = "stopGateway"
  /\ gateway' \in {gateway, None}
  /\ at' = "gateway"
  /\ UNCHANGED <<starts, ended, mock>>

StartGateway ==
  /\ at = "gateway"
  /\ gateway' \in IF gateway = None THEN {starts, None} ELSE {gateway}
  /\ at' = "health"
  /\ UNCHANGED <<starts, ended, mock>>

GatewayHealthy ==
  /\ at = "health"
  /\ gateway # None
  /\ at' = "message"
  /\ UNCHANGED <<starts, ended, mock, gateway>>

\* Mutant: the script ends without stopping its mock server.
UnhealthyKeepsMock ==
  /\ at = "health"
  /\ EndStart("unhealthy")
  /\ UNCHANGED <<starts, mock, gateway>>

GatewayUnhealthy ==
  /\ at = "health"
  /\ KillMock
  /\ EndStart("unhealthy")
  /\ UNCHANGED <<starts, gateway>>

\* The agent is sent a message, and its answer searched for words to print.
\* When there are none, or head closes the pipe before grep has written them
\* all, the pipeline fails and with it the script.
MessageAnswered ==
  /\ at = "message"
  /\ \/ at' = "stopMock" /\ UNCHANGED ended
     \/ EndStart("silent")
  /\ UNCHANGED <<starts, mock, gateway>>

StopMock ==
  /\ at = "stopMock"
  /\ KillMock
  /\ EndStart("complete")
  /\ UNCHANGED <<starts, gateway>>

Run ==
  \/ StartCanary \/ StartMock \/ StopGateway \/ StartGateway
  \/ GatewayHealthy \/ GatewayUnhealthy \/ MessageAnswered \/ StopMock

-----------------------------------------------------------------------------
\* The script ends before its next step; what it started in the background
\* goes on.
StartDies ==
  /\ at # "none"
  /\ EndStart("died")
  /\ UNCHANGED <<starts, mock, gateway>>

\* A server process ends, by itself or by the operator's hand.
ServerDies ==
  /\ \/ mock # None /\ mock' = None /\ UNCHANGED gateway
     \/ gateway # None /\ gateway' = None /\ UNCHANGED mock
  /\ UNCHANGED <<at, starts, ended>>

HostNext ==
  \/ at = "none" /\ Next /\ UNCHANGED startVars
  \/ (Run \/ StartDies \/ ServerDies) /\ UNCHANGED vars

HostSpec == HostInit /\ [][HostNext]_hostVars

-----------------------------------------------------------------------------
(***************************************************************************)
(* Properties.                                                             *)
(***************************************************************************)

HostTypeOK ==
  /\ TypeOK
  /\ at \in StartSteps \cup {"none"}
  /\ starts \in 0 .. MaxStarts
  /\ ended \in [StartRuns -> {"none", "refused", "unhealthy", "silent", "complete", "died"}]
  /\ {mock, gateway} \subseteq StartRuns \cup {None}
  /\ at # "none" => step = "none" /\ starts > 0

\* "ADC Mock stopped." (start-canary.sh:113, and the kill of line 83): a mock
\* server that has outlived its run is one of a run that died, or that its own
\* search for words in the answer ended; no other run leaves one behind, also
\* when it met the servers of earlier runs.
MockOutlivesBrokenRuns ==
  mock # None /\ (at = "none" \/ mock # starts) => ended[mock] \in {"died", "silent"}
=============================================================================
