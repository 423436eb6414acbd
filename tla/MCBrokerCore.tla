---------------------------- MODULE MCBrokerCore ----------------------------
(* Model-checking instances of BrokerCore. *)
EXTENDS BrokerCore, TLC

CONSTANTS alice, bob, carol, eve

\* Executions are interchangeable: sound for the safety runs.
Symmetry == Permutations(Executions)

\* Two agents share a client; eve has one but is in no allowlist here.
SharedClient == [a \in {alice, bob, eve} |-> IF a = eve THEN "other" ELSE "client"]
OneClient    == [a \in {alice} |-> "client"]

\* Each agent has its own secret, also where agents share a client.
OwnSecrets == [a \in Agents |-> {<<"secret", a>>}]

\* Two capabilities whose targets differ in audience and share an origin, the
\* second configured with a method the broker refuses; one without an adapter.
ThreeCapabilities ==
  [okr_read |-> [target |-> "okr", scope |-> "read", method |-> "GET", path |-> "/okr"],
   okr_edit |-> [target |-> "edit", scope |-> "read", method |-> "PATCH", path |-> "/edit"],
   unknown  |-> [target |-> "okr", scope |-> "read", method |-> "GET", path |-> "/okr"]]

OneCapability ==
  [okr_read |-> [target |-> "okr", scope |-> "read", method |-> "GET", path |-> "/okr"]]

MCTarget ==
  [okr  |-> [audience |-> "svc-okr", origin |-> "http://okr"],
   edit |-> [audience |-> "svc-edit", origin |-> "http://okr"]]

MCAdapters == {"okr_read", "okr_edit", "test_read"}

\* Without ticks: a grant that is expired on receipt, and one that is fresh.
MCExpiresIn == {0, 1}
=============================================================================
