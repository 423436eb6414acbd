----------------------------- MODULE CanaryPlugin -----------------------------
(***************************************************************************)
(* The canary's tool as register() creates it (src/index.ts): with the two *)
(* origins of its configuration (src/config.ts), which the clients of the  *)
(* auth-service and of the ADC mock give to the origin validator each time *)
(* before they send anything.                                              *)
(***************************************************************************)
EXTENDS CanaryTool, OriginValidator

CONSTANT Configurations  \* the origins an operator may have configured

ASSUME ConfigurationAssumption ==
  Configurations \subseteq [authService : Origins, adcMock : Origins]

VARIABLE config  \* the CanaryConfig the tool was created with

pluginVars == <<vars, config>>

PluginInit ==
  /\ Init
  /\ config \in Configurations

SendsToken(e) == exec[e].phase = "tokenBody" /\ exec'[e].phase = "adc"

\* A client calls the validator first and throws when it does.
Validated(e) ==
  /\ SendsSecret(e) => Accepts(config.authService)
  /\ SendsToken(e) => Accepts(config.adcMock)

PluginNext ==
  /\ Next
  /\ \A e \in Executions : Validated(e)
  /\ UNCHANGED config

\* An execution that is not allowed to send throws, so Validated takes no step
\* away from the fairness of the tool.
PluginSpec == PluginInit /\ [][PluginNext]_pluginVars /\ Fairness

-----------------------------------------------------------------------------
(***************************************************************************)
(* Properties.                                                             *)
(***************************************************************************)

\* "Only allows exact `http://127.0.0.1:<port>` origins" (origin-validator.ts:4):
\* with any other origin configured, however close its spelling, the secret is
\* not sent to the auth-service, nor the token to the ADC.  A wrong ADC origin
\* is met only after a token was granted, and the token then goes nowhere.
SecretStaysOnLoopback ==
  \A e \in Executions :
    /\ exec[e].phase \in TokenPhases => Exact(config.authService)
    /\ exec[e].phase \in AdcPhases => Exact(config.authService) /\ Exact(config.adcMock)
=============================================================================
