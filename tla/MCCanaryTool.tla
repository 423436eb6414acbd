----------------------------- MODULE MCCanaryTool -----------------------------
(* Model-checking instance of the canary's tool and its configuration. *)
EXTENDS CanaryPlugin

CONSTANTS long, huge

\* As many bytes as the reader takes, and one more.
MCLength == [s \in Secrets |-> IF s = long THEN 2 ELSE 3]

\* PROBE_CONFIG.
AuthService == Canonical(4001)
AdcMock == Canonical(9099)

\* What the URL parser, or a careless check, would take for the same origin, and
\* a port nobody listens on.
Near(o) ==
  {[o EXCEPT !.scheme = "HTTP://"], [o EXCEPT !.rest = "/"], [o EXCEPT !.rest = "#o"],
   [o EXCEPT !.zeros = TRUE], [o EXCEPT !.number = 0]}

MCConfigurations ==
  {[authService |-> AuthService, adcMock |-> AdcMock],
   [authService |-> AuthService, adcMock |-> [AdcMock EXCEPT !.rest = "/"]]}
    \cup {[authService |-> o, adcMock |-> AdcMock] : o \in Near(AuthService)}
=============================================================================
