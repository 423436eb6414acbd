--------------------------- MODULE MCProvisioning ---------------------------
(* Model-checking instance of Provisioning. *)
EXTENDS Provisioning

CONSTANTS a1

\* One agent listed twice, which readMapping() does not refuse: two positions,
\* the second of which claims references the first may have bound.
ListedTwice == <<a1, a1>>

OneAgent == <<a1>>
=============================================================================
