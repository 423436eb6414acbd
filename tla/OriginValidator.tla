---------------------------- MODULE OriginValidator ----------------------------
(***************************************************************************)
(* validateLoopbackOrigin (src/origin-validator.ts), which both clients of *)
(* the canary's tool call before a request.  It compares two readings of   *)
(* an origin: the text as it was written, and what new URL() makes of it.  *)
(* The second is external: the URL standard lower-cases a scheme, takes \  *)
(* for /, reads a port as a number, resolves dot segments and drops an     *)
(* empty query or fragment.                                                *)
(***************************************************************************)
EXTENDS Naturals

CONSTANTS
  PortNumbers,  \* the numbers a port may be written for
  NoPort        \* in place of the number of an origin without a port

ASSUME PortAssumption ==
  /\ PortNumbers \subseteq Nat
  /\ NoPort \notin Nat

MaxPort == 65535

\* What may follow host and port; "o" stands for the text of the canonical
\* origin with the same port, where endsWith() might find it.
Paths == {"/x", "/o"}
Queries == {"?x", "?o"}
Fragments == {"#x", "#o"}
Rests == {"", "/", "/.", "?", "#"} \cup Paths \cup Queries \cup Fragments

\* An origin as it is written.  zeros: zeros lead the digits of the port.
Origins ==
  [scheme   : {"http://", "HTTP://", "http:\\\\", "https://"},
   userinfo : {"", "@", "user@", ":password@"},
   host     : {"127.0.0.1", "127.1", "localhost"},
   number   : PortNumbers \cup {NoPort},
   zeros    : BOOLEAN,
   rest     : Rests]

Canonical(number) ==
  [scheme |-> "http://", userinfo |-> "", host |-> "127.0.0.1",
   number |-> number, zeros |-> FALSE, rest |-> ""]

-----------------------------------------------------------------------------
(* What new URL() makes of it.                                             *)

Parses(o) == o.number # NoPort => o.number <= MaxPort

Protocol(o) == IF o.scheme = "https://" THEN "https:" ELSE "http:"

Username(o) == IF o.userinfo = "user@" THEN "user" ELSE ""

Password(o) == IF o.userinfo = ":password@" THEN "password" ELSE ""

Pathname(o) == IF o.rest \in Paths THEN o.rest ELSE "/"

Search(o) == IF o.rest \in Queries THEN o.rest ELSE ""

Hash(o) == IF o.rest \in Fragments THEN o.rest ELSE ""

-----------------------------------------------------------------------------
(* The checks, on the text (lines 75-98) and on the URL (lines 105-121).   *)

\* HOST_PORT_PATTERN, on what stands between the scheme and the first of / ? #.
MatchesHostPort(o) ==
  /\ o.userinfo = ""
  /\ o.host = "127.0.0.1"
  /\ o.number # NoPort

PortInRange(o) == o.number \in 1 .. MaxPort

NoUserinfo(o) == Username(o) = "" /\ Password(o) = ""

NothingFollows(o) == Pathname(o) = "/" /\ Search(o) = "" /\ Hash(o) = ""

\* originStr.endsWith(canonicalOrigin)
EndsCanonical(o) ==
  \/ o.rest \in {"/o", "?o", "#o"}
  \/ o = Canonical(o.number)

\* Mutant: a trailing slash is taken for harmless.
AcceptsTrailing(o) ==
  /\ Parses(o)
  /\ Protocol(o) = "http:"
  /\ MatchesHostPort(o)
  /\ PortInRange(o)
  /\ NoUserinfo(o)
  /\ NothingFollows(o)

Accepts(o) ==
  /\ Parses(o)
  /\ Protocol(o) = "http:"
  /\ MatchesHostPort(o)
  /\ PortInRange(o)
  /\ NoUserinfo(o)
  /\ NothingFollows(o)
  /\ Pathname(o) = "/" => EndsCanonical(o)

-----------------------------------------------------------------------------
\* "Only allows exact `http://127.0.0.1:<port>` origins."
Exact(o) == o.number \in 1 .. MaxPort /\ o = Canonical(o.number)

(* An origin is accepted exactly when it is written http://127.0.0.1:port  *)
(* with a port from 1 to 65535 and nothing around it: no spelling that the *)
(* URL parser would normalise into it is accepted, and none is refused.    *)
ValidatorIsExact ==
  \A o \in Origins :
    Accepts(o) <=> Exact(o)
=============================================================================
