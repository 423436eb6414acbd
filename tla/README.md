# A TLA+ model of the OpenClaw auth broker and ADC canary extension

The repository holds two plugins for the OpenClaw gateway and the scripts and
commands around them.  The *auth broker* (`broker/`) lets the tools of an agent
call business services: it looks the agent up in an allowlist, resolves the
agent's client secret, gets an access token from the auth-service, keeps it in
a cache and sends the request.  The *canary extension* (`src/`) is an earlier,
smaller tool that does the same for one agent without a cache.

Everything concurrent runs on one JavaScript event loop: what two tool
executions can do to each other, they do at an `await`.  The models take that
grain.  An action is what runs between two awaits, and nothing smaller.

## Inventory

| Part | Source | State | Operations | Hard behaviour | What makes it correct |
|---|---|---|---|---|---|
| Token cache | `broker/src/token-cache.ts` | `_cache`, `_pending`, the local variables of every `getToken()` in progress | `getToken`, `invalidate`, `clear`, `_issueAndCache` | calls that join an issuance, an issuance that fails with others waiting, an owner's `finally` after `clear()`, a token read before an await and used after it, expiry against response time | a token never leaves its key; one issuance per key; no dead pending entry; a rejected token stays out; every call ends |
| Broker core | `broker/src/broker-core.ts`, `index.ts`, `registries.ts`, `adapters/` | `_resolvedCredentials`, the local state of each tool execution | tool registration, the allowlist gate, `authorizedFetch`, `clearCache` | executions of one agent sharing a token, 401 answers in any order, the retry, concurrent secret resolution | a request carries a token of its own agent, client, audience and scope; the refused token is not repeated; the gate comes first; every execution ends |
| Secret resolver | `broker/src/secret-resolver.ts` | none | `resolveSecret` | rotation between two resolutions | covered with the broker core |
| Principal registry | `broker/src/principal-registry.ts` | `_cachedToken`, broker credentials | `claimPrincipal`, `claimClient`, `_getBrokerToken`, `clearTokenCache` | lost answers, late requests, a token that runs out | only an existing, expected object counts as claimed |
| Reconcile command | `broker/src/provisioning-cli.ts` | position in the two passes, retries, results | `runReconcile`, `executeClaims`, `retryOnRateLimit`, `comparePasses`, `compileReport` | rate limits, a crash and a second run, a pass that fails where the other did not | a run that passes has bound what the mapping says and made nothing new; every run ends |
| Canary tool | `src/tool.ts`, `index.ts`, `secrets.ts`, `auth-service-client.ts`, `adc-mock-client.ts` | none between executions | `execute`, `readSecretFromFile`, `requestDirectToken`, `readAdcRequirements` | the secret file replaced, linked or re-moded while it is read, an `open()` that blocks the event loop, abort timers | the secret is a whole secret of a regular file within the limit; every execution ends unless a read blocks |
| Canary configuration | `src/config.ts`, `origin-validator.ts`, `proxy-guard.ts`, `errors.ts` | constants | `validateLoopbackOrigin`, `checkProxyAtRequestTime` | the text of an origin and what the URL parser makes of it differ | exactly the canonical origins of the loopback address are accepted |
| Host scripts | `scripts/setup-canary.sh`, `cleanup-canary.sh`, `start-canary.sh` | user, group, marker, files, temporary files and server processes on the host | the scripts' steps | a script killed half way and another one run after it; servers that outlive the script that started them | cleanup can always finish and empties its places; setup never adopts a user; a start that ends in order leaves no mock server |
| Fixtures | `scripts/adc-mock-server.mjs`, `verify-os-isolation.sh`, `broker/scripts/dev-canary-setup.sh`, tests | - | - | - | - |

How they interact: the gateway calls `register()` once and then `execute()` of
a tool as often as agents ask; `execute()` calls `authorizedFetch()`, which
calls the secret resolver and the token cache; the cache calls back into the
broker to issue a token.  The 401 handler calls `invalidate()` and `getToken()`
of the cache again.  The reconcile command is a process of its own that calls
the principal registry, one claim after the other.  The auth-service, its claim
API and the business services are outside the repository; they are modelled by
what the code relies on and by every answer the code has a branch for.

`PROJECT.json` lists the hazards, each at its line, with the properties aimed at it.

## Modules

| Module | What it is |
|---|---|
| `TokenSource` | the abstract promise of the token cache: a request for a key waits and then throws, or returns a token the auth-service granted for that very key; a token is granted only while somebody waits for its key |
| `TokenCache` | the token cache, await by await |
| `MCTokenCache` | its TLC instance |
| `TokenCacheProofs` | the inductive invariant of `TokenCache` and the theorems about its properties |
| `TokenCacheRefinement` | the proof that `TokenCache` implements `TokenSource` |
| `BrokerService` | the abstract promise of the broker: an execution throws, or sends its request with a token granted for its own agent and tool, and after a 401 once more, with a token the broker did not have then |
| `BrokerCore` | tool executions from the gate to the answer; it INSTANCEs `TokenCache` and shares its variables |
| `MCBrokerCore` | its TLC instances |
| `BrokerCoreProofs` | the inductive invariant of `BrokerCore` and the theorems about its properties; it INSTANCEs `TokenCacheProofs` |
| `BrokerCoreRefinement` | the proof that `BrokerCore` implements `BrokerService` |
| `Reconciliation` | the abstract promise of the reconcile command: a run passes only if everything it names is bound and it made nothing |
| `PrincipalRegistry` | the claims, the broker token, the claim API and the network between them |
| `Provisioning` | the reconcile command; EXTENDS `PrincipalRegistry` |
| `MCProvisioning` | its TLC instances |
| `ProvisioningProofs` | the inductive invariant of `Provisioning` the theorems about what a run that passes has shown, and the proof that it implements `Reconciliation` |
| `Lifecycle` | setup and cleanup of the canary host, step by step, with a crash between any two, each attribute and temporary file of its own |
| `CanaryHost` | `start-canary.sh` with the two servers it starts, composed with setup and cleanup; EXTENDS `Lifecycle` |
| `CanaryHostProofs` | the inductive invariant of the host and the theorems about its properties |
| `OriginValidator` | the origin validator of the canary's tool as a predicate on spellings of an origin |
| `CanaryPlugin` | the canary's tool with its configured origins, validated before each request; EXTENDS `CanaryTool` and `OriginValidator` |
| `CanaryPluginProofs` | the theorem that the validator is exact, the one about where the tool sends its secret and its token, and those of `CanaryToolProofs` carried over to the configured tool |
| `SecretFile` | the canary's secret file: the system calls of `readSecretFromFile()` against an operator and others who replace, rewrite, re-mode, link or remove the file |
| `CanaryTool` | executions of the canary's tool, their two requests and abort timers; EXTENDS `SecretFile` |
| `MCCanaryTool` | the TLC instance of `CanaryPlugin` |
| `CanaryToolProofs` | the inductive invariant of `CanaryTool` and the theorems about its properties |

Definitions whose comment begins with "Mutant" are plausible bugs of the
definition that follows; each property is checked to fail under one of them.
They are not part of any specification.

### TokenCache

One element of `Calls` is one invocation of `getToken()`.  An invocation that
issues owns one promise and at most one token, so promises and tokens are named
by the call that owns them.  A key stands for the quadruple `_cacheKey` joins.

| Model | Code |
|---|---|
| `cache`, `pending` | `_cache`, `_pending` |
| `call[c].cached` | the local `cached`, read before the await |
| `promise[c]` | the promise of `_issueAndCache()`, with `expiresAtMs`; `late` is how long ago the auth-service granted the token when its answer came |
| `GetToken` = `ServeFromCache`, `JoinPending` or `StartIssuance` | `getToken()` to its first await |
| `IssuanceSucceeds`, `IssuanceFails` | the answer of the token endpoint and the rest of `_issueAndCache()` |
| `OwnerReturns`, `OwnerFallsBack`, `OwnerThrows` | the owner's continuation with its `catch` and `finally` |
| `WaiterResumes` | the continuation of a call that joined |
| `Invalidate`, `InvalidateAndGet`, `Clear` | `invalidate()` alone, as the 401 handler calls it, and `clear()` |
| `Quiescent` | the microtask queue is empty: the next I/O event may be taken |

The continuations of one promise run in the order they were attached, the
owner's first; the model keeps that order between owner and waiters.  Time is
in units of a second shrunk to the model's constants.  `rejected` and `clears`
are history: nothing in the model reads `rejected`, and `clears` only bounds
`Clear`.

### BrokerCore

One element of `Executions` is one `execute()` of a tool by the host.  It calls
`getToken()` at most twice, so the cache's calls are `<<e, 1>>` and `<<e, 2>>`.
`Execute` is everything to the first await: the gate of `index.ts`, the look-ups
of `authorizedFetch()` and `_resolveCredential()`.  `Unauthorized` is the 401
with its `invalidate()` and `getToken()` in one turn.  Configuration
(allowlist, clients, targets, capabilities, kill switch) is constant, as it is
in the code after `register()`.  `Tools` is what `register()` offers: nothing
when the kill switch is off or `validateConfig()` finds a capability of an
unknown target (`ConfigIsValid`), else the capabilities that have an adapter.
`method` is that of the configuration in upper case, as `_validateRequest()` compares it.
Audience and scope of a token come from different registries, the target and
the capability of the tool, and meet in `Quadruple`.
`CredentialRef` gives each agent its secrets: those its reference may resolve to,
one after the other when it is rotated.  Two first calls of an agent resolve it
twice, and the later one replaces what the earlier one kept; `SecretIsOwn` says
that a token is nevertheless asked for with a secret of the agent it is for.

`DrivesTokenCache` states that the broker is a correct client of the cache
model: what is checked and proved of `TokenCache` holds inside `BrokerCore` as
well.  `ImplementsService` states that the broker implements `BrokerService`,
which knows no cache, no joined issuances and no secrets.  An execution in the
abstract broker is preparing, has sent its request, renews its token, has sent
it again, or has ended.  The tokens granted there are those whose answer has
reached the broker, so that "after the 401" speaks of when the broker got a token,
not of when the auth-service made it: one it made before the 401, and whose answer
came after it, counts as new.  The
token of a renewal is fixed when it begins, as the one the second `getToken()`
awaits, and must not have been granted yet.

### PrincipalRegistry and Provisioning

`claim` is the one claim in progress; its answer is one of six that the code
tells apart.  The API keeps, for each reference, the object it is bound to, and
a bound reference stays bound.  A request whose sender was killed or was told
of a network error may still arrive (`travelling`).  `Provisioning` runs the
two passes, retries after a 429, compares and reports; `Crash` kills the
process at any point, and `Start` runs the command again.  `Refuse` is a run
that ends before its first claim: an argument is missing, or `readMapping()` or
the test for an empty mapping refuses the file.  Nothing else is said
about the mapping: an agent may be listed twice.  `report` is what
was printed, reduced to the lines that depend on the run; the numbers of new
objects are not among them because the code prints a constant.  Which credential
files can be read is found out between the passes and goes into nothing else,
so `CheckCredentials` drops the token and starts the second pass.
`ImplementsReconciliation` maps the command to `Reconciliation`, in which passes,
retries, tokens and messages are gone and a run has only a verdict; a request that
arrives, whichever run sent it and when, binds its reference or makes an object.

### Lifecycle

`step` is what the running script does next: a command, or several where a
death between them leaves nothing a later script could tell from a death before
them.  `Die` ends the script before any step: a command that fails under
`set -e`, a signal, a reboot.

| Model | Code |
|---|---|
| `CreateGroup`, `SetGroupId`, `SetGroupName` | the existence test and the three `dscl` commands of step 1; a group that exists is taken as it is |
| `CreateUser`, `SetUserId`, `SetAttributes`, `JoinGroup` | step 2: the record, its UID, the attributes (`full`: shell and home, which cleanup checks as V3 and V4), the membership, which no check looks at |
| `WriteTemporary`, `WriteMarker`, `Install` | a file written to `/tmp` and moved to its place: marker, secret, configuration, manifest; extension and workspace are made in place |
| `RemoveOldExtension` | `rm -rf` of the load directory before it is made anew |
| `Accepts` | phase 1 of cleanup, V1 to V7 |
| `RemoveUser` to `RemoveWorkspace` | phase 2; `rm -rf` of the canary directory takes its entries in any order |
| `temporary` | files of setup in `/tmp`, with the run that wrote them: `RUN_ID` and `mktemp` give new names in each |

What a death leaves unfinished inside a directory (an extension copied in part)
counts as not there: the next setup makes that directory anew and cleanup
removes it whole.  A command that names a group without GID may fail, which is
a death; or it may not, and the model lets setup go on.  Setups that are refused
are not counted in `runs`.  The operator runs one script at a time; two at once
are not modelled, nor that the system empties `/tmp`.

### CanaryHost

`at` is the step `start-canary.sh` takes next; `mock` and `gateway` name the run
whose process has the port.  A process that does not get its port ends, and the
script does not notice: it prints "ADC Mock responding" in any case, and the
health check asks whichever gateway is there.  So a run may be served by what an
earlier one left.  `kill` goes to the run's own process (`KillMock`).
`MessageAnswered` has two outcomes because of `set -euo pipefail`: a `grep` that
finds none of its words ends the script before the mock is stopped, as does a
`head` that has read its ten lines while `grep` still writes.  `StartDies` ends
the script before any step and `ServerDies` ends either server.
`MockOutlivesBrokenRuns` makes an exception for starts that died or found nothing
to print (`silent`): nothing in the scripts promises that the mock is stopped then.

### OriginValidator and CanaryPlugin

An origin is a record of what its text consists of: how the scheme is written
(also in capitals and with backslashes), userinfo, host, the number of the port
and whether zeros lead it, and what follows.  The URL's view is a
function of it (`Protocol`, `Pathname`, `Search`, ...) and external: it follows
the URL standard.  `Accepts` is the conjunction of the validator's checks, since
each of them throws and none changes anything.  The tail `o` stands for the text
of the canonical origin itself, which is where `endsWith()` could be fooled.
`CanaryPlugin` adds the configuration `register()` creates the tool with: a step
of the tool that sends a request is allowed only when the validator accepts the
origin (`Validated`); the step that throws instead is always there, so fairness
is that of the tool.  The secret has been read, and for the ADC a token been
granted, when an origin is found wrong, as in the code.

### SecretFile and CanaryTool

| Model | Code |
|---|---|
| `disk` | what the path leads to: a file, a file everybody may write (`shared`), a link to a file, or something else (`other`: a directory, a FIFO); whether the gateway may read it, and which part of which secret it holds |
| `reader` | `readSecretFromFile()` in progress: the next system call, or `blocked` in `open()`; the size the last stat returned, the file the descriptor refers to |
| `Lstat`, `Open`, `Fstat`, `ReadEnds` | the checks and the system call of each section of `readSecretFromFile()`; `ReadEnds` also ends a read that is refused.  `Open` has no flag but `O_RDONLY`: it follows a link, and it may block on what is not a file; `Fstat` sees what a link led to |
| `Install`, `SetPermissions`, `Remove` | step 4 of `setup-canary.sh` (rename, then owner and mode) and the removal by `cleanup-canary.sh` |
| `Truncate`, `Grow` | the operator writes the real client's secret over the file, in place |
| `Share` | the mode is set too wide, in place: also that of a file already open |
| `Misplace`, `Obstruct`, `OpenOtherEnd` | another file or a link to one comes to the path, or something that is not a file; somebody opens for writing the FIFO a reader is blocked on |
| `exec[e].phase` | where one `execute()` of the tool is: reading, awaiting the headers or the body of the token answer, of a refusal, of the ADC answer, or ended |
| `exec[e].left` | what is left of `setTimeout(abort, timeoutMs)`; `Armed` is from there to `clearTimeout` |
| `exec[e].age` | how long ago the auth-service granted the token |
| `Sends` | a request leaves, or the origin validator or the proxy guard refuses it |
| `Abort` | the timer fires; each `catch` on the way throws |

A secret is a name and a length, and a file holds a prefix of one.  Any content
may be refused (`ReadRefuses`: a NUL, a control character, too many characters),
and an empty one is.  The check of the parent directories is merged
with `lstat()`, since both refuse and change nothing.  `readSecretFromFile()` is
synchronous: between its system calls only other processes run, so the actions
of the event loop wait for it (`Free`), while time and the two servers do not.
Time is counted down for a timer and up for a token, so the model needs no
bound on its clock.  Nothing bounds how late the event loop serves a timer,
since a system call may block: `left` stops at `TooLate` when a timer has been due
for longer than `MaxLag`, and `TokenIsLive` says nothing of an answer taken then.
Probe mode is left out: `index.ts` turns it off.  `rewritten` and `widened` are
history.

`SecretIsWhole` speaks of renames, removals and changes of mode.  A file
rewritten in place while it is open can be read in part, in the model as in the
code; setup avoids it by renaming, and nothing in the code promises more.
`SecretIsChecked` is what is left of the TOCTOU mitigation: the file that is read
is a regular one, within the limit, and was not world-writable when `fstat()` saw
it.  It need not be the file `lstat()` saw, and may have come through a link.

## Runs

| Run | Shows | Bounds and why they are enough |
|---|---|---|
| `TokenCache_safety` | type, `TokenBinding`, `SingleFlight`, `PendingIsLive`, `RejectedStaysOut`, `HitIsLive`, `StaleUseIsFallback`, refinement of `TokenSource` | 3 calls, 2 keys, 1 `clear()`, clock to 3, grants of 1 and 3 s, refresh 1 s early.  Two calls are needed to share or race an issuance, a third to come after a `finally` or an `invalidate()`; two keys to mix them up; time 3 lets a token be fresh, stale and expired |
| `TokenCache_stale` | counterexample to `NoUseAfterInvalidate` | as above, one key |
| `BrokerCore_sharing` | `RefusedTokenGone`, refinement of `BrokerService` | 3 executions of one agent: one refused, one that shares the refused token, one that issues in between |
| `BrokerCore_agents` | type, `BearerIsOwn`, `SecretIsOwn`, `GateComesFirst`, `DrivesTokenCache`, refinement of `BrokerService`, `EveryExecutionEnds` | 2 executions over 4 agents (two sharing a client, one without a client, one not allowed), 2 tools of two targets, with the same scope and origin and different audiences, so that only the target's audience keeps their tokens apart; one of them has a method the broker refuses, 1 `clearCache()` |
| `BrokerCore_gate` | counterexample to `DeniedIsAnswered` | one agent outside the allowlist |
| `Provisioning_runs` | type, `PassedMeansClaimed`, `CreationFailsTheRun`, `FailureFailsTheRun`, refinement of `Reconciliation`, `EveryRunEnds` | 2 runs, 1 retry, a mapping of two positions with the same agent (so that claims of one position meet what the other bound), every initial binding |
| `Provisioning_clients` | counterexample to `PassedMeansClientsClaimed` | one agent |
| `CanaryHost_scripts` | type, `InstallationIsWhole`, `CleanupEmptiesItsPlaces`, `DeadCleanupCanFinish`, `MockOutlivesBrokenRuns` | 2 setups that are not refused, 2 starts, any number of cleanups and refused setups, 2 UIDs: one setup to leave something behind, a cleanup that dies, and a second setup that meets what both left; a marker of an old run may have the new user's UID or another; one start to leave its servers and one to meet them |
| `Lifecycle_stuck` | counterexample to `CleanupComesToHelp` | 3 setups, without start |
| `Lifecycle_leftovers` | counterexample to `CleanupIsComplete` | as `Lifecycle_stuck` |
| `CanaryTool_calls` | type, `SecretIsWhole`, `SecretIsChecked`, `TokenIsLive`, `EveryExecutionEnds`, `SecretStaysOnLoopback` | 2 executions, one of which may read while the other awaits; secrets of 2 and 3 bytes with a limit of 2, so that a file may grow, shrink, be swapped for a link, a FIFO or another file, be re-moded or pass the limit between two calls; a time-out of 1, a lag of 0 and tokens that live for 2, the least the assumption of the module allows; the origins of `PROBE_CONFIG`, the ADC origin with a slash after it, and the auth-service origin with its scheme in capitals, a slash, a fragment that repeats it, a leading zero and port 0 |
| `CanaryTool_swap` | counterexample to `SwapIsPrevented` | as above |

In `BrokerCore_agents` a grant lasts 1 s and the clock takes one step, so that a
token is fresh and then stale.  In the other `BrokerCore` runs the clock stands
still: a grant of 0 s stands for one too short to be served from the cache and
a grant of 1 s for one that is not; more about time is the subject of the
`TokenCache` runs.  Symmetry
(over calls, keys and executions) is used in the safety runs only.

Bounds of the model that are not in the code: `MaxTime`, `MaxClears`, the
two `MaxRuns` and `MaxStarts`.  The theorems do not depend on their values.

Deadlock is checked in every run.  `Idle` is the only stuttering action; it is
enabled when nothing is in progress, so a call that could never resume would be
reported.

### What the violations show

* `TokenCache_stale`: call A reads a token about to expire and starts an
  issuance; a 401 for that token invalidates it; the issuance fails; A falls
  back on the token it read and returns it.  The comment of `invalidate()`
  says it is there "to prevent repeated use of a known-stale token".
  `StaleUseIsFallback` says that this is the only way a deleted token is still
  returned, and is proved.
* `BrokerCore_gate`: two classes are called `AgentNotAllowedError`.  The gate
  catches the one of `broker-core.ts`; the registries throw the other.
* `Provisioning_clients`: `claimClient()` never compares `client_id`, whatever
  its comment says, so a client bound to another object passes both passes.
  A first run that failed because the API made a new client is followed by a
  second that passes.
* `Lifecycle_stuck`: a setup that dies after it created the user and before it
  wrote the marker leaves a host on which setup refuses ("Run cleanup first.")
  and cleanup refuses as well, because it has no marker to compare with.
* `Lifecycle_leftovers`: a setup that dies between writing a file to `/tmp` and
  moving it, one of these with the secret in it, leaves that file.  Cleanup,
  "Clean up all temporary canary assets", looks into two directories and ends well
  without it.  What it does empty is `CleanupEmptiesItsPlaces`, which is proved.
* `CanaryTool_swap`: a link put at the path after `lstat()` is followed by
  `open()`, `fstat()` sees the regular file it leads to, and that file is sent.
  The comment says that the check "prevents the classic TOCTOU".

Disagreements read off the code, with no run of their own:

* The fallback of `getToken()` (`token-cache.ts:102`) accepts tokens that expired
  less than 5 s ago; the comment of the constant (`:21`) calls it the minimum time
  a usable token has left.
* The report of the reconcile command counts no new objects whatever happened:
  the comment beside the constant (`provisioning-cli.ts:370`) says that a claim
  that created something throws.  It does, but `retryOnRateLimit()` catches what it
  throws and counts one failed claim; the run goes on, fails, and prints the zero.
* `secrets.ts:10` and `:89` promise that owner, group and mode of the file are
  validated.  The code tests that it is not world-writable; `isGroupWritable` is
  computed and not used, owner and group are not looked at.
* `secrets.ts:9` says that a FIFO is rejected.  One that is there at `lstat()` is;
  one that comes later is rejected by `fstat()` only if `open()` returns.
* Setup takes a group that exists as it is (`setup-canary.sh:62-68`), also one that
  an earlier setup left without GID or name, and never repairs it; cleanup does
  remove it.  `InstallationIsWhole` says of the group accordingly no more than that
  it is whole if this run made it.

## Fairness

`BrokerCore`: weak fairness of what each execution, and each call of
`getToken()`, does next: its continuation, since the event loop drains its
queue, or what it awaits: the secret, the answer of the token endpoint or of a
business service.  One of these is enabled at a time for an execution or call.
The code sets no time-out of its own on these requests (`broker-core.ts:199`,
`:292`); that they end is the HTTP client's default header and body time-out.
No fairness is assumed of the host, which need not execute a tool, nor of
`clearCache()`.  `EveryExecutionEnds` covers the calls of `getToken()` an
execution makes, also one that joins an issuance that fails.

`Provisioning`: the process goes on, its timers fire and its requests end.
Nothing is assumed of late requests, and a crash may come at any time.

`CanaryTool`: time passes (weak fairness of `Tick`), a system call that is not
blocked in `open()` returns (of `Read`, which is not enabled while it is), and a
timer that stays due is served in the end (strong fairness of `Abort`, because
other executions may read their files in between, and the event loop comes back to
its timers after each).  Nothing is assumed of the two servers: that an execution
ends is the work of its timers.  Nor is it assumed that anybody writes to a FIFO a
read is blocked on (`OpenOtherEnd` has no fairness): while it blocks no execution
ends, and `EveryExecutionEnds` is therefore conditional on `[]<>~Blocked`, that no
read stays blocked for ever.

## Proofs

`TokenCacheProofs` proves, for every finite set of calls, every set of keys and
every value of the time constants, from the three assumptions of `TokenCache`:

* `Invariance`: the inductive invariant `IInv`.
* `TypeCorrect`, `TokensAreBound`, `PendingStaysLive`, `IssuancesAreShared`,
  `RejectedNeverReturns`: the invariants of `TokenCache_safety`.
* `HitsAreLive`, `OnlyFallbacksAreStale`: the action properties `HitIsLive` and
  `StaleUseIsFallback`.

None of the invariants is inductive by itself.  `TokenBinding` needs that a
waiter awaits a promise of its own key and that the token read before an await
was granted for that key; both are kept only because a promise never changes
its owner's key.  `PendingIsLive` needs that an owner awaits its own promise, so
that a resumed owner cannot be anybody's pending entry.  `SingleFlight` is
the hard one.  The `finally` of an owner may delete the entry of a newer
issuance, and an open slot lets yet another start.  `FlightBound` counts, for
each key, the owners that have yet to resume plus one if the slot is open, and
bounds the sum by `clears + 1`: starting an issuance closes the slot it needs,
a resuming owner leaves as the slot opens, and only `clear()` adds to the sum.
`RejectedStaysOut` rests on `RejectedIsOver`: `invalidate()` runs on an I/O
event, when no continuation is left, so the owner of the token it deletes has
resumed, and neither an answer nor a pending entry can lead to it again.
`StaleUseIsFallback` adds that no waiter is given a deleted token
(`AwaitedIsNotRejected`): it waits for a promise that has not settled when the
I/O event of the 401 runs, and the token in the cache has.

The proof has one lemma per action; temporal reasoning is confined to the last
step of each theorem.

`TokenCacheRefinement` proves `Refinement`: `Spec => ImplementsSource`, every
step of the cache is a step of `TokenSource` or a stutter, under the mapping at
the end of `TokenCache`.

`CanaryToolProofs` proves, for every set of secrets with their lengths, every
set of executions and every value of the times with `Timeout + MaxLag <
ExpiresIn`, the theorems `Invariance`, `TypeCorrect`, `SecretsAreWhole`,
`SecretsAreChecked` and `TokensAreLive`.  The assumption stands for the 10 s of a request
(`auth-service-client.ts:54`) against the 600 s the auth-service grants (`:11`):
the code itself accepts any positive `expires_in` and never looks at it again.
`DescriptorInv` says that an open descriptor refers to a whole file, unless that
file was written in place, and that from `fstat()` on the size of the buffer and
the kind that was checked are those of that very file, not of the one `lstat()`
saw, except that its mode may have been changed since (`widened`).  `AgeInv` says
that a token is no older than the time its request has taken, `age + left <=
Timeout`, unless `left` stands at `TooLate`; this is what keeps an expired token
from being presented as long as the timers are served within the lag.

`CanaryPluginProofs` proves `ValidatorIsExactTheorem` of `OriginValidator`: for
every set of port numbers, what the validator accepts is exactly
`http://127.0.0.1:port` with a port from 1 to 65535.  From checks 3 and 7
nothing but an empty path, query and fragment can follow the port, so that of
the texts `endsWith()` lets pass only the canonical one is left; the other
direction goes through the checks. With it the module proves
`SecretsStayOnLoopback`, for every set of configurations: a request of the tool
begins in two ways only (`RequestsBegin`), and the validator stands before both.
A step of the configured tool is a step of the tool (`PluginIsTool`), which
carries the theorems of `CanaryToolProofs` over to it: `PluginTypeCorrect`,
`PluginSecretsAreWhole`, `PluginSecretsAreChecked` and `PluginTokensAreLive` are
about the specification the run checks.

`CanaryHostProofs` proves, for every set of UIDs and every number of runs and
starts, from the assumptions of `Lifecycle` and `CanaryHost`, the theorems
`Invariance`, `TypeCorrect`, `InstallationsAreWhole`,
`CleanupsEmptyTheirPlaces`, `DeadCleanupsCanFinish` and
`MocksOutliveBrokenRuns`.  What a script leaves behind when it ends well is the
sum of its steps: `GroupInv`, `UserInv`, `MarkerInv`, `FilesInv` and
`TemporaryInv` say what setup has made of each by the time it takes each step,
and that it was made in this very run, or, for the group, that it was taken as
it was; of this run's files in `/tmp` there is at most the one it moves next.
`BegunInv` says that nothing on the host is of a run not yet begun, so that what
a new run finds is not taken for its own.  `CleanupInv` says what cleanup has
removed by then; `OutcomeInv` that a script that runs has no outcome yet;
`MockInv` that a mock server belongs to a run already begun.

`ProvisioningProofs` proves, for every set of agents, every mapping, agents
listed twice included, and every number of runs and retries, from the
assumptions of `PrincipalRegistry` and `Provisioning`, the theorems
`Invariance`, `TypeCorrect`, `PassedRunsClaimed`, `CreationsFailTheRun` and
`FailuresFailTheRun`.  `TurnInv` says that the outcomes on record are those of
the turns that are over, so that no later claim overwrites a failure.
`BoundInv` follows the one fact about the API that is needed, that a bound
reference stays bound, from the answer to the record.  `TroubleInv` is what
makes `CreationFailsTheRun` hold although answers are lost: as long as a request
of this run has made an object, or may still make one when it arrives late, the
run has met a failure that is not retried.  It holds because only an attempt
answered with 429 is made again, and a 429 made nothing.  `Refinement` is
`Spec => ImplementsReconciliation`.  Its hard steps are `Pass`, where the command
looks at what it recorded and the abstract run at the API: both turns of a claim
succeeded (`CleanRun`), and `BoundInv` has kept what a success says of the API; and
`Make`, where a late request must not be one of a run that has passed: such a
request would be trouble, and a troubled run is doomed (`NothingFollowsPass`).

`BrokerCoreProofs` proves, for every configuration, every finite set of
executions and any secrets, from the assumptions of `BrokerCore`, the theorems
`Invariance`, `TypeCorrect`, `TheGateComesFirst`, `BearersAreOwn`,
`SecretsAreOwn`, `RefusedTokensAreGone`, `CacheIsDrivenRight` and
`SharedCacheIsSound`.  The cache is not proved again: the module instantiates
`TokenCacheProofs` with the calls and the keys of the broker, shows that its
assumptions hold there (`CacheAssumptions`) and that every step of the broker is
a step of the cache or leaves it alone (`NextIsCacheStep`).  `BearersAreOwn` is
then `TokenBinding` for the call an execution made with its own key (`CallsOf`).
`RefusedTokenGone` needs more than the cache's `RejectedStaysOut`, because the
refused token may have been replaced in the cache before the 401 came, and is
then not among those `invalidate()` deleted: `RefusedOf` says that nothing the
second call can get hold of, what it awaits, what it read before the await or
its own issuance, is that token.  At the 401 it holds because the turn runs when
no continuation is left, so that the owner of the refused token has resumed and
is pending nowhere (`InvalidatedIsGone`); afterwards because a granted token
never comes back into a map it is not in (`StaysOut`).  `SecretsAreOwn` follows
from `CredentialsAreOwn`, that a secret kept for an agent, or held by an
execution of it, is one of the agent's, and from the fact that the owner of an
issuance asks for its own quadruple.  `SharedCacheIsSound` brings four results
about the cache to the broker in one step, since a run of the broker is a run of
the cache.

`BrokerCoreRefinement` proves `Refinement`: `Spec => ImplementsService`, one lemma
for each kind of step.  It needs two more parts of the invariant.  `WaitsOf`: a
call of `getToken()` waits only while its execution waits for it, so that a token
is granted only to a key some execution needs.  `RenewalOf`: a second call has to
wait, and returns the very token it awaits.  At the 401 `invalidate()` has emptied
the entry, so the call neither hits nor has a token to fall back on, and since
the turn runs when no continuation is left, the promise it joins or creates has
not been fulfilled; that is why the token of a renewal is one the broker did not
have at the 401, and not merely a token other than the refused one.

Model-checked only: liveness (`EveryExecutionEnds` of the broker and of the
canary's tool, `EveryRunEnds`), which is out of the prover's reach.  Every other
property that a passing run checks is a theorem.

## Plan

1. done: `TokenCache`, its abstraction, proofs and refinement.
2. done: `BrokerCore` on top of it.
3. done: `PrincipalRegistry` and `Provisioning`.
4. done: `Lifecycle`.
5. done: `SecretFile` and `CanaryTool`, with their proofs.
6. done: `CanaryHost` around `Lifecycle`, with its proofs, the targets of
   `BrokerCore`, the report and the refusals of `Provisioning`,
   `OriginValidator` with its proof.
7. done: the proofs of `Provisioning` and `BrokerCore`, the latter from the
   theorems of `TokenCache`.
8. done: `BrokerService` and `Reconciliation`, with the proofs that `BrokerCore`
   and `Provisioning` implement them; whose secret a token is asked for with;
   what is left of the promise of `invalidate()`.
9. done: links, blocked opens and changes of mode in `SecretFile`; the records of
   group and user attribute by attribute, and the files in `/tmp`, in `Lifecycle`.
10. left: an abstract canary tool with the refinement of `CanaryPlugin` to it, and
   the same for the life of the canary host.

## Not modelled

Statistics counters, log lines and wording of results and errors; the names of
the proxy variables; probe mode; how arguments and files are parsed, beyond
whether they are refused; the three sources of a secret; HTTP headers and bodies
beyond the branch an answer takes; that `_cacheKey` joins with a character its
parts might contain; concurrent use of one `PrincipalRegistry` (its only caller
is sequential); the lines of the report that are constants of the code; the
removal of per-user directories by cleanup and its listing of leftover
processes; two scripts at once; a system that empties `/tmp`.  Spellings of an
origin that the URL parser accepts in yet other ways (tabs, full-width digits,
further forms of the IP address) are not listed one by one in `OriginValidator`:
to the validator all of them are a host that is not `127.0.0.1` to the letter.

`adc-mock-server.mjs` is a stateless fixture that answers one request from its
own headers; `verify-os-isolation.sh` and `dev-canary-setup.sh` are lists of
commands for development, and the tests are tests.
