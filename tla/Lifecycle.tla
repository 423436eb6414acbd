------------------------------ MODULE Lifecycle ------------------------------
(***************************************************************************)
(* The canary host: scripts/setup-canary.sh and cleanup-canary.sh, step by *)
(* step.  A script may die between any two steps (a failing command under  *)
(* `set -e`, a signal, a reboot), and the operator then runs one of the    *)
(* two again.  One script runs at a time.                                  *)
(***************************************************************************)
EXTENDS Naturals

CONSTANTS
  Uids,    \* the UIDs a new user may get: one more than the highest in use
  None,
  MaxRuns  \* bound of the model: how many setups are not refused

ASSUME UidsAssumption == Uids \subseteq Nat \ {0} /\ None \notin Uids
ASSUME RunsAssumption == MaxRuns \in Nat

VARIABLES
  step,       \* the step the running script is about to take; "none": no script
  runs,       \* history: how many setups were not refused; the RUN_ID of the last
  user,       \* the canary user record
  group,      \* the canary group record
  marker,     \* the setup marker
  files,      \* the other assets on the host
  temporary,  \* files of setup in /tmp
  outcome     \* how the last script ended

vars == <<step, runs, user, group, marker, files, temporary, outcome>>

\* All but the workspace lie in /private/etc/oc-canary, beside the marker.
Assets == {"secret", "config", "extension", "manifest", "workspace"}

\* What is written to /tmp first and then moved to its place.
Moved == {"marker", "secret", "config", "manifest"}

SetupSteps ==
  {"group", "groupId", "groupName", "user", "userId", "attributes", "member",
   "markerFile", "marker", "secretFile", "secret", "configFile", "config",
   "oldExtension", "extension", "manifestFile", "manifest", "digest", "workspace",
   "complete"}

CleanupSteps == {"removeUser", "removeGroup", "removeDirectory", "removeWorkspace"}

\* Records of the directory service, attribute by attribute; run: the setup that
\* made them.  full: shell and home are set; member: of the canary group.
User   == [run : Nat, uid : Uids \cup {None}, full : BOOLEAN, member : BOOLEAN]
Group  == [run : Nat, gid : BOOLEAN, named : BOOLEAN]
Marker == [run : Nat, uid : Uids, digest : BOOLEAN, complete : BOOLEAN]

ASSUME NoneAssumption == None \notin User /\ None \notin Group /\ None \notin Marker

Init ==
  /\ step = "none"
  /\ runs = 0
  /\ user = None
  /\ group = None
  /\ marker = None
  /\ files = {}
  /\ temporary = {}
  /\ outcome = "none"

-----------------------------------------------------------------------------
(***************************************************************************)
(* setup-canary.sh                                                         *)
(***************************************************************************)

\* Mutant: a user that exists is adopted.
StartSetupAnyway ==
  /\ step = "none"
  /\ runs < MaxRuns
  /\ runs' = runs + 1
  /\ outcome' = "none"
  /\ step' = IF user = None THEN "group" ELSE "markerFile"
  /\ UNCHANGED <<user, group, marker, files, temporary>>

\* The pre-check refuses when the user exists.
StartSetup ==
  /\ step = "none"
  /\ \/ /\ user = None
        /\ runs < MaxRuns
        /\ runs' = runs + 1
        /\ step' = "group"
        /\ outcome' = "none"
     \/ /\ user # None
        /\ outcome' = "refused"
        /\ UNCHANGED <<step, runs>>
  /\ UNCHANGED <<user, group, marker, files, temporary>>

\* A group that exists is taken as it is.
CreateGroup ==
  /\ step = "group"
  /\ IF group = None
       THEN /\ group' = [run |-> runs, gid |-> FALSE, named |-> FALSE]
            /\ step' = "groupId"
       ELSE step' = "user" /\ UNCHANGED group
  /\ UNCHANGED <<runs, user, marker, files, temporary, outcome>>

SetGroupId ==
  /\ step = "groupId"
  /\ group' = [group EXCEPT !.gid = TRUE]
  /\ step' = "groupName"
  /\ UNCHANGED <<runs, user, marker, files, temporary, outcome>>

SetGroupName ==
  /\ step = "groupName"
  /\ group' = [group EXCEPT !.named = TRUE]
  /\ step' = "user"
  /\ UNCHANGED <<runs, user, marker, files, temporary, outcome>>

CreateUser ==
  /\ step = "user"
  /\ user' = [run |-> runs, uid |-> None, full |-> FALSE, member |-> FALSE]
  /\ step' = "userId"
  /\ UNCHANGED <<runs, group, marker, files, temporary, outcome>>

SetUserId ==
  /\ step = "userId"
  /\ \E uid \in Uids : user' = [user EXCEPT !.uid = uid]
  /\ step' = "attributes"
  /\ UNCHANGED <<runs, group, marker, files, temporary, outcome>>

SetAttributes ==
  /\ step = "attributes"
  /\ user' = [user EXCEPT !.full = TRUE]
  /\ step' = "member"
  /\ UNCHANGED <<runs, group, marker, files, temporary, outcome>>

JoinGroup ==
  /\ step = "member"
  /\ user' = [user EXCEPT !.member = TRUE]
  /\ step' = "markerFile"
  /\ UNCHANGED <<runs, group, marker, files, temporary, outcome>>

\* Both kinds of name are new in each run: RUN_ID, mktemp.
TemporaryFile(asset) == [asset |-> asset, run |-> runs]

WriteTemporary(now, asset) ==
  /\ step = now
  /\ temporary' = temporary \cup {TemporaryFile(asset)}
  /\ step' = asset
  /\ UNCHANGED <<runs, user, group, marker, files, outcome>>

\* Mutant: the marker records the highest UID in use before the user came.
MarkHighestUid ==
  /\ step = "marker"
  /\ marker' = [run |-> runs, uid |-> user.uid - 1, digest |-> FALSE, complete |-> FALSE]
  /\ temporary' = temporary \ {TemporaryFile("marker")}
  /\ step' = "secretFile"
  /\ UNCHANGED <<runs, user, group, files, outcome>>

\* mv puts the new marker in the place of an old one.
WriteMarker ==
  /\ step = "marker"
  /\ marker' = [run |-> runs, uid |-> user.uid, digest |-> FALSE, complete |-> FALSE]
  /\ temporary' = temporary \ {TemporaryFile("marker")}
  /\ step' = "secretFile"
  /\ UNCHANGED <<runs, user, group, files, outcome>>

\* An asset is put in its place, over what an earlier run may have left there.
Install(asset, next) ==
  /\ step = asset
  /\ files' = files \cup {asset}
  /\ temporary' = temporary \ {TemporaryFile(asset)}
  /\ step' = next
  /\ UNCHANGED <<runs, user, group, marker, outcome>>

\* The load directory, with the manifest in it, is made anew.
RemoveOldExtension ==
  /\ step = "oldExtension"
  /\ files' = files \ {"extension", "manifest"}
  /\ step' = "extension"
  /\ UNCHANGED <<runs, user, group, marker, temporary, outcome>>

\* The digest of the extension's entry is appended to the marker.
RecordDigest ==
  /\ step = "digest"
  /\ marker' = [marker EXCEPT !.digest = TRUE]
  /\ step' = "workspace"
  /\ UNCHANGED <<runs, user, group, files, temporary, outcome>>

CompleteSetup ==
  /\ step = "complete"
  /\ marker' = [marker EXCEPT !.complete = TRUE]
  /\ step' = "none"
  /\ outcome' = "installed"
  /\ UNCHANGED <<runs, user, group, files, temporary>>

Setup ==
  \/ CreateGroup \/ SetGroupId \/ SetGroupName
  \/ CreateUser \/ SetUserId \/ SetAttributes \/ JoinGroup
  \/ WriteTemporary("markerFile", "marker") \/ WriteMarker
  \/ WriteTemporary("secretFile", "secret") \/ Install("secret", "configFile")
  \/ WriteTemporary("configFile", "config") \/ Install("config", "oldExtension")
  \/ RemoveOldExtension \/ Install("extension", "manifestFile")
  \/ WriteTemporary("manifestFile", "manifest") \/ Install("manifest", "digest")
  \/ RecordDigest
  \/ Install("workspace", "complete")
  \/ CompleteSetup

-----------------------------------------------------------------------------
(***************************************************************************)
(* cleanup-canary.sh                                                       *)
(***************************************************************************)

\* V1 to V7: a user that exists must be the one the marker tells of.
Accepts ==
  user = None \/ (marker # None /\ marker.uid = user.uid /\ user.full)

\* Mutant: without a user there is nothing to clean.
StartCleanupWithUser ==
  /\ step = "none"
  /\ \/ user = None /\ step' = "none" /\ outcome' = "cleaned"
     \/ user # None /\ Accepts /\ step' = "removeUser" /\ outcome' = "none"
  /\ UNCHANGED <<runs, user, group, marker, files, temporary>>

\* Mutant: the directory, and the marker in it, goes first.
StartWithDirectory ==
  /\ step = "none"
  /\ Accepts
  /\ step' = "removeDirectory"
  /\ outcome' = "none"
  /\ UNCHANGED <<runs, user, group, marker, files, temporary>>

StartCleanup ==
  /\ step = "none"
  /\ IF Accepts THEN step' = "removeUser" /\ outcome' = "none"
                ELSE step' = "none" /\ outcome' = "refused"
  /\ UNCHANGED <<runs, user, group, marker, files, temporary>>

RemoveUser ==
  /\ step = "removeUser"
  /\ user' = None
  /\ step' = "removeGroup"
  /\ UNCHANGED <<runs, group, marker, files, temporary, outcome>>

RemoveGroup ==
  /\ step = "removeGroup"
  /\ group' = None
  /\ step' = "removeDirectory"
  /\ UNCHANGED <<runs, user, marker, files, temporary, outcome>>

\* rm -rf /private/etc/oc-canary takes its entries in any order.
RemoveEntry ==
  /\ step = "removeDirectory"
  /\ \/ marker # None /\ marker' = None /\ UNCHANGED files
     \/ \E asset \in files \ {"workspace"} :
          files' = files \ {asset} /\ UNCHANGED marker
  /\ UNCHANGED <<step, runs, user, group, temporary, outcome>>

DirectoryRemoved ==
  /\ step = "removeDirectory"
  /\ marker = None
  /\ files \subseteq {"workspace"}
  /\ step' = "removeWorkspace"
  /\ UNCHANGED <<runs, user, group, marker, files, temporary, outcome>>

RemoveWorkspace ==
  /\ step = "removeWorkspace"
  /\ files' = files \ {"workspace"}
  /\ step' = "none"
  /\ outcome' = "cleaned"
  /\ UNCHANGED <<runs, user, group, marker, temporary>>

Cleanup ==
  RemoveUser \/ RemoveGroup \/ RemoveEntry \/ DirectoryRemoved \/ RemoveWorkspace

-----------------------------------------------------------------------------
\* The running script ends before its next step.
Die ==
  /\ step # "none"
  /\ step' = "none"
  /\ outcome' = IF step \in SetupSteps THEN "setupDied" ELSE "cleanupDied"
  /\ UNCHANGED <<runs, user, group, marker, files, temporary>>

Next == StartSetup \/ Setup \/ StartCleanup \/ Cleanup \/ Die

Spec == Init /\ [][Next]_vars

-----------------------------------------------------------------------------
(***************************************************************************)
(* Properties.                                                             *)
(***************************************************************************)

\* Type correctness; the marker always tells a UID a user was given, and a
\* marker that says SETUP_COMPLETE has the digest of the extension.
TypeOK ==
  /\ step \in SetupSteps \cup CleanupSteps \cup {"none"}
  /\ runs \in 0 .. MaxRuns
  /\ user \in User \cup {None}
  /\ group \in Group \cup {None}
  /\ marker \in Marker \cup {None}
  /\ files \subseteq Assets
  /\ temporary \subseteq [asset : Moved, run : 1 .. MaxRuns]
  /\ outcome \in {"none", "installed", "cleaned", "refused", "setupDied", "cleanupDied"}
  /\ marker # None => (marker.complete => marker.digest)

\* "EXISTING_USER_ADOPTION_ALLOWED=false" (setup-canary.sh:55): a setup that
\* ends well leaves a user and a marker of that very run, which name each other,
\* all assets, and nothing of its own in /tmp, whatever earlier scripts that died
\* left behind.  Of the group that much holds only if this run made it: one that
\* an earlier setup left without GID or name is taken as it is (line 68).
InstallationIsWhole ==
  outcome = "installed" =>
    /\ user # None /\ user.run = runs /\ user.full /\ user.member
    /\ marker # None /\ marker.run = runs /\ marker.uid = user.uid
    /\ group # None
    /\ group.run = runs => group.gid /\ group.named
    /\ files = Assets
    /\ \A t \in temporary : t.run < runs

\* "Idempotent" (cleanup-canary.sh:15): a cleanup that ends well leaves nothing
\* in the places it looks into, also when an earlier one died after the user was
\* gone.  It does not look into /tmp: see CleanupIsComplete.
CleanupEmptiesItsPlaces ==
  outcome = "cleaned" => user = None /\ group = None /\ marker = None /\ files = {}

\* "Clean up all temporary canary assets." (cleanup-canary.sh:3): nothing that a
\* setup wrote to /tmp is there after a cleanup that ends well.
CleanupIsComplete == outcome = "cleaned" => temporary = {}

\* "Idempotent" (cleanup-canary.sh:15): a cleanup that died can be run again,
\* and is not refused because of what the first one removed.
DeadCleanupCanFinish == outcome = "cleanupDied" => Accepts

\* "Run cleanup first." (setup-canary.sh:54): when setup would refuse because
\* the user exists, cleanup does not refuse.
CleanupComesToHelp == step = "none" => Accepts
=============================================================================
