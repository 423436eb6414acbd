--------------------------- MODULE CanaryHostProofs ---------------------------
(***************************************************************************)
(* Theorems about the scripts of the canary host, for every set of UIDs    *)
(* and every number of runs.                                               *)
(***************************************************************************)
EXTENDS CanaryHost, TLAPS

GroupSteps == {"group", "groupId", "groupName"}
UserSteps  == {"user", "userId", "attributes", "member"}
AssetSteps == SetupSteps \ (GroupSteps \cup UserSteps)

ExtensionSteps == {"manifestFile", "manifest", "digest", "workspace", "complete"}

\* What is on the host was made by a run that has begun; a group this run found
\* was made by an earlier one.
BegunInv ==
  /\ group # None => group.run <= runs
  /\ \A t \in temporary : t.run <= runs
  /\ step \in SetupSteps => runs > 0
  /\ step = "group" /\ group # None => group.run < runs

\* What setup has made by the time it takes a step.
GroupInv ==
  /\ step \in SetupSteps \ {"group"} => group \in Group
  /\ step \in {"groupId", "groupName"} => group.run = runs
  /\ step = "groupName" => group.gid
  /\ step \in UserSteps \cup AssetSteps => (group.run = runs => group.gid /\ group.named)

UserInv ==
  /\ step \in GroupSteps \cup {"user"} => user = None
  /\ step \in (UserSteps \ {"user"}) \cup AssetSteps => user \in User /\ user.run = runs
  /\ step \in {"attributes", "member"} \cup AssetSteps => user.uid \in Uids
  /\ step \in {"member"} \cup AssetSteps => user.full
  /\ step \in AssetSteps => user.member

MarkerInv ==
  /\ step \in AssetSteps \ {"markerFile", "marker"} =>
       marker \in Marker /\ marker.run = runs /\ marker.uid = user.uid
  /\ step \in {"workspace", "complete"} => marker.digest

FilesInv ==
  /\ step \in {"configFile", "config", "oldExtension", "extension"} \cup ExtensionSteps =>
       "secret" \in files
  /\ step \in {"oldExtension", "extension"} \cup ExtensionSteps => "config" \in files
  /\ step \in ExtensionSteps => "extension" \in files
  /\ step \in {"digest", "workspace", "complete"} => "manifest" \in files
  /\ step = "complete" => "workspace" \in files

\* Setup has at most one file in /tmp, the one it moves next.
TemporaryInv ==
  step \in SetupSteps =>
    \A t \in temporary : t.run < runs \/ (step \in Moved /\ t = TemporaryFile(step))

SetupInv == BegunInv /\ GroupInv /\ UserInv /\ MarkerInv /\ FilesInv /\ TemporaryInv

\* What cleanup has removed by then.
CleanupInv ==
  /\ step = "removeUser" => Accepts
  /\ step \in CleanupSteps \ {"removeUser"} => user = None
  /\ step \in {"removeDirectory", "removeWorkspace"} => group = None
  /\ step = "removeWorkspace" => marker = None /\ files \subseteq {"workspace"}

\* A script that runs has no outcome yet.
OutcomeInv ==
  /\ step # "none" => outcome = "none"
  /\ InstallationIsWhole
  /\ CleanupEmptiesItsPlaces
  /\ DeadCleanupCanFinish

IInv == TypeOK /\ SetupInv /\ CleanupInv /\ OutcomeInv

-----------------------------------------------------------------------------
(***************************************************************************)
(* Setup and cleanup.                                                      *)
(***************************************************************************)

\* Of a setup that does not run no more is left than what it has begun.
LEMMA NoSetup ==
  ASSUME step' \notin SetupSteps, BegunInv'
  PROVE  SetupInv'
  BY DEF SetupInv, BegunInv, GroupInv, UserInv, MarkerInv, FilesInv, TemporaryInv,
         SetupSteps, GroupSteps, UserSteps, AssetSteps, ExtensionSteps

LEMMA StartInv ==
  ASSUME IInv, StartSetup \/ StartCleanup
  PROVE  IInv'
  <1> USE RunsAssumption
  <1>1. CASE StartSetup /\ user = None
    <2>1. runs' = runs + 1 /\ runs \in Nat /\ runs' \in 0 .. MaxRuns /\ step' = "group"
      BY <1>1 DEF StartSetup, IInv, TypeOK
    <2>2. TypeOK'
      BY <1>1, <2>1 DEF StartSetup, IInv, TypeOK, SetupSteps
    <2>3. BegunInv' /\ TemporaryInv'
      <3>1. group # None => group.run \in Nat
        BY DEF IInv, TypeOK, Group
      <3>2. \A t \in temporary : t.run \in Nat
        BY DEF IInv, TypeOK
      <3> QED
        BY <1>1, <2>1, <3>1, <3>2 DEF StartSetup, IInv, SetupInv, BegunInv, TemporaryInv
    <2>4. GroupInv' /\ UserInv' /\ MarkerInv' /\ FilesInv'
      BY <1>1, <2>1 DEF StartSetup, GroupInv, UserInv, MarkerInv, FilesInv, SetupSteps,
                        GroupSteps, UserSteps, AssetSteps, ExtensionSteps
    <2>5. CleanupInv' /\ OutcomeInv'
      BY <1>1, <2>1 DEF StartSetup, CleanupInv, CleanupSteps, OutcomeInv,
                        InstallationIsWhole, CleanupEmptiesItsPlaces, DeadCleanupCanFinish
    <2> QED
      BY <2>2, <2>3, <2>4, <2>5 DEF IInv, SetupInv
  <1>2. CASE (StartSetup /\ user # None) \/ StartCleanup
    <2>1. step' \in {"none", "removeUser"} /\ (step' = "removeUser" => Accepts)
      BY <1>2 DEF StartSetup, StartCleanup
    <2>2. /\ UNCHANGED <<runs, user, group, marker, files, temporary>>
          /\ outcome' \in {"none", "refused"} /\ (step' # "none" => outcome' = "none")
      BY <1>2 DEF StartSetup, StartCleanup
    <2>3. TypeOK'
      BY <2>1, <2>2 DEF IInv, TypeOK, CleanupSteps
    <2>4. SetupInv'
      <3>1. step' \notin SetupSteps /\ BegunInv'
        BY <2>1, <2>2 DEF IInv, SetupInv, BegunInv, SetupSteps
      <3> QED
        BY <3>1, NoSetup
    <2>5. CleanupInv' /\ OutcomeInv'
      BY <2>1, <2>2 DEF CleanupInv, CleanupSteps, OutcomeInv, Accepts,
                        InstallationIsWhole, CleanupEmptiesItsPlaces, DeadCleanupCanFinish
    <2> QED
      BY <2>3, <2>4, <2>5 DEF IInv
  <1> QED
    BY <1>1, <1>2 DEF StartSetup

\* A step of a script leaves the outcome open, unless it is the last.
LEMMA OutcomeStaysOpen ==
  ASSUME IInv, step # "none", outcome' = outcome
  PROVE  OutcomeInv'
  BY DEF IInv, OutcomeInv, InstallationIsWhole, CleanupEmptiesItsPlaces, DeadCleanupCanFinish

LEMMA GroupStep ==
  ASSUME IInv, CreateGroup \/ SetGroupId \/ SetGroupName
  PROVE  IInv'
  <1>1. /\ step \in GroupSteps /\ step' \in {"groupId", "groupName", "user"}
        /\ outcome' = outcome
        /\ UNCHANGED <<runs, user, marker, files, temporary>>
    BY DEF CreateGroup, SetGroupId, SetGroupName, GroupSteps
  <1>2. runs \in Nat
    BY RunsAssumption DEF IInv, TypeOK
  <1>3. group' \in Group /\ group'.run <= runs /\ GroupInv'
    <2>1. CASE CreateGroup /\ group = None
      <3>1. /\ group' = [run |-> runs, gid |-> FALSE, named |-> FALSE]
            /\ step' = "groupId"
        BY <2>1 DEF CreateGroup
      <3>2. group' \in Group /\ group'.run = runs
        BY <1>2, <3>1 DEF Group
      <3> QED
        BY <1>1, <1>2, <3>1, <3>2 DEF GroupInv, UserSteps, AssetSteps, GroupSteps
    <2>2. CASE CreateGroup /\ group # None
      <3>1. group \in Group /\ group.run < runs /\ group' = group /\ step' = "user"
        BY <2>2 DEF CreateGroup, IInv, TypeOK, SetupInv, BegunInv
      <3> QED
        BY <1>1, <1>2, <3>1 DEF GroupInv, Group
    <2>3. CASE SetGroupId
      <3>1. group \in Group /\ group.run = runs
        BY <2>3 DEF SetGroupId, IInv, SetupInv, GroupInv, SetupSteps
      <3>2. group' \in Group /\ group'.run = runs /\ group'.gid /\ step' = "groupName"
        BY <2>3, <3>1 DEF SetGroupId, Group
      <3> QED
        BY <1>1, <1>2, <3>2 DEF GroupInv, UserSteps, AssetSteps, GroupSteps
    <2>4. CASE SetGroupName
      <3>1. group \in Group /\ group.run = runs /\ group.gid
        BY <2>4 DEF SetGroupName, IInv, SetupInv, GroupInv, SetupSteps
      <3>2. /\ group' \in Group /\ group'.run = runs /\ group'.gid /\ group'.named
            /\ step' = "user"
        BY <2>4, <3>1 DEF SetGroupName, Group
      <3> QED
        BY <1>1, <1>2, <3>2 DEF GroupInv
    <2> QED
      BY <2>1, <2>2, <2>3, <2>4
  <1>4. TypeOK'
    BY <1>1, <1>3 DEF IInv, TypeOK, SetupSteps
  <1>5. BegunInv' /\ UserInv' /\ MarkerInv' /\ FilesInv' /\ CleanupInv'
    <2>1. BegunInv'
      BY <1>1, <1>3 DEF IInv, SetupInv, BegunInv, GroupSteps, SetupSteps
    <2>2. UserInv' /\ MarkerInv' /\ FilesInv' /\ CleanupInv'
      BY <1>1 DEF IInv, SetupInv, UserInv, MarkerInv, FilesInv, CleanupInv, SetupSteps,
                  GroupSteps, UserSteps, AssetSteps, ExtensionSteps, CleanupSteps
    <2> QED
      BY <2>1, <2>2
  <1>6. TemporaryInv'
    BY <1>1 DEF IInv, SetupInv, TemporaryInv, GroupSteps, SetupSteps, Moved
  <1>7. OutcomeInv'
    BY <1>1, OutcomeStaysOpen DEF GroupSteps
  <1> QED
    BY <1>3, <1>4, <1>5, <1>6, <1>7 DEF IInv, SetupInv

LEMMA UserStep ==
  ASSUME IInv, CreateUser \/ SetUserId \/ SetAttributes \/ JoinGroup
  PROVE  IInv'
  <1>1. /\ step \in UserSteps /\ step' \in {"userId", "attributes", "member", "markerFile"}
        /\ outcome' = outcome /\ UNCHANGED <<runs, group, marker, files, temporary>>
    BY DEF CreateUser, SetUserId, SetAttributes, JoinGroup, UserSteps
  <1>2. runs \in Nat
    BY RunsAssumption DEF IInv, TypeOK
  <1>3. user' \in User /\ UserInv'
    <2>1. CASE CreateUser
      <3>1. user' \in User /\ user'.run = runs /\ step' = "userId"
        BY <2>1, <1>2 DEF CreateUser, User
      <3> QED
        BY <1>1, <3>1 DEF UserInv, UserSteps, GroupSteps, AssetSteps
    <2>2. CASE SetUserId
      <3>1. user \in User /\ user.run = runs
        BY <2>2 DEF SetUserId, IInv, SetupInv, UserInv, UserSteps
      <3>2. PICK uid \in Uids : user' = [user EXCEPT !.uid = uid]
        BY <2>2 DEF SetUserId
      <3>3. user' \in User /\ user'.run = runs /\ user'.uid \in Uids /\ step' = "attributes"
        BY <2>2, <3>1, <3>2 DEF SetUserId, User
      <3> QED
        BY <1>1, <3>3 DEF UserInv, UserSteps, GroupSteps, AssetSteps
    <2>3. CASE SetAttributes
      <3>1. user \in User /\ user.run = runs /\ user.uid \in Uids
        BY <2>3 DEF SetAttributes, IInv, SetupInv, UserInv, UserSteps
      <3>2. /\ user' \in User /\ user'.run = runs /\ user'.uid \in Uids /\ user'.full
            /\ step' = "member"
        BY <2>3, <3>1 DEF SetAttributes, User
      <3> QED
        BY <1>1, <3>2 DEF UserInv, UserSteps, GroupSteps, AssetSteps
    <2>4. CASE JoinGroup
      <3>1. user \in User /\ user.run = runs /\ user.uid \in Uids /\ user.full
        BY <2>4 DEF JoinGroup, IInv, SetupInv, UserInv, UserSteps
      <3>2. /\ user' \in User /\ user'.run = runs /\ user'.uid \in Uids /\ user'.full
            /\ user'.member /\ step' = "markerFile"
        BY <2>4, <3>1 DEF JoinGroup, User
      <3> QED
        BY <1>1, <3>2 DEF UserInv, UserSteps, GroupSteps
    <2> QED
      BY <2>1, <2>2, <2>3, <2>4
  <1>4. TypeOK'
    BY <1>1, <1>3 DEF IInv, TypeOK, SetupSteps
  <1>5. BegunInv' /\ GroupInv' /\ MarkerInv' /\ FilesInv' /\ CleanupInv'
    BY <1>1 DEF IInv, SetupInv, BegunInv, GroupInv, MarkerInv, FilesInv, CleanupInv,
                GroupSteps, UserSteps, AssetSteps, ExtensionSteps, SetupSteps, CleanupSteps
  <1>6. TemporaryInv'
    BY <1>1 DEF IInv, SetupInv, TemporaryInv, UserSteps, SetupSteps, Moved
  <1>7. OutcomeInv'
    BY <1>1, OutcomeStaysOpen DEF UserSteps
  <1> QED
    BY <1>3, <1>4, <1>5, <1>6, <1>7 DEF IInv, SetupInv

\* The steps after the user's leave user and group alone.
LEMMA AssetStep ==
  ASSUME IInv, step \in AssetSteps, step' \in AssetSteps,
         UNCHANGED <<runs, user, group, outcome>>
  PROVE  GroupInv' /\ UserInv' /\ CleanupInv' /\ OutcomeInv'
  <1>1. GroupInv' /\ UserInv'
    BY DEF IInv, SetupInv, GroupInv, UserInv, AssetSteps, GroupSteps, UserSteps, SetupSteps
  <1>2. CleanupInv'
    BY DEF CleanupInv, AssetSteps, SetupSteps, CleanupSteps
  <1>3. OutcomeInv'
    BY OutcomeStaysOpen DEF AssetSteps, SetupSteps
  <1> QED
    BY <1>1, <1>2, <1>3

LEMMA WriteStep ==
  ASSUME IInv,
         NEW now \in {"markerFile", "secretFile", "configFile", "manifestFile"},
         NEW asset \in Moved,
         now = "markerFile" <=> asset = "marker",
         now = "secretFile" <=> asset = "secret",
         now = "configFile" <=> asset = "config",
         WriteTemporary(now, asset)
  PROVE  IInv'
  <1>1. /\ step = now /\ step' = asset
        /\ UNCHANGED <<runs, user, group, marker, files, outcome>>
        /\ temporary' = temporary \cup {TemporaryFile(asset)}
    BY DEF WriteTemporary
  <1>2. step \in AssetSteps /\ step' \in AssetSteps /\ asset \in SetupSteps
    BY <1>1 DEF AssetSteps, SetupSteps, GroupSteps, UserSteps, Moved
  <1>3. GroupInv' /\ UserInv' /\ CleanupInv' /\ OutcomeInv'
    BY <1>1, <1>2, AssetStep
  <1>4. MarkerInv' /\ FilesInv'
    BY <1>1 DEF IInv, SetupInv, MarkerInv, FilesInv, AssetSteps, SetupSteps, GroupSteps,
                UserSteps, ExtensionSteps, Moved
  <1>5. runs \in 1 .. MaxRuns
    BY <1>2, RunsAssumption DEF IInv, TypeOK, SetupInv, BegunInv, AssetSteps
  <1>6. TypeOK' /\ BegunInv' /\ TemporaryInv'
    <2>1. /\ TemporaryFile(asset) \in [asset : Moved, run : 1 .. MaxRuns]
          /\ TemporaryFile(asset).run = runs
      BY <1>5 DEF TemporaryFile
    <2>2. TypeOK'
      BY <1>1, <1>2, <2>1 DEF IInv, TypeOK
    <2>3. BegunInv'
      BY <1>1, <1>5, <2>1 DEF IInv, SetupInv, BegunInv, Moved
    <2>4. TemporaryInv'
      <3>1. \A t \in temporary : t.run < runs
        BY <1>1, <1>2 DEF IInv, SetupInv, TemporaryInv, AssetSteps, Moved
      <3> QED
        BY <1>1, <3>1 DEF TemporaryInv, TemporaryFile
    <2> QED
      BY <2>2, <2>3, <2>4
  <1> QED
    BY <1>3, <1>4, <1>6 DEF IInv, SetupInv

\* mv takes the file out of /tmp.
LEMMA MovedAway ==
  ASSUME IInv, step \in AssetSteps, step' \in AssetSteps \ Moved, UNCHANGED runs,
         temporary' = temporary \ {TemporaryFile(step)}
  PROVE  /\ temporary' \subseteq [asset : Moved, run : 1 .. MaxRuns]
         /\ TemporaryInv'
  BY DEF IInv, TypeOK, SetupInv, TemporaryInv, AssetSteps

LEMMA MarkerStep ==
  ASSUME IInv, WriteMarker
  PROVE  IInv'
  <1>1. /\ step = "marker" /\ step' = "secretFile"
        /\ UNCHANGED <<runs, user, group, files, outcome>>
        /\ temporary' = temporary \ {TemporaryFile(step)}
    BY DEF WriteMarker
  <1>2. step \in AssetSteps /\ step' \in AssetSteps \ Moved
    BY <1>1 DEF AssetSteps, SetupSteps, GroupSteps, UserSteps, Moved
  <1>3. GroupInv' /\ UserInv' /\ CleanupInv' /\ OutcomeInv'
    BY <1>1, <1>2, AssetStep
  <1>4. temporary' \subseteq [asset : Moved, run : 1 .. MaxRuns] /\ TemporaryInv'
    BY <1>1, <1>2, MovedAway
  <1>5. runs \in Nat /\ user.uid \in Uids
    BY <1>2, RunsAssumption DEF IInv, TypeOK, SetupInv, UserInv
  <1>6. /\ marker' \in Marker /\ marker'.run = runs /\ marker'.uid = user.uid
        /\ ~marker'.complete
    BY <1>5 DEF WriteMarker, Marker
  <1>7. TypeOK'
    BY <1>1, <1>2, <1>4, <1>6 DEF IInv, TypeOK, AssetSteps
  <1>8. BegunInv' /\ MarkerInv' /\ FilesInv'
    BY <1>1, <1>2, <1>6 DEF IInv, SetupInv, BegunInv, MarkerInv, FilesInv, ExtensionSteps,
                            AssetSteps
  <1> QED
    BY <1>3, <1>4, <1>7, <1>8 DEF IInv, SetupInv

LEMMA InstallStep ==
  ASSUME IInv,
         \/ Install("secret", "configFile") \/ Install("config", "oldExtension")
         \/ Install("extension", "manifestFile") \/ Install("manifest", "digest")
         \/ Install("workspace", "complete")
  PROVE  IInv'
  <1>1. /\ UNCHANGED <<runs, user, group, marker, outcome>>
        /\ temporary' = temporary \ {TemporaryFile(step)}
        /\ files' = files \cup {step} /\ step \in Assets
        /\ \/ step = "secret" /\ step' = "configFile"
           \/ step = "config" /\ step' = "oldExtension"
           \/ step = "extension" /\ step' = "manifestFile"
           \/ step = "manifest" /\ step' = "digest"
           \/ step = "workspace" /\ step' = "complete"
    BY DEF Install, Assets
  <1>2. step \in AssetSteps /\ step' \in AssetSteps \ Moved
    BY <1>1 DEF AssetSteps, SetupSteps, GroupSteps, UserSteps, Moved
  <1>3. GroupInv' /\ UserInv' /\ CleanupInv' /\ OutcomeInv'
    BY <1>1, <1>2, AssetStep
  <1>4. temporary' \subseteq [asset : Moved, run : 1 .. MaxRuns] /\ TemporaryInv'
    BY <1>1, <1>2, MovedAway
  <1>5. TypeOK'
    BY <1>1, <1>2, <1>4 DEF IInv, TypeOK, AssetSteps
  <1>6. FilesInv'
    BY <1>1 DEF IInv, SetupInv, FilesInv, ExtensionSteps
  <1>7. BegunInv' /\ MarkerInv'
    BY <1>1, <1>2 DEF IInv, SetupInv, BegunInv, MarkerInv, AssetSteps
  <1> QED
    BY <1>3, <1>4, <1>5, <1>6, <1>7 DEF IInv, SetupInv

LEMMA ExtensionStep ==
  ASSUME IInv, RemoveOldExtension \/ RecordDigest
  PROVE  IInv'
  <1>1. /\ UNCHANGED <<runs, user, group, temporary, outcome>>
        /\ \/ step = "oldExtension" /\ step' = "extension"
           \/ step = "digest" /\ step' = "workspace"
    BY DEF RemoveOldExtension, RecordDigest
  <1>2. step \in AssetSteps \ Moved /\ step' \in AssetSteps \ Moved
    BY <1>1 DEF AssetSteps, SetupSteps, GroupSteps, UserSteps, Moved
  <1>3. GroupInv' /\ UserInv' /\ CleanupInv' /\ OutcomeInv'
    BY <1>1, <1>2, AssetStep
  <1>4. BegunInv' /\ TemporaryInv'
    BY <1>1, <1>2 DEF IInv, SetupInv, BegunInv, TemporaryInv, AssetSteps
  <1>5. marker \in Marker /\ marker.run = runs /\ marker.uid = user.uid
    BY <1>1, <1>2 DEF IInv, SetupInv, MarkerInv
  <1>6. TypeOK' /\ MarkerInv' /\ FilesInv'
    <2>1. CASE RemoveOldExtension
      BY <1>1, <1>2, <2>1 DEF RemoveOldExtension, IInv, TypeOK, SetupInv, MarkerInv, FilesInv,
                              ExtensionSteps, AssetSteps
    <2>2. CASE RecordDigest
      <3>1. /\ marker' \in Marker /\ marker'.run = runs /\ marker'.uid = user.uid
            /\ marker'.digest
        BY <1>5, <2>2 DEF RecordDigest, Marker
      <3> QED
        BY <1>1, <1>2, <2>2, <3>1 DEF RecordDigest, IInv, TypeOK, SetupInv, MarkerInv, FilesInv,
                                      ExtensionSteps, AssetSteps
    <2> QED
      BY <2>1, <2>2
  <1> QED
    BY <1>3, <1>4, <1>6 DEF IInv, SetupInv

LEMMA CompleteStep ==
  ASSUME IInv, CompleteSetup
  PROVE  IInv'
  <1>1. /\ step = "complete" /\ step' = "none" /\ outcome' = "installed"
        /\ UNCHANGED <<runs, user, group, files, temporary>>
    BY DEF CompleteSetup
  <1>2. step \in AssetSteps /\ step \in SetupSteps /\ step \notin Moved
    BY <1>1 DEF AssetSteps, SetupSteps, GroupSteps, UserSteps, Moved
  <1>3. marker \in Marker /\ marker.run = runs /\ marker.uid = user.uid /\ marker.digest
    BY <1>1, <1>2 DEF IInv, SetupInv, MarkerInv
  <1>4. /\ marker' \in Marker /\ marker'.run = runs /\ marker'.uid = user.uid
        /\ marker'.digest
    BY <1>3 DEF CompleteSetup, Marker
  <1>5. TypeOK'
    BY <1>1, <1>4 DEF IInv, TypeOK
  <1>6. SetupInv'
    <2>1. BegunInv'
      BY <1>1 DEF IInv, SetupInv, BegunInv, SetupSteps
    <2> QED
      BY <1>1, <2>1, NoSetup DEF SetupSteps
  <1>7. CleanupInv'
    BY <1>1 DEF CleanupInv, CleanupSteps
  <1>8. InstallationIsWhole'
    <2>1. /\ user \in User /\ user.run = runs /\ user.full /\ user.member
          /\ group \in Group /\ (group.run = runs => group.gid /\ group.named)
      BY <1>2 DEF IInv, SetupInv, UserInv, GroupInv, AssetSteps, GroupSteps
    <2>2. files = Assets
      BY <1>1 DEF IInv, TypeOK, SetupInv, FilesInv, ExtensionSteps, Assets
    <2>3. \A t \in temporary : t.run < runs
      BY <1>2 DEF IInv, SetupInv, TemporaryInv
    <2> QED
      BY <1>1, <1>4, <2>1, <2>2, <2>3, NoneAssumption DEF InstallationIsWhole
  <1> QED
    BY <1>1, <1>5, <1>6, <1>7, <1>8
       DEF IInv, OutcomeInv, CleanupEmptiesItsPlaces, DeadCleanupCanFinish

LEMMA RemovalStep ==
  ASSUME IInv, Cleanup
  PROVE  IInv'
  <1>1. /\ step \in CleanupSteps /\ step' \in CleanupSteps \cup {"none"}
        /\ UNCHANGED <<runs, temporary>> /\ group' \in {group, None}
    BY DEF Cleanup, RemoveUser, RemoveGroup, RemoveEntry, DirectoryRemoved,
           RemoveWorkspace, CleanupSteps
  <1>2. SetupInv'
    <2>1. step' \notin SetupSteps /\ BegunInv'
      BY <1>1 DEF IInv, SetupInv, BegunInv, SetupSteps, CleanupSteps
    <2> QED
      BY <2>1, NoSetup
  <1>3. CASE RemoveUser \/ RemoveGroup
    BY <1>2, <1>3, OutcomeStaysOpen
       DEF RemoveUser, RemoveGroup, IInv, TypeOK, CleanupInv, SetupSteps, CleanupSteps
  <1>4. CASE RemoveEntry
    BY <1>2, <1>4, OutcomeStaysOpen
       DEF RemoveEntry, IInv, TypeOK, CleanupInv, SetupSteps, CleanupSteps
  <1>5. CASE DirectoryRemoved
    BY <1>2, <1>5, OutcomeStaysOpen
       DEF DirectoryRemoved, IInv, TypeOK, CleanupInv, SetupSteps, CleanupSteps
  <1>6. CASE RemoveWorkspace
    BY <1>2, <1>6 DEF RemoveWorkspace, IInv, TypeOK, CleanupInv, SetupSteps, CleanupSteps,
                OutcomeInv, InstallationIsWhole, CleanupEmptiesItsPlaces, DeadCleanupCanFinish
  <1> QED
    BY <1>3, <1>4, <1>5, <1>6 DEF Cleanup

LEMMA DieStep ==
  ASSUME IInv, Die
  PROVE  IInv'
  <1>1. TypeOK' /\ CleanupInv'
    BY DEF Die, IInv, TypeOK, CleanupInv, SetupSteps, CleanupSteps
  <1>2. SetupInv'
    <2>1. step' \notin SetupSteps /\ BegunInv'
      BY DEF Die, IInv, SetupInv, BegunInv, SetupSteps
    <2> QED
      BY <2>1, NoSetup
  <1>3. step \in CleanupSteps => Accepts
    BY DEF IInv, CleanupInv, CleanupSteps, Accepts
  <1>4. outcome' = "cleanupDied" => step \in CleanupSteps
    BY DEF Die, IInv, TypeOK
  <1>5. Accepts' <=> Accepts
    BY DEF Die, Accepts
  <1>6. OutcomeInv'
    BY <1>3, <1>4, <1>5 DEF Die, OutcomeInv, InstallationIsWhole, CleanupEmptiesItsPlaces,
                            DeadCleanupCanFinish
  <1> QED
    BY <1>1, <1>2, <1>6 DEF IInv

LEMMA InitInv == Init => IInv
  <1> SUFFICES ASSUME Init PROVE IInv
    OBVIOUS
  <1>1. TypeOK
    <2>1. 0 \in 0 .. MaxRuns
      BY RunsAssumption
    <2> QED
      BY <2>1 DEF Init, TypeOK
  <1>2. SetupInv /\ CleanupInv
    BY DEF Init, SetupInv, BegunInv, GroupInv, UserInv, MarkerInv, FilesInv, TemporaryInv,
           CleanupInv, SetupSteps, CleanupSteps, GroupSteps, UserSteps, AssetSteps,
           ExtensionSteps
  <1>3. OutcomeInv
    BY DEF Init, OutcomeInv, InstallationIsWhole, CleanupEmptiesItsPlaces,
           DeadCleanupCanFinish
  <1> QED
    BY <1>1, <1>2, <1>3 DEF IInv

LEMMA NextInv == IInv /\ [Next]_vars => IInv'
  <1> SUFFICES ASSUME IInv, [Next]_vars PROVE IInv'
    OBVIOUS
  <1>1. CASE \/ WriteTemporary("markerFile", "marker") \/ WriteTemporary("secretFile", "secret")
             \/ WriteTemporary("configFile", "config")
             \/ WriteTemporary("manifestFile", "manifest")
    BY <1>1, WriteStep DEF Moved
  <1>2. CASE Setup
    BY <1>1, <1>2, GroupStep, UserStep, MarkerStep, InstallStep, ExtensionStep, CompleteStep
       DEF Setup
  <1>3. CASE StartSetup \/ StartCleanup \/ Cleanup \/ Die
    BY <1>3, StartInv, RemovalStep, DieStep
  <1>4. CASE UNCHANGED vars
    BY <1>4 DEF vars, IInv, TypeOK, SetupInv, BegunInv, GroupInv, UserInv, MarkerInv, FilesInv,
                TemporaryInv, TemporaryFile, CleanupInv, OutcomeInv, InstallationIsWhole,
                CleanupEmptiesItsPlaces, DeadCleanupCanFinish, Accepts
  <1> QED
    BY <1>2, <1>3, <1>4 DEF Next

-----------------------------------------------------------------------------
(***************************************************************************)
(* start-canary.sh.                                                        *)
(***************************************************************************)

\* Of the servers of start-canary.sh: they belong to runs that were begun.
MockInv ==
  /\ mock # None => mock <= starts
  /\ MockOutlivesBrokenRuns

HostInv == IInv /\ HostTypeOK /\ MockInv

LEMMA EndStartType ==
  ASSUME HostInv, at # "none",
         NEW how \in {"unhealthy", "silent", "complete", "died"}, EndStart(how)
  PROVE  /\ starts \in StartRuns
         /\ ended' \in [StartRuns -> {"none", "refused", "unhealthy", "silent", "complete", "died"}]
         /\ ended'[starts] = how
         /\ \A r \in StartRuns \ {starts} : ended'[r] = ended[r]
  BY StartsAssumption DEF HostInv, HostTypeOK, EndStart, StartRuns

\* What start-canary.sh and its servers do leaves the installation alone.
LEMMA RunInv ==
  ASSUME HostInv, Run \/ StartDies \/ ServerDies, UNCHANGED vars
  PROVE  HostInv'
  <1> USE StartsAssumption DEF StartSteps
  <1>1. IInv'
    BY NextInv DEF HostInv
  <1>2. TypeOK'
    BY <1>1 DEF IInv
  <1>3. CASE StartCanary
    <2>1. /\ starts \in Nat /\ starts' = starts + 1 /\ starts' \in StartRuns
          /\ starts' > 0 /\ starts' \in 0 .. MaxStarts
      BY <1>3 DEF StartCanary, HostInv, HostTypeOK, StartRuns
    <2>2. /\ ended' \in [StartRuns -> {"none", "refused", "unhealthy", "silent", "complete", "died"}]
          /\ \A r \in StartRuns \ {starts'} : ended'[r] = ended[r]
      BY <1>3, <2>1 DEF StartCanary, HostInv, HostTypeOK
    <2>3. HostTypeOK'
      BY <1>2, <1>3, <2>1, <2>2 DEF StartCanary, NoScript, HostInv, HostTypeOK, vars
    <2>4. MockInv'
      BY <1>3, <2>1, <2>2 DEF StartCanary, NoScript, HostInv, HostTypeOK, MockInv,
                              MockOutlivesBrokenRuns, StartRuns
    <2> QED
      BY <1>1, <2>3, <2>4 DEF HostInv
  <1>4. CASE StartMock \/ StopGateway \/ StartGateway \/ GatewayHealthy
    <2>1. HostTypeOK'
      BY <1>2, <1>4 DEF StartMock, StopGateway, StartGateway, GatewayHealthy, HostInv,
                        HostTypeOK, StartRuns, vars
    <2>2. MockInv'
      BY <1>4 DEF StartMock, StopGateway, StartGateway, GatewayHealthy, HostInv,
                  HostTypeOK, MockInv, MockOutlivesBrokenRuns, StartRuns
    <2> QED
      BY <1>1, <2>1, <2>2 DEF HostInv
  <1>5. CASE GatewayUnhealthy \/ StopMock
    <2>1. PICK how \in {"unhealthy", "complete"} : EndStart(how)
      BY <1>5 DEF GatewayUnhealthy, StopMock
    <2>2. KillMock /\ at # "none" /\ UNCHANGED <<starts, gateway>>
      BY <1>5 DEF GatewayUnhealthy, StopMock
    <2>3. HostTypeOK'
      BY <1>2, <2>1, <2>2, EndStartType DEF KillMock, EndStart, HostInv, HostTypeOK, vars
    <2>4. MockInv'
      BY <2>1, <2>2, EndStartType DEF KillMock, EndStart, HostInv, HostTypeOK, MockInv,
                                      MockOutlivesBrokenRuns
    <2> QED
      BY <1>1, <2>3, <2>4 DEF HostInv
  <1>6. CASE MessageAnswered /\ UNCHANGED ended
    BY <1>1, <1>2, <1>6 DEF MessageAnswered, HostInv, HostTypeOK, MockInv,
                            MockOutlivesBrokenRuns, EndStart, vars
  <1>7. CASE (MessageAnswered /\ EndStart("silent")) \/ StartDies
    <2>1. PICK how \in {"silent", "died"} : EndStart(how)
      BY <1>7 DEF StartDies
    <2>2. at # "none" /\ UNCHANGED <<starts, mock, gateway>>
      BY <1>7 DEF MessageAnswered, StartDies
    <2>3. HostTypeOK'
      BY <1>2, <2>1, <2>2, EndStartType DEF EndStart, HostInv, HostTypeOK, vars
    <2>4. MockInv'
      BY <2>1, <2>2, EndStartType DEF EndStart, HostInv, HostTypeOK, MockInv,
                                      MockOutlivesBrokenRuns
    <2> QED
      BY <1>1, <2>3, <2>4 DEF HostInv
  <1>8. CASE ServerDies
    BY <1>1, <1>2, <1>8 DEF ServerDies, HostInv, HostTypeOK, MockInv,
                            MockOutlivesBrokenRuns, vars
  <1> QED
    BY <1>3, <1>4, <1>5, <1>6, <1>7, <1>8 DEF Run, MessageAnswered

LEMMA HostNextInv == HostInv /\ [HostNext]_hostVars => HostInv'
  <1> SUFFICES ASSUME HostInv, [HostNext]_hostVars PROVE HostInv'
    OBVIOUS
  <1>1. CASE (at = "none" /\ Next /\ UNCHANGED startVars) \/ UNCHANGED hostVars
    <2>1. IInv'
      BY <1>1, NextInv DEF HostInv, hostVars
    <2>2. UNCHANGED startVars /\ (at = "none" \/ UNCHANGED step)
      BY <1>1 DEF hostVars, vars
    <2> QED
      BY <2>1, <2>2 DEF HostInv, IInv, HostTypeOK, MockInv, MockOutlivesBrokenRuns, startVars
  <1>2. CASE (Run \/ StartDies \/ ServerDies) /\ UNCHANGED vars
    BY <1>2, RunInv
  <1> QED
    BY <1>1, <1>2 DEF HostNext

LEMMA HostInitInv == HostInit => HostInv
  BY InitInv, StartsAssumption
     DEF HostInit, HostInv, IInv, HostTypeOK, MockInv, MockOutlivesBrokenRuns

-----------------------------------------------------------------------------
\* The inductive invariant of the host and all of its scripts.
THEOREM Invariance == HostSpec => []HostInv
  BY HostInitInv, HostNextInv, PTL DEF HostSpec

\* Type correctness; the marker and the digest come in the order setup writes
\* them (setup-canary.sh:92-223).
THEOREM TypeCorrect == HostSpec => []HostTypeOK
  BY Invariance, PTL DEF HostInv

\* A setup that ends well has adopted nothing of an earlier run but its group
\* (setup-canary.sh:44-69), and has left nothing in /tmp (:92-181).
THEOREM InstallationsAreWhole == HostSpec => []InstallationIsWhole
  BY Invariance, PTL DEF HostInv, IInv, OutcomeInv

\* A cleanup that ends well leaves nothing where it looks: user, group, directory
\* and workspace (cleanup-canary.sh:128-156).
THEOREM CleanupsEmptyTheirPlaces == HostSpec => []CleanupEmptiesItsPlaces
  BY Invariance, PTL DEF HostInv, IInv, OutcomeInv

\* A cleanup that died is accepted when it is run again
\* (cleanup-canary.sh:50-139).
THEOREM DeadCleanupsCanFinish == HostSpec => []DeadCleanupCanFinish
  BY Invariance, PTL DEF HostInv, IInv, OutcomeInv

\* Only a start that died, or found nothing to print, leaves its mock server
\* (start-canary.sh:54-112).
THEOREM MocksOutliveBrokenRuns == HostSpec => []MockOutlivesBrokenRuns
  BY Invariance, PTL DEF HostInv, MockInv
=============================================================================
