------------------------------ MODULE Restore ------------------------------
(***************************************************************************)
(* Backup bundles and their restore (operations/backup.go,                 *)
(* api/system_backup.go, app.go): a bundle is validated and staged while   *)
(* the server runs, and applied by the next start before the database is   *)
(* opened.  The process can die, and a file operation can fail, between    *)
(* any two steps; a start that fails exits, and the next one begins again. *)
(*                                                                         *)
(* The data directory is a function from its top-level entries to the      *)
(* version of what they hold; 0 is an entry that is not there.             *)
(***************************************************************************)
EXTENDS Integers, FiniteSets

CONSTANTS DataEntries, Database,
          MaxVersion,  \* bound: changes of the data
          MaxSeconds,  \* bound: the clock that names the safety bundles
          MaxCrashes   \* bound: crashes, restarts and failed steps

ASSUME RestoreAssumption ==
  /\ Database \in DataEntries
  /\ {MaxVersion, MaxSeconds, MaxCrashes} \subseteq Nat

VARIABLES
  data,      \* the data directory
  version,   \* counter of the changes the running server makes
  bundle,    \* the downloaded backup, as far as it is written, or NoBundle
  pending,   \* the staged bundle, or NoBundle
  safety,    \* the safety bundles, by the second that names them
  work,      \* the extracted entries that are not moved yet
  stage,     \* where the process is; "serving" once the database is open
  bundleSecond, crashes,
  origin,    \* history: the data when the restore was first begun
  appliedBundle, \* history: the bundle the last start put in place
  overwritten \* history: two starts in one second wrote one safety bundle

restoreVars == <<data, version, bundle, pending, safety, work, stage, bundleSecond, crashes,
                 origin, appliedBundle, overwritten>>

NoBundle == [e \in {} |-> 0]

RestoreInit ==
  /\ data = [e \in DataEntries |-> IF e = Database THEN 1 ELSE 0]
  /\ version = 1
  /\ bundle = NoBundle /\ pending = NoBundle
  /\ safety = [t \in {} |-> NoBundle]
  /\ work = NoBundle
  /\ stage = "serving"
  /\ bundleSecond = 0 /\ crashes = 0
  /\ origin = NoBundle /\ appliedBundle = NoBundle /\ overwritten = FALSE

Present(d) == {e \in DOMAIN d : d[e] # 0}
Copy(d) == [e \in Present(d) |-> d[e]]

history == <<origin, appliedBundle, overwritten>>

-----------------------------------------------------------------------------
(* The running server: the user's data changes, ... *)
ChangeData(e) ==
  /\ stage = "serving" /\ version < MaxVersion
  /\ version' = version + 1
  /\ data' = [data EXCEPT ![e] = version + 1]
  /\ appliedBundle' = NoBundle
  /\ UNCHANGED <<bundle, pending, safety, work, stage, bundleSecond, crashes, origin, overwritten>>

(* ... DownloadBackup takes a snapshot of the database, ...                *)
CreateBackupSnapshot ==
  /\ stage = "serving" /\ bundle = NoBundle
  /\ bundle' = [e \in {Database} |-> data[Database]]
  /\ UNCHANGED <<data, version, pending, safety, work, stage, bundleSecond, crashes, history>>

(* ... and CreateBackupBundle walks the other entries, one at a time       *)
AddFileToZip(e) ==
  /\ stage = "serving" /\ bundle # NoBundle
  /\ e \in Present(data) \ DOMAIN bundle
  /\ bundle' = [x \in DOMAIN bundle \cup {e} |-> IF x = e THEN data[e] ELSE bundle[x]]
  /\ UNCHANGED <<data, version, pending, safety, work, stage, bundleSecond, crashes, history>>

(* ValidateBackupBundle: a bundle without its database is refused *)
ValidateBackupBundle(b) == Database \in DOMAIN b

(* StageRestore: written beside, validated, renamed over what was pending  *)
StageRestore ==
  /\ stage = "serving"
  /\ ValidateBackupBundle(bundle)
  /\ pending' = bundle
  /\ UNCHANGED <<data, version, bundle, safety, work, stage, bundleSecond, crashes, history>>

CancelRestore ==
  /\ stage = "serving"
  /\ pending' = NoBundle
  /\ UNCHANGED <<data, version, bundle, safety, work, stage, bundleSecond, crashes, history>>

-----------------------------------------------------------------------------
(* A crash, a stop, or an error that ends the start; what is extracted     *)
(* stays behind in a directory no later start looks at                     *)
Dies ==
  /\ stage # "down" /\ crashes < MaxCrashes
  /\ crashes' = crashes + 1
  /\ stage' = "down" /\ work' = NoBundle
  /\ bundle' = IF ValidateBackupBundle(bundle) THEN bundle ELSE NoBundle
  /\ UNCHANGED <<data, version, pending, safety, bundleSecond, history>>

(* ApplyPendingRestore of a start: nothing is pending, or the bundle is    *)
(* valid and the data is saved first                                       *)
BeginStart ==
  /\ stage = "down"
  /\ IF pending = NoBundle
     THEN stage' = "serving" /\ UNCHANGED origin
     ELSE /\ ValidateBackupBundle(pending)
          /\ stage' = "safety"
          /\ origin' = IF origin = NoBundle THEN Copy(data) ELSE origin
  /\ UNCHANGED <<data, version, bundle, pending, safety, work, bundleSecond, crashes, appliedBundle, overwritten>>

(* O_TRUNC: a bundle of the same second is written over *)
createColdSafetyBundle ==
  /\ stage = "safety"
  /\ safety' = [t \in DOMAIN safety \cup {bundleSecond} |-> IF t = bundleSecond THEN Copy(data) ELSE safety[t]]
  /\ overwritten' = (overwritten \/ bundleSecond \in DOMAIN safety)
  /\ stage' = "extract"
  /\ UNCHANGED <<data, version, bundle, pending, work, bundleSecond, crashes, origin, appliedBundle>>

extractBackup ==
  /\ stage = "extract"
  /\ work' = pending
  /\ stage' = "move"
  /\ UNCHANGED <<data, version, bundle, pending, safety, bundleSecond, crashes, history>>

(* RemoveAll of the target, then the rename *)
RemoveTarget(e) ==
  /\ stage = "move" /\ e \in DOMAIN work /\ data[e] # 0
  /\ data' = [data EXCEPT ![e] = 0]
  /\ UNCHANGED <<version, bundle, pending, safety, work, stage, bundleSecond, crashes, history>>

RenameEntry(e) ==
  /\ stage = "move" /\ e \in DOMAIN work /\ data[e] = 0
  /\ data' = [data EXCEPT ![e] = work[e]]
  /\ work' = [x \in DOMAIN work \ {e} |-> work[x]]
  /\ UNCHANGED <<version, bundle, pending, safety, stage, bundleSecond, crashes, history>>

\* Mutant: the pending bundle is removed before the last entry is in place.
FinishesEarly ==
  /\ stage = "move"
  /\ pending' = NoBundle /\ appliedBundle' = pending
  /\ stage' = IF work = NoBundle THEN "serving" ELSE stage
  /\ UNCHANGED <<data, version, bundle, safety, work, bundleSecond, crashes, origin, overwritten>>

(* the pending bundle goes last; the database is opened *)
RemovePending ==
  /\ stage = "move" /\ work = NoBundle
  /\ pending' = NoBundle /\ appliedBundle' = pending
  /\ stage' = "serving"
  /\ origin' = NoBundle
  /\ UNCHANGED <<data, version, bundle, safety, work, bundleSecond, crashes, overwritten>>

BundleSecondPasses ==
  /\ bundleSecond < MaxSeconds
  /\ bundleSecond' = bundleSecond + 1
  /\ UNCHANGED <<data, version, bundle, pending, safety, work, stage, crashes, history>>

RestoreNext ==
  \/ \E e \in DataEntries : ChangeData(e) \/ AddFileToZip(e) \/ RemoveTarget(e) \/ RenameEntry(e)
  \/ CreateBackupSnapshot \/ StageRestore \/ CancelRestore
  \/ Dies \/ BeginStart \/ createColdSafetyBundle \/ extractBackup \/ RemovePending
  \/ BundleSecondPasses

RestoreSpec == RestoreInit /\ [][RestoreNext]_restoreVars

-----------------------------------------------------------------------------
(* ApplyPendingRestore is all or nothing across crashes and failed steps:  *)
(* when the server opens its database, every entry of the bundle that was  *)
(* applied is in place, and no entry is missing that was there before and  *)
(* is not in the bundle; and while a restore is under way, over however    *)
(* many starts, what an entry held before it is still in the entry or in a *)
(* safety bundle (unless two starts fell into one second and the second    *)
(* safety bundle was written over the first).                              *)
RestoreWhole ==
  /\ stage = "serving" => \A e \in DOMAIN appliedBundle : data[e] = appliedBundle[e]
  /\ \A e \in DOMAIN origin :
       \/ data[e] = origin[e]
       \/ overwritten
       \/ \E t \in DOMAIN safety : e \in DOMAIN safety[t] /\ safety[t][e] = origin[e]
  /\ stage = "serving" => Database \in Present(data)
=============================================================================
