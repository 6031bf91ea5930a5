----------------------------- MODULE FileProofs -----------------------------
(* Proofs about what the server does to its own files, for any entries of   *)
(* the data directory, any releases, and any number of crashes and failed   *)
(* steps: a restore is all or nothing (Restore), an update leaves a program *)
(* that starts (Updater), and the plugin directory fits what is installed   *)
(* (PluginFiles).                                                           *)
EXTENDS Restore, Updater, PluginFiles, TLAPS

-----------------------------------------------------------------------------
(* Restore: the inductive invariant.                                       *)

Bundles == UNION {[S -> Nat \ {0}] : S \in SUBSET DataEntries}

BundleTypes ==
  /\ bundle \in Bundles /\ pending \in Bundles /\ work \in Bundles
  /\ origin \in Bundles /\ appliedBundle \in Bundles

RestoreType ==
  /\ data \in [DataEntries -> Nat] /\ version \in Nat
  /\ stage \in {"serving", "down", "safety", "extract", "move"}
  /\ overwritten \in BOOLEAN
  /\ BundleTypes

\* A staged bundle holds the database; a start that restores has one, and so
\* has a restore that was begun and is not finished.
PendingInv ==
  /\ pending # NoBundle => Database \in DOMAIN pending
  /\ stage \in {"safety", "extract", "move"} => pending # NoBundle
  /\ origin # NoBundle => pending # NoBundle /\ stage # "serving"

Saved(e) == \/ overwritten
            \/ \E t \in DOMAIN safety : e \in DOMAIN safety[t] /\ safety[t][e] = origin[e]

\* What an entry held is in the entry or saved, and saved before the first
\* entry is removed.
SafetyInv ==
  \A e \in DOMAIN origin :
     /\ data[e] = origin[e] \/ Saved(e)
     /\ stage \in {"extract", "move"} => Saved(e)

\* The entries that are not extracted any more are in place.
MoveInv ==
  stage = "move" =>
     /\ DOMAIN work \subseteq DOMAIN pending
     /\ \A e \in DOMAIN work : work[e] = pending[e]
     /\ \A e \in DOMAIN pending \ DOMAIN work : data[e] = pending[e]

\* With nothing to restore, the data is whole.
WholeInv ==
  stage = "serving" \/ pending = NoBundle =>
     /\ \A e \in DOMAIN appliedBundle : data[e] = appliedBundle[e]
     /\ data[Database] # 0

RestoreInv == RestoreType /\ PendingInv /\ SafetyInv /\ MoveInv /\ WholeInv

-----------------------------------------------------------------------------
LEMMA BundleFacts ==
    ASSUME NEW b \in Bundles
    PROVE  /\ DOMAIN b \subseteq DataEntries
           /\ \A e \in DOMAIN b : b[e] \in Nat \ {0}
           /\ DOMAIN b = {} => b = NoBundle
<1>1. PICK S \in SUBSET DataEntries : b \in [S -> Nat \ {0}]
  BY DEF Bundles
<1> QED  BY <1>1 DEF NoBundle

LEMMA BundleMade ==
    ASSUME NEW S \in SUBSET DataEntries, NEW b \in [S -> Nat \ {0}]
    PROVE  b \in Bundles
BY DEF Bundles

LEMMA EmptyBundle == NoBundle \in Bundles /\ DOMAIN NoBundle = {}
<1>1. NoBundle \in [{} -> Nat \ {0}] /\ DOMAIN NoBundle = {}
  BY DEF NoBundle
<1> QED  BY <1>1, BundleMade

\* A copy of the data has the entries that are there, as they are.
LEMMA CopyFacts ==
    ASSUME data \in [DataEntries -> Nat]
    PROVE  /\ Copy(data) \in Bundles
           /\ DOMAIN Copy(data) = {e \in DataEntries : data[e] # 0}
           /\ \A e \in DOMAIN Copy(data) : Copy(data)[e] = data[e]
<1>1. Present(data) = {e \in DataEntries : data[e] # 0}
  BY DEF Present
<1>2. Copy(data) \in [Present(data) -> Nat \ {0}]
  BY <1>1 DEF Copy
<1>3. Copy(data) \in Bundles
  BY <1>1, <1>2, BundleMade
<1>4. DOMAIN Copy(data) = Present(data) /\ \A e \in Present(data) : Copy(data)[e] = data[e]
  BY DEF Copy
<1> QED  BY <1>1, <1>3, <1>4

LEMMA DatabaseKept == Database \in DataEntries
BY RestoreAssumption

LEMMA RestoreInitially == RestoreInit => RestoreInv
<1> SUFFICES ASSUME RestoreInit PROVE RestoreInv
  OBVIOUS
<1>1. RestoreType
  BY EmptyBundle DEF RestoreInit, RestoreType, BundleTypes
<1>2. PendingInv /\ SafetyInv /\ MoveInv /\ WholeInv
  BY EmptyBundle, DatabaseKept DEF RestoreInit, PendingInv, SafetyInv, MoveInv, WholeInv
<1> QED  BY <1>1, <1>2 DEF RestoreInv

\* The first goals are one lemma per action: the actions touch few variables.
LEMMA ServerSteps ==
    ASSUME RestoreInv, NEW e \in DataEntries,
           ChangeData(e) \/ CreateBackupSnapshot \/ AddFileToZip(e) \/ StageRestore \/ CancelRestore
    PROVE  RestoreInv'
<1> USE EmptyBundle, DatabaseKept DEF RestoreInv
<1>0. stage = "serving" /\ origin = NoBundle
  BY DEF PendingInv, ChangeData, CreateBackupSnapshot, AddFileToZip, StageRestore, CancelRestore
<1>1. CASE ChangeData(e)
  <2>1. RestoreType'
    BY <1>1 DEF ChangeData, RestoreType, BundleTypes
  <2>2. data'[Database] # 0 /\ appliedBundle' = NoBundle
    BY <1>0, <1>1 DEF ChangeData, WholeInv, RestoreType
  <2> QED  BY <1>0, <1>1, <2>1, <2>2 DEF ChangeData, PendingInv, SafetyInv, MoveInv, WholeInv
<1>2. CASE CreateBackupSnapshot
  <2>1. data[Database] \in Nat \ {0}
    BY <1>0 DEF WholeInv, RestoreType
  <2>2. bundle' \in [{Database} -> Nat \ {0}]
    BY <1>2, <2>1 DEF CreateBackupSnapshot
  <2>3. bundle' \in Bundles
    BY <2>2, BundleMade
  <2>4. UNCHANGED <<data, version, pending, safety, work, stage, history>>
    BY <1>2 DEF CreateBackupSnapshot
  <2> QED  BY <1>0, <2>3, <2>4 DEF RestoreType, BundleTypes, PendingInv, SafetyInv, Saved, MoveInv,
             WholeInv, history
<1>3. CASE AddFileToZip(e)
  <2>1. DOMAIN bundle \subseteq DataEntries /\ \A x \in DOMAIN bundle : bundle[x] \in Nat \ {0}
    BY BundleFacts DEF RestoreType, BundleTypes
  <2>2. data[e] \in Nat \ {0}
    BY <1>3 DEF AddFileToZip, Present, RestoreType
  <2>3. bundle' \in [DOMAIN bundle \cup {e} -> Nat \ {0}]
    BY <1>3, <2>1, <2>2 DEF AddFileToZip
  <2>4. bundle' \in Bundles
    BY <2>1, <2>3, BundleMade
  <2>5. UNCHANGED <<data, version, pending, safety, work, stage, history>>
    BY <1>3 DEF AddFileToZip
  <2> QED  BY <1>0, <2>4, <2>5 DEF RestoreType, BundleTypes, PendingInv, SafetyInv, Saved, MoveInv,
             WholeInv, history
<1>4. CASE StageRestore \/ CancelRestore
  <2>1. /\ pending' \in Bundles
        /\ pending' # NoBundle => Database \in DOMAIN pending'
    BY <1>4 DEF StageRestore, CancelRestore, ValidateBackupBundle, RestoreType, BundleTypes
  <2>2. UNCHANGED <<data, version, bundle, safety, work, stage, history>>
    BY <1>4 DEF StageRestore, CancelRestore
  <2> QED  BY <1>0, <2>1, <2>2 DEF RestoreType, BundleTypes, PendingInv, SafetyInv, MoveInv,
             WholeInv, history
<1> QED  BY <1>1, <1>2, <1>3, <1>4

LEMMA StartSteps ==
    ASSUME RestoreInv, Dies \/ BeginStart \/ createColdSafetyBundle \/ extractBackup
    PROVE  RestoreInv'
<1> USE EmptyBundle, DatabaseKept DEF RestoreInv
<1>1. CASE Dies
  <2>1. bundle' \in Bundles
    BY <1>1 DEF Dies, RestoreType, BundleTypes
  <2> QED  BY <1>1, <2>1 DEF Dies, RestoreType, BundleTypes, PendingInv, SafetyInv, Saved, MoveInv,
             WholeInv, history
<1>2. CASE BeginStart
  <2>1. CASE pending = NoBundle
    BY <1>2, <2>1 DEF BeginStart, RestoreType, BundleTypes, PendingInv, SafetyInv, Saved, MoveInv, WholeInv
  <2>2. CASE pending # NoBundle
    <3>1. RestoreType' /\ PendingInv' /\ MoveInv' /\ WholeInv'
      BY <1>2, <2>2, CopyFacts DEF BeginStart, RestoreType, BundleTypes, PendingInv, MoveInv, WholeInv
    <3>2. stage' = "safety" /\ UNCHANGED <<data, safety, overwritten>>
      BY <1>2, <2>2 DEF BeginStart
    <3>3. CASE origin = NoBundle
      <4>1. origin' = Copy(data)
        BY <1>2, <2>2, <3>3 DEF BeginStart
      <4>2. \A e \in DOMAIN Copy(data) : data[e] = Copy(data)[e]
        BY CopyFacts DEF RestoreType
      <4> QED  BY <3>1, <3>2, <4>1, <4>2 DEF SafetyInv
    <3>4. CASE origin # NoBundle
      <4>1. origin' = origin
        BY <1>2, <2>2, <3>4 DEF BeginStart
      <4> QED  BY <3>1, <3>2, <4>1 DEF SafetyInv, Saved
    <3> QED  BY <3>3, <3>4
  <2> QED  BY <2>1, <2>2
<1>3. CASE createColdSafetyBundle
  <2>1. RestoreType' /\ PendingInv' /\ MoveInv' /\ WholeInv'
    BY <1>3 DEF createColdSafetyBundle, RestoreType, BundleTypes, PendingInv, MoveInv, WholeInv
  <2>2. ASSUME NEW e \in DOMAIN origin PROVE Saved(e)'
    <3>1. e \in DataEntries /\ origin[e] # 0
      BY BundleFacts DEF RestoreType, BundleTypes
    <3>2. /\ safety'[bundleSecond] = Copy(data) /\ bundleSecond \in DOMAIN safety'
          /\ \A t \in DOMAIN safety \ {bundleSecond} : t \in DOMAIN safety' /\ safety'[t] = safety[t]
          /\ overwritten' = (overwritten \/ bundleSecond \in DOMAIN safety)
          /\ origin' = origin
      BY <1>3 DEF createColdSafetyBundle
    <3>3. CASE data[e] = origin[e]
      <4>1. e \in DOMAIN Copy(data) /\ Copy(data)[e] = origin[e]
        BY <3>1, <3>3, CopyFacts DEF RestoreType
      <4> QED  BY <3>2, <4>1 DEF Saved
    <3>4. CASE Saved(e)
      BY <3>2, <3>4 DEF Saved
    <3> QED  BY <3>3, <3>4 DEF SafetyInv
  <2>3. SafetyInv'
    BY <1>3, <2>2 DEF createColdSafetyBundle, SafetyInv
  <2> QED  BY <2>1, <2>3
<1>4. CASE extractBackup
  BY <1>4 DEF extractBackup, RestoreType, BundleTypes, PendingInv, SafetyInv, Saved, MoveInv, WholeInv, history
<1> QED  BY <1>1, <1>2, <1>3, <1>4

LEMMA MoveSteps ==
    ASSUME RestoreInv, NEW e \in DataEntries, RemoveTarget(e) \/ RenameEntry(e) \/ RemovePending
    PROVE  RestoreInv'
<1> USE EmptyBundle, DatabaseKept DEF RestoreInv
<1>0. stage = "move" /\ pending # NoBundle /\ \A x \in DOMAIN origin : Saved(x)
  BY DEF RemoveTarget, RenameEntry, RemovePending, PendingInv, SafetyInv
<1>1. CASE RemoveTarget(e)
  <2>1. RestoreType' /\ PendingInv' /\ WholeInv'
    BY <1>0, <1>1 DEF RemoveTarget, RestoreType, BundleTypes, PendingInv, WholeInv, history
  <2>2. SafetyInv'
    BY <1>0, <1>1 DEF RemoveTarget, SafetyInv, Saved, history
  <2>3. MoveInv'
    <3>1. DOMAIN pending \subseteq DataEntries
      BY BundleFacts DEF RestoreType, BundleTypes
    <3> QED  BY <1>1, <3>1 DEF RemoveTarget, MoveInv, RestoreType
  <2> QED  BY <2>1, <2>2, <2>3
<1>2. CASE RenameEntry(e)
  <2>1. DOMAIN work \subseteq DataEntries /\ DOMAIN pending \subseteq DataEntries
        /\ \A x \in DOMAIN work : work[x] \in Nat \ {0}
    BY BundleFacts DEF RestoreType, BundleTypes
  <2>2. work' \in [DOMAIN work \ {e} -> Nat \ {0}]
    BY <1>2, <2>1 DEF RenameEntry
  <2>3. work' \in Bundles
    BY <2>1, <2>2, BundleMade
  <2>4. RestoreType' /\ PendingInv' /\ WholeInv'
    BY <1>0, <1>2, <2>1, <2>3
    DEF RenameEntry, RestoreType, BundleTypes, PendingInv, WholeInv, history
  <2>5. SafetyInv'
    BY <1>0, <1>2 DEF RenameEntry, SafetyInv, Saved, history
  <2>6. MoveInv'
    BY <1>2, <2>1 DEF RenameEntry, MoveInv, RestoreType
  <2> QED  BY <2>4, <2>5, <2>6
<1>3. CASE RemovePending
  <2>1. \A x \in DOMAIN pending : data[x] = pending[x] /\ x \in DataEntries /\ pending[x] # 0
    BY <1>0, <1>3, BundleFacts DEF RemovePending, MoveInv, RestoreType, BundleTypes
  <2>2. data[Database] # 0
    BY <1>0, <2>1 DEF PendingInv
  <2> QED  BY <1>3, <2>1, <2>2
           DEF RemovePending, RestoreType, BundleTypes, PendingInv, SafetyInv, MoveInv, WholeInv
<1> QED  BY <1>1, <1>2, <1>3

LEMMA RestoreInvariance == RestoreSpec => []RestoreInv
<1>1. RestoreInv /\ [RestoreNext]_restoreVars => RestoreInv'
  <2> SUFFICES ASSUME RestoreInv, [RestoreNext]_restoreVars PROVE RestoreInv'
    OBVIOUS
  <2>1. CASE UNCHANGED restoreVars \/ BundleSecondPasses
    BY <2>1 DEF RestoreInv, RestoreType, BundleTypes, PendingInv, SafetyInv, Saved, MoveInv,
                WholeInv, restoreVars, BundleSecondPasses, history
  <2> QED  BY <2>1, ServerSteps, StartSteps, MoveSteps, DatabaseKept DEF RestoreNext
<1> QED  BY RestoreInitially, <1>1, PTL DEF RestoreSpec

\* ApplyPendingRestore is all or nothing over any number of starts: a server
\* that opens its database has every entry of the bundle it applied and its
\* database, and nothing held before a restore is lost.
THEOREM RestoreKeepsData == RestoreSpec => []RestoreWhole
<1>1. RestoreInv => RestoreWhole
  BY DatabaseKept
     DEF RestoreInv, RestoreType, SafetyInv, Saved, WholeInv, RestoreWhole, Present
<1> QED  BY <1>1, RestoreInvariance, PTL

-----------------------------------------------------------------------------
(* Updater: the inductive invariant.                                       *)

InstallStates ==
  [at : {"none", "begin", "download", "downloading", "verify", "preserve", "place", "restart",
         "exec", "fail"},
   version : Releases \cup {NoBuild}, had : BOOLEAN]

Past(i) == install[i].at \notin {"none", "begin"}

UpdateType ==
  /\ install \in [Installs -> InstallStates]
  /\ \A i \in Installs :
       IF install[i].at = "none" THEN install[i] = NoInstall ELSE install[i].version \in Releases
  /\ temp \in [Releases -> Releases \cup {NoBuild, Partial}]
  /\ status \in [state : {"idle", "preparing", "downloading", "verifying", "installing", "restarting",
                          "failed", "completed"},
                 version : Releases \cup {Bundled}]
  /\ overlap \in BOOLEAN /\ unwritten \in BOOLEAN

\* An install that has written the status file is the only one, and the status
\* file is its own: until it ends no other is let in.
OneInstall ==
  ~overlap => \A i \in Installs : Past(i) =>
     /\ updateStateActive /\ status.version = install[i].version
     /\ \A j \in Installs \ {i} : ~Active(j)

\* What is put in place was verified, and so was what is put back.
FilesInv ==
  ~overlap =>
     /\ runtime # Partial /\ previous # Partial
     /\ \A i \in Installs :
          /\ install[i].at \in {"preserve", "place"} => Verified(i)
          /\ install[i].at \in {"restart", "exec"} => runtime = install[i].version

StoppedInv == running = NoBuild => \A i \in Installs : ~Active(i)

\* "restarting" is written for the runtime that is in place, and holds until an
\* execution fails; "completed" is the runtime, and what runs.
ReportInv ==
  ~overlap /\ ~unwritten =>
     /\ status.state = "restarting" =>
          /\ \A i \in Installs : Past(i) => install[i].at \in {"exec", "fail"}
          /\ (\A i \in Installs : install[i].at # "fail") => runtime = status.version
     /\ status.state = "completed" =>
          /\ runtime = status.version
          /\ running # NoBuild => running = status.version

UpdateInv == UpdateType /\ OneInstall /\ FilesInv /\ StoppedInv /\ ReportInv

-----------------------------------------------------------------------------
LEMMA BuildFacts ==
    /\ NoBuild \notin Releases \cup {Bundled} /\ Partial \notin Releases \cup {Bundled}
    /\ NoBuild # Partial
BY UpdaterAssumption DEF NoBuild, Partial

LEMMA StepFacts ==
    ASSUME UpdateType, NEW i \in Installs, Active(i),
           NEW a \in {"download", "downloading", "verify", "preserve", "place", "restart", "exec", "fail"},
           InstallStep(i, a)
    PROVE  /\ install' \in [Installs -> InstallStates]
           /\ \A j \in Installs \ {i} : install'[j] = install[j]
           /\ install'[i].at = a /\ install'[i].version = install[i].version
           /\ install'[i].version \in Releases
BY DEF UpdateType, InstallStep, InstallStates, Active, NoInstall

LEMMA EndFacts ==
    ASSUME UpdateType, NEW i \in Installs, Ends(i)
    PROVE  /\ install' \in [Installs -> InstallStates]
           /\ \A j \in Installs \ {i} : install'[j] = install[j]
           /\ install'[i] = NoInstall /\ install'[i].at = "none"
BY DEF UpdateType, Ends, InstallStates, NoInstall

LEMMA ActiveFacts ==
    ASSUME UpdateType, NEW i \in Installs
    PROVE  /\ Active(i) <=> install[i].at # "none"
           /\ Active(i) => install[i].version \in Releases
BY DEF UpdateType, Active, NoInstall

\* Writing a state keeps the version of the status file, or does nothing.
LEMMA ProgressFacts ==
    ASSUME UpdateType, NEW s \in {"downloading", "verifying", "installing", "restarting", "failed", "completed"},
           updateProgress(s)
    PROVE  /\ status' \in [state : {"idle", "preparing", "downloading", "verifying", "installing",
                                     "restarting", "failed", "completed"},
                            version : Releases \cup {Bundled}]
           /\ status'.state \in {s, status.state} /\ status'.version = status.version
BY DEF UpdateType, updateProgress

LEMMA UpdateInitially == UpdateInit => UpdateInv
<1> SUFFICES ASSUME UpdateInit PROVE UpdateInv
  OBVIOUS
<1>1. NoInstall \in InstallStates /\ NoInstall.at = "none"
  BY DEF NoInstall, InstallStates
<1>2. UpdateType
  BY <1>1 DEF UpdateInit, UpdateType
<1>3. OneInstall /\ FilesInv /\ StoppedInv /\ ReportInv
  BY <1>1, BuildFacts DEF UpdateInit, OneInstall, FilesInv, StoppedInv, ReportInv, Past, Active
<1> QED  BY <1>2, <1>3 DEF UpdateInv

LEMMA AdmitStep ==
    ASSUME UpdateInv, NEW i \in Installs, NEW v \in Releases, Install(i, v)
    PROVE  UpdateInv'
<1>1. /\ install' = [install EXCEPT ![i] = [at |-> "begin", version |-> v, had |-> FALSE]]
      /\ UNCHANGED <<status, temp, runtime, previous, running, overlap, unwritten>>
      /\ ~updateStateActive /\ running # NoBuild
  BY DEF Install, files
<1>2. /\ install' \in [Installs -> InstallStates]
      /\ install'[i].at = "begin" /\ install'[i].version = v
      /\ \A j \in Installs \ {i} : install'[j] = install[j]
  BY <1>1 DEF UpdateInv, UpdateType, InstallStates
<1>3. UpdateType'
  BY <1>1, <1>2 DEF UpdateInv, UpdateType
<1>4. OneInstall' /\ StoppedInv'
  BY <1>1, <1>2 DEF UpdateInv, OneInstall, StoppedInv, Past, updateStateActive
<1>5. FilesInv' /\ ReportInv'
  BY <1>1, <1>2 DEF UpdateInv, FilesInv, ReportInv, Past, Verified, updateStateActive
<1> QED  BY <1>3, <1>4, <1>5 DEF UpdateInv

LEMMA PrepareStep ==
    ASSUME UpdateInv, NEW i \in Installs, WritePreparing(i)
    PROVE  UpdateInv'
<1>1. /\ install[i].at = "begin" /\ Active(i) /\ install[i].version \in Releases
      /\ status' = [state |-> "preparing", version |-> install[i].version]
      /\ overlap' = (overlap \/ \E j \in Installs \ {i} : Active(j))
      /\ InstallStep(i, "download")
      /\ unwritten' = FALSE /\ UNCHANGED <<temp, runtime, previous, running>>
  BY ActiveFacts DEF WritePreparing, files, UpdateInv
<1>2. /\ install' \in [Installs -> InstallStates]
      /\ \A j \in Installs \ {i} : install'[j] = install[j]
      /\ install'[i].at = "download" /\ install'[i].version = install[i].version
  BY <1>1, StepFacts DEF UpdateInv
<1>3. UpdateType'
  BY <1>1, <1>2 DEF UpdateInv, UpdateType
<1>4. OneInstall' /\ StoppedInv'
  BY <1>1, <1>2, ActiveFacts DEF UpdateInv, OneInstall, StoppedInv, Past, Active, updateStateActive
<1>5. FilesInv' /\ ReportInv'
  BY <1>1, <1>2 DEF UpdateInv, FilesInv, ReportInv, Past, Verified
<1> QED  BY <1>3, <1>4, <1>5 DEF UpdateInv

LEMMA DownloadSteps ==
    ASSUME UpdateInv, NEW i \in Installs,
           BeginDownload(i) \/ downloadFile(i) \/ VerifyBuild(i) \/ AnnounceRestart(i)
    PROVE  UpdateInv'
<1> DEFINE v == install[i].version
<1>1. Past(i) /\ Active(i) /\ v \in Releases
  BY ActiveFacts DEF BeginDownload, downloadFile, VerifyBuild, AnnounceRestart, Past, UpdateInv
<1>2. PICK a \in {"downloading", "verify", "preserve", "exec"},
           s \in {"downloading", "verifying", "installing", "restarting"},
           t \in Releases \cup {NoBuild, Partial} :
        /\ InstallStep(i, a) /\ updateProgress(s)
        /\ temp' = [temp EXCEPT ![v] = t]
        /\ UNCHANGED <<runtime, previous, running, overlap, unwritten>>
        /\ a = "preserve" => t = v
        /\ s = "restarting" <=> a = "exec"
        /\ a = "exec" => install[i].at = "restart"
  <2>1. temp[v] \in Releases \cup {NoBuild, Partial} /\ temp = [temp EXCEPT ![v] = temp[v]]
    BY <1>1 DEF UpdateInv, UpdateType
  <2>2. CASE BeginDownload(i)
    BY <2>2 DEF BeginDownload
  <2>3. CASE downloadFile(i)
    BY <1>1, <2>3 DEF downloadFile
  <2>4. CASE VerifyBuild(i)
    BY <2>1, <2>4 DEF VerifyBuild, Verified, files
  <2>5. CASE AnnounceRestart(i)
    BY <2>1, <2>5 DEF AnnounceRestart, files
  <2> QED  BY <2>2, <2>3, <2>4, <2>5
<1>3. /\ install' \in [Installs -> InstallStates]
      /\ \A j \in Installs \ {i} : install'[j] = install[j]
      /\ install'[i].at = a /\ install'[i].version = v
  BY <1>1, <1>2, StepFacts DEF UpdateInv
<1>4. /\ status' \in [state : {"idle", "preparing", "downloading", "verifying", "installing",
                                "restarting", "failed", "completed"},
                       version : Releases \cup {Bundled}]
      /\ status'.state \in {s, status.state} /\ status'.version = status.version
  BY <1>2, ProgressFacts DEF UpdateInv
<1>5. UpdateType'
  BY <1>1, <1>2, <1>3, <1>4 DEF UpdateInv, UpdateType
<1>6. OneInstall' /\ StoppedInv'
  BY <1>1, <1>2, <1>3, <1>4 DEF UpdateInv, OneInstall, StoppedInv, Past, Active, updateStateActive
<1>7. ~overlap => \A j \in Installs \ {i} : install'[j].at = "none"
  BY <1>1, <1>3, ActiveFacts DEF UpdateInv, OneInstall
<1>8. FilesInv'
  BY <1>1, <1>2, <1>3, <1>7 DEF UpdateInv, UpdateType, FilesInv, Verified
<1>9. ReportInv'
  <2>1. CASE a = "exec"
    BY <1>1, <1>2, <1>3, <1>4, <1>7, <2>1 DEF UpdateInv, OneInstall, FilesInv, ReportInv, Past
  <2>2. CASE a # "exec"
    <3>1. install[i].at \notin {"exec", "fail"}
      BY DEF BeginDownload, downloadFile, VerifyBuild, AnnounceRestart
    <3>2. ~overlap /\ ~unwritten => status.state \notin {"restarting", "completed"}
      BY <1>1, <3>1 DEF UpdateInv, OneInstall, ReportInv, updateStateActive
    <3> QED  BY <1>2, <1>4, <2>2, <3>2 DEF ReportInv
  <2> QED  BY <2>1, <2>2
<1> QED  BY <1>5, <1>6, <1>8, <1>9 DEF UpdateInv

\* An install that ends before the execution, or whose failed execution is
\* recorded, writes "failed" if it can; alone, it leaves a runtime that starts.
LEMMA EndSteps ==
    ASSUME UpdateInv, NEW i \in Installs, Past(i), Ends(i), fail,
           temp' \in [Releases -> Releases \cup {NoBuild, Partial}],
           \A w \in Releases \ {install[i].version} : temp'[w] = temp[w],
           runtime' \in {runtime, previous}, previous' \in {previous, NoBuild},
           unwritten' \in BOOLEAN, unwritten => unwritten',
           install[i].at \in {"exec", "fail"} => unwritten' \/ status'.state = "failed",
           UNCHANGED <<running, overlap>>
    PROVE  UpdateInv'
<1>1. /\ install' \in [Installs -> InstallStates]
      /\ \A j \in Installs \ {i} : install'[j] = install[j]
      /\ install'[i] = NoInstall /\ install'[i].at = "none"
  BY EndFacts DEF UpdateInv
<1>2. /\ status' \in [state : {"idle", "preparing", "downloading", "verifying", "installing",
                                "restarting", "failed", "completed"},
                       version : Releases \cup {Bundled}]
      /\ status'.state \in {"failed", status.state} /\ status'.version = status.version
  BY ProgressFacts DEF fail, UpdateInv
<1>3. ~overlap => \A j \in Installs : install'[j].at = "none"
  BY <1>1, ActiveFacts DEF UpdateInv, OneInstall
<1>4. UpdateType'
  BY <1>1, <1>2 DEF UpdateInv, UpdateType
<1>5. OneInstall' /\ StoppedInv'
  BY <1>1, <1>3 DEF UpdateInv, OneInstall, StoppedInv, Past, Active
<1>6. FilesInv'
  BY <1>3, BuildFacts DEF UpdateInv, FilesInv
<1>7. ReportInv'
  <2>1. ~overlap /\ ~unwritten /\ install[i].at \notin {"exec", "fail"} => status.state \notin {"restarting", "completed"}
    BY DEF UpdateInv, OneInstall, ReportInv, updateStateActive
  <2>2. ~overlap' /\ ~unwritten' => status'.state \notin {"restarting", "completed"}
    BY <1>2, <2>1
  <2> QED  BY <2>2 DEF ReportInv
<1> QED  BY <1>4, <1>5, <1>6, <1>7 DEF UpdateInv

\* An install that could not write the status file leaves everything as it was.
LEMMA RefusedStep ==
    ASSUME UpdateInv, NEW i \in Installs, WriteRefused(i)
    PROVE  UpdateInv'
<1>1. /\ install[i].at = "begin" /\ Ends(i)
      /\ UNCHANGED <<status, temp, runtime, previous, running, overlap, unwritten>>
  BY DEF WriteRefused, files
<1>2. /\ install' \in [Installs -> InstallStates]
      /\ \A j \in Installs \ {i} : install'[j] = install[j]
      /\ install'[i] = NoInstall /\ install'[i].at = "none"
  BY <1>1, EndFacts DEF UpdateInv
<1>3. UpdateType'
  BY <1>1, <1>2 DEF UpdateInv, UpdateType
<1>4. OneInstall' /\ StoppedInv'
  BY <1>1, <1>2 DEF UpdateInv, OneInstall, StoppedInv, Past, Active, updateStateActive
<1>5. FilesInv' /\ ReportInv'
  BY <1>1, <1>2 DEF UpdateInv, FilesInv, ReportInv, Past, Verified
<1> QED  BY <1>3, <1>4, <1>5 DEF UpdateInv

\* A step that moves the runtime and leaves the status file for the next one.
LEMMA MoveRuntimeSteps ==
    ASSUME UpdateInv, NEW i \in Installs, PreserveRuntime(i) \/ PlaceRuntime(i) \/ ExecFails(i)
    PROVE  UpdateInv'
<1> DEFINE v == install[i].version
<1>1. Past(i) /\ Active(i) /\ v \in Releases
  BY ActiveFacts DEF PreserveRuntime, PlaceRuntime, ExecFails, Past, UpdateInv
<1>2. ~overlap => \A j \in Installs \ {i} : install[j].at = "none"
  BY <1>1, ActiveFacts DEF UpdateInv, OneInstall
<1>3. CASE /\ PreserveRuntime(i) /\ Ends(i) /\ fail /\ UNCHANGED runtime
            /\ previous' = NoBuild /\ temp' = [temp EXCEPT ![v] = NoBuild]
  <2>1. install[i].at = "preserve" /\ UNCHANGED <<running, overlap, unwritten>> /\ unwritten \in BOOLEAN
    BY <1>3 DEF PreserveRuntime, UpdateInv, UpdateType
  <2>2. /\ temp' \in [Releases -> Releases \cup {NoBuild, Partial}]
        /\ \A w \in Releases \ {v} : temp'[w] = temp[w]
    BY <1>1, <1>3 DEF UpdateInv, UpdateType
  <2> QED  BY <1>1, <1>3, <2>1, <2>2, EndSteps
<1>4. CASE /\ PreserveRuntime(i) /\ previous' = runtime /\ runtime' = NoBuild /\ UNCHANGED <<status, temp>>
           /\ install' = [install EXCEPT ![i] = [@ EXCEPT !.at = "place", !.had = runtime # NoBuild]]
  <2>1. /\ install' = [install EXCEPT ![i] = [@ EXCEPT !.at = "place", !.had = runtime # NoBuild]]
        /\ previous' = runtime /\ runtime' = NoBuild
        /\ UNCHANGED <<status, temp, running, overlap, unwritten>>
        /\ install[i].at = "preserve"
    BY <1>4 DEF PreserveRuntime
  <2>2. install[i] \in InstallStates
    BY DEF UpdateInv, UpdateType
  <2> DEFINE l == [install[i] EXCEPT !.at = "place", !.had = runtime # NoBuild]
  <2>3. l \in InstallStates /\ l.at = "place" /\ l.version = v
    <3>1. (runtime # NoBuild) \in BOOLEAN
      OBVIOUS
    <3> QED  BY <2>2, <3>1 DEF InstallStates
  <2>4. install' = [install EXCEPT ![i] = l]
    BY <2>1
  <2> HIDE DEF l
  <2>5. /\ install' \in [Installs -> InstallStates]
        /\ \A j \in Installs \ {i} : install'[j] = install[j]
        /\ install'[i].at = "place" /\ install'[i].version = v
    BY <2>3, <2>4 DEF UpdateInv, UpdateType
  <2>6. UpdateType'
    BY <1>1, <2>1, <2>5 DEF UpdateInv, UpdateType
  <2>7. OneInstall' /\ StoppedInv'
    BY <1>1, <2>1, <2>5 DEF UpdateInv, OneInstall, StoppedInv, Past, Active, updateStateActive
  <2>8. FilesInv'
    BY <1>2, <2>1, <2>5, BuildFacts DEF UpdateInv, FilesInv, Verified
  <2>9. ReportInv'
    BY <1>1, <2>1 DEF UpdateInv, OneInstall, ReportInv, updateStateActive
  <2> QED  BY <2>6, <2>7, <2>8, <2>9 DEF UpdateInv
<1>5. CASE PlaceRuntime(i)
  <2>1. CASE PutBack(i) /\ fail /\ Ends(i) /\ UNCHANGED temp
    <3>1. /\ install[i].at = "place" /\ UNCHANGED <<running, overlap, unwritten>> /\ unwritten \in BOOLEAN
          /\ runtime' \in {runtime, previous} /\ previous' \in {previous, NoBuild}
      BY <1>5, <2>1 DEF PlaceRuntime, PutBack, UpdateInv, UpdateType
    <3>2. temp' \in [Releases -> Releases \cup {NoBuild, Partial}]
      BY <2>1 DEF UpdateInv, UpdateType
    <3> QED  BY <1>1, <2>1, <3>1, <3>2, EndSteps
  <2>2. CASE /\ temp[v] # NoBuild /\ InstallStep(i, "restart")
             /\ runtime' = temp[v] /\ temp' = [temp EXCEPT ![v] = NoBuild]
             /\ UNCHANGED <<status, previous>>
    <3>1. /\ install[i].at = "place" /\ InstallStep(i, "restart")
          /\ runtime' = temp[v] /\ temp' = [temp EXCEPT ![v] = NoBuild]
          /\ UNCHANGED <<status, previous, running, overlap, unwritten>>
      BY <1>5, <2>2 DEF PlaceRuntime
    <3>2. /\ install' \in [Installs -> InstallStates]
          /\ \A j \in Installs \ {i} : install'[j] = install[j]
          /\ install'[i].at = "restart" /\ install'[i].version = v
      BY <1>1, <3>1, StepFacts DEF UpdateInv
    <3>3. UpdateType'
      BY <1>1, <3>1, <3>2 DEF UpdateInv, UpdateType
    <3>4. OneInstall' /\ StoppedInv'
      BY <1>1, <3>1, <3>2 DEF UpdateInv, OneInstall, StoppedInv, Past, Active, updateStateActive
    <3>5. FilesInv'
      BY <1>1, <1>2, <3>1, <3>2, BuildFacts DEF UpdateInv, FilesInv, Verified
    <3>6. ReportInv'
      BY <1>1, <3>1 DEF UpdateInv, OneInstall, ReportInv, updateStateActive
    <3> QED  BY <3>3, <3>4, <3>5, <3>6 DEF UpdateInv
  <2> QED  BY <1>5, <2>1, <2>2 DEF PlaceRuntime
<1>6. CASE ExecFails(i)
  <2>1. /\ install[i].at = "exec" /\ InstallStep(i, "fail")
        /\ runtime' \in {runtime, previous, NoBuild} /\ previous' \in {previous, NoBuild}
        /\ UNCHANGED <<status, temp, running, overlap, unwritten>>
    BY <1>6 DEF ExecFails, PutBack
  <2>2. /\ install' \in [Installs -> InstallStates]
        /\ \A j \in Installs \ {i} : install'[j] = install[j]
        /\ install'[i].at = "fail" /\ install'[i].version = v
    BY <1>1, <2>1, StepFacts DEF UpdateInv
  <2>3. UpdateType'
    BY <1>1, <2>1, <2>2 DEF UpdateInv, UpdateType
  <2>4. OneInstall' /\ StoppedInv'
    BY <1>1, <2>1, <2>2 DEF UpdateInv, OneInstall, StoppedInv, Past, Active, updateStateActive
  <2>5. FilesInv'
    BY <1>2, <2>1, <2>2, BuildFacts DEF UpdateInv, FilesInv, Verified
  <2>6. ReportInv'
    BY <1>1, <1>2, <2>1, <2>2 DEF UpdateInv, OneInstall, ReportInv, Past, updateStateActive
  <2> QED  BY <2>3, <2>4, <2>5, <2>6 DEF UpdateInv
<1>7. PreserveRuntime(i) => \/ /\ previous' = runtime /\ runtime' = NoBuild /\ UNCHANGED <<status, temp>>
                               /\ install' = [install EXCEPT ![i] = [@ EXCEPT !.at = "place", !.had = runtime # NoBuild]]
                            \/ /\ Ends(i) /\ fail /\ UNCHANGED runtime
                               /\ previous' = NoBuild /\ temp' = [temp EXCEPT ![v] = NoBuild]
  BY DEF PreserveRuntime
<1> QED  BY <1>4, <1>5, <1>6, <1>7, <1>3

LEMMA ProcessSteps ==
    ASSUME UpdateInv, (\E i \in Installs : Exec(i)) \/ StopProcess \/ StartProcess
    PROVE  UpdateInv'
<1>1. NoInstall \in InstallStates /\ NoInstall.at = "none"
  BY DEF NoInstall, InstallStates
<1>2. UNCHANGED <<temp, runtime, previous, overlap>>
  BY DEF Exec, StopProcess, StartProcess, files
<1>3. /\ install' \in [Installs -> InstallStates]
      /\ \A i \in Installs : install'[i] = NoInstall /\ install'[i].at = "none"
  <2>1. CASE running = NoBuild
    <3>1. \A i \in Installs : install[i] = NoInstall
      BY <2>1 DEF UpdateInv, StoppedInv, Active
    <3>2. install' = install
      BY <2>1, <3>1, <1>1 DEF StartProcess, StopProcess, Exec
    <3> QED  BY <1>1, <3>1, <3>2 DEF UpdateInv, UpdateType
  <2>2. CASE running # NoBuild
    <3>1. install' = [i \in Installs |-> NoInstall]
      BY <2>2 DEF StartProcess, StopProcess, Exec
    <3> QED  BY <1>1, <3>1
  <2> QED  BY <2>1, <2>2
<1>4. /\ status' \in [state : {"idle", "preparing", "downloading", "verifying", "installing",
                                "restarting", "failed", "completed"},
                       version : Releases \cup {Bundled}]
      /\ status'.version = status.version
  BY DEF UpdateInv, UpdateType, Exec, StopProcess, StartProcess, finalizeRestart, updateProgress
<1>5. UpdateType'
  BY <1>2, <1>3, <1>4 DEF UpdateInv, UpdateType, Exec, StopProcess, StartProcess
<1>6. OneInstall' /\ StoppedInv' /\ FilesInv'
  BY <1>1, <1>2, <1>3 DEF UpdateInv, OneInstall, StoppedInv, FilesInv, Past, Active
<1>7. ReportInv'
  <2>1. CASE \E i \in Installs : Exec(i)
    <3>1. PICK i \in Installs : Exec(i)
      BY <2>1
    <3>2. /\ install[i].at = "exec" /\ running' = runtime /\ unwritten' = unwritten
          /\ status'.state = status.state \/ (status.state = "restarting" /\ status'.state = "completed")
      BY <3>1 DEF Exec, finalizeRestart, updateProgress, UpdateInv, UpdateType
    <3>3. ~overlap => /\ updateStateActive /\ runtime = status.version
      BY <3>2 DEF UpdateInv, OneInstall, FilesInv, Past
    <3>4. ~overlap => (status'.state = "completed" => status.state = "restarting")
      BY <3>2, <3>3 DEF updateStateActive, UpdateInv, UpdateType
    <3> QED  BY <1>2, <1>3, <1>4, <3>2, <3>3, <3>4 DEF ReportInv, Past
  <2>2. CASE StopProcess
    <3>1. /\ status' = status /\ running' = NoBuild
          /\ ~unwritten' => ~unwritten /\ \A i \in Installs : install[i].at # "fail"
      BY <2>2 DEF StopProcess
    <3>2. \A i \in Installs : ~Past(i)'
      BY <1>3 DEF Past
    <3> QED  BY <1>2, <3>1, <3>2 DEF UpdateInv, ReportInv
  <2>3. CASE StartProcess
    <3>1. /\ \A i \in Installs : install[i].at # "fail"
          /\ unwritten' = unwritten
          /\ running' = IF runtime = NoBuild THEN Bundled ELSE runtime
          /\ status'.state = status.state \/ (status.state = "restarting" /\ status'.state = "completed")
      BY <1>1, <2>3 DEF StartProcess, finalizeRestart, updateProgress, UpdateInv, UpdateType, StoppedInv, Active
    <3>2. /\ status'.state = "restarting" => status.state = "restarting"
          /\ status'.state = "completed" => status.state \in {"restarting", "completed"}
      BY <3>1
    <3>3. status.version # NoBuild
      BY BuildFacts DEF UpdateInv, UpdateType
    <3>4. \A i \in Installs : ~Past(i)'
      BY <1>3 DEF Past
    <3>5. ~overlap /\ ~unwritten /\ status'.state \in {"restarting", "completed"} =>
            /\ runtime = status.version
            /\ running' = status.version
      BY <3>1, <3>2, <3>3 DEF UpdateInv, ReportInv
    <3> QED  BY <1>2, <1>4, <3>1, <3>4, <3>5 DEF ReportInv
  <2> QED  BY <2>1, <2>2, <2>3
<1> QED  BY <1>5, <1>6, <1>7 DEF UpdateInv

LEMMA UpdateInvariance == UpdateSpec => []UpdateInv
<1>1. UpdateInv /\ [UpdateNext]_updateVars => UpdateInv'
  <2> SUFFICES ASSUME UpdateInv, [UpdateNext]_updateVars PROVE UpdateInv'
    OBVIOUS
  <2>1. CASE UNCHANGED updateVars
    BY <2>1 DEF updateVars, UpdateInv, UpdateType, OneInstall, FilesInv, StoppedInv, ReportInv,
                Past, Active, Verified, updateStateActive
  <2>2. ASSUME NEW i \in Installs, Refuse(i) \/ WriteFailed(i) PROVE UpdateInv'
    <3>1. /\ Past(i) /\ Active(i) /\ Ends(i) /\ fail
          /\ UNCHANGED <<runtime, previous, running, overlap>>
          /\ unwritten' \in BOOLEAN /\ (unwritten => unwritten')
          /\ install[i].at \in {"exec", "fail"} => unwritten' \/ status'.state = "failed"
      BY <2>2, ActiveFacts DEF Refuse, WriteFailed, Past, UpdateInv, UpdateType, files
    <3>2. temp' = temp \/ temp' = [temp EXCEPT ![install[i].version] = NoBuild]
      BY <2>2 DEF Refuse, WriteFailed, files
    <3>3. /\ temp' \in [Releases -> Releases \cup {NoBuild, Partial}]
          /\ \A w \in Releases \ {install[i].version} : temp'[w] = temp[w]
      BY <3>1, <3>2, ActiveFacts DEF UpdateInv, UpdateType
    <3> QED  BY <3>1, <3>3, EndSteps
  <2> QED  BY <2>1, <2>2, AdmitStep, PrepareStep, RefusedStep, DownloadSteps, MoveRuntimeSteps, ProcessSteps
           DEF UpdateNext
<1> QED  BY UpdateInitially, <1>1, PTL DEF UpdateSpec

\* Whatever is refused, fails or dies during an update, the entry point finds a
\* program that starts, and a completed update is the build that runs
\* (api/update.go Install, finalizeRestart).
THEOREM UpdateLeavesAProgram == UpdateSpec => []UpdateSound
<1>1. UpdateInv => UpdateSound
  BY DEF UpdateInv, FilesInv, ReportInv, UpdateSound
<1> QED  BY <1>1, UpdateInvariance, PTL
-----------------------------------------------------------------------------
(* PluginFiles: the inductive invariant. What the code does not guard        *)
(* against is recorded in unlucky, and each part holds as long as what would *)
(* break it has not happened.                                                *)

Lucky(mishap) == mishap \notin unlucky
Guarded == Lucky("overlap") /\ Lucky("unopened")

\* A request under way, with the file of the upload, or of the module it works on.
Request(q) ==
  /\ q = [op |-> q.op, file |-> q.file, module |-> q.module, old |-> q.old, step |-> q.step]
  /\ q.op \in {"install", "stage", "uninstall"}
  /\ q.op = "install" =>
        /\ q.file \in Files /\ q.step \in {"verify", "start", "rename", "open", "register"}
        /\ q.step = "register" => ModuleOf[q.file] \in Modules
  /\ q.op = "stage" =>
        /\ q.file \in Files /\ q.module \in Modules /\ q.old \in Files
        /\ q.step \in {"verify", "start", "replace", "record"}
  /\ q.op = "uninstall" =>
        /\ q.module \in Modules /\ q.old \in Files \cup {NoFile} /\ q.step \in {"start", "unlink"}

PluginFileType ==
  /\ up \in BOOLEAN /\ disk \subseteq Files /\ plugins \subseteq Modules
  /\ pathOf \in [Modules -> Files \cup {NoFile}]
  /\ asked = [r \in Askers |-> asked[r]] /\ \A r \in Askers : asked[r] = Done \/ Request(asked[r])
  /\ ~up => plugins = {} /\ \A r \in Askers : asked[r] = Done

Asks(r, op, steps) == asked[r] # Done /\ asked[r].op = op /\ asked[r].step \in steps

\* Nothing else runs beside a stage.
StageAlone ==
  Lucky("overlap") =>
      \A r, o \in Askers : r # o /\ asked[r] # Done /\ asked[r].op = "stage" => asked[o] = Done

\* The table of files knows the modules in memory.
PathsRight ==
  Guarded => \A m \in Modules : /\ m \in plugins <=> pathOf[m] # NoFile
                                /\ m \in plugins => ModuleOf[pathOf[m]] = m

\* A stage works on a plugin that is installed; once it is over with the old file,
\* that one is gone.
StageKnows ==
  Guarded => \A r \in Askers :
      asked[r] # Done /\ asked[r].op = "stage" =>
          /\ ModuleOf[asked[r].file] = asked[r].module
          /\ asked[r].module \in plugins /\ pathOf[asked[r].module] = asked[r].old
          /\ asked[r].step \in {"replace", "record"} => asked[r].file \in disk
          /\ asked[r].step = "record" => asked[r].old = asked[r].file \/ asked[r].old \notin disk

\* Every file in the directory is one of a plugin in memory, or a request under way
\* has still to accept or to remove it; and then the server can start, or runs.
Settled(f) == ModuleOf[f] \in plugins /\ pathOf[ModuleOf[f]] = f
Unsettled(f) ==
  \E r \in Askers : \/ Asks(r, "install", {"open", "register"}) /\ asked[r].file = f
                    \/ Asks(r, "uninstall", {"unlink"}) /\ asked[r].old = f
                    \/ Asks(r, "stage", {"replace", "record"}) /\ asked[r].file = f

DiskSettled ==
  Guarded /\ Lucky("crash") /\ Lucky("kept") =>
      IF up THEN \A f \in disk : Settled(f) \/ Unsettled(f) ELSE Loads(disk)

\* No two uploads bring the same file.
UploadsApart ==
  Lucky("twice") =>
      \A r, o \in Askers : r # o /\ Asks(r, "install", {"verify", "start", "rename", "open", "register"})
                             /\ Asks(o, "install", {"verify", "start", "rename", "open", "register"})
                           => asked[r].file # asked[o].file

\* A plugin in memory has its file, and no upload or removal under way will take it.
PathsStored ==
  Guarded /\ Lucky("twice") =>
      /\ \A m \in plugins : \/ pathOf[m] \in disk
                            \/ \E r \in Askers : Asks(r, "stage", {"record"}) /\ asked[r].module = m
      /\ \A r \in Askers : Asks(r, "install", {"rename", "open", "register"}) =>
            /\ \A m \in Modules : pathOf[m] # asked[r].file
            /\ \A o \in Askers : Asks(o, "uninstall", {"unlink"}) => asked[o].old # asked[r].file
            /\ asked[r].step # "rename" => asked[r].file \in disk
      /\ \A r \in Askers : Asks(r, "uninstall", {"unlink"}) /\ asked[r].old # NoFile =>
            /\ asked[r].old \in disk
            /\ \A m \in Modules : pathOf[m] # asked[r].old
            /\ \A o \in Askers : o # r /\ Asks(o, "uninstall", {"unlink"}) => asked[o].old # asked[r].old

PluginFileInv ==
  PluginFileType /\ StageAlone /\ PathsRight /\ StageKnows /\ DiskSettled /\ UploadsApart /\ PathsStored

\* Steps of the requests: one moves on, or is over, and the others stay.
LEMMA RequestFacts == Done.op = "none" /\ \A q : Request(q) => q # Done
<1>1. Done.op = "none"
  BY DEF Done
<1>2. \A q : Request(q) => q # Done
  BY <1>1 DEF Request
<1> QED  BY <1>1, <1>2

LEMMA RequestGoes ==
  ASSUME PluginFileType, NEW r \in Askers, asked[r] # Done, NEW step, Go(r, step)
  PROVE  /\ asked'[r].op = asked[r].op /\ asked'[r].file = asked[r].file
         /\ asked'[r].module = asked[r].module /\ asked'[r].old = asked[r].old /\ asked'[r].step = step
         /\ asked'[r] = [op |-> asked'[r].op, file |-> asked'[r].file, module |-> asked'[r].module,
                         old |-> asked'[r].old, step |-> asked'[r].step]
         /\ \A o \in Askers \ {r} : asked'[o] = asked[o]
         /\ asked' = [o \in Askers |-> asked'[o]]
<1>1. asked = [o \in Askers |-> asked[o]] /\ Request(asked[r])
  BY DEF PluginFileType
<1>2. asked' = [asked EXCEPT ![r].step = step]
  BY DEF Go
<1>3. PICK q : q = asked[r]
  OBVIOUS
<1>4. asked'[r] = [q EXCEPT !.step = step] /\ \A o \in Askers \ {r} : asked'[o] = asked[o]
  BY <1>1, <1>2, <1>3
<1>5. q = [op |-> q.op, file |-> q.file, module |-> q.module, old |-> q.old, step |-> q.step]
  BY <1>1, <1>3 DEF Request
<1>6. [q EXCEPT !.step = step] = [op |-> q.op, file |-> q.file, module |-> q.module, old |-> q.old, step |-> step]
  BY <1>5
<1>7. asked' = [o \in Askers |-> asked'[o]]
  BY <1>1, <1>2
<1> QED  BY <1>3, <1>4, <1>6, <1>7

LEMMA RequestReturns ==
  ASSUME PluginFileType, NEW r \in Askers, Return(r)
  PROVE  /\ asked'[r] = Done /\ \A o \in Askers \ {r} : asked'[o] = asked[o]
         /\ asked' = [o \in Askers |-> asked'[o]]
BY DEF PluginFileType, Return

\* A request that moves on or is over where nothing depends on it.
LEMMA QuietMove ==
  ASSUME PluginFileInv, UNCHANGED <<up, disk, plugins, pathOf, unlucky>>, NEW r \in Askers, asked[r] # Done,
         \/ Return(r) /\ ~Asks(r, "install", {"open", "register"}) /\ ~Asks(r, "uninstall", {"unlink"})
                      /\ ~Asks(r, "stage", {"replace", "record"})
         \/ Go(r, "start") /\ asked[r].step = "verify"
         \/ Go(r, "rename") /\ asked[r].op = "install" /\ asked[r].step = "start" /\ asked[r].file \notin disk
         \/ Go(r, "register") /\ asked[r].op = "install" /\ asked[r].step = "open" /\ ModuleOf[asked[r].file] # Broken
  PROVE  PluginFileInv'
<1>0. /\ PluginFileType /\ Request(asked[r])
      /\ \A o \in Askers : asked[o] = Done \/ Request(asked[o])
  BY DEF PluginFileInv, PluginFileType
<1>1. /\ \A o \in Askers \ {r} : asked'[o] = asked[o]
      /\ asked' = [o \in Askers |-> asked'[o]]
      /\ \/ /\ asked'[r] = Done /\ ~Asks(r, "install", {"open", "register"})
            /\ ~Asks(r, "uninstall", {"unlink"}) /\ ~Asks(r, "stage", {"replace", "record"})
         \/ /\ asked'[r].op = asked[r].op /\ asked'[r].file = asked[r].file
            /\ asked'[r].module = asked[r].module /\ asked'[r].old = asked[r].old
            /\ asked'[r] = [op |-> asked'[r].op, file |-> asked'[r].file, module |-> asked'[r].module,
                            old |-> asked'[r].old, step |-> asked'[r].step]
            /\ asked'[r] # Done
            /\ \/ asked'[r].step = "start" /\ asked[r].step = "verify"
               \/ asked'[r].step = "rename" /\ asked[r].op = "install" /\ asked[r].step = "start"
                    /\ asked[r].file \notin disk
               \/ asked'[r].step = "register" /\ asked[r].op = "install" /\ asked[r].step = "open"
                    /\ ModuleOf[asked[r].file] # Broken
  BY <1>0, RequestGoes, RequestReturns, RequestFacts DEF Request, Done
<1>2. PluginFileType'
  BY <1>0, <1>1, PluginFileAssumption DEF PluginFileType, Request
<1>3. StageAlone'
  BY <1>0, <1>1, RequestFacts DEF PluginFileInv, StageAlone, Lucky
<1>4. PathsRight'
  BY DEF PluginFileInv, PathsRight, Lucky, Guarded
<1>5. StageKnows'
  BY <1>0, <1>1, RequestFacts DEF PluginFileInv, StageKnows, Lucky, Guarded
<1>6. DiskSettled'
  <2>1. \A f : Settled(f) => Settled(f)'
    BY DEF Settled
  <2>2. \A f : Unsettled(f) => Unsettled(f)'
    <3>1. \A o \in Askers : /\ Asks(o, "install", {"open", "register"}) =>
                                 Asks(o, "install", {"open", "register"})' /\ asked'[o].file = asked[o].file
                            /\ Asks(o, "uninstall", {"unlink"}) =>
                                 Asks(o, "uninstall", {"unlink"})' /\ asked'[o].old = asked[o].old
                            /\ Asks(o, "stage", {"replace", "record"}) =>
                                 Asks(o, "stage", {"replace", "record"})' /\ asked'[o].file = asked[o].file
      BY <1>0, <1>1, RequestFacts DEF Asks, Request
    <3> QED  BY <3>1 DEF Unsettled
  <2> QED  BY <2>1, <2>2 DEF PluginFileInv, DiskSettled, Lucky, Guarded, Loads
<1>7. UploadsApart'
  BY <1>0, <1>1, RequestFacts DEF PluginFileInv, UploadsApart, Lucky, Asks
<1>8. PathsStored'
  <2> SUFFICES ASSUME (Guarded /\ Lucky("twice"))' PROVE PathsStored'
    BY DEF PathsStored
  <2>0. Guarded /\ Lucky("twice")
    BY DEF Guarded, Lucky
  <2>1. \A m \in plugins' : \/ pathOf'[m] \in disk'
                            \/ \E o \in Askers : Asks(o, "stage", {"record"})' /\ asked'[o].module = m
    BY <1>0, <1>1, <2>0 DEF PluginFileInv, PathsStored, Asks, Request
  <2>2. \A o \in Askers : Asks(o, "uninstall", {"unlink"})' => Asks(o, "uninstall", {"unlink"}) /\ asked'[o] = asked[o]
    BY <1>0, <1>1 DEF Asks, Request
  <2>3. ASSUME NEW o \in Askers, Asks(o, "install", {"rename", "open", "register"})'
        PROVE  /\ \A m \in Modules : pathOf'[m] # asked'[o].file
               /\ \A u \in Askers : Asks(u, "uninstall", {"unlink"})' => asked'[u].old # asked'[o].file
               /\ asked'[o].step # "rename" => asked'[o].file \in disk'
    <3>1. CASE /\ Asks(o, "install", {"rename", "open", "register"}) /\ asked'[o].file = asked[o].file
               /\ asked[o].step = "rename" => asked'[o].step = "rename"
      BY <2>0, <2>2, <3>1 DEF PluginFileInv, PathsStored
    <3>2. CASE /\ o = r /\ asked[r].op = "install" /\ asked[r].file \notin disk /\ asked'[r].file = asked[r].file
               /\ asked'[r].step = "rename"
      <4>1. \A u \in Askers : asked[u].op # "stage"
        BY <1>0, <2>0, <3>2, RequestFacts DEF PluginFileInv, StageAlone, Guarded
      <4>2. \A m \in plugins : pathOf[m] \in disk
        BY <2>0, <4>1 DEF PluginFileInv, PathsStored, Asks
      <4>3. asked[r].file # NoFile
        BY <1>0, <3>2, PluginFileAssumption DEF Request
      <4>4. \A m \in Modules : pathOf[m] # asked[r].file
        BY <2>0, <3>2, <4>2, <4>3 DEF PluginFileInv, PathsRight
      <4>5. \A u \in Askers : Asks(u, "uninstall", {"unlink"}) => asked[u].old # asked[r].file
        BY <2>0, <3>2, <4>3 DEF PluginFileInv, PathsStored
      <4> QED  BY <2>2, <3>2, <4>4, <4>5
    <3> QED  BY <1>0, <1>1, <2>3, <3>1, <3>2 DEF Asks, Done, Request
  <2>4. \A o \in Askers : Asks(o, "uninstall", {"unlink"})' /\ asked'[o].old # NoFile =>
            /\ asked'[o].old \in disk'
            /\ \A m \in Modules : pathOf'[m] # asked'[o].old
            /\ \A u \in Askers : u # o /\ Asks(u, "uninstall", {"unlink"})' => asked'[u].old # asked'[o].old
    BY <2>0, <2>2 DEF PluginFileInv, PathsStored
  <2> QED  BY <2>1, <2>3, <2>4 DEF PathsStored
<1> QED  BY <1>2, <1>3, <1>4, <1>5, <1>6, <1>7, <1>8 DEF PluginFileInv

\* A request arrives.
LEMMA RequestEnters ==
  ASSUME PluginFileInv, NEW r \in Askers, NEW op, NEW f, NEW m, NEW step, Enter(r, op, f, m, step),
         \/ op = "install" /\ f \in Files /\ step = "verify"
         \/ op = "stage" /\ f \in Files /\ m \in Modules /\ pathOf[m] # NoFile /\ step = "verify"
         \/ op = "uninstall" /\ m \in Modules /\ step = "start"
  PROVE  PluginFileInv'
<1>0. /\ PluginFileType /\ \A o \in Askers : asked[o] = Done \/ Request(asked[o])
      /\ pathOf \in [Modules -> Files \cup {NoFile}]
  BY DEF PluginFileInv, PluginFileType
<1>1. /\ up /\ asked[r] = Done /\ UNCHANGED <<up, disk, plugins, pathOf>>
      /\ asked' = [asked EXCEPT ![r] = [op |-> op, file |-> f, module |-> m, old |-> pathOf[m], step |-> step]]
      /\ unlucky \subseteq unlucky'
      /\ "overlap" \notin unlucky' => \A o \in Askers \ {r} : (asked[o] # Done) => ("stage" \notin {op, asked[o].op})
      /\ "twice" \notin unlucky' => \A o \in Askers \ {r} : ~(asked[o].op = "install" /\ op = "install" /\ asked[o].file = f)
      /\ "unopened" \notin unlucky' => (op = "stage" => ModuleOf[f] = m)
  BY DEF Enter
<1>2. /\ asked'[r].op = op /\ asked'[r].file = f /\ asked'[r].module = m /\ asked'[r].old = pathOf[m]
      /\ asked'[r].step = step
      /\ asked'[r] = [op |-> asked'[r].op, file |-> asked'[r].file, module |-> asked'[r].module,
                      old |-> asked'[r].old, step |-> asked'[r].step]
      /\ \A o \in Askers \ {r} : asked'[o] = asked[o]
      /\ asked' = [o \in Askers |-> asked'[o]]
  BY <1>0, <1>1 DEF PluginFileType
<1>3. PluginFileType'
  <2>1. Request(asked'[r])
    BY <1>0, <1>2 DEF Request
  <2> QED  BY <1>0, <1>1, <1>2, <2>1 DEF PluginFileType
<1>4. StageAlone'
  BY <1>0, <1>1, <1>2, RequestFacts DEF PluginFileInv, StageAlone, Lucky
<1>5. PathsRight'
  BY <1>1 DEF PluginFileInv, PathsRight, Lucky, Guarded
<1>6. StageKnows'
  BY <1>0, <1>1, <1>2, RequestFacts DEF PluginFileInv, StageKnows, PathsRight, Lucky, Guarded
<1>7. DiskSettled'
  <2>1. \A g : Settled(g) => Settled(g)'
    BY <1>1 DEF Settled
  <2>2. \A g : Unsettled(g) => Unsettled(g)'
    BY <1>0, <1>1, <1>2 DEF Unsettled, Asks, Request
  <2> QED  BY <1>1, <2>1, <2>2 DEF PluginFileInv, DiskSettled, Lucky, Guarded, Loads
<1>8. UploadsApart'
  BY <1>0, <1>1, <1>2, RequestFacts DEF PluginFileInv, UploadsApart, Lucky, Asks
<1>9. PathsStored'
  <2> SUFFICES ASSUME (Guarded /\ Lucky("twice"))' PROVE PathsStored'
    BY DEF PathsStored
  <2>0. Guarded /\ Lucky("twice")
    BY <1>1 DEF Guarded, Lucky
  <2>1. \A o \in Askers : /\ Asks(o, "install", {"rename", "open", "register"})'
                             => Asks(o, "install", {"rename", "open", "register"}) /\ asked'[o] = asked[o]
                          /\ Asks(o, "uninstall", {"unlink"})'
                             => Asks(o, "uninstall", {"unlink"}) /\ asked'[o] = asked[o]
                          /\ Asks(o, "stage", {"record"}) => Asks(o, "stage", {"record"})' /\ asked'[o] = asked[o]
    BY <1>1, <1>2 DEF Asks
  <2> QED  BY <1>1, <2>0, <2>1 DEF PluginFileInv, PathsStored
<1> QED  BY <1>3, <1>4, <1>5, <1>6, <1>7, <1>8, <1>9 DEF PluginFileInv

\* A file is stored under its name, of an upload or of a stage.
LEMMA FileStored ==
  ASSUME PluginFileInv, NEW r \in Askers, RenameIntoPlace(r) \/ StageRename(r)
  PROVE  PluginFileInv'
<1>0. /\ PluginFileType /\ \A o \in Askers : asked[o] = Done \/ Request(asked[o])
  BY DEF PluginFileInv, PluginFileType
<1>1. /\ UNCHANGED <<up, plugins, pathOf, unlucky>> /\ disk' = disk \cup {asked[r].file}
      /\ \/ asked[r].op = "install" /\ asked[r].step = "rename" /\ Go(r, "open")
         \/ asked[r].op = "stage" /\ asked[r].step = "start" /\ Go(r, "replace")
  BY DEF RenameIntoPlace, StageRename
<1>2. asked[r] # Done /\ Request(asked[r]) /\ asked[r].file \in Files
  BY <1>0, <1>1, RequestFacts DEF Request
<1>3. /\ asked'[r].op = asked[r].op /\ asked'[r].file = asked[r].file
      /\ asked'[r].module = asked[r].module /\ asked'[r].old = asked[r].old
      /\ \/ asked[r].op = "install" /\ asked[r].step = "rename" /\ asked'[r].step = "open"
         \/ asked[r].op = "stage" /\ asked[r].step = "start" /\ asked'[r].step = "replace"
      /\ asked'[r] = [op |-> asked'[r].op, file |-> asked'[r].file, module |-> asked'[r].module,
                      old |-> asked'[r].old, step |-> asked'[r].step]
      /\ \A o \in Askers \ {r} : asked'[o] = asked[o]
      /\ asked' = [o \in Askers |-> asked'[o]]
  BY <1>0, <1>1, <1>2, RequestGoes
<1>4. up /\ asked'[r] # Done
  BY <1>2, <1>3, RequestFacts DEF PluginFileInv, PluginFileType, Request
<1>5. PluginFileType'
  BY <1>0, <1>1, <1>2, <1>3, <1>4 DEF PluginFileType, Request
<1>6. StageAlone'
  BY <1>0, <1>1, <1>2, <1>3, RequestFacts DEF PluginFileInv, StageAlone, Lucky
<1>7. PathsRight'
  BY <1>1 DEF PluginFileInv, PathsRight, Lucky, Guarded
<1>8. StageKnows'
  BY <1>0, <1>1, <1>2, <1>3, RequestFacts DEF PluginFileInv, StageKnows, StageAlone, Lucky, Guarded
<1>9. DiskSettled'
  <2>1. \A g : Settled(g) => Settled(g)'
    BY <1>1 DEF Settled
  <2>2. \A g : Unsettled(g) => Unsettled(g)'
    BY <1>0, <1>1, <1>3, <1>4 DEF Unsettled, Asks, Request
  <2>3. \A g : g = asked[r].file => Unsettled(g)'
    BY <1>3, <1>4 DEF Unsettled, Asks
  <2> SUFFICES ASSUME (Guarded /\ Lucky("crash") /\ Lucky("kept"))', NEW g \in disk'
               PROVE  Settled(g)' \/ Unsettled(g)'
    BY <1>1, <1>4 DEF DiskSettled
  <2>4. g \in disk => Settled(g) \/ Unsettled(g)
    BY <1>1, <1>4 DEF PluginFileInv, DiskSettled, Lucky, Guarded
  <2> QED  BY <1>1, <2>1, <2>2, <2>3, <2>4
<1>10. UploadsApart'
  BY <1>0, <1>1, <1>2, <1>3, RequestFacts DEF PluginFileInv, UploadsApart, Lucky, Asks
<1>11. PathsStored'
  <2> SUFFICES ASSUME (Guarded /\ Lucky("twice"))' PROVE PathsStored'
    BY DEF PathsStored
  <2>0. Guarded /\ Lucky("twice")
    BY <1>1 DEF Guarded, Lucky
  <2>1. \A o \in Askers : /\ Asks(o, "install", {"rename", "open", "register"})'
                             => /\ Asks(o, "install", {"rename", "open", "register"}) /\ asked'[o].file = asked[o].file
                                /\ o # r => asked'[o].step = asked[o].step
                          /\ Asks(o, "uninstall", {"unlink"})'
                             => Asks(o, "uninstall", {"unlink"}) /\ asked'[o] = asked[o]
                          /\ Asks(o, "stage", {"record"}) => Asks(o, "stage", {"record"})' /\ asked'[o] = asked[o]
    BY <1>1, <1>2, <1>3 DEF Asks
  <2> QED  BY <1>1, <2>0, <2>1 DEF PluginFileInv, PathsStored
<1> QED  BY <1>5, <1>6, <1>7, <1>8, <1>9, <1>10, <1>11 DEF PluginFileInv

\* A stored file is refused and removed again, of an upload or of a stage.
LEMMA FileRefused ==
  ASSUME PluginFileInv, NEW r \in Askers, UNCHANGED <<up, plugins, pathOf, unlucky>>, Return(r),
         disk' = disk \ {asked[r].file},
         \/ Asks(r, "install", {"open", "register"})
         \/ Asks(r, "stage", {"replace"}) /\ asked[r].old # asked[r].file
  PROVE  PluginFileInv'
<1>0. /\ PluginFileType /\ \A o \in Askers : asked[o] = Done \/ Request(asked[o])
      /\ asked[r] # Done /\ Request(asked[r]) /\ up
  BY DEF PluginFileInv, PluginFileType, Asks
<1>1. /\ asked'[r] = Done /\ \A o \in Askers \ {r} : asked'[o] = asked[o]
      /\ asked' = [o \in Askers |-> asked'[o]]
  BY <1>0, RequestReturns
<1>2. PluginFileType'
  BY <1>0, <1>1 DEF PluginFileType, Request
<1>3. StageAlone'
  BY <1>0, <1>1 DEF PluginFileInv, StageAlone, Lucky
<1>4. PathsRight'
  BY DEF PluginFileInv, PathsRight, Lucky, Guarded
<1>5. StageKnows'
  <2>1. Guarded => \A o \in Askers : asked'[o] # Done => asked'[o].op # "stage"
    BY <1>0, <1>1 DEF PluginFileInv, StageAlone, Guarded
  <2> QED  BY <2>1 DEF StageKnows, Guarded, Lucky
<1>6. DiskSettled'
  <2> SUFFICES ASSUME (Guarded /\ Lucky("crash") /\ Lucky("kept"))', NEW g \in disk'
               PROVE  Settled(g)' \/ Unsettled(g)'
    BY <1>0 DEF DiskSettled
  <2>1. g # asked[r].file /\ (Settled(g) \/ Unsettled(g))
    BY <1>0 DEF PluginFileInv, DiskSettled, Lucky, Guarded
  <2>2. Settled(g) => Settled(g)'
    BY DEF Settled
  <2>3. Unsettled(g) => Unsettled(g)'
    <3>1. \A o \in Askers : /\ Asks(o, "install", {"open", "register"}) /\ asked[o].file = g =>
                                 Asks(o, "install", {"open", "register"})' /\ asked'[o].file = g
                            /\ Asks(o, "uninstall", {"unlink"}) /\ asked[o].old = g =>
                                 Asks(o, "uninstall", {"unlink"})' /\ asked'[o].old = g
                            /\ Asks(o, "stage", {"replace", "record"}) /\ asked[o].file = g =>
                                 Asks(o, "stage", {"replace", "record"})' /\ asked'[o].file = g
      BY <1>0, <1>1, <2>1 DEF Asks
    <3> QED  BY <3>1 DEF Unsettled
  <2> QED  BY <2>1, <2>2, <2>3
<1>7. UploadsApart'
  BY <1>0, <1>1 DEF PluginFileInv, UploadsApart, Lucky, Asks
<1>8. PathsStored'
  <2> SUFFICES ASSUME (Guarded /\ Lucky("twice"))' PROVE PathsStored'
    BY DEF PathsStored
  <2>0. Guarded /\ Lucky("twice")
    BY DEF Guarded, Lucky
  <2>1. \A o \in Askers : /\ asked'[o] # Done => asked'[o] = asked[o] /\ o # r
                          /\ Asks(o, "stage", {"record"}) => Asks(o, "stage", {"record"})' /\ asked'[o] = asked[o]
    BY <1>0, <1>1 DEF Asks
  <2>2. \A o \in Askers : /\ Asks(o, "install", {"rename", "open", "register"})'
                             => /\ Asks(o, "install", {"rename", "open", "register"}) /\ asked'[o] = asked[o]
                                /\ asked[o].file # asked[r].file
                          /\ Asks(o, "uninstall", {"unlink"})'
                             => /\ Asks(o, "uninstall", {"unlink"}) /\ asked'[o] = asked[o]
                                /\ asked[o].old # asked[r].file
    <3>1. CASE Asks(r, "install", {"open", "register"})
      <4>1. /\ Asks(r, "install", {"rename", "open", "register"})
            /\ Asks(r, "install", {"verify", "start", "rename", "open", "register"})
        BY <3>1 DEF Asks
      <4>2. \A o \in Askers : Asks(o, "install", {"rename", "open", "register"})
                                => Asks(o, "install", {"verify", "start", "rename", "open", "register"})
        BY DEF Asks
      <4>3. \A o \in Askers : o # r /\ Asks(o, "install", {"rename", "open", "register"})
                                => asked[o].file # asked[r].file
        BY <2>0, <4>1, <4>2 DEF PluginFileInv, UploadsApart
      <4>4. \A o \in Askers : Asks(o, "uninstall", {"unlink"}) => asked[o].old # asked[r].file
        BY <2>0, <4>1 DEF PluginFileInv, PathsStored
      <4> QED  BY <2>1, <4>3, <4>4 DEF Asks
    <3>2. CASE Asks(r, "stage", {"replace"})
      <4>1. \A o \in Askers : asked'[o] = Done
        BY <1>1, <2>0, <3>2 DEF PluginFileInv, StageAlone, Guarded, Asks
      <4> QED  BY <4>1 DEF Asks
    <3> QED  BY <3>1, <3>2
  <2>3. \A m \in plugins : pathOf[m] # asked[r].file
    <3>1. CASE Asks(r, "install", {"open", "register"})
      <4>1. Asks(r, "install", {"rename", "open", "register"}) /\ plugins \subseteq Modules
        BY <1>0, <3>1 DEF Asks, PluginFileType
      <4> QED  BY <2>0, <4>1 DEF PluginFileInv, PathsStored
    <3>2. CASE Asks(r, "stage", {"replace"}) /\ asked[r].old # asked[r].file
      <4>1. ModuleOf[asked[r].file] = asked[r].module /\ pathOf[asked[r].module] = asked[r].old
        BY <2>0, <3>2 DEF PluginFileInv, StageKnows, Asks
      <4>2. \A m \in plugins : ModuleOf[pathOf[m]] = m
        BY <1>0, <2>0 DEF PluginFileInv, PathsRight, PluginFileType
      <4> QED  BY <3>2, <4>1, <4>2
    <3> QED  BY <3>1, <3>2
  <2>4. \A m \in plugins' : \/ pathOf'[m] \in disk'
                            \/ \E o \in Askers : Asks(o, "stage", {"record"})' /\ asked'[o].module = m
    BY <2>0, <2>1, <2>3 DEF PluginFileInv, PathsStored
  <2> QED  BY <2>0, <2>2, <2>4 DEF PluginFileInv, PathsStored
<1> QED  BY <1>2, <1>3, <1>4, <1>5, <1>6, <1>7, <1>8 DEF PluginFileInv

\* An upload is accepted: its module is in memory, with this file.
LEMMA PluginRegistered ==
  ASSUME PluginFileInv, NEW r \in Askers, Register(r), ModuleOf[asked[r].file] \notin plugins
  PROVE  PluginFileInv'
<1> DEFINE f == asked[r].file
           m == ModuleOf[asked[r].file]
<1>0. /\ PluginFileType /\ \A o \in Askers : asked[o] = Done \/ Request(asked[o])
      /\ asked[r].op = "install" /\ asked[r].step = "register" /\ asked[r] # Done /\ Request(asked[r])
      /\ UNCHANGED <<up, disk, unlucky>> /\ Return(r)
      /\ plugins' = plugins \cup {m} /\ pathOf' = [pathOf EXCEPT ![m] = f]
  BY RequestFacts DEF PluginFileInv, PluginFileType, Register
<1>1. /\ asked'[r] = Done /\ \A o \in Askers \ {r} : asked'[o] = asked[o]
      /\ asked' = [o \in Askers |-> asked'[o]]
  BY <1>0, RequestReturns
<1>2. /\ up /\ f \in Files /\ m \in Modules /\ m \notin plugins /\ f # NoFile
      /\ pathOf'[m] = f /\ \A k \in Modules \ {m} : pathOf'[k] = pathOf[k]
  BY <1>0, PluginFileAssumption DEF PluginFileType, Request
<1>3. PluginFileType'
  BY <1>0, <1>1, <1>2 DEF PluginFileType, Request
<1>4. StageAlone'
  BY <1>0, <1>1 DEF PluginFileInv, StageAlone, Lucky
<1>5. PathsRight'
  BY <1>0, <1>2 DEF PluginFileInv, PathsRight, Lucky, Guarded
<1>6. StageKnows'
  <2>1. Guarded => \A o \in Askers : asked'[o] # Done => asked'[o].op # "stage"
    BY <1>0, <1>1 DEF PluginFileInv, StageAlone, Guarded
  <2> QED  BY <1>0, <2>1 DEF StageKnows, Guarded, Lucky
<1>7. DiskSettled'
  <2> SUFFICES ASSUME (Guarded /\ Lucky("crash") /\ Lucky("kept"))', NEW g \in disk'
               PROVE  Settled(g)' \/ Unsettled(g)'
    BY <1>0, <1>2 DEF DiskSettled
  <2>1. Settled(g) \/ Unsettled(g)
    BY <1>0, <1>2 DEF PluginFileInv, DiskSettled, Lucky, Guarded
  <2>2. Settled(g) => Settled(g)'
    BY <1>0, <1>2 DEF Settled, PluginFileType
  <2>3. g = f => Settled(g)'
    BY <1>0, <1>2 DEF Settled
  <2>4. Unsettled(g) /\ g # f => Unsettled(g)'
    <3>1. \A o \in Askers : /\ Asks(o, "install", {"open", "register"}) /\ asked[o].file = g /\ g # f =>
                                 Asks(o, "install", {"open", "register"})' /\ asked'[o].file = g
                            /\ Asks(o, "uninstall", {"unlink"}) /\ asked[o].old = g =>
                                 Asks(o, "uninstall", {"unlink"})' /\ asked'[o].old = g
                            /\ Asks(o, "stage", {"replace", "record"}) /\ asked[o].file = g =>
                                 Asks(o, "stage", {"replace", "record"})' /\ asked'[o].file = g
      BY <1>0, <1>1 DEF Asks
    <3> QED  BY <3>1 DEF Unsettled
  <2> QED  BY <2>1, <2>2, <2>3, <2>4
<1>8. UploadsApart'
  BY <1>0, <1>1 DEF PluginFileInv, UploadsApart, Lucky, Asks
<1>9. PathsStored'
  <2> SUFFICES ASSUME (Guarded /\ Lucky("twice"))' PROVE PathsStored'
    BY DEF PathsStored
  <2>0. Guarded /\ Lucky("twice")
    BY <1>0 DEF Guarded, Lucky
  <2>1. /\ f \in disk /\ \A k \in Modules : pathOf[k] # f
        /\ \A o \in Askers : Asks(o, "uninstall", {"unlink"}) => asked[o].old # f
    <3>1. Asks(r, "install", {"rename", "open", "register"})
      BY <1>0 DEF Asks
    <3> QED  BY <1>0, <2>0, <3>1 DEF PluginFileInv, PathsStored
  <2>2. \A o \in Askers : /\ Asks(o, "install", {"rename", "open", "register"})'
                             => /\ Asks(o, "install", {"rename", "open", "register"}) /\ asked'[o] = asked[o]
                                /\ asked[o].file # f
                          /\ Asks(o, "uninstall", {"unlink"})'
                             => Asks(o, "uninstall", {"unlink"}) /\ asked'[o] = asked[o]
                          /\ Asks(o, "stage", {"record"}) => Asks(o, "stage", {"record"})' /\ asked'[o] = asked[o]
    <3>1. /\ Asks(r, "install", {"verify", "start", "rename", "open", "register"})
          /\ \A o \in Askers : Asks(o, "install", {"rename", "open", "register"})
                                 => Asks(o, "install", {"verify", "start", "rename", "open", "register"})
      BY <1>0 DEF Asks
    <3>2. \A o \in Askers : o # r /\ Asks(o, "install", {"rename", "open", "register"}) => asked[o].file # f
      BY <2>0, <3>1 DEF PluginFileInv, UploadsApart
    <3> QED  BY <1>0, <1>1, <3>2 DEF Asks
  <2>3. \A k \in plugins' : \/ pathOf'[k] \in disk'
                            \/ \E o \in Askers : Asks(o, "stage", {"record"})' /\ asked'[o].module = k
    <3>1. \A k \in plugins : \/ pathOf[k] \in disk
                             \/ \E o \in Askers : Asks(o, "stage", {"record"}) /\ asked[o].module = k
      BY <2>0 DEF PluginFileInv, PathsStored
    <3>2. \A k \in plugins : k \in Modules \ {m}
      BY <1>0, <1>2 DEF PluginFileType
    <3> QED  BY <1>0, <1>2, <2>1, <2>2, <3>1, <3>2
  <2>4. \A k \in Modules : pathOf'[k] = f \/ pathOf'[k] = pathOf[k]
    BY <1>2
  <2> QED  BY <1>0, <2>0, <2>1, <2>2, <2>3, <2>4 DEF PluginFileInv, PathsStored
<1> QED  BY <1>3, <1>4, <1>5, <1>6, <1>7, <1>8, <1>9 DEF PluginFileInv

\* An uninstall takes the module out of memory, and has still to remove its file.
LEMMA PluginUnregistered ==
  ASSUME PluginFileInv, NEW r \in Askers, Unregister(r)
  PROVE  PluginFileInv'
<1> DEFINE m == asked[r].module
<1>0. /\ PluginFileType /\ \A o \in Askers : asked[o] = Done \/ Request(asked[o])
      /\ asked[r].op = "uninstall" /\ asked[r].step = "start" /\ asked[r] # Done /\ Request(asked[r])
      /\ UNCHANGED <<up, disk, unlucky>> /\ m \in Modules /\ pathOf \in [Modules -> Files \cup {NoFile}]
  BY RequestFacts DEF PluginFileInv, PluginFileType, Unregister, Request
<1>1. CASE Return(r) /\ UNCHANGED <<plugins, pathOf>>
  <2>1. /\ ~Asks(r, "install", {"open", "register"}) /\ ~Asks(r, "uninstall", {"unlink"})
        /\ ~Asks(r, "stage", {"replace", "record"})
    BY <1>0 DEF Asks
  <2> QED  BY <1>0, <1>1, <2>1, QuietMove
<1>2. CASE /\ plugins' = plugins \ {m} /\ pathOf' = [pathOf EXCEPT ![m] = NoFile]
           /\ asked' = [asked EXCEPT ![r].step = "unlink", ![r].old = pathOf[m]]
  <2>1. /\ asked'[r].op = "uninstall" /\ asked'[r].module = m /\ asked'[r].old = pathOf[m]
        /\ asked'[r].step = "unlink" /\ Request(asked'[r]) /\ asked'[r] # Done
        /\ \A o \in Askers \ {r} : asked'[o] = asked[o]
        /\ asked' = [o \in Askers |-> asked'[o]]
    <3>1. PICK q : q = asked[r]
      OBVIOUS
    <3>2. PICK p : p = pathOf[m]
      OBVIOUS
    <3>3. asked'[r] = [q EXCEPT !.step = "unlink", !.old = p] /\ \A o \in Askers \ {r} : asked'[o] = asked[o]
      BY <1>0, <1>2, <3>1, <3>2 DEF PluginFileType
    <3>4. q = [op |-> q.op, file |-> q.file, module |-> q.module, old |-> q.old, step |-> q.step]
      BY <1>0, <3>1 DEF Request
    <3>5. [q EXCEPT !.step = "unlink", !.old = p]
            = [op |-> q.op, file |-> q.file, module |-> q.module, old |-> p, step |-> "unlink"]
      <4>1. PICK s : s = [q EXCEPT !.step = "unlink"]
        OBVIOUS
      <4>2. s = [op |-> q.op, file |-> q.file, module |-> q.module, old |-> q.old, step |-> "unlink"]
        BY <3>4, <4>1
      <4>3. [s EXCEPT !.old = p] = [op |-> q.op, file |-> q.file, module |-> q.module, old |-> p, step |-> "unlink"]
        BY <4>2
      <4>4. [q EXCEPT !.step = "unlink", !.old = p] = [s EXCEPT !.old = p]
        BY <4>1
      <4> QED  BY <4>3, <4>4
    <3>6. asked' = [o \in Askers |-> asked'[o]]
      BY <1>0, <1>2 DEF PluginFileType
    <3>7. p \in Files \cup {NoFile} /\ q.op = "uninstall" /\ q.module = m /\ m \in Modules
      BY <1>0, <3>1, <3>2
    <3>8. Request([op |-> q.op, file |-> q.file, module |-> q.module, old |-> p, step |-> "unlink"])
      BY <3>7 DEF Request
    <3> QED  BY <3>2, <3>3, <3>5, <3>6, <3>7, <3>8, RequestFacts
  <2>2. /\ up /\ pathOf'[m] = NoFile /\ \A k \in Modules \ {m} : pathOf'[k] = pathOf[k]
        /\ pathOf' \in [Modules -> Files \cup {NoFile}]
    BY <1>0, <1>2 DEF PluginFileType
  <2>3. PluginFileType'
    BY <1>0, <1>2, <2>1, <2>2 DEF PluginFileType
  <2>4. StageAlone'
    BY <1>0, <2>1 DEF PluginFileInv, StageAlone, Lucky
  <2>5. PathsRight'
    BY <1>0, <1>2, <2>2 DEF PluginFileInv, PathsRight, Lucky, Guarded
  <2>6. StageKnows'
    <3>1. Guarded => \A o \in Askers : asked'[o] # Done => asked'[o].op # "stage"
      BY <1>0, <2>1 DEF PluginFileInv, StageAlone, Guarded
    <3> QED  BY <1>0, <3>1 DEF StageKnows, Guarded, Lucky
  <2>7. DiskSettled'
    <3> SUFFICES ASSUME (Guarded /\ Lucky("crash") /\ Lucky("kept"))', NEW g \in disk'
                 PROVE  Settled(g)' \/ Unsettled(g)'
      BY <1>0, <2>2 DEF DiskSettled
    <3>1. Settled(g) \/ Unsettled(g)
      BY <1>0, <2>2 DEF PluginFileInv, DiskSettled, Lucky, Guarded
    <3>2. Settled(g) /\ ModuleOf[g] # m => Settled(g)'
      BY <1>0, <1>2, <2>2 DEF Settled, PluginFileType
    <3>3. pathOf[m] = g => Unsettled(g)'
      BY <2>1 DEF Unsettled, Asks
    <3>4. Unsettled(g) => Unsettled(g)'
      <4>1. \A o \in Askers : /\ Asks(o, "install", {"open", "register"}) /\ asked[o].file = g =>
                                   Asks(o, "install", {"open", "register"})' /\ asked'[o].file = g
                              /\ Asks(o, "uninstall", {"unlink"}) /\ asked[o].old = g =>
                                   Asks(o, "uninstall", {"unlink"})' /\ asked'[o].old = g
                              /\ Asks(o, "stage", {"replace", "record"}) /\ asked[o].file = g =>
                                   Asks(o, "stage", {"replace", "record"})' /\ asked'[o].file = g
        BY <1>0, <2>1 DEF Asks
      <4> QED  BY <4>1 DEF Unsettled
    <3> QED  BY <3>1, <3>2, <3>3, <3>4 DEF Settled
  <2>8. UploadsApart'
    BY <1>0, <2>1 DEF PluginFileInv, UploadsApart, Lucky, Asks
  <2>9. PathsStored'
    <3> SUFFICES ASSUME (Guarded /\ Lucky("twice"))' PROVE PathsStored'
      BY DEF PathsStored
    <3>0. Guarded /\ Lucky("twice")
      BY <1>0 DEF Guarded, Lucky
    <3>1. \A o \in Askers : ~Asks(o, "stage", {"record"})
      BY <1>0, <3>0 DEF PluginFileInv, StageAlone, Guarded, Asks
    <3>2. \A o \in Askers : /\ Asks(o, "install", {"rename", "open", "register"})'
                               => Asks(o, "install", {"rename", "open", "register"}) /\ asked'[o] = asked[o]
                            /\ o # r /\ Asks(o, "uninstall", {"unlink"})'
                               => Asks(o, "uninstall", {"unlink"}) /\ asked'[o] = asked[o]
      BY <2>1 DEF Asks
    <3>3. \A k \in plugins : pathOf[k] \in disk
      BY <3>0, <3>1 DEF PluginFileInv, PathsStored
    <3>4. \A k \in Modules : k \in plugins <=> pathOf[k] # NoFile
      BY <3>0 DEF PluginFileInv, PathsRight
    <3>5. \A k \in Modules : pathOf[m] # NoFile => pathOf'[k] # pathOf[m]
      <4>1. \A k \in plugins : ModuleOf[pathOf[k]] = k
        BY <1>0, <3>0 DEF PluginFileInv, PathsRight, PluginFileType
      <4> QED  BY <1>0, <2>2, <3>4, <4>1
    <3>6. \A k \in plugins' : pathOf'[k] \in disk'
      BY <1>0, <1>2, <2>2, <3>3 DEF PluginFileType
    <3>7. \A o \in Askers : Asks(o, "install", {"rename", "open", "register"})' =>
              /\ \A k \in Modules : pathOf'[k] # asked'[o].file
              /\ \A u \in Askers : Asks(u, "uninstall", {"unlink"})' => asked'[u].old # asked'[o].file
              /\ asked'[o].step # "rename" => asked'[o].file \in disk'
      <4>1. \A o \in Askers : Asks(o, "install", {"rename", "open", "register"}) =>
                /\ \A k \in Modules : pathOf[k] # asked[o].file
                /\ \A u \in Askers : Asks(u, "uninstall", {"unlink"}) => asked[u].old # asked[o].file
                /\ asked[o].step # "rename" => asked[o].file \in disk
                /\ asked[o].file # NoFile
        <5>1. \A o \in Askers : Asks(o, "install", {"rename", "open", "register"}) => asked[o].file # NoFile
          BY <1>0, PluginFileAssumption DEF Asks, Request
        <5> QED  BY <3>0, <5>1 DEF PluginFileInv, PathsStored
      <4> QED  BY <1>0, <2>1, <2>2, <3>2, <4>1
    <3>8. \A o \in Askers : Asks(o, "uninstall", {"unlink"})' /\ asked'[o].old # NoFile =>
              /\ asked'[o].old \in disk'
              /\ \A k \in Modules : pathOf'[k] # asked'[o].old
              /\ \A u \in Askers : u # o /\ Asks(u, "uninstall", {"unlink"})' => asked'[u].old # asked'[o].old
      <4>1. \A o \in Askers : Asks(o, "uninstall", {"unlink"}) /\ asked[o].old # NoFile =>
                /\ asked[o].old \in disk
                /\ \A k \in Modules : pathOf[k] # asked[o].old
                /\ \A u \in Askers : u # o /\ Asks(u, "uninstall", {"unlink"}) => asked[u].old # asked[o].old
        BY <3>0 DEF PluginFileInv, PathsStored
      <4> QED  BY <1>0, <2>1, <2>2, <3>2, <3>3, <3>4, <3>5, <4>1
    <3> QED  BY <3>6, <3>7, <3>8 DEF PathsStored
  <2> QED  BY <2>3, <2>4, <2>5, <2>6, <2>7, <2>8, <2>9 DEF PluginFileInv
<1> QED  BY <1>1, <1>2 DEF Unregister

\* The file of an uninstalled plugin is removed, or it stays.
LEMMA FileUnlinked ==
  ASSUME PluginFileInv, NEW r \in Askers, Unlink(r)
  PROVE  PluginFileInv'
<1> DEFINE f == asked[r].old
<1>0. /\ PluginFileType /\ \A o \in Askers : asked[o] = Done \/ Request(asked[o])
      /\ asked[r] # Done /\ Request(asked[r]) /\ Asks(r, "uninstall", {"unlink"}) /\ up
      /\ UNCHANGED <<up, plugins, pathOf>> /\ Return(r)
      /\ \/ disk' = disk \ {f} /\ unlucky' = unlucky
         \/ disk' = disk /\ unlucky' = unlucky \cup {"kept"}
  BY RequestFacts DEF PluginFileInv, PluginFileType, Unlink, Asks
<1>1. /\ asked'[r] = Done /\ \A o \in Askers \ {r} : asked'[o] = asked[o]
      /\ asked' = [o \in Askers |-> asked'[o]]
  BY <1>0, RequestReturns
<1>2. PluginFileType'
  BY <1>0, <1>1 DEF PluginFileType, Request
<1>3. StageAlone'
  BY <1>0, <1>1 DEF PluginFileInv, StageAlone, Lucky
<1>4. PathsRight'
  BY <1>0 DEF PluginFileInv, PathsRight, Lucky, Guarded
<1>5. StageKnows'
  <2>1. Guarded => \A o \in Askers : asked'[o] # Done => asked'[o].op # "stage"
    BY <1>0, <1>1 DEF PluginFileInv, StageAlone, Guarded, Asks
  <2> QED  BY <1>0, <2>1 DEF StageKnows, Guarded, Lucky
<1>6. DiskSettled'
  <2> SUFFICES ASSUME (Guarded /\ Lucky("crash") /\ Lucky("kept"))', NEW g \in disk'
               PROVE  Settled(g)' \/ Unsettled(g)'
    BY <1>0 DEF DiskSettled
  <2>1. g # f /\ (Settled(g) \/ Unsettled(g))
    BY <1>0 DEF PluginFileInv, DiskSettled, Lucky, Guarded
  <2>2. Settled(g) => Settled(g)'
    BY <1>0 DEF Settled
  <2>3. Unsettled(g) => Unsettled(g)'
    <3>1. \A o \in Askers : /\ Asks(o, "install", {"open", "register"}) /\ asked[o].file = g =>
                                 Asks(o, "install", {"open", "register"})' /\ asked'[o].file = g
                            /\ Asks(o, "uninstall", {"unlink"}) /\ asked[o].old = g =>
                                 Asks(o, "uninstall", {"unlink"})' /\ asked'[o].old = g
                            /\ Asks(o, "stage", {"replace", "record"}) /\ asked[o].file = g =>
                                 Asks(o, "stage", {"replace", "record"})' /\ asked'[o].file = g
      BY <1>0, <1>1, <2>1 DEF Asks
    <3> QED  BY <3>1 DEF Unsettled
  <2> QED  BY <2>1, <2>2, <2>3
<1>7. UploadsApart'
  BY <1>0, <1>1 DEF PluginFileInv, UploadsApart, Lucky, Asks
<1>8. PathsStored'
  <2> SUFFICES ASSUME (Guarded /\ Lucky("twice"))' PROVE PathsStored'
    BY DEF PathsStored
  <2>0. Guarded /\ Lucky("twice")
    BY <1>0 DEF Guarded, Lucky
  <2>1. \A o \in Askers : /\ Asks(o, "install", {"rename", "open", "register"})'
                             => Asks(o, "install", {"rename", "open", "register"}) /\ asked'[o] = asked[o]
                          /\ Asks(o, "uninstall", {"unlink"})'
                             => Asks(o, "uninstall", {"unlink"}) /\ asked'[o] = asked[o] /\ o # r
                          /\ ~Asks(o, "stage", {"record"})
    BY <1>0, <1>1, <2>0 DEF PluginFileInv, StageAlone, Guarded, Asks
  <2>2. \A m \in plugins : pathOf[m] \in disk /\ pathOf[m] # NoFile
    BY <1>0, <2>0, <2>1 DEF PluginFileInv, PathsStored, PathsRight, PluginFileType
  <2>3. \A m \in plugins : pathOf[m] # f
    BY <1>0, <2>0, <2>2 DEF PluginFileInv, PathsStored, PluginFileType
  <2>4. \A m \in plugins' : pathOf'[m] \in disk'
    BY <1>0, <2>2, <2>3
  <2>5. \A o \in Askers : Asks(o, "install", {"rename", "open", "register"})' =>
              /\ \A k \in Modules : pathOf'[k] # asked'[o].file
              /\ \A u \in Askers : Asks(u, "uninstall", {"unlink"})' => asked'[u].old # asked'[o].file
              /\ asked'[o].step # "rename" => asked'[o].file \in disk'
    BY <1>0, <2>0, <2>1 DEF PluginFileInv, PathsStored
  <2>6. \A o \in Askers : Asks(o, "uninstall", {"unlink"})' /\ asked'[o].old # NoFile =>
            /\ asked'[o].old \in disk'
            /\ \A k \in Modules : pathOf'[k] # asked'[o].old
            /\ \A u \in Askers : u # o /\ Asks(u, "uninstall", {"unlink"})' => asked'[u].old # asked'[o].old
    BY <1>0, <2>0, <2>1 DEF PluginFileInv, PathsStored
  <2> QED  BY <2>4, <2>5, <2>6 DEF PathsStored
<1> QED  BY <1>2, <1>3, <1>4, <1>5, <1>6, <1>7, <1>8 DEF PluginFileInv

\* A stage is over with the old file.
LEMMA StageRemoved ==
  ASSUME PluginFileInv, NEW r \in Askers, Asks(r, "stage", {"replace"}), Go(r, "record"),
         UNCHANGED <<up, plugins, pathOf, unlucky>>,
         disk' = IF Replaces(r) THEN disk \ {asked[r].old} ELSE disk
  PROVE  PluginFileInv'
<1>0. /\ PluginFileType /\ \A o \in Askers : asked[o] = Done \/ Request(asked[o])
      /\ asked[r] # Done /\ Request(asked[r]) /\ up /\ asked[r].op = "stage" /\ asked[r].step = "replace"
  BY DEF PluginFileInv, PluginFileType, Asks
<1>1. /\ asked'[r].op = "stage" /\ asked'[r].file = asked[r].file
      /\ asked'[r].module = asked[r].module /\ asked'[r].old = asked[r].old /\ asked'[r].step = "record"
      /\ asked'[r] = [op |-> asked'[r].op, file |-> asked'[r].file, module |-> asked'[r].module,
                      old |-> asked'[r].old, step |-> asked'[r].step]
      /\ \A o \in Askers \ {r} : asked'[o] = asked[o]
      /\ asked' = [o \in Askers |-> asked'[o]]
  BY <1>0, RequestGoes
<1>2. Request(asked'[r]) /\ asked'[r] # Done
  BY <1>0, <1>1, RequestFacts DEF Request
<1>3. PluginFileType'
  BY <1>0, <1>1, <1>2 DEF PluginFileType
<1>4. StageAlone'
  BY <1>0, <1>1, <1>2 DEF PluginFileInv, StageAlone, Lucky
<1>5. PathsRight'
  BY DEF PluginFileInv, PathsRight, Lucky, Guarded
<1>6. Guarded' => Guarded /\ \A o \in Askers \ {r} : asked[o] = Done /\ asked'[o] = Done
  BY <1>0, <1>1 DEF PluginFileInv, StageAlone, Guarded, Lucky
<1>7. Guarded => /\ ModuleOf[asked[r].file] = asked[r].module
                 /\ asked[r].module \in plugins /\ pathOf[asked[r].module] = asked[r].old
                 /\ asked[r].file \in disk
  BY <1>0 DEF PluginFileInv, StageKnows
<1>8. StageKnows'
  BY <1>1, <1>6, <1>7 DEF StageKnows, Replaces
<1>9. DiskSettled'
  <2> SUFFICES ASSUME (Guarded /\ Lucky("crash") /\ Lucky("kept"))', NEW g \in disk'
               PROVE  Settled(g)' \/ Unsettled(g)'
    BY <1>0 DEF DiskSettled
  <2>1. Settled(g) \/ Unsettled(g)
    BY <1>0 DEF PluginFileInv, DiskSettled, Lucky, Guarded
  <2>2. Settled(g) => Settled(g)'
    BY DEF Settled
  <2>3. Unsettled(g) => g = asked[r].file
    BY <1>0, <1>6 DEF Unsettled, Asks
  <2>4. g = asked[r].file => Unsettled(g)'
    BY <1>1, <1>2 DEF Unsettled, Asks
  <2> QED  BY <2>1, <2>2, <2>3, <2>4
<1>10. UploadsApart'
  BY <1>0, <1>1 DEF PluginFileInv, UploadsApart, Lucky, Asks
<1>11. PathsStored'
  <2> SUFFICES ASSUME (Guarded /\ Lucky("twice"))' PROVE PathsStored'
    BY DEF PathsStored
  <2>0. Guarded /\ Lucky("twice")
    BY DEF Guarded, Lucky
  <2>1. \A o \in Askers : ~Asks(o, "install", {"rename", "open", "register"})' /\ ~Asks(o, "uninstall", {"unlink"})'
    BY <1>1, <1>6 DEF Asks
  <2>2. \A m \in plugins : pathOf[m] \in disk
    BY <1>0, <1>6, <2>0 DEF PluginFileInv, PathsStored, Asks
  <2>3. \A m \in plugins : ModuleOf[pathOf[m]] = m
    BY <1>0, <2>0 DEF PluginFileInv, PathsRight, PluginFileType
  <2>4. \A m \in plugins : m # asked[r].module => pathOf[m] \in disk'
    BY <1>7, <2>0, <2>2, <2>3
  <2>5. Asks(r, "stage", {"record"})' /\ asked'[r].module = asked[r].module
    BY <1>1, <1>2 DEF Asks
  <2> QED  BY <2>1, <2>4, <2>5 DEF PathsStored
<1> QED  BY <1>3, <1>4, <1>5, <1>8, <1>9, <1>10, <1>11 DEF PluginFileInv

\* A stage ends: the new file is the one of its module.
LEMMA StageRecorded ==
  ASSUME PluginFileInv, NEW r \in Askers, StageRecord(r)
  PROVE  PluginFileInv'
<1> DEFINE f == asked[r].file
           m == asked[r].module
<1>0. /\ PluginFileType /\ \A o \in Askers : asked[o] = Done \/ Request(asked[o])
      /\ asked[r] # Done /\ Request(asked[r]) /\ up /\ asked[r].op = "stage" /\ asked[r].step = "record"
      /\ UNCHANGED <<up, disk, plugins, unlucky>> /\ Return(r)
      /\ pathOf' = [pathOf EXCEPT ![m] = f] /\ m \in Modules /\ f \in Files /\ f # NoFile
  BY RequestFacts, PluginFileAssumption DEF PluginFileInv, PluginFileType, StageRecord, Request
<1>1. /\ asked'[r] = Done /\ \A o \in Askers \ {r} : asked'[o] = asked[o]
      /\ asked' = [o \in Askers |-> asked'[o]]
  BY <1>0, RequestReturns
<1>2. pathOf'[m] = f /\ \A k \in Modules \ {m} : pathOf'[k] = pathOf[k]
  BY <1>0 DEF PluginFileType
<1>3. PluginFileType'
  BY <1>0, <1>1 DEF PluginFileType
<1>4. StageAlone'
  BY <1>0, <1>1 DEF PluginFileInv, StageAlone, Lucky
<1>5. Guarded' => Guarded /\ \A o \in Askers : asked'[o] = Done /\ (o # r => asked[o] = Done)
  BY <1>0, <1>1 DEF PluginFileInv, StageAlone, Guarded, Lucky
<1>6. Guarded => /\ ModuleOf[f] = m /\ m \in plugins /\ pathOf[m] = asked[r].old /\ f \in disk
                 /\ asked[r].old = f \/ asked[r].old \notin disk
  BY <1>0 DEF PluginFileInv, StageKnows
<1>7. PathsRight'
  BY <1>0, <1>2, <1>5, <1>6 DEF PluginFileInv, PathsRight
<1>8. StageKnows'
  BY <1>5 DEF StageKnows
<1>9. DiskSettled'
  <2> SUFFICES ASSUME (Guarded /\ Lucky("crash") /\ Lucky("kept"))', NEW g \in disk'
               PROVE  Settled(g)' \/ Unsettled(g)'
    BY <1>0 DEF DiskSettled
  <2>1. Settled(g) \/ Unsettled(g)
    BY <1>0 DEF PluginFileInv, DiskSettled, Lucky, Guarded
  <2>2. Settled(g) => Settled(g)'
    BY <1>0, <1>2, <1>5, <1>6 DEF Settled, PluginFileType
  <2>3. Unsettled(g) => g = f
    BY <1>0, <1>5 DEF Unsettled, Asks
  <2>4. g = f => Settled(g)'
    BY <1>0, <1>2, <1>5, <1>6 DEF Settled
  <2> QED  BY <2>1, <2>2, <2>3, <2>4
<1>10. UploadsApart'
  BY <1>0, <1>1 DEF PluginFileInv, UploadsApart, Lucky, Asks
<1>11. PathsStored'
  <2> SUFFICES ASSUME (Guarded /\ Lucky("twice"))' PROVE PathsStored'
    BY DEF PathsStored
  <2>0. Guarded /\ Lucky("twice")
    BY <1>0 DEF Guarded, Lucky
  <2>1. \A o \in Askers : ~Asks(o, "install", {"rename", "open", "register"})' /\ ~Asks(o, "uninstall", {"unlink"})'
    BY <1>5 DEF Asks
  <2>2. \A k \in plugins : k # m => pathOf[k] \in disk
    BY <1>5, <2>0 DEF PluginFileInv, PathsStored, Asks
  <2>3. \A k \in plugins' : pathOf'[k] \in disk'
    BY <1>0, <1>2, <1>6, <2>0, <2>2 DEF PluginFileType
  <2> QED  BY <2>1, <2>3 DEF PathsStored
<1> QED  BY <1>3, <1>4, <1>7, <1>8, <1>9, <1>10, <1>11 DEF PluginFileInv

\* A crash leaves a directory that loads, unless it came at a bad moment.
LEMMA ManagerCrashes ==
  ASSUME PluginFileInv, Crash
  PROVE  PluginFileInv'
<1>0. /\ PluginFileType /\ \A o \in Askers : asked[o] = Done \/ Request(asked[o])
      /\ up /\ up' = FALSE /\ plugins' = {} /\ pathOf' = NoPaths /\ disk' = disk
      /\ asked' = [o \in Askers |-> Done] /\ unlucky \subseteq unlucky'
      /\ Lucky("crash")' => \A o \in Askers : asked[o] # Done
                              => asked[o].step \notin {"open", "register", "unlink", "replace"}
  BY DEF PluginFileInv, PluginFileType, Crash, Lucky
<1>1. /\ \A o \in Askers : asked'[o] = Done
      /\ \A m \in Modules : pathOf'[m] = NoFile
  BY <1>0 DEF NoPaths
<1>2. PluginFileType'
  BY <1>0, <1>1 DEF PluginFileType, NoPaths
<1>3. StageAlone' /\ UploadsApart' /\ StageKnows'
  BY <1>1 DEF StageAlone, UploadsApart, StageKnows, Asks
<1>4. PathsRight'
  BY <1>0, <1>1 DEF PathsRight
<1>5. DiskSettled'
  <2> SUFFICES ASSUME (Guarded /\ Lucky("crash") /\ Lucky("kept"))' PROVE Loads(disk)
    BY <1>0 DEF DiskSettled, Loads
  <2>0. Guarded /\ Lucky("crash") /\ Lucky("kept")
    BY <1>0 DEF Guarded, Lucky
  <2>1. \A g \in disk : \/ Settled(g)
                        \/ \E o \in Askers : Asks(o, "stage", {"record"}) /\ asked[o].file = g
    <3>1. \A o \in Askers : /\ ~Asks(o, "install", {"open", "register"}) /\ ~Asks(o, "uninstall", {"unlink"})
                            /\ Asks(o, "stage", {"replace", "record"}) => Asks(o, "stage", {"record"})
      BY <1>0 DEF Asks
    <3>2. \A g \in disk : Settled(g) \/ Unsettled(g)
      BY <1>0, <2>0 DEF PluginFileInv, DiskSettled
    <3> QED  BY <3>1, <3>2 DEF Unsettled
  <2>2. \A o \in Askers : Asks(o, "stage", {"record"}) =>
            /\ ModuleOf[asked[o].file] = asked[o].module /\ asked[o].module \in Modules
            /\ pathOf[asked[o].module] = asked[o].old
            /\ asked[o].old = asked[o].file \/ asked[o].old \notin disk
    BY <1>0, <2>0 DEF PluginFileInv, StageKnows, Asks, Request
  <2>3. \A o, u \in Askers : Asks(o, "stage", {"record"}) /\ Asks(u, "stage", {"record"}) => o = u
    BY <2>0 DEF PluginFileInv, StageAlone, Asks, Guarded
  <2>4. \A g \in disk : ModuleOf[g] \in Modules
    BY <1>0, <2>1, <2>2 DEF Settled, PluginFileType
  <2>5. ASSUME NEW g \in disk, NEW h \in disk, ModuleOf[g] = ModuleOf[h] PROVE g = h
    <3>1. CASE Settled(g) /\ Settled(h)
      BY <2>5, <3>1 DEF Settled
    <3>2. \A x \in disk, y \in disk :
             /\ Settled(x) /\ ModuleOf[x] = ModuleOf[y]
             /\ \E o \in Askers : Asks(o, "stage", {"record"}) /\ asked[o].file = y
             => x = y
      BY <2>2 DEF Settled
    <3>3. CASE /\ \E o \in Askers : Asks(o, "stage", {"record"}) /\ asked[o].file = g
               /\ \E o \in Askers : Asks(o, "stage", {"record"}) /\ asked[o].file = h
      BY <2>3, <3>3
    <3> QED  BY <2>1, <2>5, <3>1, <3>2, <3>3
  <2> QED  BY <2>4, <2>5, PluginFileAssumption DEF Loads
<1>6. PathsStored'
  BY <1>0, <1>1 DEF PathsStored, Asks
<1> QED  BY <1>2, <1>3, <1>4, <1>5, <1>6 DEF PluginFileInv

\* The start reads the directory: every file is the one of its module.
LEMMA ManagerStarts ==
  ASSUME PluginFileInv, Start
  PROVE  PluginFileInv'
<1>0. /\ PluginFileType /\ ~up /\ plugins = {} /\ \A o \in Askers : asked[o] = Done
      /\ Loads(disk) /\ up' = TRUE /\ plugins' = {ModuleOf[f] : f \in disk}
      /\ UNCHANGED <<disk, asked, unlucky>>
      /\ pathOf' = [m \in Modules |-> IF \E f \in disk : ModuleOf[f] = m
                                      THEN CHOOSE f \in disk : ModuleOf[f] = m ELSE NoFile]
  BY DEF PluginFileInv, PluginFileType, Start
<1>1. \A f \in disk : ModuleOf[f] \in Modules /\ f \in Files /\ f # NoFile
  BY <1>0, PluginFileAssumption DEF PluginFileType, Loads
<1>2. \A f \in disk : pathOf'[ModuleOf[f]] = f
  BY <1>0, <1>1 DEF Loads
<1>3. \A m \in Modules : m \notin plugins' => pathOf'[m] = NoFile
  BY <1>0
<1>4. plugins' \subseteq Modules /\ \A m \in plugins' : pathOf'[m] \in disk /\ ModuleOf[pathOf'[m]] = m
  BY <1>0, <1>1, <1>2
<1>5. PluginFileType'
  <2>1. pathOf' \in [Modules -> Files \cup {NoFile}]
    <3>1. \A m \in Modules : pathOf'[m] \in Files \cup {NoFile}
      BY <1>1, <1>3, <1>4
    <3> QED  BY <1>0, <3>1
  <2> QED  BY <1>0, <1>4, <2>1 DEF PluginFileType
<1>6. StageAlone' /\ UploadsApart' /\ StageKnows'
  BY <1>0 DEF StageAlone, UploadsApart, StageKnows, Asks
<1>7. PathsRight'
  BY <1>1, <1>3, <1>4, <1>0 DEF PathsRight
<1>8. DiskSettled'
  BY <1>0, <1>2 DEF DiskSettled, Settled
<1>9. PathsStored'
  BY <1>0, <1>4 DEF PathsStored, Asks
<1> QED  BY <1>5, <1>6, <1>7, <1>8, <1>9 DEF PluginFileInv

LEMMA PluginFileInitially == PluginFileInit => PluginFileInv
<1> SUFFICES ASSUME PluginFileInit PROVE PluginFileInv
  OBVIOUS
<1>1. /\ up /\ disk = {} /\ plugins = {} /\ pathOf = NoPaths /\ \A m \in Modules : pathOf[m] = NoFile
      /\ asked = [o \in Askers |-> Done] /\ \A o \in Askers : asked[o] = Done
  BY DEF PluginFileInit, NoPaths
<1>2. PluginFileType
  BY <1>1 DEF PluginFileType, PluginFileInit, NoPaths
<1> QED  BY <1>1, <1>2 DEF PluginFileInv, StageAlone, PathsRight, StageKnows, DiskSettled, UploadsApart,
                           PathsStored, Asks

LEMMA PluginFileStutters ==
  ASSUME PluginFileInv, UNCHANGED pluginFileVars
  PROVE  PluginFileInv'
<1>1. UNCHANGED <<up, disk, plugins, pathOf, asked, unlucky>>
  BY DEF pluginFileVars
<1>2. PluginFileType' /\ StageAlone' /\ PathsRight' /\ StageKnows'
  BY <1>1 DEF PluginFileInv, PluginFileType, StageAlone, PathsRight, StageKnows, Guarded, Lucky, Request
<1>3. DiskSettled' /\ UploadsApart' /\ PathsStored'
  BY <1>1 DEF PluginFileInv, DiskSettled, UploadsApart, PathsStored, Guarded, Lucky, Settled, Unsettled, Asks, Loads
<1> QED  BY <1>2, <1>3 DEF PluginFileInv

LEMMA PluginFileInvariance == PluginFileSpec => []PluginFileInv
<1>1. PluginFileInv /\ [PluginFileNext]_pluginFileVars => PluginFileInv'
  <2> SUFFICES ASSUME PluginFileInv, [PluginFileNext]_pluginFileVars PROVE PluginFileInv'
    OBVIOUS
  <2>1. CASE UNCHANGED pluginFileVars
    BY <2>1, PluginFileStutters
  <2>2. CASE Crash
    BY <2>2, ManagerCrashes
  <2>3. CASE Start
    BY <2>3, ManagerStarts
  <2>4. ASSUME NEW r \in Askers, NEW f \in Files, UploadPlugin(r, f) PROVE PluginFileInv'
    BY <2>4, RequestEnters DEF UploadPlugin
  <2>5. ASSUME NEW r \in Askers, NEW m \in Modules, RequestUninstall(r, m) PROVE PluginFileInv'
    BY <2>5, RequestEnters DEF RequestUninstall
  <2>6. ASSUME NEW r \in Askers, NEW f \in Files, NEW m \in Modules, UploadUpdate(r, m, f) PROVE PluginFileInv'
    BY <2>6, RequestEnters DEF UploadUpdate
  <2>7. ASSUME NEW r \in Askers, NEW f \in Files, NEW m \in Modules, InstallCatalogPlugin(r, m, f)
        PROVE  PluginFileInv'
    BY <2>4, <2>6, <2>7 DEF InstallCatalogPlugin
  <2>8. ASSUME NEW r \in Askers, verifyPluginStream(r) \/ CheckName(r) PROVE PluginFileInv'
    <3>1. asked[r] # Done /\ UNCHANGED <<up, disk, plugins, pathOf, unlucky>>
      BY <2>8, RequestFacts DEF verifyPluginStream, CheckName
    <3>2. /\ ~Asks(r, "install", {"open", "register"}) /\ ~Asks(r, "uninstall", {"unlink"})
          /\ ~Asks(r, "stage", {"replace", "record"})
      BY <2>8 DEF verifyPluginStream, CheckName, Asks
    <3>3. \/ Return(r)
          \/ Go(r, "start") /\ asked[r].step = "verify"
          \/ Go(r, "rename") /\ asked[r].op = "install" /\ asked[r].step = "start" /\ asked[r].file \notin disk
      BY <2>8 DEF verifyPluginStream, CheckName
    <3> QED  BY <3>1, <3>2, <3>3, QuietMove
  <2>9. ASSUME NEW r \in Askers, OpenPlugin(r) PROVE PluginFileInv'
    <3>1. /\ asked[r] # Done /\ UNCHANGED <<up, plugins, pathOf, unlucky>> /\ Asks(r, "install", {"open", "register"})
          /\ asked[r].op = "install" /\ asked[r].step = "open"
      BY <2>9, RequestFacts DEF OpenPlugin, Asks
    <3>2. \/ ModuleOf[asked[r].file] # Broken /\ Go(r, "register") /\ UNCHANGED disk
          \/ disk' = disk \ {asked[r].file} /\ Return(r)
      BY <2>9 DEF OpenPlugin, RemoveRejected
    <3> QED  BY <3>1, <3>2, QuietMove, FileRefused
  <2>10. ASSUME NEW r \in Askers, Register(r) PROVE PluginFileInv'
    <3>1. CASE ModuleOf[asked[r].file] \in plugins
      <4>1. Asks(r, "install", {"open", "register"})
        BY <2>10, RequestFacts DEF Register, Asks
      <4> QED  BY <2>10, <3>1, <4>1, FileRefused DEF Register, RemoveRejected
    <3> QED  BY <2>10, <3>1, PluginRegistered
  <2>11. ASSUME NEW r \in Askers, StageRemove(r) PROVE PluginFileInv'
    <3>1. Asks(r, "stage", {"replace"})
      BY <2>11, RequestFacts DEF StageRemove, Asks
    <3> QED  BY <2>11, <3>1, StageRemoved, FileRefused DEF StageRemove
  <2>12. ASSUME NEW r \in Askers, RenameIntoPlace(r) \/ StageRename(r) \/ Unregister(r) \/ Unlink(r) \/ StageRecord(r)
         PROVE  PluginFileInv'
    BY <2>12, FileStored, PluginUnregistered, FileUnlinked, StageRecorded
  <2> QED  BY <2>1, <2>2, <2>3, <2>4, <2>5, <2>6, <2>7, <2>8, <2>9, <2>10, <2>11, <2>12 DEF PluginFileNext
<1> QED  BY PluginFileInitially, <1>1, PTL DEF PluginFileSpec

\* The server starts again with the files it has accepted, and a plugin that is
\* installed is installed after a restart, but for the overlaps and the moments
\* that the code does not guard (plugin/manager.go InstallPlugin,
\* StagePluginUpdate, UninstallPlugin, loadPlugins).
THEOREM PluginsOutliveRestarts == PluginFileSpec => []FilesSound
<1>1. PluginFileInv => StartsAgain
  <2> SUFFICES ASSUME PluginFileInv, Quiet, unlucky \cap {"crash", "kept", "unopened", "overlap"} = {}
               PROVE  Loads(disk)
    BY DEF StartsAgain
  <2>1. Guarded /\ Lucky("crash") /\ Lucky("kept") /\ plugins \subseteq Modules
    BY DEF Guarded, Lucky, PluginFileInv, PluginFileType
  <2>2. \A g : ~Unsettled(g)
    BY DEF Unsettled, Quiet, Asks
  <2>3. CASE up
    <3>1. \A g \in disk : Settled(g)
      BY <2>1, <2>2, <2>3 DEF PluginFileInv, DiskSettled
    <3> QED  BY <2>1, <3>1, PluginFileAssumption DEF Settled, Loads
  <2> QED  BY <2>1, <2>3 DEF PluginFileInv, DiskSettled
<1>2. PluginFileInv => InstalledPersists
  BY DEF PluginFileInv, InstalledPersists, PathsStored, Quiet, Asks, Guarded, Lucky
<1> QED  BY <1>1, <1>2, PluginFileInvariance, PTL DEF FilesSound
=============================================================================
