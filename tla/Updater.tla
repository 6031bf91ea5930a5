------------------------------ MODULE Updater ------------------------------
(***************************************************************************)
(* The managed update (api/update.go): Install checks the status file and  *)
(* starts a goroutine that downloads the release into a temporary file,    *)
(* verifies it, renames it over the runtime binary and executes it.  The   *)
(* container's entry point (docker/monita-entrypoint.sh) starts the        *)
(* runtime binary when there is one, else the bundled program.             *)
(*                                                                         *)
(* A file holds nothing, a part of a download, or a build that was         *)
(* verified (checksum and reported version).  The temporary file is named  *)
(* by the version only, so two installs of one version share it.           *)
(* Every write of the status file but the first may fail unnoticed         *)
(* (writeStatus), and so may what puts an old runtime back.                *)
(***************************************************************************)
EXTENDS Integers, FiniteSets

CONSTANTS Releases, Bundled, Installs,
          MaxInstalls, \* bound: requests
          MaxStops     \* bound: crashes, restarts and failed executions

NoBuild == "none"
Partial == "partial"

ASSUME UpdaterAssumption ==
  /\ Bundled \notin Releases
  /\ {NoBuild, Partial} \cap (Releases \cup {Bundled}) = {}
  /\ {MaxInstalls, MaxStops} \subseteq Nat

VARIABLES
  status,    \* the status file: its state and version
  temp,      \* the temporary file of each version
  runtime, previous,  \* monita-app and monita-app.previous
  running,   \* the version the process runs, or NoBuild
  install,   \* each install: its version, its next step, and whether it keeps a
             \* runtime to put back
  installs, stops,
  overlap,   \* history: two installs ran at once
  unwritten  \* history: the last update's failed execution was never written to the
             \* status file: fail() could not, or the process died before it

updateVars == <<status, temp, runtime, previous, running, install, installs, stops, overlap, unwritten>>

NoInstall == [at |-> "none", version |-> NoBuild, had |-> FALSE]

UpdateInit ==
  /\ status = [state |-> "idle", version |-> Bundled]
  /\ temp = [v \in Releases |-> NoBuild]
  /\ runtime = NoBuild /\ previous = NoBuild
  /\ running = Bundled
  /\ install = [i \in Installs |-> NoInstall]
  /\ installs = 0 /\ stops = 0
  /\ overlap = FALSE /\ unwritten = FALSE

files == <<temp, runtime, previous>>

updateStateActive == status.state \in {"preparing", "downloading", "verifying", "installing", "restarting"}

InstallStep(i, at) == install' = [install EXCEPT ![i].at = at]
Ends(i) == install' = [install EXCEPT ![i] = NoInstall]
Active(i) == install[i] # NoInstall

(* updateProgress keeps the version the status file has, and does nothing  *)
(* when the file cannot be read or written                                 *)
updateProgress(state) == status' = [status EXCEPT !.state = state] \/ status' = status
fail == updateProgress("failed")

-----------------------------------------------------------------------------
(* Install reads the status, and writes "preparing" in a second step *)
Install(i, v) ==
  /\ running # NoBuild /\ install[i] = NoInstall
  /\ installs < MaxInstalls /\ ~updateStateActive
  /\ installs' = installs + 1
  /\ install' = [install EXCEPT ![i] = [at |-> "begin", version |-> v, had |-> FALSE]]
  /\ UNCHANGED <<status, files, running, stops, overlap, unwritten>>

WritePreparing(i) ==
  /\ install[i].at = "begin"
  /\ status' = [state |-> "preparing", version |-> install[i].version]
  /\ InstallStep(i, "download")
  /\ overlap' = (overlap \/ \E j \in Installs \ {i} : Active(j))
  /\ unwritten' = FALSE
  /\ UNCHANGED <<files, running, installs, stops>>

(* when that cannot be written, Install ends with the error *)
WriteRefused(i) ==
  /\ install[i].at = "begin"
  /\ Ends(i)
  /\ UNCHANGED <<status, files, running, installs, stops, overlap, unwritten>>

(* resolveReleaseAssets, then the download over a removed temporary file *)
BeginDownload(i) ==
  /\ install[i].at = "download"
  /\ updateProgress("downloading")
  /\ temp' = [temp EXCEPT ![install[i].version] = Partial]
  /\ InstallStep(i, "downloading")
  /\ UNCHANGED <<runtime, previous, running, installs, stops, overlap, unwritten>>

downloadFile(i) ==
  /\ install[i].at = "downloading"
  /\ temp' = [temp EXCEPT ![install[i].version] = install[i].version]
  /\ InstallStep(i, "verify")
  /\ updateProgress("verifying")
  /\ UNCHANGED <<runtime, previous, running, installs, stops, overlap, unwritten>>

(* verifyReleaseChecksum and verifyRuntimeBinary *)
Verified(i) == temp[install[i].version] = install[i].version

VerifyBuild(i) ==
  /\ install[i].at = "verify" /\ Verified(i)
  /\ updateProgress("installing")
  /\ InstallStep(i, "preserve")
  /\ UNCHANGED <<files, running, installs, stops, overlap, unwritten>>

(* the release, the download, the checksum or the program is refused *)
Refuse(i) ==
  /\ install[i].at \in {"download", "downloading", "verify"}
  /\ temp' = [temp EXCEPT ![install[i].version] = NoBuild]
  /\ fail
  /\ Ends(i)
  /\ UNCHANGED <<runtime, previous, running, installs, stops, overlap, unwritten>>

(* the previous runtime is removed, the runtime renamed to it; when the     *)
(* runtime cannot be inspected or renamed, the new build is removed         *)
PreserveRuntime(i) ==
  /\ install[i].at = "preserve"
  /\ \/ /\ previous' = runtime /\ runtime' = NoBuild
        /\ install' = [install EXCEPT ![i] = [@ EXCEPT !.at = "place", !.had = runtime # NoBuild]]
        /\ UNCHANGED <<status, temp>>
     \/ /\ previous' = NoBuild /\ temp' = [temp EXCEPT ![install[i].version] = NoBuild]
        /\ fail /\ Ends(i) /\ UNCHANGED runtime
  /\ UNCHANGED <<running, installs, stops, overlap, unwritten>>

(* the old runtime, if there was one, is renamed back, unless that fails too *)
PutBack(i) ==
  \/ install[i].had /\ runtime' = previous /\ previous' = NoBuild
  \/ UNCHANGED <<runtime, previous>>

(* the temporary file becomes the runtime, if it is there and can be renamed *)
PlaceRuntime(i) ==
  LET v == install[i].version IN
  /\ install[i].at = "place"
  /\ \/ /\ temp[v] # NoBuild
        /\ runtime' = temp[v] /\ temp' = [temp EXCEPT ![v] = NoBuild]
        /\ InstallStep(i, "restart")
        /\ UNCHANGED <<status, previous>>
     \/ PutBack(i) /\ fail /\ Ends(i) /\ UNCHANGED temp
  /\ UNCHANGED <<running, installs, stops, overlap, unwritten>>

AnnounceRestart(i) ==
  /\ install[i].at = "restart"
  /\ updateProgress("restarting")
  /\ InstallStep(i, "exec")
  /\ UNCHANGED <<files, running, installs, stops, overlap, unwritten>>

\* Mutant: a start completes every update that was under way.
CompletesAny == IF updateStateActive THEN updateProgress("completed") ELSE UNCHANGED status

(* finalizeRestart, at every start, completes an update that says "restarting" *)
finalizeRestart == IF status.state = "restarting" THEN updateProgress("completed") ELSE UNCHANGED status

(* execve replaces the process, with every other install of it *)
Exec(i) ==
  /\ install[i].at = "exec" /\ runtime # NoBuild
  /\ running' = runtime
  /\ install' = [j \in Installs |-> NoInstall]
  /\ finalizeRestart
  /\ UNCHANGED <<files, installs, stops, overlap, unwritten>>

(* or fails: the runtime is removed, the old one put back, both as far as   *)
(* the file system lets it, ...                                            *)
ExecFails(i) ==
  /\ install[i].at = "exec" /\ stops < MaxStops
  /\ stops' = stops + 1
  /\ PutBack(i) \/ (runtime' = NoBuild /\ UNCHANGED previous)
  /\ InstallStep(i, "fail")
  /\ UNCHANGED <<status, temp, running, installs, overlap, unwritten>>

(* ... and fail() writes it, or does not *)
WriteFailed(i) ==
  /\ install[i].at = "fail"
  /\ fail
  /\ unwritten' = (unwritten \/ status'.state # "failed")
  /\ Ends(i)
  /\ UNCHANGED <<files, running, installs, stops, overlap>>

-----------------------------------------------------------------------------
StopProcess ==
  /\ running # NoBuild /\ stops < MaxStops
  /\ stops' = stops + 1
  /\ running' = NoBuild
  /\ unwritten' = (unwritten \/ \E i \in Installs : install[i].at = "fail")
  /\ install' = [i \in Installs |-> NoInstall]
  /\ UNCHANGED <<status, files, installs, overlap>>

(* The entry point starts the runtime or the bundled program; a partial    *)
(* file does not run.                                                      *)
StartProcess ==
  /\ running = NoBuild /\ runtime # Partial
  /\ running' = IF runtime = NoBuild THEN Bundled ELSE runtime
  /\ finalizeRestart
  /\ UNCHANGED <<files, install, installs, stops, overlap, unwritten>>

UpdateNext ==
  \/ \E i \in Installs :
       \/ \E v \in Releases : Install(i, v)
       \/ WritePreparing(i) \/ WriteRefused(i) \/ BeginDownload(i) \/ downloadFile(i) \/ VerifyBuild(i) \/ Refuse(i)
       \/ PreserveRuntime(i) \/ PlaceRuntime(i) \/ AnnounceRestart(i) \/ Exec(i)
       \/ ExecFails(i) \/ WriteFailed(i)
  \/ StopProcess \/ StartProcess

UpdateSpec == UpdateInit /\ [][UpdateNext]_updateVars

-----------------------------------------------------------------------------
(* A crash at any step of an install, a refused download, a failed step of  *)
(* the installation or a failed execution leaves a runtime the entry point  *)
(* can start: the binary at its path is a verified build or absent (unless  *)
(* two installs overlapped, which the check of the status does not exclude),*)
(* and an update reported as completed is the build that runs (unless its   *)
(* execution failed and that was never written, so that the status file     *)
(* still said "restarting" at the next start).                              *)
UpdateSound ==
  \/ overlap
  \/ /\ runtime # Partial
     /\ \/ unwritten
        \/ status.state = "completed" /\ running # NoBuild => running = status.version
=============================================================================
