---------------------------- MODULE PluginFiles -----------------------------
(* The plugin directory and the manager's tables of loaded plugins, under   *)
(* overlapping requests that install, replace and remove plugins, and under *)
(* crashes: the server starts only when every file in the directory loads   *)
(* and no two of them are the same module.                                  *)
EXTENDS Naturals, FiniteSets

CONSTANTS
    Files,       \* binaries; a file is named after its checksum, so it stands for its content
    Modules,
    ModuleOf,    \* the module a binary reports, Broken if it does not load
    Broken, NoFile,
    Askers,    \* requests that may overlap
    MaxRequests, MaxMishaps

ASSUME PluginFileAssumption ==
    /\ Broken \notin Modules /\ NoFile \notin Files
    /\ ModuleOf \in [Files -> Modules \cup {Broken}]
    /\ MaxRequests \in Nat /\ MaxMishaps \in Nat

VARIABLES
    up,          \* the server runs
    disk,        \* files in the plugin directory, the hidden temporary ones left out
    plugins,     \* Manager.plugins: modules in memory
    pathOf,      \* Manager.pluginFiles: module -> file
    asked,       \* per request: operation, file, module, step
    requests, mishaps,
    unlucky      \* history: a mishap or an overlap the code does not handle

pluginFileVars == <<up, disk, plugins, pathOf, asked, requests, mishaps, unlucky>>

Done == [op |-> "none"]
NoPaths == [m \in Modules |-> NoFile]

PluginFileInit ==
    /\ up = TRUE /\ disk = {} /\ plugins = {} /\ pathOf = NoPaths
    /\ asked = [r \in Askers |-> Done]
    /\ requests = 0 /\ mishaps = 0 /\ unlucky = {}

Mishap == mishaps < MaxMishaps /\ mishaps' = mishaps + 1
Go(r, step) == asked' = [asked EXCEPT ![r].step = step]
Return(r) == asked' = [asked EXCEPT ![r] = Done]

\* A request arrives; the history records the overlaps nothing guards against.
Enter(r, op, f, m, step) ==
    /\ up /\ asked[r] = Done /\ requests < MaxRequests
    /\ requests' = requests + 1
    /\ asked' = [asked EXCEPT ![r] =
          [op |-> op, file |-> f, module |-> m, old |-> pathOf[m], step |-> step]]
    /\ unlucky' = unlucky \cup
          (IF \E o \in Askers \ {r} : asked[o] # Done /\ "stage" \in {op, asked[o].op}
           THEN {"overlap"} ELSE {}) \cup
          (IF \E o \in Askers \ {r} : asked[o].op = "install" /\ op = "install" /\ asked[o].file = f
           THEN {"twice"} ELSE {}) \cup
          (IF op = "stage" /\ ModuleOf[f] # m THEN {"unopened"} ELSE {})
    /\ UNCHANGED <<up, disk, plugins, pathOf, mishaps>>

UploadPlugin(r, f) == Enter(r, "install", f, CHOOSE m \in Modules : TRUE, "verify")

\* A stage needs the path of an installed plugin.
UploadUpdate(r, m, f) == pathOf[m] # NoFile /\ Enter(r, "stage", f, m, "verify")

RequestUninstall(r, m) == Enter(r, "uninstall", NoFile, m, "start")

\* A catalog entry claims a module: a stage if it is installed, else an upload.
InstallCatalogPlugin(r, m, f) == IF m \in plugins THEN UploadUpdate(r, m, f) ELSE UploadPlugin(r, f)

\* Checksum, trusted key and signature, on a hidden temporary file.
verifyPluginStream(r) ==
    /\ asked[r] # Done /\ asked[r].step = "verify"
    /\ Go(r, "start") \/ Return(r)
    /\ UNCHANGED <<up, disk, plugins, pathOf, requests, mishaps, unlucky>>

-----------------------------------------------------------------------------
(* InstallPlugin                                                            *)

\* os.Stat: a file of that name refuses the upload.
CheckName(r) ==
    /\ asked[r].op = "install" /\ asked[r].step = "start"
    /\ IF asked[r].file \in disk THEN Return(r) ELSE Go(r, "rename")
    /\ UNCHANGED <<up, disk, plugins, pathOf, requests, mishaps, unlucky>>

RenameIntoPlace(r) ==
    /\ asked[r].op = "install" /\ asked[r].step = "rename"
    /\ disk' = disk \cup {asked[r].file}
    /\ Go(r, "open")
    /\ UNCHANGED <<up, plugins, pathOf, requests, mishaps, unlucky>>

\* Mutant: the deferred cleanup still removes the temporary name.
KeepRejected(f) == UNCHANGED disk

\* The deferred cleanup of a file that was stored and then refused.
RemoveRejected(f) == disk' = disk \ {f}

\* plugin.Open, compat.Wrap and the reading of the users.
OpenPlugin(r) ==
    /\ asked[r].op = "install" /\ asked[r].step = "open"
    /\ \/ /\ ModuleOf[asked[r].file] # Broken
          /\ Go(r, "register") /\ UNCHANGED <<disk, mishaps>>
       \/ /\ (ModuleOf[asked[r].file] = Broken /\ UNCHANGED mishaps) \/ Mishap
          /\ RemoveRejected(asked[r].file) /\ Return(r)
    /\ UNCHANGED <<up, plugins, pathOf, requests, unlucky>>

\* Under the manager's lock; instances are made for every user (PluginInstances).
Register(r) ==
    /\ asked[r].op = "install" /\ asked[r].step = "register"
    /\ LET f == asked[r].file  m == ModuleOf[f]
       IN  IF m \in plugins
           THEN RemoveRejected(f) /\ UNCHANGED <<plugins, pathOf>>
           ELSE /\ plugins' = plugins \cup {m} /\ pathOf' = [pathOf EXCEPT ![m] = f]
                /\ UNCHANGED disk
    /\ Return(r)
    /\ UNCHANGED <<up, requests, mishaps, unlucky>>

-----------------------------------------------------------------------------
(* UninstallPlugin: after the instances were disabled, which may fail.      *)

Unregister(r) ==
    /\ asked[r].op = "uninstall" /\ asked[r].step = "start"
    /\ \/ Mishap /\ Return(r) /\ UNCHANGED <<plugins, pathOf>>
       \/ /\ LET m == asked[r].module
             IN  /\ plugins' = plugins \ {m} /\ pathOf' = [pathOf EXCEPT ![m] = NoFile]
                 /\ asked' = [asked EXCEPT ![r].step = "unlink", ![r].old = pathOf[m]]
          /\ UNCHANGED mishaps
    /\ UNCHANGED <<up, disk, requests, unlucky>>

Unlink(r) ==
    /\ asked[r].op = "uninstall" /\ asked[r].step = "unlink"
    /\ \/ disk' = disk \ {asked[r].old} /\ UNCHANGED <<mishaps, unlucky>>
       \/ Mishap /\ unlucky' = unlucky \cup {"kept"} /\ UNCHANGED disk
    /\ Return(r)
    /\ UNCHANGED <<up, plugins, pathOf, requests>>

-----------------------------------------------------------------------------
(* StagePluginUpdate: the new file is put beside the old one, which is then *)
(* removed; the new one is not opened before the next start.                *)

StageRename(r) ==
    /\ asked[r].op = "stage" /\ asked[r].step = "start"
    /\ disk' = disk \cup {asked[r].file}
    /\ Go(r, "replace")
    /\ UNCHANGED <<up, plugins, pathOf, requests, mishaps, unlucky>>

Replaces(r) == asked[r].old # asked[r].file

StageRemove(r) ==
    /\ asked[r].op = "stage" /\ asked[r].step = "replace"
    /\ \/ /\ disk' = IF Replaces(r) THEN disk \ {asked[r].old} ELSE disk
          /\ Go(r, "record") /\ UNCHANGED mishaps
       \/ /\ asked[r].old # asked[r].file /\ Mishap
          /\ disk' = disk \ {asked[r].file} /\ Return(r)
    /\ UNCHANGED <<up, plugins, pathOf, requests, unlucky>>

StageRecord(r) ==
    /\ asked[r].op = "stage" /\ asked[r].step = "record"
    /\ pathOf' = [pathOf EXCEPT ![asked[r].module] = asked[r].file]
    /\ Return(r)
    /\ UNCHANGED <<up, disk, plugins, requests, mishaps, unlucky>>

-----------------------------------------------------------------------------
(* A crash, or a stop, forgets what is in memory.                           *)

Crash ==
    /\ up /\ Mishap
    /\ up' = FALSE /\ plugins' = {} /\ pathOf' = NoPaths
    /\ asked' = [r \in Askers |-> Done]
    /\ unlucky' = IF \E r \in Askers : asked[r] # Done /\ asked[r].step \in {"open", "register", "unlink", "replace"}
                  THEN unlucky \cup {"crash"} ELSE unlucky
    /\ UNCHANGED <<disk, requests>>

Loads(files) ==
    /\ \A f \in files : ModuleOf[f] # Broken
    /\ \A f, g \in files : ModuleOf[f] = ModuleOf[g] => f = g

\* loadPlugins: one file that does not load, or a module that is there twice,
\* and NewManager fails.
Start ==
    /\ ~up /\ Loads(disk)
    /\ up' = TRUE
    /\ plugins' = {ModuleOf[f] : f \in disk}
    /\ pathOf' = [m \in Modules |-> IF \E f \in disk : ModuleOf[f] = m
                                    THEN CHOOSE f \in disk : ModuleOf[f] = m ELSE NoFile]
    /\ UNCHANGED <<disk, asked, requests, mishaps, unlucky>>

PluginFileNext ==
    \/ Crash \/ Start
    \/ \E r \in Askers :
          \/ \E f \in Files : UploadPlugin(r, f)
          \/ \E m \in Modules : RequestUninstall(r, m)
          \/ \E f \in Files, m \in Modules : UploadUpdate(r, m, f) \/ InstallCatalogPlugin(r, m, f)
          \/ verifyPluginStream(r)
          \/ CheckName(r) \/ RenameIntoPlace(r) \/ OpenPlugin(r) \/ Register(r)
          \/ Unregister(r) \/ Unlink(r) \/ StageRename(r) \/ StageRemove(r) \/ StageRecord(r)

PluginFileSpec == PluginFileInit /\ [][PluginFileNext]_pluginFileVars

-----------------------------------------------------------------------------
Quiet == \A r \in Askers : asked[r] = Done

\* Whenever no request is under way the directory is one the server can start
\* with. The exceptions: a crash between the moment a file is in the directory
\* and the moment it is accepted or the old one removed; a removal that failed;
\* a staged file of another module, or that does not load: it is not opened; a
\* stage that overlaps another request (plugin/manager.go InstallPlugin,
\* loadPlugins).
StartsAgain ==
    Quiet /\ unlucky \cap {"crash", "kept", "unopened", "overlap"} = {} => Loads(disk)

\* An installed plugin is still installed after a restart: its file is in the
\* directory. The exceptions: two uploads of the same file at the same time, the
\* second of which removes the file of the first; and a stage that overlaps
\* another request (plugin/manager.go InstallPlugin, StagePluginUpdate).
InstalledPersists ==
    Quiet /\ up /\ unlucky \cap {"twice", "overlap", "unopened"} = {}
        => \A m \in plugins : pathOf[m] \in disk

\* The directory fits what was accepted and what runs (plugin/manager.go).
FilesSound == StartsAgain /\ InstalledPersists
=============================================================================
