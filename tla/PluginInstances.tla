-------------------------- MODULE PluginInstances ---------------------------
(* The instance of a plugin for one user and its PluginConf row: the row is *)
(* always written as a whole, by the manager, by the API and by the plugin  *)
(* itself through its storage handler, and only some of them hold the       *)
(* manager's lock. Messages of the plugin pass through one channel to one   *)
(* worker, which takes the lock for reading.                                *)
EXTENDS Naturals

CONSTANTS
    Calls,        \* calls that may overlap
    NoHolder,         \* nobody holds the lock
    MaxPluginCalls, MaxRefusals, MaxSends

ASSUME PluginInstanceAssumption ==
    NoHolder \notin Calls /\ MaxPluginCalls \in Nat /\ MaxRefusals \in Nat /\ MaxSends \in Nat

VARIABLES
    conf,         \* the row: [enabled, config, storage]; contents are numbered
    registered,   \* the instance is in Manager.instances
    active,       \* Enable was called last, not Disable
    applied,      \* the configuration the instance was given last
    lock,         \* Manager.mutex, held for writing
    call,         \* per call: operation, step, copy of the row
    worker,       \* the goroutine that reads the channel: "receive" or "deliver"
    pluginCalls, refusals, sends,
    overtaken,    \* history: a row was written over a newer one, or a removal overlapped another call
    unsaved       \* history: what of "state" and "config" a failed save left out of the row

pluginInstanceVars == <<conf, registered, active, applied, lock, call, worker, pluginCalls,
                        refusals, sends, overtaken, unsaved>>

Ended == [op |-> "none"]

\* createPluginConf: disabled, with the default configuration.
NewConf == [enabled |-> FALSE, config |-> 0, storage |-> 0]

PluginInstanceInit ==
    /\ conf = NewConf
    /\ registered = TRUE /\ active = FALSE /\ applied = 0
    /\ lock = NoHolder /\ call = [c \in Calls |-> Ended] /\ worker = "receive"
    /\ pluginCalls = 0 /\ refusals = 0 /\ sends = 0 /\ overtaken = FALSE /\ unsaved = {}

\* A refusal of the plugin or a failure of the database.
Refusal == refusals < MaxRefusals /\ refusals' = refusals + 1
At(c, op, step) == call[c].op = op /\ call[c].step = step
To(c, step) == call' = [call EXCEPT ![c].step = step]
End(c) == call' = [call EXCEPT ![c] = Ended]

\* A write of the whole row from the copy a call read.
UpdatePluginConf(c, row) ==
    conf' = row /\ overtaken' = (overtaken \/ conf # call[c].copy)

\* The write fails, and the row does not say what became of the instance.
NotSaved(what) == Refusal /\ unsaved' = unsaved \cup what /\ UNCHANGED <<conf, overtaken>>

\* Every call reads the row first.
Read(c, op) ==
    /\ call[c] = Ended /\ pluginCalls < MaxPluginCalls
    /\ pluginCalls' = pluginCalls + 1
    /\ call' = [call EXCEPT ![c] = [op |-> op, step |-> "read", copy |-> conf, value |-> pluginCalls']]
    /\ overtaken' = (overtaken \/ \E d \in Calls \ {c} :
                        call[d] # Ended /\ {op, call[d].op} \cap {"uninstall", "remove"} # {})
    /\ UNCHANGED <<conf, registered, active, applied, lock, worker, refusals, sends, unsaved>>

EnablePlugin(c) == registered /\ ~conf.enabled /\ Read(c, "enable")
DisablePlugin(c) == registered /\ conf.enabled /\ Read(c, "disable")
UpdateConfig(c) == registered /\ Read(c, "config")

\* The plugin saves its data whenever it likes, while it runs.
StoreData(c) == registered /\ active /\ Read(c, "store")

BeginUninstall(c) == Read(c, "uninstall")
BeginRemoveUser(c) == Read(c, "remove")

-----------------------------------------------------------------------------
(* SetPluginEnabled: the instance is switched, the row read again and       *)
(* written, all under the lock; what was checked was checked before.        *)

Switch(c) ==
    /\ call[c].op \in {"enable", "disable"} /\ call[c].step = "read" /\ lock = NoHolder
    /\ \/ /\ active' = (call[c].op = "enable")
          /\ lock' = c /\ To(c, "again") /\ UNCHANGED refusals
       \/ Refusal /\ End(c) /\ UNCHANGED <<active, lock>>
    /\ UNCHANGED <<conf, registered, applied, worker, pluginCalls, sends, overtaken, unsaved>>

\* When the second read fails, the row that is written is the first copy.
ReadAgain(c) ==
    /\ call[c].op \in {"enable", "disable"} /\ call[c].step = "again"
    /\ \/ call' = [call EXCEPT ![c].step = "write", ![c].copy = conf] /\ UNCHANGED refusals
       \/ Refusal /\ To(c, "write")
    /\ UNCHANGED <<conf, registered, active, applied, lock, worker, pluginCalls, sends, overtaken, unsaved>>

\* The instance stays switched when the row cannot be saved.
WriteEnabled(c) ==
    /\ call[c].op \in {"enable", "disable"} /\ call[c].step = "write"
    /\ \/ /\ UpdatePluginConf(c, [call[c].copy EXCEPT !.enabled = (call[c].op = "enable")])
          /\ unsaved' = unsaved \ {"state"} /\ UNCHANGED refusals
       \/ NotSaved({"state"})
    /\ lock' = NoHolder /\ End(c)
    /\ UNCHANGED <<registered, active, applied, worker, pluginCalls, sends>>

-----------------------------------------------------------------------------
(* UpdateConfig: the instance accepts the configuration, then it is stored. *)

ValidateAndSetConfig(c) ==
    /\ At(c, "config", "read")
    /\ \/ applied' = call[c].value /\ To(c, "write") /\ UNCHANGED refusals
       \/ Refusal /\ End(c) /\ UNCHANGED applied
    /\ UNCHANGED <<conf, registered, active, lock, worker, pluginCalls, sends, overtaken, unsaved>>

WriteConfig(c) ==
    /\ At(c, "config", "write")
    /\ \/ /\ UpdatePluginConf(c, [call[c].copy EXCEPT !.config = call[c].value])
          /\ UNCHANGED <<refusals, unsaved>>
       \/ NotSaved({"config"})
    /\ End(c)
    /\ UNCHANGED <<registered, active, applied, lock, worker, pluginCalls, sends>>

SaveStorage(c) ==
    /\ At(c, "store", "read")
    /\ \/ /\ UpdatePluginConf(c, [call[c].copy EXCEPT !.storage = call[c].value])
          /\ UNCHANGED <<refusals, unsaved>>
       \/ NotSaved({})
    /\ End(c)
    /\ UNCHANGED <<registered, active, applied, lock, worker, pluginCalls, sends>>

-----------------------------------------------------------------------------
(* UninstallPlugin disables without the lock; RemoveUser with it, and the   *)
(* row goes with the user, so that a later user begins with a new one.      *)

DisableForUninstall(c) ==
    /\ At(c, "uninstall", "read")
    /\ \/ /\ registered /\ call[c].copy.enabled
          /\ \/ active' = FALSE /\ To(c, "write") /\ UNCHANGED refusals
             \/ Refusal /\ End(c) /\ UNCHANGED active
       \/ ~(registered /\ call[c].copy.enabled) /\ To(c, "write") /\ UNCHANGED <<active, refusals>>
    /\ UNCHANGED <<conf, registered, applied, lock, worker, pluginCalls, sends, overtaken, unsaved>>

WriteUninstalled(c) ==
    /\ At(c, "uninstall", "write")
    /\ \/ /\ UpdatePluginConf(c, [call[c].copy EXCEPT !.enabled = FALSE])
          /\ To(c, "drop") /\ UNCHANGED <<refusals, unsaved>>
       \/ NotSaved({"state"}) /\ End(c)
    /\ UNCHANGED <<registered, active, applied, lock, worker, pluginCalls, sends>>

DisableForRemoval(c) ==
    /\ At(c, "remove", "read") /\ lock = NoHolder
    /\ \/ active' = (active /\ ~(registered /\ call[c].copy.enabled)) /\ To(c, "drop") /\ UNCHANGED refusals
       \/ registered /\ call[c].copy.enabled /\ Refusal /\ End(c) /\ UNCHANGED active
    /\ UNCHANGED <<conf, registered, applied, lock, worker, pluginCalls, sends, overtaken, unsaved>>

DropInstance(c) ==
    /\ call[c].op \in {"uninstall", "remove"} /\ call[c].step = "drop" /\ lock = NoHolder
    /\ registered' = FALSE
    /\ conf' = IF call[c].op = "remove" THEN NewConf ELSE conf
    /\ End(c)
    /\ UNCHANGED <<active, applied, lock, worker, pluginCalls, refusals, sends, overtaken, unsaved>>

-----------------------------------------------------------------------------
(* initializeSingleUserPlugin, at the start, when the plugin is installed   *)
(* again, or for a new user: a configuration the plugin rejects is replaced *)
(* by the default one and the plugin stays disabled; a plugin that cannot   *)
(* be enabled is disabled in the row too. Errors of these saves are ignored.*)

Defaulted(row) == [row EXCEPT !.enabled = FALSE, !.config = 0]

\* Mutant: the row says enabled although Enable failed.
EnableFailsOnly(row) == row

EnableFails(row) == [row EXCEPT !.enabled = FALSE]

\* The plugin refuses; its row is saved as such, or stays as it was.
PluginRefuses(row, what) ==
    /\ Refusal /\ active' = FALSE /\ applied' = row.config
    /\ \/ conf' = row /\ unsaved' = {}
       \/ conf' = conf /\ unsaved' = what

initializeSingleUserPlugin ==
    /\ pluginCalls < MaxPluginCalls /\ pluginCalls' = pluginCalls + 1
    /\ registered' = TRUE
    /\ \/ /\ active' = conf.enabled /\ applied' = conf.config
          /\ unsaved' = {} /\ UNCHANGED <<conf, refusals>>
       \/ PluginRefuses(Defaulted(conf), {"state", "config"})
       \/ conf.enabled /\ PluginRefuses(EnableFails(conf), {"state"})

\* InstallPlugin or InitializeForUserID while the server runs.
Initialize ==
    /\ ~registered /\ lock = NoHolder
    /\ initializeSingleUserPlugin
    /\ overtaken' = (overtaken \/ \E c \in Calls : call[c] # Ended)
    /\ UNCHANGED <<lock, call, worker, sends>>

\* The server stops or dies in the middle of whatever is under way; the next
\* start initializes the instance from the row before any call is served.
StartAgain ==
    /\ registered
    /\ initializeSingleUserPlugin
    /\ lock' = NoHolder /\ worker' = "receive"
    /\ call' = [c \in Calls |-> Ended] /\ overtaken' = FALSE
    /\ UNCHANGED sends

-----------------------------------------------------------------------------
(* Messages: the channel has no buffer, and the worker asks for the lock    *)
(* between the receipt and the delivery.                                    *)

SendMessage ==
    /\ active /\ worker = "receive" /\ sends < MaxSends
    /\ sends' = sends + 1 /\ worker' = "deliver"
    /\ UNCHANGED <<conf, registered, active, applied, lock, call, pluginCalls, refusals, overtaken, unsaved>>

DeliverMessage ==
    /\ worker = "deliver" /\ lock = NoHolder
    /\ worker' = "receive"
    /\ UNCHANGED <<conf, registered, active, applied, lock, call, pluginCalls, refusals, sends, overtaken, unsaved>>

PluginInstanceNext ==
    \/ Initialize \/ StartAgain \/ SendMessage \/ DeliverMessage
    \/ \E c \in Calls :
          \/ EnablePlugin(c) \/ DisablePlugin(c) \/ UpdateConfig(c) \/ StoreData(c)
          \/ BeginUninstall(c) \/ BeginRemoveUser(c)
          \/ Switch(c) \/ ReadAgain(c) \/ WriteEnabled(c) \/ ValidateAndSetConfig(c) \/ WriteConfig(c)
          \/ SaveStorage(c) \/ DisableForUninstall(c) \/ WriteUninstalled(c) \/ DisableForRemoval(c)
          \/ DropInstance(c)

PluginInstanceSpec == PluginInstanceInit /\ [][PluginInstanceNext]_pluginInstanceVars

-----------------------------------------------------------------------------
\* Between calls the row tells the truth about the instance: a registered one
\* runs exactly when its row is enabled, with the configuration of the row, and
\* one that is no longer registered, which nobody could stop, does not run. It
\* holds as long as no call wrote the row over a newer one and no removal of the
\* plugin or of the user overlapped another call, and for the part a failed save
\* left out of the row not before the next switch that is saved, or the next
\* start (plugin/manager.go SetPluginEnabled, UninstallPlugin,
\* initializeSingleUserPlugin, api/plugin.go UpdateConfig).
RowMatchesInstance ==
    (\A c \in Calls : call[c] = Ended) /\ ~overtaken =>
        /\ "state" \notin unsaved => active = (registered /\ conf.enabled)
        /\ "config" \notin unsaved => (registered => applied = conf.config)
=============================================================================
