---------------------------- MODULE Integrations ----------------------------
(* The integration supervisor of the automation engine: several processes   *)
(* share one database; each runs, per enabled MQTT or Home Assistant        *)
(* connection, a loop that works only under a lease with a renewal          *)
(* goroutine. One connection is modelled: connections do not share state.   *)
EXTENDS Integers

CONSTANTS
    Engines,
    ConnectionTTL, \* how long a lease is granted
    MaxTime, MaxVersion,
    MaxFaults      \* failed database calls and restarts

ASSUME IntegrationsAssumption ==
    /\ ConnectionTTL \in Nat \ {0} /\ MaxTime \in Nat /\ MaxVersion \in Nat /\ MaxFaults \in Nat

VARIABLES
    time,
    leaseRow,   \* the AutomationLease row of the connection
    config,     \* the connection's row: [version, enabled]; deleted = not enabled
    reload,     \* the reload channel of an engine, with room for one token
    pending,    \* an API call on the engine saved and has still to ask for a reload
    supervisor, \* "idle", "stop" (waiting for the loops to end), "load" or "start"
    loop,       \* the connection's loop on the engine; grant (history) is how
                \* long the lease row was last extended for it
    renewer,    \* its renewal goroutine: "off", or [at] with a call under way
    strays,     \* renewal calls under way whose loop has already moved on
    faults,
    loaded,     \* the row as the engine loaded it last
    saved       \* history: last version saved through the engine

engineVars == <<reload, pending, supervisor, loop, renewer, strays>>
integrationVars == <<time, leaseRow, config, engineVars, faults, loaded, saved>>

NoLeaseRow == [holder |-> "none", expires |-> 0]
NoLoop  == [pc |-> "none", cancelled |-> FALSE, lost |-> FALSE, grant |-> 0]
Off == -1       \* no renewal goroutine
Waiting == -2   \* it waits for its ticker
Unread == [version |-> -1, enabled |-> FALSE]  \* the connections could not be loaded

Started == [NoLoop EXCEPT !.pc = "wait"]

IntegrationInit ==
    /\ time = 0 /\ leaseRow = NoLeaseRow
    /\ config = [version |-> 0, enabled |-> TRUE]
    /\ reload = [e \in Engines |-> FALSE] /\ pending = [e \in Engines |-> FALSE]
    /\ supervisor = [e \in Engines |-> "load"]
    /\ loop = [e \in Engines |-> NoLoop]
    /\ renewer = [e \in Engines |-> Off] /\ strays = [e \in Engines |-> {}]
    /\ faults = 0
    /\ loaded = [e \in Engines |-> Unread] /\ saved = [e \in Engines |-> 0]

Fault == faults < MaxFaults /\ faults' = faults + 1
NoFault == UNCHANGED faults

PassTime ==
    /\ time < MaxTime /\ time' = time + 1
    /\ UNCHANGED <<leaseRow, config, engineVars, faults, loaded, saved>>

-----------------------------------------------------------------------------
(* The lease.                                                              *)

\* Mutant: any holder's lease is taken over.
TakesAlways(e, at) == TRUE

\* The row is free, already mine, or ran out before the time of the call.
Grants(e, at) == leaseRow = NoLeaseRow \/ leaseRow.holder = e \/ leaseRow.expires <= at

TryAcquireAutomationLease(e, at) ==
    leaseRow' = IF Grants(e, at) THEN [holder |-> e, expires |-> at + ConnectionTTL] ELSE leaseRow

ReleaseConnectionLease(e) ==
    leaseRow' = IF leaseRow.holder = e THEN NoLeaseRow ELSE leaseRow

\* The wait between two attempts is over: a cancelled loop ends, the others
\* try to acquire the lease. Without it they wait again.
AcquireLease(e) ==
    /\ loop[e].pc = "wait"
    /\ \/ /\ loop[e].cancelled
          /\ loop' = [loop EXCEPT ![e] = NoLoop] /\ UNCHANGED <<leaseRow, renewer>>
       \/ /\ ~loop[e].cancelled /\ Grants(e, time)
          /\ TryAcquireAutomationLease(e, time)
          /\ loop' = [loop EXCEPT ![e] = [@ EXCEPT !.pc = "work", !.grant = time + ConnectionTTL]]
          /\ renewer' = [renewer EXCEPT ![e] = Waiting]
    /\ UNCHANGED <<time, config, reload, pending, supervisor, strays, faults, loaded, saved>>

\* The ticker of the renewal goroutine fires.
RenewTick(e) ==
    /\ renewer[e] = Waiting /\ loop[e].pc = "work"
    /\ renewer' = [renewer EXCEPT ![e] = time]
    /\ UNCHANGED <<time, leaseRow, config, reload, pending, supervisor, loop, strays, faults, loaded, saved>>

\* The renewal is refused, or fails: the work is cancelled.
RenewLease(e) ==
    /\ renewer[e] >= 0
    /\ \/ /\ Grants(e, renewer[e]) /\ NoFault
          /\ TryAcquireAutomationLease(e, renewer[e])
          /\ loop' = [loop EXCEPT ![e].grant = renewer[e] + ConnectionTTL]
          /\ renewer' = [renewer EXCEPT ![e] = Waiting]
       \/ /\ Fault \/ (~Grants(e, renewer[e]) /\ NoFault)
          /\ loop' = [loop EXCEPT ![e].lost = TRUE]
          /\ renewer' = [renewer EXCEPT ![e] = Off]
          /\ UNCHANGED leaseRow
    /\ UNCHANGED <<time, config, reload, pending, supervisor, strays, loaded, saved>>

\* A call that was under way when its loop gave the lease back still counts:
\* it takes the lease again, and it cuts a newer grant of the engine short.
StrayRenewal(e) ==
    \E at \in strays[e] :
        /\ strays' = [strays EXCEPT ![e] = @ \ {at}]
        /\ TryAcquireAutomationLease(e, at)
        /\ loop' = IF Grants(e, at) /\ loop[e].pc = "work"
                   THEN [loop EXCEPT ![e].grant = at + ConnectionTTL] ELSE loop
        /\ UNCHANGED <<time, config, reload, pending, supervisor, renewer, faults, loaded, saved>>

-----------------------------------------------------------------------------
(* The loop of a connection.                                               *)

\* close(stop) and cancel(): a waiting renewal goroutine ends, a call stays.
EndWork(e) ==
    /\ loop' = [loop EXCEPT ![e].pc = "release", ![e].lost = FALSE, ![e].grant = 0]
    /\ renewer' = [renewer EXCEPT ![e] = Off]
    /\ strays' = [strays EXCEPT ![e] = IF renewer[e] >= 0 THEN @ \cup {renewer[e]} ELSE @]

\* Dialling, authenticating or subscribing fails, the connection breaks, or its
\* context is cancelled and closes it.
Disconnect(e) ==
    /\ loop[e].pc = "work"
    /\ EndWork(e)
    /\ UNCHANGED <<time, leaseRow, config, reload, pending, supervisor, faults, loaded, saved>>

Release(e) ==
    /\ loop[e].pc = "release"
    /\ \/ ReleaseConnectionLease(e) /\ NoFault
       \/ Fault /\ UNCHANGED leaseRow
    /\ loop' = [loop EXCEPT ![e].pc = "wait"]
    /\ UNCHANGED <<time, config, reload, pending, supervisor, renewer, strays, loaded, saved>>

-----------------------------------------------------------------------------
(* The supervisor and the endpoints that change a connection.              *)

\* Create, update, switch off or delete through the API of engine e.
SaveIntegration(e, enabled) ==
    /\ config.version < MaxVersion /\ ~pending[e]
    /\ config' = [version |-> config.version + 1, enabled |-> enabled]
    /\ saved' = [saved EXCEPT ![e] = config.version + 1]
    /\ pending' = [pending EXCEPT ![e] = TRUE]
    /\ UNCHANGED <<time, leaseRow, reload, supervisor, loop, renewer, strays, faults, loaded>>

\* Mutant: without a buffer the token is lost while the supervisor is busy.
ReloadUnbuffered(e) ==
    /\ pending[e]
    /\ pending' = [pending EXCEPT ![e] = FALSE]
    /\ reload' = [reload EXCEPT ![e] = supervisor[e] = "idle"]
    /\ UNCHANGED <<time, leaseRow, config, supervisor, loop, renewer, strays, faults, loaded, saved>>

\* A token that finds the channel full is dropped.
ReloadIntegrations(e) ==
    /\ pending[e]
    /\ pending' = [pending EXCEPT ![e] = FALSE]
    /\ reload' = [reload EXCEPT ![e] = TRUE]
    /\ UNCHANGED <<time, leaseRow, config, supervisor, loop, renewer, strays, faults, loaded, saved>>

StopIntegrations(e) ==
    /\ supervisor[e] = "idle" /\ reload[e]
    /\ reload' = [reload EXCEPT ![e] = FALSE]
    /\ supervisor' = [supervisor EXCEPT ![e] = "stop"]
    /\ loop' = [loop EXCEPT ![e] = IF @ = NoLoop THEN @ ELSE [@ EXCEPT !.cancelled = TRUE]]
    /\ UNCHANGED <<time, leaseRow, config, pending, renewer, strays, faults, loaded, saved>>

\* integrationWG.Wait()
LoopsEnded(e) ==
    /\ supervisor[e] = "stop" /\ loop[e] = NoLoop
    /\ supervisor' = [supervisor EXCEPT ![e] = "load"]
    /\ UNCHANGED <<time, leaseRow, config, reload, pending, loop, renewer, strays, faults, loaded, saved>>

\* When the read fails nothing is started, until the next reload.
LoadIntegrations(e) ==
    /\ supervisor[e] = "load"
    /\ supervisor' = [supervisor EXCEPT ![e] = "start"]
    /\ \/ NoFault /\ loaded' = [loaded EXCEPT ![e] = config]
       \/ Fault /\ loaded' = [loaded EXCEPT ![e] = Unread]
    /\ UNCHANGED <<time, leaseRow, config, reload, pending, loop, renewer, strays, saved>>

StartLoops(e) ==
    /\ supervisor[e] = "start"
    /\ supervisor' = [supervisor EXCEPT ![e] = "idle"]
    /\ loop' = [loop EXCEPT ![e] = IF loaded[e].enabled THEN Started ELSE NoLoop]
    /\ UNCHANGED <<time, leaseRow, config, reload, pending, renewer, strays, faults, loaded, saved>>

\* The process is restarted; the lease row stays.
Restart(e) ==
    /\ Fault
    /\ reload' = [reload EXCEPT ![e] = FALSE] /\ pending' = [pending EXCEPT ![e] = FALSE]
    /\ supervisor' = [supervisor EXCEPT ![e] = "load"]
    /\ loop' = [loop EXCEPT ![e] = NoLoop]
    /\ renewer' = [renewer EXCEPT ![e] = Off] /\ strays' = [strays EXCEPT ![e] = {}]
    /\ UNCHANGED <<time, leaseRow, config, loaded, saved>>

Supervise(e) == ReloadIntegrations(e) \/ StopIntegrations(e) \/ LoopsEnded(e)
                \/ LoadIntegrations(e) \/ StartLoops(e)

IntegrationNext ==
    \/ PassTime
    \/ \E e \in Engines :
          \/ Supervise(e) \/ AcquireLease(e) \/ RenewTick(e) \/ RenewLease(e)
          \/ StrayRenewal(e) \/ Disconnect(e) \/ Release(e) \/ Restart(e)
          \/ \E enabled \in BOOLEAN : SaveIntegration(e, enabled)

IntegrationSpec == IntegrationInit /\ [][IntegrationNext]_integrationVars

-----------------------------------------------------------------------------
(* Properties.                                                             *)

WorkingOn(e) == loop[e].pc = "work" /\ loop[e].grant > time

Grant == INSTANCE Lease WITH Parties <- Engines, holders <- {e \in Engines : WorkingOn(e)}

\* At most one engine works on a connection under a lease that has not run
\* out: runWithLease with its renewals, its strays and its releases implements
\* the abstract lease (engine.go:820, database/automation.go:360).
ExclusiveWork == Grant!Spec

\* When an engine has no reload to do, its loop runs a configuration at least
\* as new as the last one saved through that engine: no edit is missed although
\* the reload channel drops tokens (engine.go ReloadIntegrations,
\* restartIntegrations). Only a failed read of the connections leaves it behind.
NoEditMissed ==
    \A e \in Engines :
        supervisor[e] = "idle" /\ ~reload[e] /\ ~pending[e] =>
            loaded[e] = Unread \/ loaded[e].version >= saved[e]
=============================================================================
