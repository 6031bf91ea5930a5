---------------------------- MODULE EngineProofs ----------------------------
(* Proofs about what the automation engine runs beside its schedules.       *)
(* Integrations, for any engines, any length of a grant and any number of   *)
(* edits, faults and restarts: the supervisors implement the abstract       *)
(* lease, and no edit of a connection is missed. Delivery, for any messages,*)
(* policies and failures: every message is accounted for, and is sent once  *)
(* and once more for every failure. Mqtt, for any messages, packet ids,     *)
(* repetitions and broken connections: the qualities of service are kept.   *)
EXTENDS Integrations, Delivery, Mqtt, TLAPS

-----------------------------------------------------------------------------
(* The inductive invariant.                                                *)

TimeType ==
    /\ time \in Nat
    /\ leaseRow.expires \in Nat
    /\ renewer \in [Engines -> Nat \cup {Off, Waiting}]
    /\ strays \in [Engines -> SUBSET Nat]

LoopStates == [pc : {"none", "wait", "work", "release"}, cancelled : BOOLEAN, lost : BOOLEAN,
               grant : Nat]

LoopType == loop \in [Engines -> LoopStates]

ConfigType ==
    /\ config \in [version : Nat, enabled : BOOLEAN]
    /\ reload \in [Engines -> BOOLEAN] /\ pending \in [Engines -> BOOLEAN]
    /\ supervisor \in [Engines -> {"idle", "stop", "load", "start"}]
    /\ loaded \in [Engines -> [version : Nat, enabled : BOOLEAN] \cup {Unread}]
    /\ saved \in [Engines -> Nat]

\* A renewal is called with the time of a tick, which is not in the future.
CallInv ==
    \A e \in Engines : renewer[e] <= time /\ \A at \in strays[e] : at <= time

\* The row names whoever works under a grant that has not run out, and runs
\* out when that grant does.
RowInv ==
    \A e \in Engines :
        WorkingOn(e) => leaseRow.holder = e /\ leaseRow.expires = loop[e].grant

\* Versions only grow, and an engine that has loaded the connections since its
\* last edit, or has still to load them, misses nothing.
VersionInv ==
    \A e \in Engines :
        /\ saved[e] <= config.version
        /\ supervisor[e] \in {"idle", "start"} /\ ~reload[e] /\ ~pending[e] =>
              loaded[e] = Unread \/ saved[e] <= loaded[e].version

IInv == TimeType /\ LoopType /\ ConfigType /\ CallInv /\ RowInv /\ VersionInv

-----------------------------------------------------------------------------
\* A fault changes nothing but the count of faults; every step of a connection
\* is one of these.
LEMMA Steps ==
    ASSUME [IntegrationNext]_integrationVars
    PROVE  \/ UNCHANGED integrationVars
           \/ PassTime
           \/ \E e \in Engines :
                 \/ ReloadIntegrations(e) \/ StopIntegrations(e) \/ LoopsEnded(e)
                 \/ LoadIntegrations(e) \/ StartLoops(e)
                 \/ AcquireLease(e) \/ RenewTick(e) \/ RenewLease(e)
                 \/ StrayRenewal(e) \/ Disconnect(e) \/ Release(e) \/ Restart(e)
                 \/ \E enabled \in BOOLEAN : SaveIntegration(e, enabled)
BY DEF IntegrationNext, Supervise

LEMMA TimeTypeStep ==
    ASSUME TimeType, LoopType, [IntegrationNext]_integrationVars
    PROVE  TimeType'
<1> USE DEF TimeType
<1>0. ConnectionTTL \in Nat
  BY IntegrationsAssumption
<1>1. CASE UNCHANGED integrationVars
  BY <1>1 DEF integrationVars, engineVars
<1>2. CASE PassTime
  BY <1>2 DEF PassTime, engineVars
<1>3. ASSUME NEW e \in Engines,
             ReloadIntegrations(e) \/ StopIntegrations(e) \/ LoopsEnded(e)
             \/ LoadIntegrations(e) \/ StartLoops(e)
             \/ \E enabled \in BOOLEAN : SaveIntegration(e, enabled)
      PROVE  TimeType'
  BY <1>3 DEF ReloadIntegrations, StopIntegrations, LoopsEnded, LoadIntegrations, StartLoops,
              SaveIntegration
<1>4. ASSUME NEW e \in Engines, AcquireLease(e) PROVE TimeType'
  BY <1>0, <1>4 DEF AcquireLease, TryAcquireAutomationLease
<1>5. ASSUME NEW e \in Engines, RenewTick(e) PROVE TimeType'
  BY <1>5 DEF RenewTick
<1>6. ASSUME NEW e \in Engines, RenewLease(e) PROVE TimeType'
  BY <1>0, <1>6 DEF RenewLease, TryAcquireAutomationLease, Off, Waiting
<1>7. ASSUME NEW e \in Engines, StrayRenewal(e) PROVE TimeType'
  BY <1>0, <1>7 DEF StrayRenewal, TryAcquireAutomationLease
<1>8. ASSUME NEW e \in Engines, Disconnect(e) PROVE TimeType'
  BY <1>8 DEF Disconnect, EndWork, Off, Waiting
<1>9. ASSUME NEW e \in Engines, Release(e) PROVE TimeType'
  BY <1>9 DEF Release, ReleaseConnectionLease, NoLeaseRow
<1>10. ASSUME NEW e \in Engines, Restart(e) PROVE TimeType'
  BY <1>10 DEF Restart
<1> QED  BY <1>1, <1>2, <1>3, <1>4, <1>5, <1>6, <1>7, <1>8, <1>9, <1>10, Steps

LEMMA LoopTypeStep ==
    ASSUME TimeType, LoopType, [IntegrationNext]_integrationVars
    PROVE  LoopType'
<1>1. CASE UNCHANGED integrationVars \/ PassTime
  BY <1>1 DEF LoopType, integrationVars, engineVars, PassTime
<1>2. ASSUME NEW e \in Engines,
             ReloadIntegrations(e) \/ LoopsEnded(e) \/ LoadIntegrations(e) \/ RenewTick(e)
             \/ \E enabled \in BOOLEAN : SaveIntegration(e, enabled)
      PROVE  LoopType'
  BY <1>2 DEF LoopType, ReloadIntegrations, LoopsEnded, LoadIntegrations, SaveIntegration, RenewTick
<1>3. ASSUME NEW e \in Engines,
             StopIntegrations(e) \/ StartLoops(e) \/ AcquireLease(e) \/ RenewLease(e)
             \/ StrayRenewal(e) \/ Disconnect(e) \/ Release(e) \/ Restart(e)
      PROVE  LoopType'
  <2>1. ConnectionTTL \in Nat /\ time \in Nat /\ loop[e] \in LoopStates
    BY IntegrationsAssumption DEF TimeType, LoopType
  <2>2. loop' = [loop EXCEPT ![e] = loop'[e]] /\ loop'[e] \in LoopStates
    <3>1. CASE StopIntegrations(e)
      BY <2>1, <3>1 DEF StopIntegrations, LoopType, LoopStates
    <3>2. CASE StartLoops(e) \/ Restart(e)
      <4>1. NoLoop \in LoopStates /\ Started \in LoopStates
        BY DEF NoLoop, Started, LoopStates
      <4>2. loop' = [loop EXCEPT ![e] = NoLoop] \/ loop' = [loop EXCEPT ![e] = Started]
        BY <3>2 DEF StartLoops, Restart
      <4> QED  BY <4>1, <4>2 DEF LoopType
    <3>3. CASE AcquireLease(e)
      <4>1. CASE loop' = [loop EXCEPT ![e] = NoLoop]
        BY <4>1 DEF NoLoop, LoopType, LoopStates
      <4>2. CASE loop' = [loop EXCEPT ![e] = [@ EXCEPT !.pc = "work", !.grant = time + ConnectionTTL]]
        <5> DEFINE l == [loop[e] EXCEPT !.pc = "work", !.grant = time + ConnectionTTL]
        <5>1. l \in LoopStates
          <6>1. time + ConnectionTTL \in Nat
            BY <2>1
          <6> QED  BY <2>1, <6>1 DEF LoopStates
        <5>2. loop' = [loop EXCEPT ![e] = l]
          BY <4>2
        <5> HIDE DEF l
        <5> QED  BY <5>1, <5>2 DEF LoopType
      <4> QED  BY <3>3, <4>1, <4>2 DEF AcquireLease
    <3>4. CASE RenewLease(e)
      <4>1. CASE loop' = [loop EXCEPT ![e].grant = renewer[e] + ConnectionTTL]
        <5>1. renewer[e] \in Nat
          BY <3>4 DEF RenewLease, TimeType, Off, Waiting
        <5> QED  BY <2>1, <4>1, <5>1 DEF LoopType, LoopStates
      <4>2. CASE loop' = [loop EXCEPT ![e].lost = TRUE]
        BY <2>1, <4>2 DEF LoopType, LoopStates
      <4> QED  BY <3>4, <4>1, <4>2 DEF RenewLease
    <3>5. CASE StrayRenewal(e)
      <4>1. PICK at \in strays[e] :
              loop' = IF Grants(e, at) /\ loop[e].pc = "work"
                      THEN [loop EXCEPT ![e].grant = at + ConnectionTTL] ELSE loop
        BY <3>5 DEF StrayRenewal
      <4>2. at + ConnectionTTL \in Nat
        BY <2>1 DEF TimeType
      <4>3. CASE loop' = [loop EXCEPT ![e].grant = at + ConnectionTTL]
        BY <2>1, <4>2, <4>3 DEF LoopType, LoopStates
      <4>4. CASE loop' = loop
        BY <2>1, <4>4 DEF LoopType
      <4> QED  BY <4>1, <4>3, <4>4
    <3>6. CASE Disconnect(e)
      BY <2>1, <3>6 DEF Disconnect, EndWork, LoopType, LoopStates
    <3>7. CASE Release(e)
      BY <2>1, <3>7 DEF Release, LoopType, LoopStates
    <3> QED  BY <1>3, <3>1, <3>2, <3>3, <3>4, <3>5, <3>6, <3>7
  <2> QED  BY <2>1, <2>2 DEF LoopType
<1> QED  BY <1>1, <1>2, <1>3, Steps

LEMMA ConfigTypeStep ==
    ASSUME ConfigType, [IntegrationNext]_integrationVars
    PROVE  ConfigType'
<1> USE DEF ConfigType
<1>1. CASE UNCHANGED integrationVars \/ PassTime
  BY <1>1 DEF integrationVars, engineVars, PassTime
<1>2. ASSUME NEW e \in Engines, NEW enabled \in BOOLEAN, SaveIntegration(e, enabled)
      PROVE  ConfigType'
  BY <1>2 DEF SaveIntegration
<1>3. ASSUME NEW e \in Engines,
             ReloadIntegrations(e) \/ StopIntegrations(e) \/ LoopsEnded(e) \/ StartLoops(e)
      PROVE  ConfigType'
  BY <1>3 DEF ReloadIntegrations, StopIntegrations, LoopsEnded, StartLoops
<1>4. ASSUME NEW e \in Engines, LoadIntegrations(e) PROVE ConfigType'
  BY <1>4 DEF LoadIntegrations
<1>5. ASSUME NEW e \in Engines,
             AcquireLease(e) \/ RenewTick(e) \/ RenewLease(e) \/ StrayRenewal(e)
             \/ Disconnect(e) \/ Release(e)
      PROVE  ConfigType'
  BY <1>5 DEF AcquireLease, RenewTick, RenewLease, StrayRenewal, Disconnect, Release
<1>6. ASSUME NEW e \in Engines, Restart(e) PROVE ConfigType'
  BY <1>6 DEF Restart
<1> QED  BY <1>1, <1>2, <1>3, <1>4, <1>5, <1>6, Steps

LEMMA CallInvStep ==
    ASSUME TimeType, CallInv, [IntegrationNext]_integrationVars
    PROVE  CallInv'
<1> USE DEF CallInv, TimeType, Off, Waiting
<1>1. CASE UNCHANGED integrationVars
  BY <1>1 DEF integrationVars, engineVars
<1>2. CASE PassTime
  BY <1>2 DEF PassTime, engineVars
<1>3. ASSUME NEW e \in Engines,
             ReloadIntegrations(e) \/ StopIntegrations(e) \/ LoopsEnded(e)
             \/ LoadIntegrations(e) \/ StartLoops(e)
             \/ \E enabled \in BOOLEAN : SaveIntegration(e, enabled)
      PROVE  CallInv'
  BY <1>3 DEF ReloadIntegrations, StopIntegrations, LoopsEnded, LoadIntegrations, StartLoops,
              SaveIntegration
<1>4. ASSUME NEW e \in Engines, AcquireLease(e) \/ RenewTick(e) \/ RenewLease(e) PROVE CallInv'
  BY <1>4 DEF AcquireLease, RenewTick, RenewLease
<1>5. ASSUME NEW e \in Engines, StrayRenewal(e) PROVE CallInv'
  BY <1>5 DEF StrayRenewal
<1>6. ASSUME NEW e \in Engines, Disconnect(e) PROVE CallInv'
  BY <1>6 DEF Disconnect, EndWork
<1>7. ASSUME NEW e \in Engines, Release(e) \/ Restart(e) PROVE CallInv'
  BY <1>7 DEF Release, Restart
<1> QED  BY <1>1, <1>2, <1>3, <1>4, <1>5, <1>6, <1>7, Steps

\* While an engine works under a grant that has not run out, a call of another
\* engine is refused, whenever it was made.
LEMMA Refused ==
    ASSUME TimeType, LoopType, RowInv, NEW e \in Engines, NEW f \in Engines, e # f,
           WorkingOn(f), NEW at \in Nat, at <= time
    PROVE  ~Grants(e, at)
<1>1. leaseRow.holder = f /\ leaseRow.expires = loop[f].grant /\ loop[f].grant > time
  BY DEF RowInv, WorkingOn
<1>2. leaseRow.expires > at /\ leaseRow.expires # 0 /\ loop[f].grant \in Nat
  BY <1>1 DEF TimeType, LoopType, LoopStates
<1> QED  BY <1>1, <1>2 DEF Grants, NoLeaseRow, TimeType

\* What every step leaves alone: time passes in a step of its own, and a step
\* of an engine changes no other engine's loop.
LEMMA LoopFrame ==
    ASSUME LoopType, NEW e \in Engines,
           StopIntegrations(e) \/ StartLoops(e) \/ AcquireLease(e) \/ RenewLease(e)
           \/ StrayRenewal(e) \/ Disconnect(e) \/ Release(e) \/ Restart(e)
    PROVE  time' = time /\ \A f \in Engines \ {e} : loop'[f] = loop[f]
<1>1. CASE StopIntegrations(e) \/ StartLoops(e) \/ Restart(e)
  BY <1>1 DEF LoopType, StopIntegrations, StartLoops, Restart
<1>2. CASE AcquireLease(e)
  BY <1>2 DEF LoopType, AcquireLease
<1>3. CASE RenewLease(e) \/ StrayRenewal(e)
  BY <1>3 DEF LoopType, RenewLease, StrayRenewal
<1>4. CASE Disconnect(e) \/ Release(e)
  BY <1>4 DEF LoopType, Disconnect, EndWork, Release
<1> QED  BY <1>1, <1>2, <1>3, <1>4

\* The other actions move no loop and leave the row alone.
LEMMA QuietFrame ==
    ASSUME NEW e \in Engines,
           ReloadIntegrations(e) \/ LoopsEnded(e) \/ LoadIntegrations(e) \/ RenewTick(e)
           \/ \E enabled \in BOOLEAN : SaveIntegration(e, enabled)
    PROVE  UNCHANGED <<time, loop, leaseRow>>
BY DEF ReloadIntegrations, LoopsEnded, LoadIntegrations, RenewTick, SaveIntegration

\* A step after which an engine works under a running grant: either it did
\* before and the row still names it, or the step got the row for it.
LEMMA OwnStep ==
    ASSUME TimeType, LoopType, CallInv, RowInv, NEW e \in Engines,
           StopIntegrations(e) \/ StartLoops(e) \/ AcquireLease(e) \/ RenewLease(e)
           \/ StrayRenewal(e) \/ Disconnect(e) \/ Release(e) \/ Restart(e),
           WorkingOn(e)'
    PROVE  /\ leaseRow'.holder = e /\ leaseRow'.expires = loop'[e].grant
           /\ WorkingOn(e) \/ \E at \in Nat : at <= time /\ Grants(e, at)
<1> USE DEF LoopType, LoopStates
<1>0. ConnectionTTL \in Nat /\ time \in Nat
  BY IntegrationsAssumption DEF TimeType
<1>1. CASE StopIntegrations(e)
  BY <1>1 DEF StopIntegrations, WorkingOn, RowInv
<1>2. CASE StartLoops(e) \/ Restart(e)
  BY <1>2 DEF StartLoops, Restart, WorkingOn, NoLoop, Started
<1>3. CASE AcquireLease(e)
  <2>1. loop[e].cancelled => loop'[e] = NoLoop
    BY <1>3 DEF AcquireLease
  <2>2. ~loop[e].cancelled
    BY <2>1 DEF WorkingOn, NoLoop
  <2>3. Grants(e, time) /\ leaseRow' = [holder |-> e, expires |-> time + ConnectionTTL]
    BY <1>3, <2>2 DEF AcquireLease, TryAcquireAutomationLease
  <2>4. loop' = [loop EXCEPT ![e] = [@ EXCEPT !.pc = "work", !.grant = time + ConnectionTTL]]
    BY <1>3, <2>2 DEF AcquireLease
  <2>5. loop'[e].grant = time + ConnectionTTL
    BY <2>4
  <2> QED  BY <1>0, <2>3, <2>5
<1>4. CASE RenewLease(e)
  <2>1. renewer[e] \in Nat /\ renewer[e] <= time
    BY <1>4 DEF RenewLease, TimeType, CallInv, Off, Waiting
  <2>2. CASE Grants(e, renewer[e]) /\ TryAcquireAutomationLease(e, renewer[e])
             /\ loop' = [loop EXCEPT ![e].grant = renewer[e] + ConnectionTTL]
    BY <2>1, <2>2 DEF TryAcquireAutomationLease
  <2>3. CASE loop' = [loop EXCEPT ![e].lost = TRUE] /\ UNCHANGED <<time, leaseRow>>
    BY <2>3 DEF WorkingOn, RowInv
  <2> QED  BY <1>4, <2>2, <2>3 DEF RenewLease
<1>5. CASE StrayRenewal(e)
  <2>1. PICK at \in strays[e] :
          /\ TryAcquireAutomationLease(e, at)
          /\ loop' = IF Grants(e, at) /\ loop[e].pc = "work"
                     THEN [loop EXCEPT ![e].grant = at + ConnectionTTL] ELSE loop
          /\ UNCHANGED time
    BY <1>5 DEF StrayRenewal
  <2>2. at \in Nat /\ at <= time
    BY DEF TimeType, CallInv
  <2>3. CASE Grants(e, at)
    <3>1. loop[e].pc = "work"
      BY <2>1, <2>3 DEF WorkingOn
    <3> QED  BY <2>1, <2>2, <2>3, <3>1 DEF TryAcquireAutomationLease
  <2>4. CASE ~Grants(e, at)
    BY <2>1, <2>4 DEF TryAcquireAutomationLease, WorkingOn, RowInv
  <2> QED  BY <2>3, <2>4
<1>6. CASE Disconnect(e) \/ Release(e)
  BY <1>6 DEF Disconnect, EndWork, Release, WorkingOn
<1> QED  BY <1>1, <1>2, <1>3, <1>4, <1>5, <1>6

\* A step of one engine leaves the row to another that works under it.
LEMMA OtherStep ==
    ASSUME TimeType, LoopType, CallInv, RowInv, NEW e \in Engines, NEW f \in Engines, e # f,
           StopIntegrations(e) \/ StartLoops(e) \/ AcquireLease(e) \/ RenewLease(e)
           \/ StrayRenewal(e) \/ Disconnect(e) \/ Release(e) \/ Restart(e),
           WorkingOn(f)
    PROVE  leaseRow' = leaseRow
<1>1. time \in Nat /\ leaseRow.holder = f
  BY DEF TimeType, RowInv
<1>2. \A at \in Nat : at <= time => ~Grants(e, at)
  BY Refused
<1>3. CASE StopIntegrations(e) \/ StartLoops(e) \/ Disconnect(e) \/ Restart(e)
  BY <1>3 DEF StopIntegrations, StartLoops, Disconnect, Restart
<1>4. CASE AcquireLease(e)
  BY <1>1, <1>2, <1>4 DEF AcquireLease
<1>5. CASE RenewLease(e)
  <2>1. renewer[e] \in Nat /\ renewer[e] <= time
    BY <1>5 DEF RenewLease, TimeType, CallInv, Off, Waiting
  <2> QED  BY <1>2, <1>5, <2>1 DEF RenewLease
<1>6. CASE StrayRenewal(e)
  BY <1>2, <1>6 DEF StrayRenewal, TryAcquireAutomationLease, TimeType, CallInv
<1>7. CASE Release(e)
  BY <1>1, <1>7 DEF Release, ReleaseConnectionLease
<1> QED  BY <1>3, <1>4, <1>5, <1>6, <1>7

LEMMA RowInvStep ==
    ASSUME TimeType, LoopType, CallInv, RowInv, [IntegrationNext]_integrationVars
    PROVE  RowInv'
<1>1. CASE UNCHANGED integrationVars
  BY <1>1 DEF RowInv, WorkingOn, integrationVars, engineVars
<1>2. CASE PassTime
  BY <1>2 DEF PassTime, RowInv, WorkingOn, TimeType, LoopType, LoopStates, engineVars
<1>3. ASSUME NEW e \in Engines,
             ReloadIntegrations(e) \/ LoopsEnded(e) \/ LoadIntegrations(e) \/ RenewTick(e)
             \/ \E enabled \in BOOLEAN : SaveIntegration(e, enabled)
      PROVE  RowInv'
  BY <1>3, QuietFrame DEF RowInv, WorkingOn
<1>4. ASSUME NEW e \in Engines,
             StopIntegrations(e) \/ StartLoops(e) \/ AcquireLease(e) \/ RenewLease(e)
             \/ StrayRenewal(e) \/ Disconnect(e) \/ Release(e) \/ Restart(e)
      PROVE  RowInv'
  <2> SUFFICES ASSUME NEW f \in Engines, WorkingOn(f)'
               PROVE  leaseRow'.holder = f /\ leaseRow'.expires = loop'[f].grant
    BY DEF RowInv
  <2>1. CASE f = e
    BY <1>4, <2>1, OwnStep
  <2>2. CASE f # e
    <3>1. WorkingOn(f) /\ loop'[f] = loop[f]
      BY <1>4, <2>2, LoopFrame DEF WorkingOn
    <3>2. leaseRow' = leaseRow
      BY <1>4, <2>2, <3>1, OtherStep
    <3> QED  BY <3>1, <3>2 DEF RowInv
  <2> QED  BY <2>1, <2>2
<1> QED  BY <1>1, <1>2, <1>3, <1>4, Steps

LEMMA VersionInvStep ==
    ASSUME ConfigType, VersionInv, [IntegrationNext]_integrationVars
    PROVE  VersionInv'
<1> USE DEF ConfigType, VersionInv
<1>1. CASE UNCHANGED integrationVars \/ PassTime
  BY <1>1 DEF integrationVars, engineVars, PassTime
<1>2. ASSUME NEW e \in Engines, NEW enabled \in BOOLEAN, SaveIntegration(e, enabled)
      PROVE  VersionInv'
  BY <1>2 DEF SaveIntegration
<1>3. ASSUME NEW e \in Engines, ReloadIntegrations(e) \/ StopIntegrations(e) \/ LoopsEnded(e)
      PROVE  VersionInv'
  BY <1>3 DEF ReloadIntegrations, StopIntegrations, LoopsEnded
<1>4. ASSUME NEW e \in Engines, LoadIntegrations(e) \/ StartLoops(e) PROVE VersionInv'
  BY <1>4 DEF LoadIntegrations, StartLoops
<1>5. ASSUME NEW e \in Engines,
             AcquireLease(e) \/ RenewTick(e) \/ RenewLease(e) \/ StrayRenewal(e)
             \/ Disconnect(e) \/ Release(e)
      PROVE  VersionInv'
  BY <1>5 DEF AcquireLease, RenewTick, RenewLease, StrayRenewal, Disconnect, Release
<1>6. ASSUME NEW e \in Engines, Restart(e) PROVE VersionInv'
  BY <1>6 DEF Restart
<1> QED  BY <1>1, <1>2, <1>3, <1>4, <1>5, <1>6, Steps

-----------------------------------------------------------------------------
LEMMA Initially == IntegrationInit => IInv
<1> SUFFICES ASSUME IntegrationInit PROVE IInv
  OBVIOUS
<1> USE DEF IntegrationInit, NoLeaseRow, NoLoop, Off, Waiting
<1>1. TimeType /\ LoopType /\ CallInv /\ RowInv
  BY DEF TimeType, LoopType, LoopStates, CallInv, RowInv, WorkingOn
<1>2. ConfigType /\ VersionInv
  BY DEF ConfigType, VersionInv, Unread
<1> QED  BY <1>1, <1>2 DEF IInv

LEMMA Invariance == IntegrationSpec => []IInv
<1>1. IInv /\ [IntegrationNext]_integrationVars => IInv'
  BY TimeTypeStep, LoopTypeStep, ConfigTypeStep, CallInvStep, RowInvStep, VersionInvStep DEF IInv
<1> QED  BY Initially, <1>1, PTL DEF IntegrationSpec

\* No edit of a connection is missed: an engine with no reload to do has loaded
\* the connections since the last edit made through it, or failed to read them
\* (ReloadIntegrations, restartIntegrations).
THEOREM EditsReachTheLoops == IntegrationSpec => []NoEditMissed
<1>1. IInv => NoEditMissed
  BY DEF IInv, ConfigType, VersionInv, NoEditMissed, Unread
<1> QED  BY <1>1, Invariance, PTL

-----------------------------------------------------------------------------
(* The supervisors implement the lease.                                    *)

Working == {e \in Engines : WorkingOn(e)}

LEMMA OneWorks ==
    ASSUME RowInv, NEW e \in Engines, NEW f \in Engines, WorkingOn(e), WorkingOn(f)
    PROVE  e = f
BY DEF RowInv

LEMMA LeaseStep ==
    ASSUME IInv, [IntegrationNext]_integrationVars
    PROVE  Working' = Working \/ \E p \in Engines : Grant!Enter(p) \/ Grant!Leave(p)
<1> USE DEF IInv
<1>1. CASE UNCHANGED integrationVars
  BY <1>1 DEF Working, WorkingOn, integrationVars, engineVars
<1>2. CASE PassTime
  <2>1. \A e \in Engines : WorkingOn(e)' => WorkingOn(e)
    BY <1>2 DEF PassTime, WorkingOn, TimeType, LoopType, LoopStates, engineVars
  <2>2. CASE \E e \in Engines : WorkingOn(e) /\ ~WorkingOn(e)'
    <3>1. PICK e \in Engines : WorkingOn(e) /\ ~WorkingOn(e)'
      BY <2>2
    <3>2. Working = {e} /\ Working' = {}
      BY <2>1, <3>1, OneWorks DEF Working
    <3> QED  BY <3>2 DEF Grant!Leave, Working
  <2>3. CASE \A e \in Engines : WorkingOn(e) => WorkingOn(e)'
    BY <2>1, <2>3 DEF Working
  <2> QED  BY <2>2, <2>3
<1>3. ASSUME NEW e \in Engines,
             ReloadIntegrations(e) \/ LoopsEnded(e) \/ LoadIntegrations(e) \/ RenewTick(e)
             \/ \E enabled \in BOOLEAN : SaveIntegration(e, enabled)
      PROVE  Working' = Working
  BY <1>3, QuietFrame DEF Working, WorkingOn
<1>4. ASSUME NEW e \in Engines,
             StopIntegrations(e) \/ StartLoops(e) \/ AcquireLease(e) \/ RenewLease(e)
             \/ StrayRenewal(e) \/ Disconnect(e) \/ Release(e) \/ Restart(e)
      PROVE  Working' = Working \/ Grant!Enter(e) \/ Grant!Leave(e)
  <2>1. \A f \in Engines \ {e} : WorkingOn(f)' <=> WorkingOn(f)
    BY <1>4, LoopFrame DEF WorkingOn
  <2>2. CASE WorkingOn(e)' /\ ~WorkingOn(e)
    <3>1. PICK at \in Nat : at <= time /\ Grants(e, at)
      BY <1>4, <2>2, OwnStep
    <3>2. \A f \in Engines : ~WorkingOn(f)
      BY <2>2, <3>1, Refused
    <3>3. Working = {} /\ Working' = {e}
      BY <2>1, <2>2, <3>2 DEF Working
    <3> QED  BY <3>3 DEF Grant!Enter, Working
  <2>3. CASE ~WorkingOn(e)' /\ WorkingOn(e)
    <3>1. e \in Working /\ Working' = Working \ {e}
      BY <2>1, <2>3 DEF Working
    <3> QED  BY <3>1 DEF Grant!Leave, Working
  <2>4. CASE WorkingOn(e)' <=> WorkingOn(e)
    BY <2>1, <2>4 DEF Working
  <2> QED  BY <2>2, <2>3, <2>4
<1> QED  BY <1>1, <1>2, <1>3, <1>4, Steps

\* At most one engine works on a connection under a grant that has not run out:
\* every step of the engines is a step of the abstract lease or changes nothing
\* in it (runWithLease, TryAcquireAutomationLease, ReleaseAutomationLease).
THEOREM LeaseRefined == IntegrationSpec => ExclusiveWork
<1>1. IntegrationInit => {e \in Engines : WorkingOn(e)} = {}
  BY DEF IntegrationInit, WorkingOn, NoLoop
<1>2. IInv /\ [IntegrationNext]_integrationVars
      => [\E p \in Engines : Grant!Enter(p) \/ Grant!Leave(p)]_{e \in Engines : WorkingOn(e)}
  BY LeaseStep DEF Working
<1> QED  BY <1>1, <1>2, Invariance, PTL DEF IntegrationSpec, ExclusiveWork, Grant!Spec
-----------------------------------------------------------------------------
(* Delivery: the inductive invariant.                                      *)

Stages == {"new", "deliver", "queue", "quiet", "defer", "done"}
Digesting == {"store", "quiet", "defer", "clear", "save"}
OnPolicy(p) == p.enabled = TRUE /\ p.next \in Nat /\ p.interval \in Nat \ {0}

DeliveryType ==
    /\ clock \in Nat /\ clock <= MaxClock /\ fails \in Nat
    /\ message \in [CopyIds -> {"absent", "stored", "deleted"}]
    /\ notified \in [CopyIds -> Nat]
    /\ pub \in [Posts -> Stages]
    /\ items \subseteq Posts /\ deferred \subseteq CopyIds
    /\ digest.enabled \in BOOLEAN /\ (digest.enabled => OnPolicy(digest))
    /\ api.pc \in {"idle", "save"} /\ (api.pc = "save" => api.form \in DigestForms)

Timed(turn) ==
    /\ turn.pc # "idle" => turn.now \in Nat /\ turn.now <= clock
    /\ turn.pc \in Digesting \cup {"items"} => OnPolicy(turn.policy) /\ turn.policy.next <= turn.now
Shaped(turn) ==
    /\ turn.pc \in Digesting \cup {"idle", "items", "deferred", "send", "unqueue"}
    /\ turn.pc \in Digesting =>
          turn = [pc |-> turn.pc, now |-> turn.now, policy |-> turn.policy, batch |-> turn.batch]
    /\ turn.pc = "send" => turn = [pc |-> "send", now |-> turn.now, todo |-> turn.todo]
    /\ turn.pc \in {"send", "unqueue"} => turn.todo \subseteq CopyIds
    /\ turn.pc = "unqueue" => turn.id \in CopyIds \ turn.todo
TurnType ==
    /\ worker = [w \in Workers |-> worker[w]]
    /\ \A w \in Workers : Timed(worker[w]) /\ Shaped(worker[w])

\* A turn is about to send the digest, or to remove the row of what it sent.
Making(w, id) == worker[w].pc \in {"quiet", "defer"} /\ DigestId(worker[w].policy.next) = id
Removing(w, id) == worker[w].pc = "unqueue" /\ worker[w].id = id

\* Rows are of messages whose delivery has ended, and so is what a turn sends.
RowsOfDelivered ==
    /\ \A m \in Posts :
          /\ message[m] = "absent" <=> pub[m] = "new"
          /\ message[m] = "deleted" => m \in excused
          /\ m \in items \cup deferred => pub[m] = "done"
          /\ pub[m] # "done" => notified[m] = 0
    /\ \A w \in Workers, m \in Posts :
          /\ m \in InHand(w) => pub[m] = "done"
          /\ Removing(w, m) => notified[m] > 0 \/ m \in excused

\* What was never stored is in no row and in no turn.
OnlyStored ==
    \A id \in CopyIds : message[id] = "absent" =>
        /\ notified[id] = 0 /\ id \notin deferred
        /\ \A w \in Workers : id \notin InHand(w) /\ ~Making(w, id)

\* Of what no two turns had in hand at once, one turn sends or removes the row.
Held(id, w) ==
    /\ id \in InHand(w) => \A v \in Workers \ {w} : id \notin InHand(v)
    /\ id \in InHand(w) /\ ~Removing(w, id) /\ message[id] = "stored" => id \in deferred
Made(id, w) ==
    Making(w, id) => /\ notified[id] = 0 /\ id \notin deferred
                     /\ \A v \in Workers \ {w} : ~Making(v, id)
InOneHand == \A id \in CopyIds \ redone : \A w \in Workers : Held(id, w) /\ Made(id, w)

\* Whatever will still be sent fits what failures allow.
Unsent(id) == id \in deferred /\ \A w \in Workers : ~Removing(w, id)
Budget == \A id \in CopyIds \ redone : notified[id] <= 1 + fails /\ (Unsent(id) => notified[id] <= fails)

Sends == OnlyStored /\ InOneHand /\ Budget

\* Items that a digest clears are in it, or in the one stored under its key.
Stored(policy) == policy.next \in Keys /\ message[DigestId(policy.next)] = "stored"
ReadBy(turn) ==
    /\ turn.pc \in {"items", "store"} /\ Stored(turn.policy) => items \subseteq summarised \cup excused
    /\ turn.pc \in {"store", "quiet", "defer", "clear"} => items \subseteq turn.batch \cup excused
    /\ turn.pc \in {"quiet", "defer", "clear"} => items \cap turn.batch \subseteq summarised \cup excused
ItemsRead ==
    /\ digest.enabled /\ Stored(digest) => items \subseteq summarised \cup excused
    /\ \A w \in Workers : ReadBy(worker[w])

\* While the digest is off, or is about to be, only late publishers queue items.
LateOnly(m) == pub[m] = "queue" \/ m \in items => m \in tardy
OffIsLate ==
    \A m \in Posts : /\ ~digest.enabled => LateOnly(m)
                     /\ api.pc = "save" /\ ~api.form.enabled => LateOnly(m)

DeliveryInv == DeliveryType /\ TurnType /\ RowsOfDelivered /\ Sends /\ ItemsRead /\ OffIsLate /\ Accounted

\* The keys of digests are told apart, and from the messages.
LEMMA DigestIds ==
  /\ \A m \in Posts : m \in CopyIds
  /\ \A k \in Keys : k \in Nat /\ DigestId(k) \in CopyIds /\ DigestId(k) \notin Posts
  /\ \A j, k \in Nat : DigestId(j) = DigestId(k) => j = k
  /\ \A k \in Nat : k <= MaxClock => k \in Keys
  /\ \A id \in CopyIds : id \in Posts \/ \E k \in Keys : id = DigestId(k)
<1>1. \A m \in Posts : m \in CopyIds
  BY DEF CopyIds
<1>2. \A k \in Keys : k \in Nat /\ DigestId(k) \in CopyIds /\ DigestId(k) \notin Posts
  BY DeliveryAssumption DEF Keys, CopyIds, DigestId, Posts
<1>3. \A j, k \in Nat : DigestId(j) = DigestId(k) => j = k
  BY DeliveryAssumption DEF DigestId
<1>4. \A k \in Nat : k <= MaxClock => k \in Keys
  BY DeliveryAssumption DEF Keys
<1>5. \A id \in CopyIds : id \in Posts \/ \E k \in Keys : id = DigestId(k)
  BY DEF CopyIds
<1> QED  BY <1>1, <1>2, <1>3, <1>4, <1>5

\* What a turn has in hand, before a step and after it.
LEMMA Hands ==
  \A w : /\ worker[w].pc = "send" => InHand(w) = worker[w].todo
         /\ worker[w].pc = "unqueue" => InHand(w) = worker[w].todo \cup {worker[w].id}
         /\ worker[w].pc \notin {"send", "unqueue"} => InHand(w) = {}
         /\ worker'[w].pc = "send" => InHand(w)' = worker'[w].todo
         /\ worker'[w].pc = "unqueue" => InHand(w)' = worker'[w].todo \cup {worker'[w].id}
         /\ worker'[w].pc \notin {"send", "unqueue"} => InHand(w)' = {}
BY DEF InHand

\* A turn moves, the others stay where they are.
LEMMA TurnMoves ==
  ASSUME TurnType, NEW w \in Workers, NEW turn, Becomes(w, turn)
  PROVE  /\ worker'[w] = turn /\ \A v \in Workers \ {w} : worker'[v] = worker[v]
         /\ worker' = [v \in Workers |-> worker'[v]]
BY DEF TurnType, Becomes

LEMMA DigestGoes ==
  ASSUME TurnType, NEW w \in Workers, worker[w].pc \in Digesting, NEW step, Goto(w, step)
  PROVE  Becomes(w, [pc |-> step, now |-> worker[w].now, policy |-> worker[w].policy, batch |-> worker[w].batch])
<1>1. PICK t : t = worker[w]
  OBVIOUS
<1>2. t = [pc |-> t.pc, now |-> t.now, policy |-> t.policy, batch |-> t.batch]
  BY <1>1 DEF TurnType, Shaped
<1>3. [t EXCEPT !.pc = step] = [pc |-> step, now |-> t.now, policy |-> t.policy, batch |-> t.batch]
  BY <1>2
<1>4. worker' = [worker EXCEPT ![w] = [t EXCEPT !.pc = step]]
  BY <1>1 DEF Goto, TurnType
<1> QED  BY <1>1, <1>3, <1>4 DEF Becomes

\* The key of a digest that is made is one of the keys.
LEMMA KeyOfDigest ==
  ASSUME DeliveryType, TurnType, NEW w \in Workers, worker[w].pc \in Digesting \cup {"items"}
  PROVE  /\ worker[w].policy.next \in Keys /\ DigestId(worker[w].policy.next) \in CopyIds
         /\ DigestId(worker[w].policy.next) \notin Posts
<1>1. /\ worker[w].policy.next \in Nat /\ worker[w].policy.next <= worker[w].now
      /\ worker[w].now \in Nat /\ worker[w].now <= clock /\ clock \in Nat /\ clock <= MaxClock /\ MaxClock \in Nat
  BY DeliveryAssumption DEF DeliveryType, TurnType, Timed, OnPolicy, Digesting
<1> QED  BY <1>1, DigestIds

-----------------------------------------------------------------------------
(* Steps that leave a part of the invariant as it was.                     *)

\* Nothing is stored, sent or deferred, and no turn takes a row in hand.
LEMMA SendsKept ==
  ASSUME DeliveryType, Sends, UNCHANGED <<message, notified, deferred>>,
         redone \subseteq redone', fails' \in Nat, fails <= fails',
         \A w \in Workers, id \in CopyIds :
            /\ id \in InHand(w)' => id \in InHand(w)
            /\ Making(w, id)' => Making(w, id)
            /\ Removing(w, id) => Removing(w, id)' \/ (id \notin InHand(w)' /\ fails < fails')
  PROVE  Sends'
<1>0. OnlyStored /\ InOneHand /\ Budget
  BY DEF Sends
<1>1. OnlyStored'
  BY <1>0 DEF OnlyStored
<1>2. InOneHand'
  <2> SUFFICES ASSUME NEW id \in CopyIds \ redone', NEW w \in Workers
               PROVE  Held(id, w)' /\ Made(id, w)'
    BY DEF InOneHand
  <2>1. Held(id, w) /\ Made(id, w)
    BY <1>0 DEF InOneHand
  <2>2. Held(id, w)'
    BY <2>1 DEF Held
  <2>3. Made(id, w)'
    BY <2>1 DEF Made
  <2> QED  BY <2>2, <2>3
<1>3. Budget'
  <2> SUFFICES ASSUME NEW id \in CopyIds \ redone'
               PROVE  notified'[id] <= 1 + fails' /\ (Unsent(id)' => notified'[id] <= fails')
    BY DEF Budget
  <2>1. notified[id] \in Nat /\ fails \in Nat /\ notified[id] <= 1 + fails /\ (Unsent(id) => notified[id] <= fails)
    BY <1>0 DEF Budget, DeliveryType
  <2>2. Unsent(id)' => Unsent(id) \/ fails < fails'
    BY DEF Unsent
  <2> QED  BY <2>1, <2>2
<1> QED  BY <1>1, <1>2, <1>3 DEF Sends

\* Deliveries go on, and turns keep what they read.
LEMMA TurnsKept ==
  ASSUME DeliveryType, TurnType, clock' \in Nat, clock <= clock', UNCHANGED worker
  PROVE  TurnType'
BY DEF DeliveryType, TurnType, Timed, Shaped, OnPolicy

\* One turn moves while the clock stands.
LEMMA TurnTyped ==
  ASSUME TurnType, UNCHANGED clock, NEW w \in Workers, NEW turn, Becomes(w, turn), Timed(turn), Shaped(turn)
  PROVE  TurnType'
<1>1. /\ worker'[w] = turn /\ \A v \in Workers \ {w} : worker'[v] = worker[v]
      /\ worker' = [v \in Workers |-> worker'[v]]
  BY TurnMoves
<1>2. \A v \in Workers : Timed(worker'[v]) /\ Shaped(worker'[v])
  BY <1>1 DEF TurnType
<1>3. \A v \in Workers : Timed(worker[v])' /\ Shaped(worker[v])'
  BY <1>2 DEF Timed, Shaped
<1> QED  BY <1>1, <1>3 DEF TurnType

\* A turn that moves, and what it has read.
LEMMA ReadsKept ==
  ASSUME TurnType, ItemsRead, UNCHANGED <<message, items, digest, summarised>>, excused \subseteq excused',
         NEW w \in Workers, NEW turn, Becomes(w, turn), ReadBy(turn)
  PROVE  ItemsRead'
<1>1. worker'[w] = turn /\ \A v \in Workers \ {w} : worker'[v] = worker[v]
  BY TurnMoves
<1>2. \A v \in Workers : ReadBy(worker'[v])
  BY <1>1 DEF ItemsRead
<1>3. \A v \in Workers : ReadBy(worker[v])'
  BY <1>2 DEF ReadBy, Stored
<1>4. digest'.enabled /\ Stored(digest)' => items' \subseteq summarised' \cup excused'
  BY DEF ItemsRead, Stored
<1> QED  BY <1>3, <1>4 DEF ItemsRead

-----------------------------------------------------------------------------
(* The steps of the publishers, of the user and of the clock.              *)

\* A publisher takes its next step.
LEMMA PublisherSteps ==
  ASSUME DeliveryInv, NEW m \in Posts,
         \/ StoreMessage(m) \/ ReadDigestPolicy(m) \/ QueueDigestItem(m)
         \/ ReadQuietHours(m) \/ QueueDeferredNotification(m) \/ PolicyError(m)
  PROVE  DeliveryInv'
<1> USE DEF Stages
<1>0. DeliveryType /\ TurnType /\ RowsOfDelivered /\ Sends /\ ItemsRead /\ OffIsLate /\ Accounted
  BY DEF DeliveryInv
<1>1. UNCHANGED <<clock, digest, worker, api, summarised, redone>> /\ m \in CopyIds /\ pub[m] # "done"
  BY DigestIds DEF StoreMessage, ReadDigestPolicy, QueueDigestItem, ReadQuietHours, QueueDeferredNotification,
                   PolicyError, rows, history
<1>2. /\ excused \subseteq excused' /\ tardy \subseteq tardy'
      /\ fails' \in Nat /\ fails <= fails'
  BY <1>0 DEF StoreMessage, ReadDigestPolicy, QueueDigestItem, ReadQuietHours, QueueDeferredNotification,
              PolicyError, counts, history, Fails, DeliveryType
<1>3. /\ pub' \in [Posts -> Stages] /\ \A o \in Posts \ {m} : pub'[o] = pub[o]
      /\ pub'[m] # "new"
  BY <1>0 DEF StoreMessage, ReadDigestPolicy, QueueDigestItem, ReadQuietHours, QueueDeferredNotification,
              PolicyError, Stage, DeliveryType
<1>4. \/ message' = message /\ pub[m] # "new"
      \/ message' = [message EXCEPT ![m] = "stored"] /\ pub[m] = "new" /\ pub'[m] = "deliver"
  BY <1>0 DEF StoreMessage, ReadDigestPolicy, QueueDigestItem, ReadQuietHours, QueueDeferredNotification,
              PolicyError, Stage, rows, DeliveryType
<1>5. \/ notified' = notified
      \/ notified' = [notified EXCEPT ![m] = @ + 1] /\ pub'[m] = "done"
  BY <1>0 DEF StoreMessage, ReadDigestPolicy, QueueDigestItem, ReadQuietHours, QueueDeferredNotification,
              PolicyError, Stage, Notify, DeliveryType
<1>6. \/ items' = items
      \/ items' = items \cup {m} /\ QueueDigestItem(m) /\ pub[m] = "queue" /\ pub'[m] = "done"
  BY <1>0 DEF StoreMessage, ReadDigestPolicy, QueueDigestItem, ReadQuietHours, QueueDeferredNotification,
              PolicyError, Stage, rows, DeliveryType
<1>7. \/ deferred' = deferred
      \/ deferred' = deferred \cup {m} /\ pub'[m] = "done" /\ notified' = notified
  BY <1>0 DEF StoreMessage, ReadDigestPolicy, QueueDigestItem, ReadQuietHours, QueueDeferredNotification,
              PolicyError, Stage, rows, DeliveryType
<1>8. pub'[m] = "done" => notified'[m] > 0 \/ m \in deferred' \cup excused' \/ (m \in items' /\ pub[m] = "queue")
  BY <1>0, <1>1 DEF StoreMessage, ReadDigestPolicy, QueueDigestItem, ReadQuietHours, QueueDeferredNotification,
              PolicyError, Stage, Notify, DeliveryType
<1>9. pub'[m] = "queue" => digest.enabled /\ (api.pc = "save" => m \in tardy')
  BY <1>0, <1>1 DEF StoreMessage, ReadDigestPolicy, QueueDigestItem, ReadQuietHours, QueueDeferredNotification,
              PolicyError, Stage, DeliveryType
<1>10. /\ message'[m] # "absent" /\ (message[m] # "deleted" => message'[m] # "deleted")
       /\ \A o \in CopyIds \ {m} : message'[o] = message[o]
  BY <1>0, <1>1, <1>4 DEF DeliveryType, RowsOfDelivered
<1>11. /\ notified'[m] = 0 \/ (notified'[m] = 1 /\ deferred' = deferred)
       /\ notified' \in [CopyIds -> Nat] /\ \A o \in CopyIds \ {m} : notified'[o] = notified[o]
       /\ \A o \in CopyIds \ {m} : o \in deferred' <=> o \in deferred
       /\ m \notin deferred
       /\ deferred' \subseteq CopyIds
  BY <1>0, <1>1, <1>5, <1>7 DEF RowsOfDelivered, DeliveryType
<1>12. \A w \in Workers : /\ InHand(w)' = InHand(w) /\ m \notin InHand(w) /\ ~Making(w, m)
                          /\ \A id : (Making(w, id)' <=> Making(w, id)) /\ (Removing(w, id)' <=> Removing(w, id))
  <2>1. \A w \in Workers : m \notin InHand(w)
    BY <1>0, <1>1 DEF RowsOfDelivered
  <2>2. \A w \in Workers : ~Making(w, m)
    BY <1>0, KeyOfDigest DEF Making, Digesting
  <2> QED  BY <1>1, <2>1, <2>2 DEF InHand, Making, Removing
<1>13. DeliveryType'
  BY <1>0, <1>1, <1>2, <1>3, <1>4, <1>6, <1>11 DEF DeliveryType, OnPolicy
<1>14. TurnType'
  BY <1>0, <1>1, TurnsKept DEF DeliveryType
<1>15. RowsOfDelivered'
  <2>1. \A o \in Posts : /\ message'[o] = "absent" <=> pub'[o] = "new"
                         /\ message'[o] = "deleted" => o \in excused'
                         /\ o \in items' \cup deferred' => pub'[o] = "done"
                         /\ pub'[o] # "done" => notified'[o] = 0
    <3>1. ASSUME NEW o \in Posts, o # m
          PROVE  /\ message'[o] = "absent" <=> pub'[o] = "new"
                 /\ message'[o] = "deleted" => o \in excused'
                 /\ o \in items' \cup deferred' => pub'[o] = "done"
                 /\ pub'[o] # "done" => notified'[o] = 0
      BY <1>0, <1>2, <1>3, <1>6, <1>10, <1>11, <3>1, DigestIds DEF RowsOfDelivered
    <3>2. /\ message'[m] = "deleted" => m \in excused'
          /\ m \in items' \cup deferred' => pub'[m] = "done"
          /\ pub'[m] # "done" => notified'[m] = 0
      BY <1>0, <1>1, <1>2, <1>5, <1>6, <1>7, <1>10 DEF RowsOfDelivered
    <3> QED  BY <1>3, <1>10, <3>1, <3>2
  <2>2. \A w \in Workers, o \in Posts : o \in InHand(w)' => pub'[o] = "done"
    BY <1>0, <1>3, <1>12 DEF RowsOfDelivered
  <2>3. \A w \in Workers, o \in Posts : Removing(w, o)' => notified'[o] > 0 \/ o \in excused'
    <3>1. \A w \in Workers : ~Removing(w, m)
      BY <1>12, Hands DEF Removing
    <3> QED  BY <1>0, <1>2, <1>11, <1>12, <3>1, DigestIds DEF RowsOfDelivered
  <2> QED  BY <2>1, <2>2, <2>3 DEF RowsOfDelivered
<1>16. Sends'
  <2>0. OnlyStored /\ InOneHand /\ Budget
    BY <1>0 DEF Sends
  <2>1. OnlyStored'
    BY <2>0, <1>10, <1>11, <1>12 DEF OnlyStored
  <2>2. ASSUME NEW id \in CopyIds \ redone', NEW w \in Workers
        PROVE  Held(id, w)' /\ Made(id, w)'
    <3>1. id # m => Held(id, w) /\ Made(id, w)
      BY <1>1, <2>0, <2>2 DEF InOneHand
    <3>2. Held(id, w)'
      BY <1>10, <1>11, <1>12, <2>2, <3>1 DEF Held
    <3>3. Made(id, w)'
      BY <1>11, <1>12, <2>2, <3>1 DEF Made
    <3> QED  BY <3>2, <3>3
  <2>3. ASSUME NEW id \in CopyIds \ redone'
        PROVE  notified'[id] <= 1 + fails' /\ (Unsent(id)' => notified'[id] <= fails')
    <3>1. CASE id = m
      BY <1>2, <1>11, <3>1 DEF Unsent
    <3>2. CASE id # m
      <4>1. notified[id] <= 1 + fails /\ (Unsent(id) => notified[id] <= fails) /\ notified[id] \in Nat /\ fails \in Nat
        BY <1>0, <1>1, <2>0, <2>3 DEF Budget, DeliveryType
      <4>2. notified'[id] = notified[id] /\ (Unsent(id)' => Unsent(id))
        BY <1>11, <1>12, <2>3, <3>2 DEF Unsent
      <4> QED  BY <1>2, <4>1, <4>2
    <3> QED  BY <3>1, <3>2
  <2> QED  BY <2>1, <2>2, <2>3 DEF Sends, InOneHand, Budget
<1>17. ItemsRead'
  <2>1. m \in items' /\ m \notin items =>
          /\ \A w \in Workers : worker[w].pc \in {"store", "quiet", "defer", "clear"} => m \in excused'
          /\ \A w \in Workers : worker[w].pc = "items" /\ OnPolicy(worker[w].policy) /\ Stored(worker[w].policy)
                                  => m \in excused'
          /\ OnPolicy(digest) /\ Stored(digest) => m \in excused'
    BY <1>6 DEF QueueDigestItem, Repeated, Stored, OnPolicy
  <2>2. \A p : p.next \in Keys => (message'[DigestId(p.next)] = message[DigestId(p.next)])
    BY <1>10, DigestIds
  <2>3. \A o : o \in items' => o \in items \/ (o = m /\ m \notin items)
    BY <1>6
  <2>4. digest.enabled => OnPolicy(digest)
    BY <1>0 DEF DeliveryType
  <2>5. Stored(digest)' => Stored(digest)
    BY <1>1, <2>2 DEF Stored
  <2>6. digest'.enabled /\ Stored(digest)' => items' \subseteq summarised' \cup excused'
    BY <1>0, <1>1, <1>2, <2>1, <2>3, <2>4, <2>5 DEF ItemsRead
  <2>7. ASSUME NEW w \in Workers PROVE ReadBy(worker[w])'
    <3>1. ReadBy(worker[w]) /\ (worker[w].pc \in {"items", "store"} => OnPolicy(worker[w].policy))
      BY <1>0 DEF ItemsRead, TurnType, Timed, Digesting
    <3>2. Stored(worker[w].policy)' => Stored(worker[w].policy)
      BY <1>1, <2>2 DEF Stored
    <3>3. worker'[w] = worker[w]
      BY <1>1
    <3>4. /\ worker[w].pc \in {"items", "store"} /\ Stored(worker[w].policy)' => items' \subseteq summarised \cup excused'
          /\ worker[w].pc \in {"store", "quiet", "defer", "clear"} => items' \subseteq worker[w].batch \cup excused'
          /\ worker[w].pc \in {"quiet", "defer", "clear"} => items' \cap worker[w].batch \subseteq summarised \cup excused'
      BY <1>2, <2>1, <2>3, <3>1, <3>2 DEF ReadBy
    <3> QED  BY <1>1, <3>3, <3>4 DEF ReadBy
  <2> QED  BY <2>6, <2>7 DEF ItemsRead
<1>18. OffIsLate'
  BY <1>0, <1>1, <1>2, <1>3, <1>6, <1>9 DEF OffIsLate, LateOnly, DeliveryType
<1>19. Accounted'
  <2>1. \A o \in Posts \ {m} : notified'[o] = notified[o]
    BY <1>11, DigestIds
  <2>2. /\ summarised' = summarised /\ items \subseteq items' /\ deferred \subseteq deferred'
        /\ pub[m] = "queue" => digest.enabled \/ m \in tardy
    BY <1>0, <1>1, <1>6, <1>7 DEF OffIsLate, LateOnly, DeliveryType
  <2> QED  BY <1>0, <1>1, <1>2, <1>3, <1>8, <2>1, <2>2 DEF Accounted
<1> QED  BY <1>13, <1>14, <1>15, <1>16, <1>17, <1>18, <1>19 DEF DeliveryInv

\* No turn moves.
LEMMA HandsRest ==
  ASSUME UNCHANGED worker
  PROVE  \A w \in Workers : /\ InHand(w)' = InHand(w)
                            /\ \A id : (Making(w, id)' <=> Making(w, id)) /\ (Removing(w, id)' <=> Removing(w, id))
BY DEF InHand, Making, Removing

\* The clock moves, or a policy row that no step of a delivery depends on.
LEMMA ClockOrQuietHours ==
  ASSUME DeliveryInv,
         \/ Tick \/ SaveDigestFails
         \/ \E f \in QuietForms : SaveQuietHours(f)
         \/ UNCHANGED deliveryVars
  PROVE  DeliveryInv'
<1>0. DeliveryType /\ TurnType /\ RowsOfDelivered /\ Sends /\ ItemsRead /\ OffIsLate /\ Accounted
  BY DEF DeliveryInv
<1>1. /\ UNCHANGED <<message, digest, items, deferred, notified, pub, worker, summarised, excused, tardy, redone>>
      /\ clock' \in Nat /\ clock <= clock' /\ clock' <= MaxClock
      /\ fails' \in Nat /\ fails <= fails'
      /\ api' = api \/ api' = Idle
  BY <1>0, DeliveryAssumption
     DEF Tick, SaveDigestFails, SaveQuietHours, deliveryVars, rows, counts, history, Fails, DeliveryType
<1>2. DeliveryType'
  BY <1>0, <1>1 DEF DeliveryType, OnPolicy, Idle
<1>3. TurnType'
  BY <1>0, <1>1, TurnsKept
<1>4. RowsOfDelivered'
  BY <1>0, <1>1, HandsRest DEF RowsOfDelivered
<1>5. Sends'
  BY <1>0, <1>1, HandsRest, SendsKept
<1>6. ItemsRead'
  BY <1>0, <1>1 DEF ItemsRead, ReadBy, Stored
<1>7. OffIsLate'
  BY <1>0, <1>1 DEF OffIsLate, LateOnly, Idle
<1>8. Accounted'
  BY <1>0, <1>1 DEF Accounted
<1> QED  BY <1>2, <1>3, <1>4, <1>5, <1>6, <1>7, <1>8 DEF DeliveryInv

\* A message, or a digest, is deleted with its rows.
LEMMA CopyDeleted ==
  ASSUME DeliveryInv, NEW id \in CopyIds, DeleteCopy(id)
  PROVE  DeliveryInv'
<1>0. DeliveryType /\ TurnType /\ RowsOfDelivered /\ Sends /\ ItemsRead /\ OffIsLate /\ Accounted
  BY DEF DeliveryInv
<1>1. /\ UNCHANGED <<clock, digest, notified, pub, worker, api, fails, summarised, tardy, redone>>
      /\ message[id] = "stored" /\ message' = [message EXCEPT ![id] = "deleted"]
      /\ items' = items \ {id} /\ deferred' = deferred \ {id} /\ excused' = excused \cup ({id} \cap Posts)
  BY DEF DeleteCopy
<1>2. message'[id] = "deleted" /\ \A o \in CopyIds \ {id} : message'[o] = message[o]
  BY <1>0, <1>1 DEF DeliveryType
<1>3. DeliveryType'
  BY <1>0, <1>1 DEF DeliveryType, OnPolicy
<1>4. TurnType'
  BY <1>0, <1>1, TurnsKept DEF DeliveryType
<1>5. RowsOfDelivered'
  BY <1>0, <1>1, <1>2, HandsRest, DigestIds DEF RowsOfDelivered
<1>6. Sends'
  <2>0. OnlyStored /\ InOneHand /\ Budget
    BY <1>0 DEF Sends
  <2>1. OnlyStored'
    BY <1>1, <1>2, <2>0, HandsRest DEF OnlyStored
  <2>2. ASSUME NEW o \in CopyIds \ redone', NEW w \in Workers
        PROVE  Held(o, w)' /\ Made(o, w)'
    <3>1. Held(o, w) /\ Made(o, w)
      BY <1>1, <2>0, <2>2 DEF InOneHand
    <3>2. Held(o, w)'
      BY <1>1, <1>2, <2>2, <3>1, HandsRest DEF Held
    <3>3. Made(o, w)'
      BY <1>1, <2>2, <3>1, HandsRest DEF Made
    <3> QED  BY <3>2, <3>3
  <2>3. Budget'
    <3>1. \A o : Unsent(o)' => Unsent(o)
      BY <1>1, HandsRest DEF Unsent
    <3> QED  BY <1>1, <2>0, <3>1 DEF Budget
  <2> QED  BY <2>1, <2>2, <2>3 DEF Sends, InOneHand
<1>7. ItemsRead'
  <2>1. \A p : p.next \in Keys /\ message'[DigestId(p.next)] = "stored" => message[DigestId(p.next)] = "stored"
    BY <1>2, DigestIds
  <2>2. digest'.enabled /\ Stored(digest)' => items' \subseteq summarised' \cup excused'
    BY <1>0, <1>1, <2>1 DEF ItemsRead, Stored
  <2>3. \A w \in Workers : ReadBy(worker[w])'
    BY <1>0, <1>1, <2>1 DEF ItemsRead, ReadBy, Stored
  <2> QED  BY <2>2, <2>3 DEF ItemsRead
<1>8. OffIsLate'
  BY <1>0, <1>1 DEF OffIsLate, LateOnly
<1>9. Accounted'
  BY <1>0, <1>1 DEF Accounted
<1> QED  BY <1>3, <1>4, <1>5, <1>6, <1>7, <1>8, <1>9 DEF DeliveryInv

\* The process dies: what is written stays.
LEMMA ProcessDies ==
  ASSUME DeliveryInv, Crash
  PROVE  DeliveryInv'
<1>0. DeliveryType /\ TurnType /\ RowsOfDelivered /\ Sends /\ ItemsRead /\ OffIsLate /\ Accounted
  BY DEF DeliveryInv
<1>1. PICK dead \in SUBSET Workers : worker' = [w \in Workers |-> IF w \in dead THEN Idle ELSE worker[w]]
  BY DEF Crash
<1>2. /\ UNCHANGED <<clock, message, digest, items, deferred, notified, summarised, tardy, redone>>
      /\ fails' = fails + 1 /\ fails' \in Nat /\ fails < fails' /\ fails <= fails'
      /\ api' = api \/ api'.pc = "idle"
      /\ pub' \in [Posts -> Stages]
      /\ \A m \in Posts : /\ pub'[m] = pub[m] \/ (pub'[m] = "done" /\ pub[m] # "new")
                          /\ pub'[m] = "done" => pub[m] = "done" \/ m \in excused'
      /\ excused \subseteq excused'
  <2>1. UNCHANGED <<clock, message, digest, items, deferred, notified, summarised, tardy, redone>> /\ fails' = fails + 1
    BY DEF Crash, Fails, rows
  <2>2. fails \in Nat /\ pub \in [Posts -> Stages]
    BY <1>0 DEF DeliveryType
  <2>3. CASE UNCHANGED <<api, pub, excused>>
    BY <2>1, <2>2, <2>3
  <2>4. CASE /\ api' = Idle
             /\ pub' = [m \in Posts |-> IF pub[m] = "new" THEN "new" ELSE "done"]
             /\ excused' = excused \cup {m \in Posts : pub[m] \notin {"new", "done"}}
    BY <2>1, <2>2, <2>4 DEF Idle, Stages
  <2> QED  BY <2>3, <2>4 DEF Crash
<1>3. \A w \in Workers : worker'[w].pc = "idle" \/ worker'[w] = worker[w]
  BY <1>1 DEF Idle
<1>4. \A w \in Workers : \/ InHand(w)' = {} /\ \A id : ~Making(w, id)' /\ ~Removing(w, id)'
                         \/ /\ InHand(w)' = InHand(w)
                            /\ \A id : (Making(w, id)' <=> Making(w, id)) /\ (Removing(w, id)' <=> Removing(w, id))
  <2> SUFFICES ASSUME NEW w \in Workers
               PROVE  \/ InHand(w)' = {} /\ \A id : ~Making(w, id)' /\ ~Removing(w, id)'
                      \/ /\ InHand(w)' = InHand(w)
                         /\ \A id : (Making(w, id)' <=> Making(w, id)) /\ (Removing(w, id)' <=> Removing(w, id))
    OBVIOUS
  <2>1. CASE worker'[w].pc = "idle"
    BY <2>1, Hands DEF Making, Removing
  <2>2. CASE worker'[w] = worker[w]
    BY <2>2 DEF InHand, Making, Removing
  <2> QED  BY <1>3, <2>1, <2>2
<1>5. DeliveryType'
  BY <1>0, <1>2 DEF DeliveryType, OnPolicy
<1>6. TurnType'
  <2>1. worker' = [w \in Workers |-> worker'[w]]
    BY <1>1
  <2>2. \A w \in Workers : Timed(worker[w])' /\ Shaped(worker[w])'
    BY <1>0, <1>2, <1>3 DEF TurnType, Timed, Shaped, Digesting
  <2> QED  BY <2>1, <2>2 DEF TurnType
<1>7. RowsOfDelivered'
  <2>1. \A m \in Posts : /\ message'[m] = "absent" <=> pub'[m] = "new"
                         /\ message'[m] = "deleted" => m \in excused'
                         /\ m \in items' \cup deferred' => pub'[m] = "done"
                         /\ pub'[m] # "done" => notified'[m] = 0
    BY <1>0, <1>2 DEF RowsOfDelivered
  <2>2. \A w \in Workers, m \in Posts : /\ m \in InHand(w)' => pub'[m] = "done"
                                        /\ Removing(w, m)' => notified'[m] > 0 \/ m \in excused'
    BY <1>0, <1>2, <1>4 DEF RowsOfDelivered
  <2> QED  BY <2>1, <2>2 DEF RowsOfDelivered
<1>8. Sends'
  <2>1. \A w \in Workers, id \in CopyIds :
            /\ id \in InHand(w)' => id \in InHand(w)
            /\ Making(w, id)' => Making(w, id)
            /\ Removing(w, id) => Removing(w, id)' \/ (id \notin InHand(w)' /\ fails < fails')
    BY <1>2, <1>4
  <2> QED  BY <1>0, <1>2, <2>1, SendsKept
<1>9. ItemsRead'
  <2>1. \A w \in Workers : ReadBy(worker[w])'
    BY <1>0, <1>2, <1>3 DEF ItemsRead, ReadBy, Stored
  <2> QED  BY <1>0, <1>2, <2>1 DEF ItemsRead, Stored
<1>10. OffIsLate'
  BY <1>0, <1>2 DEF OffIsLate, LateOnly
<1>11. Accounted'
  BY <1>0, <1>2 DEF Accounted
<1> QED  BY <1>5, <1>6, <1>7, <1>8, <1>9, <1>10, <1>11 DEF DeliveryInv

LEMMA DigestSaved ==
  ASSUME DeliveryInv, SaveDigestForm
  PROVE  DeliveryInv'
<1>0. DeliveryType /\ TurnType /\ RowsOfDelivered /\ Sends /\ ItemsRead /\ OffIsLate /\ Accounted
  BY DEF DeliveryInv
<1>1. /\ UNCHANGED <<clock, message, items, deferred, notified, pub, worker, fails, summarised, redone>>
      /\ api.pc = "save" /\ api'.pc = "idle" /\ api.form \in DigestForms
      /\ digest' = WithNext(api.form, IF api.form.enabled THEN clock + api.form.interval ELSE -1)
      /\ tardy' = IF api.form.enabled THEN tardy ELSE tardy \cup {m \in Posts : pub[m] = "queue"}
      /\ excused \subseteq excused' /\ (Repeated(digest') => items \subseteq excused')
      /\ fails \in Nat
  BY <1>0 DEF SaveDigestForm, SaveDigestPolicy, Idle, counts, DeliveryType
<1>2. /\ api.form.enabled \in BOOLEAN /\ api.form.interval \in Nat \ {0} /\ clock \in Nat
  BY <1>0, <1>1, DeliveryAssumption DEF DeliveryType
<1>3. /\ digest'.enabled = api.form.enabled
      /\ digest'.enabled => OnPolicy(digest')
  BY <1>1, <1>2 DEF WithNext, OnPolicy
<1>4. DeliveryType'
  BY <1>0, <1>1, <1>2, <1>3 DEF DeliveryType, OnPolicy
<1>5. TurnType'
  BY <1>0, <1>1, <1>2, TurnsKept
<1>6. RowsOfDelivered'
  BY <1>0, <1>1, HandsRest DEF RowsOfDelivered
<1>7. Sends'
  BY <1>0, <1>1, HandsRest, SendsKept DEF DeliveryType
<1>8. ItemsRead'
  <2>1. digest'.enabled /\ Stored(digest)' => items' \subseteq summarised' \cup excused'
    BY <1>1 DEF Stored, Repeated
  <2>2. \A w \in Workers : ReadBy(worker[w])'
    BY <1>0, <1>1 DEF ItemsRead, ReadBy, Stored
  <2> QED  BY <2>1, <2>2 DEF ItemsRead
<1>9. OffIsLate'
  BY <1>0, <1>1, <1>2, <1>3 DEF OffIsLate, LateOnly
<1>10. Accounted'
  BY <1>0, <1>1, <1>2, <1>3 DEF Accounted, OffIsLate, LateOnly
<1> QED  BY <1>4, <1>5, <1>6, <1>7, <1>8, <1>9, <1>10 DEF DeliveryInv

LEMMA DigestFormSent ==
  ASSUME DeliveryInv, NEW f \in DigestForms, SaveDigest(f)
  PROVE  DeliveryInv'
<1>0. DeliveryType /\ TurnType /\ RowsOfDelivered /\ Sends /\ ItemsRead /\ OffIsLate /\ Accounted
  BY DEF DeliveryInv
<1>1. /\ UNCHANGED <<clock, message, digest, deferred, notified, pub, worker, fails, summarised, redone>>
      /\ api'.pc = "save" /\ api'.form = f /\ fails \in Nat /\ clock \in Nat
      /\ IF f.enabled THEN UNCHANGED <<items, excused, tardy>>
         ELSE /\ items' = {} /\ excused' = excused \cup items
              /\ tardy' = tardy \cup {m \in Posts : pub[m] = "queue"}
  BY <1>0 DEF SaveDigest, DeliveryType
<1>2. DeliveryType'
  BY <1>0, <1>1 DEF DeliveryType, OnPolicy
<1>3. TurnType'
  BY <1>0, <1>1, TurnsKept
<1>4. RowsOfDelivered'
  BY <1>0, <1>1, HandsRest DEF RowsOfDelivered
<1>5. Sends'
  BY <1>0, <1>1, HandsRest, SendsKept
<1>6. ItemsRead'
  BY <1>0, <1>1 DEF ItemsRead, ReadBy, Stored
<1>7. OffIsLate'
  BY <1>0, <1>1 DEF OffIsLate, LateOnly
<1>8. Accounted'
  BY <1>0, <1>1 DEF Accounted
<1> QED  BY <1>2, <1>3, <1>4, <1>5, <1>6, <1>7, <1>8 DEF DeliveryInv

-----------------------------------------------------------------------------
(* The steps of a turn.                                                    *)

\* A turn begins, or goes on to its next part without a change.
LEMMA TurnGoesOn ==
  ASSUME DeliveryInv, NEW w \in Workers,
         GetDueDigestPolicies(w) \/ GetDigestItems(w) \/ StoreDigestError(w) \/ DigestQuietError(w)
         \/ EndTurn(w) \/ \E id \in CopyIds : SendDeferredFails(w, id)
  PROVE  DeliveryInv'
<1>0. DeliveryType /\ TurnType /\ RowsOfDelivered /\ Sends /\ ItemsRead /\ OffIsLate /\ Accounted
  BY DEF DeliveryInv
<1>1. UNCHANGED <<clock, message, digest, items, deferred, notified, pub, api, summarised, excused, tardy, redone>>
  BY DEF GetDueDigestPolicies, GetDigestItems, StoreDigestError, DigestQuietError, EndTurn, SendDeferredFails,
         rows, history
<1>2. fails' \in Nat /\ fails <= fails' /\ clock \in Nat
  BY <1>0 DEF GetDueDigestPolicies, GetDigestItems, StoreDigestError, DigestQuietError, EndTurn,
              SendDeferredFails, counts, Fails, DeliveryType
<1>3. Timed(worker[w]) /\ Shaped(worker[w]) /\ ReadBy(worker[w])
  BY <1>0 DEF TurnType, ItemsRead
<1>4. PICK turn : turn = worker'[w]
  OBVIOUS
<1>5. /\ Becomes(w, turn) /\ worker[w].pc # "unqueue"
      /\ \/ worker[w].pc = "idle" /\ turn = [pc |-> "items", now |-> clock, policy |-> digest]
            /\ digest.enabled /\ digest.next <= clock
         \/ worker[w].pc = "idle" /\ turn = [pc |-> "deferred", now |-> clock]
         \/ /\ worker[w].pc = "items"
            /\ turn.pc \in {"store", "save"} /\ turn.now = worker[w].now
            /\ turn.policy = worker[w].policy /\ turn.batch = items
            /\ turn = [pc |-> turn.pc, now |-> turn.now, policy |-> turn.policy, batch |-> turn.batch]
         \/ worker[w].pc \in {"items", "store"} /\ turn = Deferring(w)
         \/ worker[w].pc = "quiet"
            /\ turn = [pc |-> "clear", now |-> worker[w].now, policy |-> worker[w].policy, batch |-> worker[w].batch]
         \/ worker[w].pc = "send" /\ turn = Idle
         \/ worker[w].pc = "send" /\ \E todo \in SUBSET worker[w].todo : turn = Sending(w, todo)
  <2>1. CASE GetDueDigestPolicies(w)
    BY <1>0, <1>4, <2>1, TurnMoves DEF GetDueDigestPolicies
  <2>2. CASE GetDigestItems(w)
    BY <1>0, <1>4, <2>2, TurnMoves DEF GetDigestItems
  <2>3. CASE StoreDigestError(w)
    BY <1>0, <1>4, <2>3, TurnMoves DEF StoreDigestError
  <2>4. CASE DigestQuietError(w)
    BY <1>0, <1>4, <2>4, TurnMoves, DigestGoes DEF DigestQuietError, Digesting
  <2>5. CASE EndTurn(w)
    BY <1>0, <1>4, <2>5, TurnMoves DEF EndTurn
  <2>6. ASSUME NEW id \in CopyIds, SendDeferredFails(w, id)
        PROVE  Becomes(w, turn) /\ worker[w].pc = "send" /\ \E todo \in SUBSET worker[w].todo : turn = Sending(w, todo)
    BY <1>0, <1>4, <2>6, TurnMoves DEF SendDeferredFails, Skip
  <2> QED  BY <2>1, <2>2, <2>3, <2>4, <2>5, <2>6
<1>6. Timed(turn) /\ Shaped(turn)
  BY <1>0, <1>2, <1>3, <1>5 DEF Timed, Shaped, OnPolicy, Digesting, Deferring, Sending, Idle, DeliveryType
<1>7. ReadBy(turn)
  BY <1>0, <1>3, <1>5 DEF ReadBy, ItemsRead, Deferring, Sending, Idle
<1>8. \A v \in Workers, id \in CopyIds :
            /\ id \in InHand(v)' => id \in InHand(v)
            /\ Making(v, id)' => Making(v, id)
            /\ Removing(v, id)' <=> Removing(v, id)
  <2> SUFFICES ASSUME NEW v \in Workers
               PROVE  \A id \in CopyIds :
                        /\ id \in InHand(v)' => id \in InHand(v)
                        /\ Making(v, id)' => Making(v, id)
                        /\ Removing(v, id)' <=> Removing(v, id)
    OBVIOUS
  <2>1. CASE v # w
    <3>1. worker'[v] = worker[v]
      BY <1>0, <1>5, <2>1, TurnMoves
    <3> QED  BY <3>1 DEF InHand, Making, Removing
  <2>2. CASE v = w
    <3>1. /\ turn.pc \notin {"quiet", "defer", "unqueue"}
          /\ turn.pc = "send" => worker[w].pc = "send" /\ turn.todo \subseteq worker[w].todo
      BY <1>5 DEF Deferring, Sending, Idle
    <3> QED  BY <1>4, <1>5, <2>2, <3>1, Hands DEF Making, Removing
  <2> QED  BY <2>1, <2>2
<1>9. DeliveryType'
  BY <1>0, <1>1, <1>2 DEF DeliveryType, OnPolicy
<1>10. TurnType'
  BY <1>0, <1>1, <1>5, <1>6, TurnTyped
<1>11. RowsOfDelivered'
  BY <1>0, <1>1, <1>8, DigestIds DEF RowsOfDelivered
<1>12. Sends'
  BY <1>0, <1>1, <1>2, <1>8, SendsKept
<1>13. ItemsRead'
  BY <1>0, <1>1, <1>5, <1>7, ReadsKept
<1>14. OffIsLate'
  BY <1>0, <1>1 DEF OffIsLate, LateOnly
<1>15. Accounted'
  BY <1>0, <1>1 DEF Accounted
<1> QED  BY <1>9, <1>10, <1>11, <1>12, <1>13, <1>14, <1>15 DEF DeliveryInv

\* The turn of one engine changes nothing for the turns of the others.
LEMMA OthersRest ==
  ASSUME TurnType, NEW w \in Workers, NEW turn, Becomes(w, turn)
  PROVE  \A v \in Workers \ {w} :
            /\ worker'[v] = worker[v] /\ InHand(v)' = InHand(v)
            /\ \A id : (Making(v, id)' <=> Making(v, id)) /\ (Removing(v, id)' <=> Removing(v, id))
<1>1. \A v \in Workers \ {w} : worker'[v] = worker[v]
  BY TurnMoves
<1> QED  BY <1>1 DEF InHand, Making, Removing

\* A digest is stored under its key, or was.
LEMMA DigestStored ==
  ASSUME DeliveryInv, NEW w \in Workers, StoreDigest(w)
  PROVE  DeliveryInv'
<1> DEFINE key == worker[w].policy.next
           id == DigestId(worker[w].policy.next)
           turn(step) == [pc |-> step, now |-> worker[w].now, policy |-> worker[w].policy, batch |-> worker[w].batch]
<1>0. DeliveryType /\ TurnType /\ RowsOfDelivered /\ Sends /\ ItemsRead /\ OffIsLate /\ Accounted
  BY DEF DeliveryInv
<1>1. /\ UNCHANGED <<clock, digest, items, deferred, notified, pub, api, fails, excused, tardy>>
      /\ worker[w].pc = "store"
      /\ \/ message[id] = "stored" /\ Becomes(w, turn("clear")) /\ UNCHANGED <<message, summarised, redone>>
         \/ /\ message[id] # "stored" /\ Becomes(w, turn("quiet"))
            /\ message' = [message EXCEPT ![id] = "stored"] /\ summarised' = summarised \cup worker[w].batch
            /\ redone' = IF message[id] = "deleted" THEN redone \cup {id} ELSE redone
  BY <1>0, DigestGoes DEF StoreDigest, counts, Digesting
<1>2. key \in Keys /\ id \in CopyIds /\ id \notin Posts
  BY <1>0, <1>1, KeyOfDigest DEF Digesting
<1>3. /\ message' \in [CopyIds -> {"absent", "stored", "deleted"}]
      /\ message'[id] = "stored" /\ \A o \in CopyIds \ {id} : message'[o] = message[o]
      /\ summarised \subseteq summarised' /\ redone \subseteq redone'
      /\ message[id] # "stored" => worker[w].batch \subseteq summarised'
      /\ id \in CopyIds \ redone' => message[id] # "deleted"
  BY <1>0, <1>1, <1>2 DEF DeliveryType
<1>4. PICK step \in {"clear", "quiet"} : /\ Becomes(w, turn(step))
                                         /\ step = "clear" <=> message[id] = "stored"
  BY <1>1
<1>5. /\ Timed(turn(step)) /\ Shaped(turn(step))
      /\ items \subseteq worker[w].batch \cup excused
      /\ message[id] = "stored" => items \subseteq summarised \cup excused
  <2>1. Timed(worker[w]) /\ Shaped(worker[w]) /\ ReadBy(worker[w])
    BY <1>0 DEF TurnType, ItemsRead
  <2> QED  BY <1>1, <1>2, <2>1 DEF Timed, Shaped, ReadBy, Stored, Digesting
<1>6. worker'[w] = turn(step) /\ \A v \in Workers \ {w} : worker'[v] = worker[v]
  BY <1>0, <1>4, TurnMoves
<1>7. /\ InHand(w) = {} /\ InHand(w)' = {}
      /\ \A o : /\ ~Making(w, o) /\ ~Removing(w, o) /\ ~Removing(w, o)'
                /\ Making(w, o)' <=> step = "quiet" /\ o = id
  BY <1>1, <1>6, Hands DEF Making, Removing
<1>8. DeliveryType'
  BY <1>0, <1>1, <1>3 DEF DeliveryType, OnPolicy
<1>9. TurnType'
  BY <1>0, <1>1, <1>4, <1>5, TurnTyped
<1>10. RowsOfDelivered'
  <2>1. \A m \in Posts : message'[m] = message[m]
    BY <1>2, <1>3, DigestIds
  <2>2. \A v \in Workers, m \in Posts : /\ m \in InHand(v)' => m \in InHand(v)
                                        /\ Removing(v, m)' => Removing(v, m)
    BY <1>0, <1>4, <1>7, OthersRest
  <2> QED  BY <1>0, <1>1, <2>1, <2>2 DEF RowsOfDelivered
<1>11. Sends'
  <2>0. OnlyStored /\ InOneHand /\ Budget
    BY <1>0 DEF Sends
  <2>1. \A o \in CopyIds : message'[o] = "absent" => message[o] = "absent" /\ o # id
    BY <1>3
  <2>2. OnlyStored'
    BY <1>0, <1>1, <1>4, <1>7, <2>0, <2>1, OthersRest DEF OnlyStored
  <2>3. ASSUME NEW o \in CopyIds \ redone', NEW v \in Workers
        PROVE  Held(o, v)' /\ Made(o, v)'
    <3>1. Held(o, v) /\ Made(o, v) /\ o \notin redone
      BY <1>3, <2>0, <2>3 DEF InOneHand
    <3>2. CASE o = id /\ message[id] = "absent"
      <4>1. /\ notified[o] = 0 /\ o \notin deferred
            /\ \A u \in Workers : o \notin InHand(u) /\ ~Making(u, o)
        BY <1>2, <2>0, <3>2 DEF OnlyStored
      <4>2. \A u \in Workers : o \notin InHand(u)'
        BY <1>0, <1>4, <1>7, <4>1, OthersRest
      <4>3. \A u \in Workers \ {w} : ~Making(u, o)'
        BY <1>0, <1>4, <4>1, OthersRest
      <4> QED  BY <1>1, <4>1, <4>2, <4>3 DEF Held, Made
    <3>3. CASE o = id => message[id] = "stored"
      <4>1. message'[o] = message[o] /\ \A u \in Workers : (Making(u, o)' => Making(u, o))
        BY <1>0, <1>3, <1>4, <1>7, <2>3, <3>3, OthersRest
      <4>2. \A u \in Workers : InHand(u)' = InHand(u) /\ (Removing(u, o)' <=> Removing(u, o))
        BY <1>0, <1>4, <1>7, OthersRest
      <4>3. Held(o, v)'
        BY <1>1, <3>1, <4>1, <4>2 DEF Held
      <4>4. Made(o, v)'
        BY <1>1, <3>1, <4>1 DEF Made
      <4> QED  BY <4>3, <4>4
    <3>4. o = id => message[id] \in {"absent", "stored"}
      BY <1>0, <1>2, <1>3, <2>3 DEF DeliveryType
    <3> QED  BY <3>2, <3>3, <3>4
  <2>4. Budget'
    <3>1. \A o : Unsent(o)' => Unsent(o)
      BY <1>0, <1>1, <1>4, <1>7, OthersRest DEF Unsent
    <3> QED  BY <1>1, <1>3, <2>0, <3>1 DEF Budget
  <2> QED  BY <2>2, <2>3, <2>4 DEF Sends, InOneHand
<1>12. ItemsRead'
  <2>1. items \subseteq summarised' \cup excused
    BY <1>3, <1>5
  <2>2. ASSUME NEW v \in Workers PROVE ReadBy(worker[v])'
    <3>1. CASE v = w
      BY <1>1, <1>5, <1>6, <2>1, <3>1 DEF ReadBy
    <3>2. CASE v # w
      <4>1. ReadBy(worker[v]) /\ worker'[v] = worker[v]
        BY <1>0, <1>6, <3>2 DEF ItemsRead
      <4> QED  BY <1>1, <1>3, <2>1, <4>1 DEF ReadBy
    <3> QED  BY <3>1, <3>2
  <2> QED  BY <1>1, <2>1, <2>2 DEF ItemsRead
<1>13. OffIsLate'
  BY <1>0, <1>1 DEF OffIsLate, LateOnly
<1>14. Accounted'
  BY <1>0, <1>1, <1>3 DEF Accounted
<1> QED  BY <1>8, <1>9, <1>10, <1>11, <1>12, <1>13, <1>14 DEF DeliveryInv

\* A digest is sent, or its row is written, or neither.
LEMMA DigestSent ==
  ASSUME DeliveryInv, NEW w \in Workers, NotifyDigest(w) \/ DeferDigest(w)
  PROVE  DeliveryInv'
<1> DEFINE id == DigestId(worker[w].policy.next)
           turn(step) == [pc |-> step, now |-> worker[w].now, policy |-> worker[w].policy, batch |-> worker[w].batch]
<1>0. DeliveryType /\ TurnType /\ RowsOfDelivered /\ Sends /\ ItemsRead /\ OffIsLate /\ Accounted
  BY DEF DeliveryInv
<1>1. /\ UNCHANGED <<clock, message, digest, items, pub, api, summarised, excused, tardy, redone>>
      /\ worker[w].pc \in {"quiet", "defer"} /\ fails' \in Nat /\ fails <= fails'
      /\ \/ Becomes(w, turn("clear")) /\ notified' = [notified EXCEPT ![id] = @ + 1] /\ UNCHANGED deferred
         \/ Becomes(w, turn("clear")) /\ deferred' = deferred \cup {id} /\ UNCHANGED notified
         \/ (Becomes(w, turn("clear")) \/ Becomes(w, turn("defer"))) /\ UNCHANGED <<deferred, notified>>
  BY <1>0, DigestGoes DEF NotifyDigest, DeferDigest, Notify, Fails, Succeeds, counts, rows, history, DeliveryType, Digesting
<1>2. id \in CopyIds /\ id \notin Posts
  BY <1>0, <1>1, KeyOfDigest DEF Digesting
<1>3. /\ notified' \in [CopyIds -> Nat] /\ \A o \in CopyIds \ {id} : notified'[o] = notified[o]
      /\ deferred' \subseteq CopyIds /\ deferred \subseteq deferred' /\ \A o \in deferred' : o # id => o \in deferred
  BY <1>0, <1>1, <1>2 DEF DeliveryType
<1>4. PICK step \in {"clear", "defer"} :
            /\ Becomes(w, turn(step))
            /\ \/ notified' = notified /\ deferred' = deferred
               \/ notified'[id] = notified[id] + 1 /\ deferred' = deferred /\ step = "clear"
               \/ notified' = notified /\ deferred' = deferred \cup {id} /\ step = "clear"
  BY <1>0, <1>1, <1>2 DEF DeliveryType
<1>5. Timed(turn(step)) /\ Shaped(turn(step)) /\ ReadBy(turn(step))
  <2>1. Timed(worker[w]) /\ Shaped(worker[w]) /\ ReadBy(worker[w])
    BY <1>0 DEF TurnType, ItemsRead
  <2> QED  BY <1>1, <2>1 DEF Timed, Shaped, ReadBy, Digesting
<1>6. worker'[w] = turn(step) /\ \A v \in Workers \ {w} : worker'[v] = worker[v]
  BY <1>0, <1>4, TurnMoves
<1>7. /\ InHand(w) = {} /\ InHand(w)' = {} /\ Making(w, id)
      /\ \A o : /\ ~Removing(w, o) /\ ~Removing(w, o)'
                /\ Making(w, o)' => step = "defer" /\ o = id
  BY <1>1, <1>6, Hands DEF Making, Removing
<1>8. DeliveryType'
  BY <1>0, <1>1, <1>3 DEF DeliveryType, OnPolicy
<1>9. TurnType'
  BY <1>0, <1>1, <1>4, <1>5, TurnTyped
<1>10. RowsOfDelivered'
  <2>1. \A m \in Posts : notified'[m] = notified[m] /\ (m \in deferred' <=> m \in deferred)
    BY <1>2, <1>3, DigestIds
  <2>2. \A v \in Workers, m \in Posts : /\ m \in InHand(v)' => m \in InHand(v)
                                        /\ Removing(v, m)' => Removing(v, m)
    BY <1>0, <1>4, <1>7, OthersRest
  <2> QED  BY <1>0, <1>1, <2>1, <2>2 DEF RowsOfDelivered
<1>11. Sends'
  <2>0. OnlyStored /\ InOneHand /\ Budget
    BY <1>0 DEF Sends
  <2>1. message[id] # "absent" /\ (id \notin redone => Made(id, w))
    BY <1>2, <1>7, <2>0 DEF OnlyStored, InOneHand
  <2>2. \A v \in Workers : \A o : /\ InHand(v)' = InHand(v) /\ (Removing(v, o)' <=> Removing(v, o))
                                  /\ Making(v, o)' => Making(v, o)
    BY <1>0, <1>4, <1>7, OthersRest
  <2>3. OnlyStored'
    BY <1>1, <1>3, <2>0, <2>1, <2>2 DEF OnlyStored
  <2>4. ASSUME NEW o \in CopyIds \ redone', NEW v \in Workers
        PROVE  Held(o, v)' /\ Made(o, v)'
    <3>1. Held(o, v) /\ Made(o, v) /\ o \notin redone
      BY <1>1, <2>0, <2>4 DEF InOneHand
    <3>2. Held(o, v)'
      BY <1>1, <1>3, <2>2, <3>1 DEF Held
    <3>3. Made(o, v)'
      <4>1. CASE o # id
        BY <1>3, <2>2, <2>4, <3>1, <4>1 DEF Made
      <4>2. CASE o = id /\ step = "clear"
        <5>1. ~Making(w, o)' /\ \A u \in Workers \ {w} : ~Making(u, o)'
          BY <1>7, <2>1, <2>2, <3>1, <4>2 DEF Made
        <5> QED  BY <4>2, <5>1 DEF Made
      <4>3. CASE o = id /\ step = "defer"
        BY <1>4, <2>2, <3>1, <4>3 DEF Made
      <4> QED  BY <4>1, <4>2, <4>3
    <3> QED  BY <3>2, <3>3
  <2>5. ASSUME NEW o \in CopyIds \ redone'
        PROVE  notified'[o] <= 1 + fails' /\ (Unsent(o)' => notified'[o] <= fails')
    <3>1. /\ notified[o] <= 1 + fails /\ (Unsent(o) => notified[o] <= fails)
          /\ notified[o] \in Nat /\ fails \in Nat /\ o \notin redone
      BY <1>0, <1>1, <2>0, <2>5 DEF Budget, DeliveryType
    <3>2. CASE o # id
      <4>1. notified'[o] = notified[o] /\ (Unsent(o)' => Unsent(o))
        BY <1>3, <2>2, <2>5, <3>2 DEF Unsent
      <4> QED  BY <1>1, <3>1, <4>1
    <3>3. CASE o = id
      <4>1. notified[id] = 0 /\ id \notin deferred
        BY <1>7, <2>1, <3>1, <3>3 DEF Made
      <4>2. notified'[id] = 0 \/ (notified'[id] = 1 /\ deferred' = deferred)
        BY <1>4, <4>1
      <4>3. Unsent(o)' => notified'[o] = 0
        BY <3>3, <4>1, <4>2 DEF Unsent
      <4> QED  BY <1>1, <3>3, <4>2, <4>3
    <3> QED  BY <3>2, <3>3
  <2> QED  BY <2>3, <2>4, <2>5 DEF Sends, InOneHand, Budget
<1>12. ItemsRead'
  BY <1>0, <1>1, <1>4, <1>5, ReadsKept
<1>13. OffIsLate'
  BY <1>0, <1>1 DEF OffIsLate, LateOnly
<1>14. Accounted'
  BY <1>0, <1>1, <1>2, <1>3, DigestIds DEF Accounted
<1> QED  BY <1>8, <1>9, <1>10, <1>11, <1>12, <1>13, <1>14 DEF DeliveryInv

\* The items are cleared: they were read, or the turn gives up.
LEMMA ItemsCleared ==
  ASSUME DeliveryInv, NEW w \in Workers, DeleteDigestItems(w)
  PROVE  DeliveryInv'
<1>0. DeliveryType /\ TurnType /\ RowsOfDelivered /\ Sends /\ ItemsRead /\ OffIsLate /\ Accounted
  BY DEF DeliveryInv
<1> DEFINE cleared == [pc |-> "save", now |-> worker[w].now, policy |-> worker[w].policy, batch |-> worker[w].batch]
<1>a. /\ UNCHANGED <<clock, message, digest, deferred, notified, pub, api, summarised, excused, tardy, redone>>
      /\ worker[w].pc = "clear" /\ fails' \in Nat /\ fails <= fails'
      /\ \/ items' = {} /\ Becomes(w, cleared)
         \/ items' = items /\ Becomes(w, Deferring(w))
  BY <1>0, DigestGoes DEF DeleteDigestItems, Fails, Succeeds, history, DeliveryType, Digesting
<1>1. PICK turn :
      /\ UNCHANGED <<clock, message, digest, deferred, notified, pub, api, summarised, excused, tardy, redone>>
      /\ worker[w].pc = "clear" /\ fails' \in Nat /\ fails <= fails' /\ Becomes(w, turn)
      /\ \/ items' = {} /\ turn = cleared
         \/ items' = items /\ turn = Deferring(w)
  <2>1. CASE items' = {} /\ Becomes(w, cleared)
    BY <1>a, <2>1
  <2>2. CASE items' = items /\ Becomes(w, Deferring(w))
    BY <1>a, <2>2
  <2> QED  BY <1>a, <2>1, <2>2
<1>2. Timed(worker[w]) /\ Shaped(worker[w]) /\ ReadBy(worker[w])
  BY <1>0 DEF TurnType, ItemsRead
<1>3. worker'[w] = turn /\ \A v \in Workers \ {w} : worker'[v] = worker[v]
  BY <1>0, <1>1, TurnMoves
<1>4. \A v \in Workers, id \in CopyIds : /\ id \in InHand(v)' => id \in InHand(v)
                                         /\ Making(v, id)' => Making(v, id)
                                         /\ Removing(v, id)' <=> Removing(v, id)
  <2>1. InHand(w)' = {} /\ \A id : ~Making(w, id)' /\ ~Removing(w, id)' /\ ~Removing(w, id)
    BY <1>1, <1>3, Hands DEF Making, Removing, Deferring
  <2> QED  BY <1>0, <1>1, <2>1, OthersRest
<1>5. items' \subseteq items /\ items \subseteq summarised \cup excused
  BY <1>1, <1>2 DEF ReadBy
<1>6. DeliveryType'
  BY <1>0, <1>1 DEF DeliveryType, OnPolicy
<1>7. TurnType'
  <2>1. Timed(turn) /\ Shaped(turn)
    BY <1>1, <1>2 DEF Timed, Shaped, Digesting, Deferring
  <2> QED  BY <1>0, <1>1, <2>1, TurnTyped
<1>8. RowsOfDelivered'
  BY <1>0, <1>1, <1>4, <1>5, DigestIds DEF RowsOfDelivered
<1>9. Sends'
  BY <1>0, <1>1, <1>4, SendsKept
<1>10. ItemsRead'
  <2>1. ASSUME NEW v \in Workers PROVE ReadBy(worker[v])'
    <3>1. CASE v = w
      BY <1>1, <1>3, <3>1 DEF ReadBy, Deferring
    <3>2. CASE v # w
      <4>1. ReadBy(worker[v]) /\ worker'[v] = worker[v]
        BY <1>0, <1>3, <3>2 DEF ItemsRead
      <4> QED  BY <1>1, <1>5, <4>1 DEF ReadBy
    <3> QED  BY <3>1, <3>2
  <2> QED  BY <1>1, <1>5, <2>1 DEF ItemsRead
<1>11. OffIsLate'
  BY <1>0, <1>1 DEF OffIsLate, LateOnly
<1>12. Accounted'
  BY <1>0, <1>1, <1>5 DEF Accounted
<1> QED  BY <1>6, <1>7, <1>8, <1>9, <1>10, <1>11, <1>12 DEF DeliveryInv

\* The policy is written back with its next run.
LEMMA DigestRescheduled ==
  ASSUME DeliveryInv, NEW w \in Workers, RescheduleDigest(w)
  PROVE  DeliveryInv'
<1>0. DeliveryType /\ TurnType /\ RowsOfDelivered /\ Sends /\ ItemsRead /\ OffIsLate /\ Accounted
  BY DEF DeliveryInv
<1>1. /\ UNCHANGED <<clock, message, items, deferred, notified, pub, api, summarised, tardy, redone>>
      /\ worker[w].pc = "save" /\ Becomes(w, Deferring(w)) /\ fails' \in Nat /\ fails <= fails'
      /\ excused \subseteq excused'
      /\ \/ /\ digest' = WithNext(worker[w].policy, worker[w].now + worker[w].policy.interval)
            /\ Repeated(digest') => items \subseteq excused'
         \/ digest' = digest
  BY <1>0 DEF RescheduleDigest, SaveDigestPolicy, Fails, Succeeds, DeliveryType
<1>2. Timed(worker[w]) /\ OnPolicy(worker[w].policy) /\ worker[w].now \in Nat
  BY <1>0, <1>1 DEF TurnType, Timed, Digesting
<1>3. \/ digest'.enabled = TRUE /\ OnPolicy(digest') /\ (Repeated(digest') => items \subseteq excused')
      \/ digest' = digest
  BY <1>1, <1>2 DEF WithNext, OnPolicy
<1>4. worker'[w] = Deferring(w) /\ \A v \in Workers \ {w} : worker'[v] = worker[v]
  BY <1>0, <1>1, TurnMoves
<1>5. \A v \in Workers, id \in CopyIds : /\ id \in InHand(v)' => id \in InHand(v)
                                         /\ Making(v, id)' => Making(v, id)
                                         /\ Removing(v, id)' <=> Removing(v, id)
  <2>1. InHand(w)' = {} /\ \A id : ~Making(w, id)' /\ ~Removing(w, id)' /\ ~Removing(w, id)
    BY <1>1, <1>4, Hands DEF Making, Removing, Deferring
  <2> QED  BY <1>0, <1>1, <2>1, OthersRest
<1>6. DeliveryType'
  BY <1>0, <1>1, <1>3 DEF DeliveryType, OnPolicy
<1>7. TurnType'
  <2>1. Timed(Deferring(w)) /\ Shaped(Deferring(w))
    BY <1>1, <1>2 DEF Timed, Shaped, Digesting, Deferring
  <2> QED  BY <1>0, <1>1, <2>1, TurnTyped
<1>8. RowsOfDelivered'
  BY <1>0, <1>1, <1>5, DigestIds DEF RowsOfDelivered
<1>9. Sends'
  BY <1>0, <1>1, <1>5, SendsKept
<1>10. ItemsRead'
  <2>1. digest'.enabled /\ Stored(digest)' => items' \subseteq summarised' \cup excused'
    BY <1>0, <1>1, <1>3 DEF ItemsRead, Stored, Repeated
  <2>2. ASSUME NEW v \in Workers PROVE ReadBy(worker[v])'
    <3>1. CASE v = w
      BY <1>4, <3>1 DEF ReadBy, Deferring
    <3>2. CASE v # w
      BY <1>0, <1>1, <1>4, <3>2 DEF ItemsRead, ReadBy, Stored
    <3> QED  BY <3>1, <3>2
  <2> QED  BY <2>1, <2>2 DEF ItemsRead
<1>11. OffIsLate'
  BY <1>0, <1>1, <1>3 DEF OffIsLate, LateOnly
<1>12. Accounted'
  BY <1>0, <1>1, <1>3 DEF Accounted
<1> QED  BY <1>6, <1>7, <1>8, <1>9, <1>10, <1>11, <1>12 DEF DeliveryInv

\* A turn loads the deferred rows, which another may have in hand.
LEMMA RowsLoaded ==
  ASSUME DeliveryInv, NEW w \in Workers, GetDeferredNotifications(w)
  PROVE  DeliveryInv'
<1>0. DeliveryType /\ TurnType /\ RowsOfDelivered /\ Sends /\ ItemsRead /\ OffIsLate /\ Accounted
  BY DEF DeliveryInv
<1>1. /\ UNCHANGED <<clock, message, digest, items, deferred, notified, pub, api, fails, summarised, excused, tardy>>
      /\ worker[w].pc = "deferred" /\ Becomes(w, Sending(w, deferred))
      /\ redone' = redone \cup (deferred \cap UNION {InHand(v) : v \in Workers \ {w}})
  BY DEF GetDeferredNotifications, rows, counts, Sending
<1>2. worker'[w] = Sending(w, deferred) /\ \A v \in Workers \ {w} : worker'[v] = worker[v]
  BY <1>0, <1>1, TurnMoves
<1>3. /\ InHand(w) = {} /\ InHand(w)' = deferred
      /\ \A id : ~Making(w, id)' /\ ~Removing(w, id)' /\ ~Removing(w, id)
  BY <1>1, <1>2, Hands DEF Making, Removing, Sending
<1>4. /\ redone \subseteq redone'
      /\ \A id \in deferred \ redone' : \A v \in Workers \ {w} : id \notin InHand(v)
  BY <1>1
<1>5. DeliveryType'
  BY <1>0, <1>1 DEF DeliveryType, OnPolicy
<1>6. TurnType'
  <2>1. Timed(Sending(w, deferred)) /\ Shaped(Sending(w, deferred))
    BY <1>0, <1>1 DEF TurnType, Timed, Shaped, Digesting, Sending, DeliveryType
  <2> QED  BY <1>0, <1>1, <2>1, TurnTyped
<1>7. RowsOfDelivered'
  BY <1>0, <1>1, <1>3, OthersRest DEF RowsOfDelivered
<1>8. Sends'
  <2>0. OnlyStored /\ InOneHand /\ Budget
    BY <1>0 DEF Sends
  <2>1. OnlyStored'
    BY <1>0, <1>1, <1>3, <2>0, OthersRest DEF OnlyStored
  <2>2. ASSUME NEW id \in CopyIds \ redone', NEW v \in Workers
        PROVE  Held(id, v)' /\ Made(id, v)'
    <3>1. Held(id, v) /\ Made(id, v) /\ id \notin redone
      BY <1>4, <2>0, <2>2 DEF InOneHand
    <3>2. Held(id, v)'
      <4>1. CASE v = w
        BY <1>0, <1>1, <1>3, <1>4, <2>2, <4>1, OthersRest DEF Held
      <4>2. CASE v # w
        <5>1. InHand(v)' = InHand(v) /\ (Removing(v, id)' <=> Removing(v, id))
          BY <1>0, <1>1, <4>2, OthersRest
        <5>2. id \in InHand(v) => id \notin InHand(w)'
          BY <1>3, <1>4, <2>2, <4>2
        <5>3. id \in InHand(v)' => \A u \in Workers \ {v} : id \notin InHand(u)'
          BY <1>0, <1>1, <3>1, <5>1, <5>2, OthersRest DEF Held
        <5> QED  BY <1>1, <3>1, <5>1, <5>3 DEF Held
      <4> QED  BY <4>1, <4>2
    <3>3. Made(id, v)'
      BY <1>0, <1>1, <1>3, <3>1, OthersRest DEF Made
    <3> QED  BY <3>2, <3>3
  <2>3. Budget'
    <3>1. \A id : Unsent(id)' => Unsent(id)
      BY <1>0, <1>1, <1>3, OthersRest DEF Unsent
    <3> QED  BY <1>1, <1>4, <2>0, <3>1 DEF Budget
  <2> QED  BY <2>1, <2>2, <2>3 DEF Sends, InOneHand
<1>9. ItemsRead'
  <2>1. ReadBy(Sending(w, deferred))
    BY DEF ReadBy, Sending
  <2> QED  BY <1>0, <1>1, <2>1, ReadsKept
<1>10. OffIsLate'
  BY <1>0, <1>1 DEF OffIsLate, LateOnly
<1>11. Accounted'
  BY <1>0, <1>1 DEF Accounted
<1> QED  BY <1>5, <1>6, <1>7, <1>8, <1>9, <1>10, <1>11 DEF DeliveryInv

\* A deferred notification is sent, before its row is removed.
LEMMA RowSent ==
  ASSUME DeliveryInv, NEW w \in Workers, NEW id \in CopyIds, SendDeferred(w, id)
  PROVE  DeliveryInv'
<1>0. DeliveryType /\ TurnType /\ RowsOfDelivered /\ Sends /\ ItemsRead /\ OffIsLate /\ Accounted
  BY DEF DeliveryInv
<1>1. PICK turn :
      /\ UNCHANGED <<clock, message, digest, items, deferred, pub, api, fails, summarised, excused, tardy, redone>>
      /\ worker[w].pc = "send" /\ id \in worker[w].todo /\ Becomes(w, turn)
      /\ \/ turn = Sending(w, worker[w].todo \ {id}) /\ notified' = notified
         \/ /\ turn = [pc |-> "unqueue", now |-> worker[w].now, todo |-> worker[w].todo \ {id}, id |-> id]
            /\ IF message[id] = "stored" THEN notified' = [notified EXCEPT ![id] = @ + 1] ELSE notified' = notified
  BY DEF SendDeferred, Skip, Notify, rows, counts, history
<1>2. Timed(worker[w]) /\ Shaped(worker[w])
  BY <1>0 DEF TurnType
<1>3. /\ notified' \in [CopyIds -> Nat] /\ \A o \in CopyIds \ {id} : notified'[o] = notified[o]
      /\ \A o \in CopyIds : notified'[o] >= notified[o]
      /\ \/ notified' = notified
         \/ notified'[id] = notified[id] + 1 /\ turn.pc = "unqueue" /\ message[id] = "stored"
  BY <1>0, <1>1 DEF DeliveryType
<1>4. worker'[w] = turn /\ \A v \in Workers \ {w} : worker'[v] = worker[v]
  BY <1>0, <1>1, TurnMoves
<1>5. /\ id \in InHand(w) /\ \A o : ~Making(w, o)' /\ ~Removing(w, o)
      /\ \A o \in CopyIds : o # id => (o \in InHand(w)' <=> o \in InHand(w)) /\ ~Removing(w, o)'
      /\ turn.pc = "unqueue" => Removing(w, id)' /\ id \in InHand(w)'
      /\ turn.pc # "unqueue" => id \notin InHand(w)' /\ ~Removing(w, id)'
  BY <1>1, <1>4, Hands DEF Making, Removing, Sending
<1>6. \A v \in Workers \ {w} :
            /\ InHand(v)' = InHand(v)
            /\ \A o : (Making(v, o)' <=> Making(v, o)) /\ (Removing(v, o)' <=> Removing(v, o))
  BY <1>0, <1>1, OthersRest
<1>7. DeliveryType'
  BY <1>0, <1>1, <1>3 DEF DeliveryType, OnPolicy
<1>8. TurnType'
  <2>1. Timed(turn) /\ Shaped(turn)
    BY <1>1, <1>2 DEF Timed, Shaped, Digesting, Sending
  <2> QED  BY <1>0, <1>1, <2>1, TurnTyped
<1>9. RowsOfDelivered'
  <2>1. /\ id \in Posts => pub[id] = "done" /\ message[id] # "absent"
        /\ id \in Posts /\ message[id] # "stored" => id \in excused
    BY <1>0, <1>5 DEF RowsOfDelivered, DeliveryType
  <2>2. turn.pc = "unqueue" => message[id] # "stored" \/ notified'[id] > 0
    BY <1>0, <1>1 DEF DeliveryType, Sending
  <2>3. \A m \in Posts : pub'[m] # "done" => notified'[m] = 0
    BY <1>0, <1>1, <1>3, <2>1, DigestIds DEF RowsOfDelivered
  <2>4. \A v \in Workers, m \in Posts : m \in InHand(v)' => pub'[m] = "done"
    BY <1>0, <1>1, <1>5, <1>6, DigestIds DEF RowsOfDelivered
  <2>5. ASSUME NEW v \in Workers, NEW m \in Posts, Removing(v, m)'
        PROVE  notified'[m] > 0 \/ m \in excused'
    <3>1. CASE v = w
      <4>1. m = id /\ turn.pc = "unqueue"
        BY <1>5, <2>5, <3>1, DigestIds
      <4> QED  BY <1>1, <2>1, <2>2, <4>1
    <3>2. CASE v # w
      <4>1. notified[m] > 0 \/ m \in excused
        BY <1>0, <1>6, <2>5, <3>2 DEF RowsOfDelivered
      <4>2. notified'[m] >= notified[m] /\ notified[m] \in Nat /\ notified'[m] \in Nat
        BY <1>0, <1>3, DigestIds DEF DeliveryType
      <4> QED  BY <1>1, <4>1, <4>2
    <3> QED  BY <3>1, <3>2
  <2> QED  BY <1>0, <1>1, <2>3, <2>4, <2>5 DEF RowsOfDelivered
<1>10. Sends'
  <2>0. OnlyStored /\ InOneHand /\ Budget
    BY <1>0 DEF Sends
  <2>1. message[id] # "absent"
    BY <1>5, <2>0 DEF OnlyStored
  <2>2. OnlyStored'
    BY <1>1, <1>3, <1>5, <1>6, <2>0, <2>1 DEF OnlyStored
  <2>3. ASSUME NEW o \in CopyIds \ redone', NEW v \in Workers
        PROVE  Held(o, v)' /\ Made(o, v)'
    <3>1. Held(o, v) /\ Made(o, v) /\ o \notin redone /\ Made(o, w) /\ Held(o, w)
      BY <1>1, <2>0, <2>3 DEF InOneHand
    <3>2. /\ \A u \in Workers : o \in InHand(u)' => o \in InHand(u)
          /\ o \in InHand(v)' /\ ~Removing(v, o)' => ~Removing(v, o)
      BY <1>5, <1>6, <2>3
    <3>3. Held(o, v)'
      BY <1>1, <2>3, <3>1, <3>2 DEF Held
    <3>4. Made(o, v)'
      <4>1. CASE v = w
        BY <1>5, <4>1 DEF Made
      <4>2. CASE v # w /\ o # id
        BY <1>1, <1>3, <1>5, <1>6, <2>3, <3>1, <4>2 DEF Made
      <4>3. CASE v # w /\ o = id
        <5>1. message[id] = "stored" => ~Making(v, id)
          BY <1>5, <3>1, <4>3 DEF Held, Made
        <5>2. Making(v, id)' => notified' = notified
          BY <1>3, <1>6, <4>3, <5>1
        <5> QED  BY <1>1, <1>5, <1>6, <3>1, <4>3, <5>2 DEF Made
      <4> QED  BY <4>1, <4>2, <4>3
    <3> QED  BY <3>3, <3>4
  <2>4. ASSUME NEW o \in CopyIds \ redone'
        PROVE  notified'[o] <= 1 + fails' /\ (Unsent(o)' => notified'[o] <= fails')
    <3>1. /\ notified[o] <= 1 + fails /\ (Unsent(o) => notified[o] <= fails)
          /\ notified[o] \in Nat /\ fails \in Nat /\ o \notin redone /\ Held(o, w)
      BY <1>0, <1>1, <2>0, <2>4 DEF Budget, DeliveryType, InOneHand
    <3>2. Unsent(o)' => Unsent(o)
      BY <1>1, <1>5, <1>6 DEF Unsent
    <3>3. CASE notified'[o] = notified[o]
      BY <1>1, <3>1, <3>2, <3>3
    <3>4. CASE notified'[o] # notified[o]
      <4>1. o = id /\ notified'[id] = notified[id] + 1 /\ turn.pc = "unqueue" /\ message[id] = "stored"
        BY <1>3, <2>4, <3>4
      <4>2. id \in deferred /\ \A v \in Workers \ {w} : id \notin InHand(v)
        BY <1>5, <3>1, <4>1 DEF Held
      <4>3. Unsent(id)
        BY <1>5, <4>2, Hands DEF Unsent, Removing
      <4>4. ~Unsent(id)'
        BY <1>5, <4>1 DEF Unsent
      <4> QED  BY <1>1, <3>1, <4>1, <4>3, <4>4
    <3> QED  BY <3>3, <3>4
  <2> QED  BY <2>2, <2>3, <2>4 DEF Sends, InOneHand, Budget
<1>11. ItemsRead'
  <2>1. ReadBy(turn)
    BY <1>1 DEF ReadBy, Sending
  <2> QED  BY <1>0, <1>1, <2>1, ReadsKept
<1>12. OffIsLate'
  BY <1>0, <1>1 DEF OffIsLate, LateOnly
<1>13. Accounted'
  <2>1. \A m \in Posts : m \in CopyIds /\ notified[m] \in Nat /\ notified'[m] \in Nat
    BY <1>0, <1>3, DigestIds DEF DeliveryType
  <2> QED  BY <1>0, <1>1, <1>3, <2>1 DEF Accounted
<1> QED  BY <1>7, <1>8, <1>9, <1>10, <1>11, <1>12, <1>13 DEF DeliveryInv

\* The row of a notification is removed, or stays for the next turn.
LEMMA RowRemoved ==
  ASSUME DeliveryInv, NEW w \in Workers, DeleteDeferredNotification(w)
  PROVE  DeliveryInv'
<1> DEFINE id == worker[w].id
           turn == Sending(w, worker[w].todo)
<1>0. DeliveryType /\ TurnType /\ RowsOfDelivered /\ Sends /\ ItemsRead /\ OffIsLate /\ Accounted
  BY DEF DeliveryInv
<1>1. Timed(worker[w]) /\ Shaped(worker[w])
  BY <1>0 DEF TurnType
<1>2. /\ UNCHANGED <<clock, message, digest, items, notified, pub, api, summarised, excused, tardy, redone>>
      /\ worker[w].pc = "unqueue" /\ fails' \in Nat /\ fails <= fails' /\ id \in CopyIds \ worker[w].todo
      /\ Becomes(w, turn)
      /\ \/ deferred' = deferred \ {id}
         \/ deferred' = deferred /\ fails' = fails + 1
  BY <1>0, <1>1 DEF DeleteDeferredNotification, Fails, Succeeds, history, DeliveryType, Shaped
<1>3. worker'[w] = turn /\ \A v \in Workers \ {w} : worker'[v] = worker[v]
  BY <1>0, <1>2, TurnMoves
<1>4. /\ Removing(w, id) /\ id \in InHand(w) /\ InHand(w)' = InHand(w) \ {id}
      /\ \A o : ~Making(w, o)' /\ ~Removing(w, o)' /\ (Removing(w, o) => o = id)
  BY <1>2, <1>3, Hands DEF Making, Removing, Sending
<1>5. \A v \in Workers \ {w} :
            /\ InHand(v)' = InHand(v)
            /\ \A o : (Making(v, o)' <=> Making(v, o)) /\ (Removing(v, o)' <=> Removing(v, o))
  BY <1>0, <1>2, OthersRest
<1>6. DeliveryType'
  BY <1>0, <1>2 DEF DeliveryType, OnPolicy
<1>7. TurnType'
  <2>1. Timed(turn) /\ Shaped(turn)
    BY <1>1, <1>2 DEF Timed, Shaped, Digesting, Sending
  <2> QED  BY <1>0, <1>2, <2>1, TurnTyped
<1>8. RowsOfDelivered'
  BY <1>0, <1>2, <1>4, <1>5 DEF RowsOfDelivered
<1>9. Sends'
  <2>0. OnlyStored /\ InOneHand /\ Budget
    BY <1>0 DEF Sends
  <2>1. OnlyStored'
    BY <1>2, <1>4, <1>5, <2>0 DEF OnlyStored
  <2>2. ASSUME NEW o \in CopyIds \ redone', NEW v \in Workers
        PROVE  Held(o, v)' /\ Made(o, v)'
    <3>1. Held(o, v) /\ Made(o, v) /\ Held(o, w)
      BY <1>2, <2>0, <2>2 DEF InOneHand
    <3>2. \A u \in Workers : o \in InHand(u)' => o \in InHand(u)
      BY <1>4, <1>5
    <3>3. Held(o, v)'
      <4>1. CASE v = w
        <5>1. o \in InHand(w)' => o # id /\ ~Removing(w, o) /\ (o \in deferred => o \in deferred')
          BY <1>2, <1>4
        <5> QED  BY <1>2, <3>1, <3>2, <4>1, <5>1 DEF Held
      <4>2. CASE v # w
        <5>1. o \in InHand(v) => o # id
          BY <1>4, <3>1, <4>2 DEF Held
        <5> QED  BY <1>2, <1>5, <3>1, <3>2, <4>2, <5>1 DEF Held
      <4> QED  BY <4>1, <4>2
    <3>4. Made(o, v)'
      BY <1>2, <1>4, <1>5, <3>1 DEF Made
    <3> QED  BY <3>3, <3>4
  <2>3. ASSUME NEW o \in CopyIds \ redone'
        PROVE  notified'[o] <= 1 + fails' /\ (Unsent(o)' => notified'[o] <= fails')
    <3>1. /\ notified[o] <= 1 + fails /\ (Unsent(o) => notified[o] <= fails)
          /\ notified[o] \in Nat /\ fails \in Nat
      BY <1>0, <1>2, <2>0, <2>3 DEF Budget, DeliveryType
    <3>2. Unsent(o)' => Unsent(o) \/ fails' = fails + 1
      BY <1>2, <1>4, <1>5 DEF Unsent
    <3> QED  BY <1>2, <3>1, <3>2
  <2> QED  BY <2>1, <2>2, <2>3 DEF Sends, InOneHand, Budget
<1>10. ItemsRead'
  <2>1. ReadBy(turn)
    BY DEF ReadBy, Sending
  <2> QED  BY <1>0, <1>2, <2>1, ReadsKept
<1>11. OffIsLate'
  BY <1>0, <1>2 DEF OffIsLate, LateOnly
<1>12. Accounted'
  BY <1>0, <1>2, <1>4 DEF Accounted, RowsOfDelivered
<1> QED  BY <1>6, <1>7, <1>8, <1>9, <1>10, <1>11, <1>12 DEF DeliveryInv

LEMMA DeliveryInitially == DeliveryInit => DeliveryInv
<1> SUFFICES ASSUME DeliveryInit PROVE DeliveryInv
  OBVIOUS
<1>1. /\ clock = 0 /\ fails = 0 /\ items = {} /\ deferred = {} /\ api.pc = "idle"
      /\ worker = [w \in Workers |-> Idle] /\ \A w \in Workers : worker[w].pc = "idle"
      /\ digest.enabled = FALSE /\ message = [i \in CopyIds |-> "absent"] /\ notified = [i \in CopyIds |-> 0]
      /\ pub = [m \in Posts |-> "new"]
  BY DEF DeliveryInit, Idle, NoPolicy
<1>2. DeliveryType
  <2>1. clock \in Nat /\ clock <= MaxClock /\ fails \in Nat
    BY <1>1, DeliveryAssumption
  <2>2. digest.enabled \in BOOLEAN /\ ~digest.enabled
    BY <1>1
  <2>3. /\ message \in [CopyIds -> {"absent", "stored", "deleted"}] /\ notified \in [CopyIds -> Nat]
        /\ pub \in [Posts -> Stages]
    BY <1>1 DEF Stages
  <2> QED  BY <1>1, <2>1, <2>2, <2>3 DEF DeliveryType
<1>3. TurnType
  BY <1>1 DEF TurnType, Timed, Shaped, Digesting
<1>4. \A w \in Workers : InHand(w) = {} /\ \A id : ~Making(w, id) /\ ~Removing(w, id)
  BY <1>1, Hands DEF Making, Removing
<1>5. RowsOfDelivered /\ Accounted
  BY <1>1, <1>4, DigestIds DEF RowsOfDelivered, Accounted
<1>6. Sends
  BY <1>1, <1>4 DEF Sends, OnlyStored, InOneHand, Held, Made, Budget, Unsent
<1>7. ItemsRead /\ OffIsLate
  BY <1>1 DEF ItemsRead, ReadBy, OffIsLate, LateOnly
<1> QED  BY <1>2, <1>3, <1>5, <1>6, <1>7 DEF DeliveryInv

LEMMA DeliveryInvariance == DeliverySpec => []DeliveryInv
<1>1. DeliveryInv /\ [DeliveryNext]_deliveryVars => DeliveryInv'
  <2> SUFFICES ASSUME DeliveryInv, [DeliveryNext]_deliveryVars PROVE DeliveryInv'
    OBVIOUS
  <2>1. ASSUME NEW w \in Workers, Turn(w) PROVE DeliveryInv'
    BY <2>1, TurnGoesOn, DigestStored, DigestSent, ItemsCleared, DigestRescheduled, RowsLoaded, RowSent, RowRemoved
       DEF Turn
  <2>2. ASSUME NEW m \in Posts,
               \/ StoreMessage(m) \/ ReadDigestPolicy(m) \/ QueueDigestItem(m)
               \/ ReadQuietHours(m) \/ QueueDeferredNotification(m) \/ PolicyError(m)
        PROVE  DeliveryInv'
    BY <2>2, PublisherSteps
  <2> QED  BY <2>1, <2>2, ClockOrQuietHours, CopyDeleted, ProcessDies, DigestSaved, DigestFormSent DEF DeliveryNext
<1> QED  BY DeliveryInitially, <1>1, PTL DEF DeliverySpec

\* Whatever the publishers, the turns of the engines and the policy endpoints do
\* in whatever order, and whatever fails, a message whose delivery has ended was
\* sent, was summarised, waits in a row that will be read, or is excused (engine.go
\* deliver, runDigests, runDeferred).
THEOREM EveryMessageAccounted == DeliverySpec => []Accounted
<1>1. DeliveryInv => Accounted
  BY DEF DeliveryInv
<1> QED  BY <1>1, DeliveryInvariance, PTL

\* With any number of engines, a message or a digest is sent once, and once more
\* for every failed call or crash at most; two turns that overlap send one twice
\* only by having its deferred row in hand at once, or by storing a digest that
\* the user deleted (engine.go runDeferred, runDigests).
THEOREM SentOncePerFailure == DeliverySpec => []SentOnce
<1>1. DeliveryInv => SentOnce
  BY DEF DeliveryInv, Sends, Budget, SentOnce
<1> QED  BY <1>1, DeliveryInvariance, PTL
-----------------------------------------------------------------------------
(* Mqtt: the inductive invariant.                                          *)

WirePackets == [kind : {"publish", "pubrel"}, payload : Payloads, id : PacketIds]
AckPackets == [kind : {"puback", "pubrec", "pubcomp"}, id : PacketIds]

MqttType ==
    /\ broker \in [Payloads -> [state : {"new", "sent", "released", "done", "lost"}, id : PacketIds \cup {NoId}]]
    /\ wire \in Seq(WirePackets) /\ acks \in Seq(AckPackets)
    /\ held \in [PacketIds -> Payloads \cup {Nothing}]
    /\ published \in [Payloads -> Nat] /\ unpublished \subseteq Payloads

Dealt(p) == published[p] > 0 \/ p \in unpublished
Uses(p, id) == InFlight(p) /\ broker[p].id = id

\* A message in flight has its packet id alone. A message has been sent when a
\* packet of it is on the way, and is released, of quality 2, when it is released.
Flights ==
    /\ \A p \in Payloads : /\ InFlight(p) => QoS[p] > 0 /\ broker[p].id \in PacketIds
                           /\ broker[p].state = "released" => QoS[p] = 2
                           /\ broker[p].state = "new" => ~Dealt(p)
    /\ \A p, q \in Payloads : InFlight(p) /\ InFlight(q) /\ broker[p].id = broker[q].id => p = q
    /\ \A k \in 1..Len(wire) :
          /\ broker[wire[k].payload].state \notin {"new", "lost"}
          /\ broker[wire[k].payload].id = wire[k].id
          /\ wire[k].kind = "pubrel" => QoS[wire[k].payload] = 2 /\ broker[wire[k].payload].state # "sent"

\* What is held is in flight and not published; what is dealt with comes no more.
HeldOnce ==
    /\ \A i \in PacketIds : held[i] # Nothing =>
          QoS[held[i]] = 2 /\ Uses(held[i], i) /\ ~Dealt(held[i])
    /\ \A p \in Payloads : QoS[p] = 2 =>
          /\ published[p] <= 1
          /\ Dealt(p) => broker[p].state # "sent"
    /\ \A k \in 1..Len(wire) :
          QoS[wire[k].payload] = 2 /\ wire[k].kind = "publish" => ~Dealt(wire[k].payload)

\* The packets of a message in flight are the last under its id, its releases
\* after its publications; once the engine has seen it they are the only ones.
Seen(p) == held[broker[p].id] = p \/ Dealt(p)

WireOrder ==
    \A p \in Payloads : QoS[p] = 2 /\ InFlight(p) =>
        /\ \A j, k \in 1..Len(wire) :
              j < k /\ wire[j].payload = p /\ wire[k].id = broker[p].id =>
                  wire[k].payload = p /\ (wire[j].kind = "pubrel" => wire[k].kind = "pubrel")
        /\ broker[p].state = "released" => Seen(p)
        /\ Seen(p) => \A k \in 1..Len(wire) : wire[k].id = broker[p].id => wire[k].payload = p

\* Confirmations: a receipt is of the message in flight under its id, after
\* whatever completes an older one and before what completes this one.
AckOrder ==
    /\ \A k \in 1..Len(acks) : acks[k].kind = "pubrec" =>
          \E p \in Payloads : QoS[p] = 2 /\ Uses(p, acks[k].id) /\ Seen(p)
    /\ \A p \in Payloads : \A k \in 1..Len(acks) :
          broker[p].state = "released" /\ acks[k] = Ack("pubcomp", broker[p].id) => Dealt(p)
    /\ \A p \in Payloads : \A j, k \in 1..Len(acks) :
          acks[j] = Ack("pubcomp", broker[p].id) /\ acks[k] = Ack("pubrec", broker[p].id) =>
              /\ broker[p].state = "sent" => j < k
              /\ broker[p].state = "released" => k < j

\* Quality 1: the publications under the id of a message in flight are of this
\* message, and so is their confirmation.
FirstQuality ==
    \A p \in Payloads : QoS[p] = 1 /\ InFlight(p) =>
        /\ \A k \in 1..Len(wire) :
              wire[k].id = broker[p].id /\ wire[k].kind = "publish" /\ QoS[wire[k].payload] = 1 => wire[k].payload = p
        /\ \A k \in 1..Len(acks) : acks[k] = Ack("puback", broker[p].id) => Dealt(p)

ConfirmedIsDealt == \A p \in Payloads : QoS[p] > 0 /\ broker[p].state = "done" => Dealt(p)

MqttInv == MqttType /\ Flights /\ HeldOnce /\ WireOrder /\ AckOrder /\ FirstQuality /\ ConfirmedIsDealt

\* Streams: what is appended is last, what is read was first.
LEMMA Appended ==
  ASSUME NEW S, NEW s \in Seq(S), NEW e \in S
  PROVE  /\ Append(s, e) \in Seq(S) /\ Len(Append(s, e)) = Len(s) + 1 /\ Len(s) \in Nat
         /\ \A k \in 1..Len(s) : Append(s, e)[k] = s[k]
         /\ Append(s, e)[Len(s) + 1] = e
OBVIOUS

LEMMA Popped ==
  ASSUME NEW S, NEW s \in Seq(S), s # <<>>
  PROVE  /\ Tail(s) \in Seq(S) /\ Len(s) \in Nat /\ Len(s) >= 1 /\ Len(Tail(s)) = Len(s) - 1
         /\ Head(s) = s[1] /\ 1 \in 1..Len(s) /\ Head(s) \in S
         /\ \A k \in 1..Len(Tail(s)) : Tail(s)[k] = s[k + 1] /\ k + 1 \in 1..Len(s)
OBVIOUS

\* The broker sends a message under a packet id that is free.
LEMMA MessageSent ==
  ASSUME MqttInv, NEW p \in Payloads, NEW i \in PacketIds, BrokerSends(p, i)
  PROVE  MqttInv'
<1>0. MqttType /\ Flights /\ HeldOnce /\ WireOrder /\ AckOrder /\ FirstQuality /\ ConfirmedIsDealt
  BY DEF MqttInv
<1>1. /\ UNCHANGED <<acks, held, published, unpublished>> /\ broker[p].state = "new" /\ ~Dealt(p)
      /\ \A q \in Payloads : InFlight(q) => broker[q].id # i
      /\ QoS[p] = 1 => ~Unconfirmed(i)
      /\ broker' = [broker EXCEPT ![p] = [state |-> IF QoS[p] = 0 THEN "done" ELSE "sent", id |-> i]]
      /\ wire' = Append(wire, Packet("publish", p, i))
  BY <1>0 DEF BrokerSends, Flights
<1>2. /\ broker'[p].state = (IF QoS[p] = 0 THEN "done" ELSE "sent") /\ broker'[p].id = i
      /\ \A q \in Payloads \ {p} : broker'[q] = broker[q]
      /\ broker' \in [Payloads -> [state : {"new", "sent", "released", "done", "lost"}, id : PacketIds \cup {NoId}]]
  BY <1>0, <1>1 DEF MqttType
<1>3. PICK e : e = Packet("publish", p, i)
  OBVIOUS
<1>4. e \in WirePackets /\ e.kind = "publish" /\ e.payload = p /\ e.id = i
  BY <1>3 DEF WirePackets, Packet
<1>5. /\ wire' \in Seq(WirePackets) /\ Len(wire') = Len(wire) + 1 /\ Len(wire) \in Nat
      /\ \A k \in 1..Len(wire) : wire'[k] = wire[k] /\ wire[k] \in WirePackets
      /\ wire'[Len(wire) + 1] = e
  BY <1>0, <1>1, <1>3, <1>4, Appended DEF MqttType
<1>6. \A k \in 1..Len(wire) : wire[k].payload \in Payloads /\ wire[k].payload # p
  BY <1>0, <1>1, <1>5 DEF Flights, WirePackets
<1>7. /\ QoS[p] \in 0..2 /\ \A q \in Payloads : Dealt(q)' <=> Dealt(q)
      /\ \A q \in Payloads : InFlight(q)' <=> (IF q = p THEN QoS[p] > 0 ELSE InFlight(q))
  BY <1>1, <1>2, MqttAssumption DEF Dealt, InFlight
<1>8. \A k \in 1..Len(wire') : k \in 1..Len(wire) \/ k = Len(wire) + 1
  BY <1>5
<1>9. MqttType'
  BY <1>0, <1>1, <1>2, <1>5 DEF MqttType
<1>10. Flights'
  <2>1. \A q \in Payloads : /\ InFlight(q)' => QoS[q] > 0 /\ broker'[q].id \in PacketIds
                            /\ broker'[q].state = "released" => QoS[q] = 2
                            /\ broker'[q].state = "new" => ~Dealt(q)'
    BY <1>0, <1>2, <1>7 DEF Flights
  <2>2. \A q, o \in Payloads : InFlight(q)' /\ InFlight(o)' /\ broker'[q].id = broker'[o].id => q = o
    BY <1>0, <1>1, <1>2, <1>7 DEF Flights
  <2>3. \A k \in 1..Len(wire') :
          /\ broker'[wire'[k].payload].state \notin {"new", "lost"}
          /\ broker'[wire'[k].payload].id = wire'[k].id
          /\ wire'[k].kind = "pubrel" => QoS[wire'[k].payload] = 2 /\ broker'[wire'[k].payload].state # "sent"
    BY <1>0, <1>2, <1>4, <1>5, <1>6, <1>8 DEF Flights
  <2> QED  BY <2>1, <2>2, <2>3 DEF Flights
<1>11. HeldOnce'
  <2>1. \A j \in PacketIds, q \in Payloads : held[j] = q =>
           q # p /\ QoS[q] = 2 /\ Uses(q, j) /\ ~Dealt(q)
    BY <1>0, <1>1, MqttAssumption DEF HeldOnce, Uses, InFlight
  <2>2. \A j \in PacketIds : (held[j] # Nothing => QoS[held[j]] = 2 /\ Uses(held[j], j) /\ ~Dealt(held[j]))'
    <3> SUFFICES ASSUME NEW j \in PacketIds, held'[j] # Nothing
                 PROVE  (QoS[held[j]] = 2 /\ Uses(held[j], j) /\ ~Dealt(held[j]))'
      OBVIOUS
    <3>1. PICK q \in Payloads : q = held[j]
      BY <1>0, <1>1 DEF MqttType
    <3>2. q # p /\ QoS[q] = 2 /\ Uses(q, j) /\ ~Dealt(q) /\ held'[j] = q
      BY <1>1, <2>1, <3>1
    <3>3. broker'[q] = broker[q] /\ published'[q] = published[q] /\ unpublished' = unpublished
      BY <1>1, <1>2, <3>2
    <3> QED  BY <3>2, <3>3 DEF Uses, Dealt, InFlight
  <2>3. \A q \in Payloads : QoS[q] = 2 => published'[q] <= 1 /\ (Dealt(q)' => broker'[q].state # "sent")
    <3>1. \A q \in Payloads : QoS[q] = 2 => published'[q] <= 1
      BY <1>0, <1>1 DEF HeldOnce
    <3>2. \A q \in Payloads : QoS[q] = 2 /\ Dealt(q) => q # p /\ broker[q].state # "sent"
      BY <1>0, <1>1 DEF HeldOnce
    <3> QED  BY <1>2, <1>7, <3>1, <3>2
  <2>4. \A k \in 1..Len(wire') : (QoS[wire[k].payload] = 2 /\ wire[k].kind = "publish" => ~Dealt(wire[k].payload))'
    <3> SUFFICES ASSUME NEW k \in 1..Len(wire'), QoS[wire'[k].payload] = 2, wire'[k].kind = "publish"
                 PROVE  ~Dealt(wire[k].payload)'
      OBVIOUS
    <3>1. CASE k \in 1..Len(wire)
      <4>1. PICK q \in Payloads : q = wire[k].payload
        BY <1>6, <3>1
      <4>2. ~Dealt(q) /\ wire'[k].payload = q
        BY <1>0, <1>5, <3>1, <4>1 DEF HeldOnce
      <4> QED  BY <1>1, <4>2 DEF Dealt
    <3>2. CASE k = Len(wire) + 1
      <4>1. wire'[k].payload = p
        BY <1>4, <1>5, <3>2
      <4> QED  BY <1>1, <4>1 DEF Dealt
    <3> QED  BY <1>8, <3>1, <3>2
  <2> QED  BY <2>2, <2>3, <2>4 DEF HeldOnce
<1>12. \A q \in Payloads : q # p => (Seen(q)' <=> Seen(q))
  BY <1>1, <1>2, <1>7 DEF Seen
<1>13. ~Seen(p)'
  <2>1. held[i] # p
    BY <1>0, <1>1, MqttAssumption DEF HeldOnce, Uses, InFlight
  <2> QED  BY <1>1, <1>2, <1>7, <2>1 DEF Seen
<1>14. WireOrder'
  <2> SUFFICES ASSUME NEW q \in Payloads, QoS[q] = 2, InFlight(q)'
               PROVE  /\ \A j, k \in 1..Len(wire') :
                           j < k /\ wire'[j].payload = q /\ wire'[k].id = broker'[q].id =>
                             wire'[k].payload = q /\ (wire'[j].kind = "pubrel" => wire'[k].kind = "pubrel")
                      /\ broker'[q].state = "released" => Seen(q)'
                      /\ Seen(q)' => \A k \in 1..Len(wire') : wire'[k].id = broker'[q].id => wire'[k].payload = q
    BY DEF WireOrder
  <2>1. CASE q = p
    BY <1>2, <1>5, <1>6, <1>8, <1>13, <2>1
  <2>2. CASE q # p
    <3>1. InFlight(q) /\ broker'[q] = broker[q] /\ broker[q].id # i /\ (Seen(q)' <=> Seen(q))
      BY <1>1, <1>2, <1>7, <1>12, <2>2
    <3>2. \A k \in 1..Len(wire') : wire'[k].id = broker[q].id => k \in 1..Len(wire) /\ wire'[k] = wire[k]
      BY <1>4, <1>5, <1>8, <3>1
    <3>3. \A j \in 1..Len(wire') : wire'[j].payload = q => j \in 1..Len(wire) /\ wire'[j] = wire[j]
      BY <1>4, <1>5, <1>8, <2>2
    <3>4. /\ \A j, k \in 1..Len(wire) : j < k /\ wire[j].payload = q /\ wire[k].id = broker[q].id =>
                wire[k].payload = q /\ (wire[j].kind = "pubrel" => wire[k].kind = "pubrel")
          /\ broker[q].state = "released" => Seen(q)
          /\ Seen(q) => \A k \in 1..Len(wire) : wire[k].id = broker[q].id => wire[k].payload = q
      BY <1>0, <3>1 DEF WireOrder
    <3>5. \A j, k \in 1..Len(wire') : j < k /\ wire'[j].payload = q /\ wire'[k].id = broker'[q].id =>
             wire'[k].payload = q /\ (wire'[j].kind = "pubrel" => wire'[k].kind = "pubrel")
      BY <3>1, <3>2, <3>3, <3>4
    <3>6. Seen(q) => \A k \in 1..Len(wire') : wire'[k].id = broker'[q].id => wire'[k].payload = q
      BY <3>1, <3>2, <3>4
    <3> QED  BY <3>1, <3>4, <3>5, <3>6
  <2> QED  BY <2>1, <2>2
<1>15. AckOrder'
  <2>1. \A k \in 1..Len(acks) : acks[k].kind = "pubrec" =>
           \E q \in Payloads : q # p /\ QoS[q] = 2 /\ Uses(q, acks[k].id) /\ Seen(q)
    BY <1>0, <1>1 DEF AckOrder, Uses, InFlight
  <2>2. \A k \in 1..Len(acks) : acks[k].kind = "pubrec" => acks[k].id # i
    BY <1>1, <2>1 DEF Uses
  <2>3. \A k \in 1..Len(acks) : acks[k] # Ack("pubrec", i)
    BY <2>2 DEF Ack
  <2>4. \A k \in 1..Len(acks) : acks[k].kind = "pubrec" =>
           \E q \in Payloads : QoS[q] = 2 /\ Uses(q, acks[k].id)' /\ Seen(q)'
    <3> SUFFICES ASSUME NEW k \in 1..Len(acks), acks[k].kind = "pubrec"
                 PROVE  \E q \in Payloads : QoS[q] = 2 /\ Uses(q, acks[k].id)' /\ Seen(q)'
      OBVIOUS
    <3>1. PICK q \in Payloads : q # p /\ QoS[q] = 2 /\ Uses(q, acks[k].id) /\ Seen(q)
      BY <2>1
    <3>2. Uses(q, acks[k].id)' /\ Seen(q)'
      BY <1>1, <1>2, <1>7, <1>12, <3>1 DEF Uses
    <3> QED  BY <3>1, <3>2
  <2> QED  BY <1>0, <1>1, <1>2, <1>7, <2>3, <2>4 DEF AckOrder
<1>16. FirstQuality'
  <2> SUFFICES ASSUME NEW q \in Payloads, QoS[q] = 1, InFlight(q)'
               PROVE  /\ \A k \in 1..Len(wire') : wire'[k].id = broker'[q].id /\ wire'[k].kind = "publish"
                            /\ QoS[wire'[k].payload] = 1 => wire'[k].payload = q
                      /\ \A k \in 1..Len(acks') : acks'[k] = Ack("puback", broker'[q].id) => Dealt(q)'
    BY DEF FirstQuality
  <2>1. CASE q = p
    <3>1. DOMAIN wire = 1..Len(wire) /\ DOMAIN acks = 1..Len(acks)
      BY <1>0 DEF MqttType
    <3> QED  BY <1>1, <1>2, <1>4, <1>5, <1>8, <2>1, <3>1 DEF Unconfirmed
  <2>2. CASE q # p
    BY <1>0, <1>1, <1>2, <1>4, <1>5, <1>7, <1>8, <2>2 DEF FirstQuality
  <2> QED  BY <2>1, <2>2
<1>17. ConfirmedIsDealt'
  BY <1>0, <1>2, <1>7 DEF ConfirmedIsDealt
<1> QED  BY <1>9, <1>10, <1>11, <1>14, <1>15, <1>16, <1>17 DEF MqttInv

\* The broker repeats the packet of a message in flight: its last one, of a kind
\* that the state of the message determines.
LEMMA PacketRepeated ==
  ASSUME MqttInv, NEW p \in Payloads, BrokerRepeats(p)
  PROVE  MqttInv'
<1>0. MqttType /\ Flights /\ HeldOnce /\ WireOrder /\ AckOrder /\ FirstQuality /\ ConfirmedIsDealt
  BY DEF MqttInv
<1>1. /\ UNCHANGED <<broker, acks, held, published, unpublished>> /\ InFlight(p) /\ broker[p].id \in PacketIds
      /\ wire' = Append(wire, Packet(IF broker[p].state = "sent" THEN "publish" ELSE "pubrel", p, broker[p].id))
  BY <1>0 DEF BrokerRepeats, Flights
<1>2. PICK e : e = Packet(IF broker[p].state = "sent" THEN "publish" ELSE "pubrel", p, broker[p].id)
  OBVIOUS
<1>3. /\ e \in WirePackets /\ e.kind = (IF broker[p].state = "sent" THEN "publish" ELSE "pubrel")
      /\ e.payload = p /\ e.id = broker[p].id
  BY <1>1, <1>2 DEF WirePackets, Packet
<1>4. /\ wire' \in Seq(WirePackets) /\ Len(wire') = Len(wire) + 1 /\ Len(wire) \in Nat
      /\ \A k \in 1..Len(wire) : wire'[k] = wire[k] /\ wire[k] \in WirePackets
      /\ wire'[Len(wire) + 1] = e
  BY <1>0, <1>1, <1>2, <1>3, Appended DEF MqttType
<1>5. \A k \in 1..Len(wire') : k \in 1..Len(wire) \/ k = Len(wire) + 1
  BY <1>4
<1>6. \A q \in Payloads : /\ Dealt(q)' <=> Dealt(q)
                          /\ Seen(q)' <=> Seen(q)
                          /\ InFlight(q)' <=> InFlight(q)
                          /\ InFlight(q) /\ broker[q].id = broker[p].id => q = p
  BY <1>0, <1>1 DEF Dealt, Seen, InFlight, Flights
<1>7. MqttType'
  BY <1>0, <1>1, <1>4 DEF MqttType
<1>8. Flights'
  <2>1. \A k \in 1..Len(wire') :
          /\ broker'[wire'[k].payload].state \notin {"new", "lost"}
          /\ broker'[wire'[k].payload].id = wire'[k].id
          /\ wire'[k].kind = "pubrel" => QoS[wire'[k].payload] = 2 /\ broker'[wire'[k].payload].state # "sent"
    BY <1>0, <1>1, <1>3, <1>4, <1>5 DEF Flights, InFlight
  <2>2. /\ \A q \in Payloads : /\ InFlight(q) => QoS[q] > 0 /\ broker[q].id \in PacketIds
                               /\ broker[q].state = "released" => QoS[q] = 2
                               /\ broker[q].state = "new" => ~Dealt(q)
        /\ \A q, o \in Payloads : InFlight(q) /\ InFlight(o) /\ broker[q].id = broker[o].id => q = o
    BY <1>0 DEF Flights
  <2> QED  BY <1>1, <1>6, <2>1, <2>2 DEF Flights
<1>9. HeldOnce'
  <2>1. /\ \A i \in PacketIds : held[i] # Nothing =>
              QoS[held[i]] = 2 /\ Uses(held[i], i) /\ ~Dealt(held[i])
        /\ \A q \in Payloads : QoS[q] = 2 => published[q] <= 1 /\ (Dealt(q) => broker[q].state # "sent")
    BY <1>0 DEF HeldOnce
  <2>2. \A k \in 1..Len(wire') : (QoS[wire[k].payload] = 2 /\ wire[k].kind = "publish" => ~Dealt(wire[k].payload))'
    <3> SUFFICES ASSUME NEW k \in 1..Len(wire'), QoS[wire'[k].payload] = 2, wire'[k].kind = "publish"
                 PROVE  ~Dealt(wire[k].payload)'
      OBVIOUS
    <3>1. CASE k \in 1..Len(wire)
      <4>1. PICK q : q = wire[k].payload
        OBVIOUS
      <4>2. ~Dealt(q) /\ wire'[k].payload = q
        BY <1>0, <1>4, <3>1, <4>1 DEF HeldOnce
      <4> QED  BY <1>1, <4>2 DEF Dealt
    <3>2. CASE k = Len(wire) + 1
      <4>1. wire'[k].payload = p /\ broker[p].state = "sent" /\ QoS[p] = 2
        BY <1>3, <1>4, <3>2
      <4>2. ~Dealt(p)
        BY <2>1, <4>1
      <4> QED  BY <1>1, <4>1, <4>2 DEF Dealt
    <3> QED  BY <1>5, <3>1, <3>2
  <2> QED  BY <1>1, <2>1, <2>2 DEF HeldOnce, Uses, InFlight, Dealt
<1>10. WireOrder'
  <2> SUFFICES ASSUME NEW q \in Payloads, QoS[q] = 2, InFlight(q)
               PROVE  /\ \A j, k \in 1..Len(wire') :
                           j < k /\ wire'[j].payload = q /\ wire'[k].id = broker[q].id =>
                             wire'[k].payload = q /\ (wire'[j].kind = "pubrel" => wire'[k].kind = "pubrel")
                      /\ broker[q].state = "released" => Seen(q)
                      /\ Seen(q) => \A k \in 1..Len(wire') : wire'[k].id = broker[q].id => wire'[k].payload = q
    BY <1>1, <1>6 DEF WireOrder
  <2>1. /\ \A j, k \in 1..Len(wire) : j < k /\ wire[j].payload = q /\ wire[k].id = broker[q].id =>
              wire[k].payload = q /\ (wire[j].kind = "pubrel" => wire[k].kind = "pubrel")
        /\ broker[q].state = "released" => Seen(q)
        /\ Seen(q) => \A k \in 1..Len(wire) : wire[k].id = broker[q].id => wire[k].payload = q
    BY <1>0 DEF WireOrder
  <2>2. e.id = broker[q].id => e.payload = q
    BY <1>3, <1>6
  <2>3. \A j \in 1..Len(wire) : wire[j].payload = q /\ wire[j].kind = "pubrel" => broker[q].state # "sent"
    BY <1>0 DEF Flights
  <2>4. \A j, k \in 1..Len(wire') : j < k /\ wire'[j].payload = q /\ wire'[k].id = broker[q].id =>
              wire'[k].payload = q /\ (wire'[j].kind = "pubrel" => wire'[k].kind = "pubrel")
    <3> SUFFICES ASSUME NEW j \in 1..Len(wire'), NEW k \in 1..Len(wire'), j < k,
                        wire'[j].payload = q, wire'[k].id = broker[q].id
                 PROVE  wire'[k].payload = q /\ (wire'[j].kind = "pubrel" => wire'[k].kind = "pubrel")
      OBVIOUS
    <3>1. j \in 1..Len(wire) /\ wire'[j] = wire[j]
      BY <1>4, <1>5
    <3>2. CASE k \in 1..Len(wire)
      BY <1>4, <2>1, <3>1, <3>2
    <3>3. CASE k = Len(wire) + 1
      <4>1. wire'[k] = e /\ p = q
        BY <1>3, <1>4, <2>2, <3>3
      <4> QED  BY <1>3, <2>3, <3>1, <4>1
    <3> QED  BY <1>5, <3>2, <3>3
  <2>5. Seen(q) => \A k \in 1..Len(wire') : wire'[k].id = broker[q].id => wire'[k].payload = q
    BY <1>4, <1>5, <2>1, <2>2
  <2> QED  BY <2>1, <2>4, <2>5
<1>11. AckOrder'
  BY <1>0, <1>1, <1>6 DEF AckOrder, Uses
<1>12. FirstQuality'
  BY <1>0, <1>1, <1>3, <1>4, <1>5, <1>6 DEF FirstQuality
<1>13. ConfirmedIsDealt'
  BY <1>0, <1>1, <1>6 DEF ConfirmedIsDealt
<1> QED  BY <1>7, <1>8, <1>9, <1>10, <1>11, <1>12, <1>13 DEF MqttInv

\* The broker reads a confirmation that changes nothing.
LEMMA ConfirmationIgnored ==
  ASSUME MqttInv, acks # <<>>, acks' = Tail(acks), UNCHANGED <<broker, wire, held, published, unpublished>>
  PROVE  MqttInv'
<1>0. MqttType /\ Flights /\ HeldOnce /\ WireOrder /\ AckOrder /\ FirstQuality /\ ConfirmedIsDealt
  BY DEF MqttInv
<1>1. /\ acks' \in Seq(AckPackets) /\ Len(acks) \in Nat /\ Len(acks') = Len(acks) - 1
      /\ \A k \in 1..Len(acks') : acks'[k] = acks[k + 1] /\ k + 1 \in 1..Len(acks)
  BY <1>0, Popped DEF MqttType
<1>2. \A q \in Payloads : /\ Dealt(q)' <=> Dealt(q)
                          /\ Seen(q)' <=> Seen(q)
                          /\ InFlight(q)' <=> InFlight(q)
  BY DEF Dealt, Seen, InFlight
<1>3. MqttType' /\ Flights' /\ HeldOnce' /\ WireOrder' /\ ConfirmedIsDealt'
  <2>1. MqttType'
    BY <1>0, <1>1 DEF MqttType
  <2>2. Flights'
    BY <1>0, <1>2 DEF Flights
  <2>3. HeldOnce'
    BY <1>0 DEF HeldOnce, Uses, InFlight, Dealt
  <2>4. WireOrder'
    BY <1>0, <1>2 DEF WireOrder
  <2>5. ConfirmedIsDealt'
    BY <1>0, <1>2 DEF ConfirmedIsDealt
  <2> QED  BY <2>1, <2>2, <2>3, <2>4, <2>5
<1>4. AckOrder'
  <2>1. \A k \in 1..Len(acks') : (acks[k].kind = "pubrec" =>
           \E q \in Payloads : QoS[q] = 2 /\ Uses(q, acks[k].id) /\ Seen(q))'
    <3> SUFFICES ASSUME NEW k \in 1..Len(acks'), acks'[k].kind = "pubrec"
                 PROVE  \E q \in Payloads : QoS[q] = 2 /\ Uses(q, acks[k].id)' /\ Seen(q)'
      OBVIOUS
    <3>1. PICK q \in Payloads : QoS[q] = 2 /\ Uses(q, acks[k + 1].id) /\ Seen(q)
      BY <1>0, <1>1 DEF AckOrder
    <3>2. Uses(q, acks[k].id)' /\ Seen(q)'
      BY <1>1, <1>2, <3>1 DEF Uses
    <3> QED  BY <3>1, <3>2
  <2>2. \A q \in Payloads : \A k \in 1..Len(acks') :
          broker[q].state = "released" /\ acks'[k] = Ack("pubcomp", broker[q].id) => Dealt(q)
    BY <1>0, <1>1 DEF AckOrder
  <2>3. \A q \in Payloads : \A j, k \in 1..Len(acks') :
          acks'[j] = Ack("pubcomp", broker[q].id) /\ acks'[k] = Ack("pubrec", broker[q].id) =>
              /\ broker[q].state = "sent" => j < k
              /\ broker[q].state = "released" => k < j
    <3> SUFFICES ASSUME NEW q \in Payloads, NEW j \in 1..Len(acks'), NEW k \in 1..Len(acks'),
                        acks'[j] = Ack("pubcomp", broker[q].id), acks'[k] = Ack("pubrec", broker[q].id)
                 PROVE  (broker[q].state = "sent" => j < k) /\ (broker[q].state = "released" => k < j)
      OBVIOUS
    <3>1. /\ j + 1 \in 1..Len(acks) /\ k + 1 \in 1..Len(acks)
          /\ acks[j + 1] = Ack("pubcomp", broker[q].id) /\ acks[k + 1] = Ack("pubrec", broker[q].id)
      BY <1>1
    <3>2. (broker[q].state = "sent" => j + 1 < k + 1) /\ (broker[q].state = "released" => k + 1 < j + 1)
      BY <1>0, <3>1 DEF AckOrder
    <3> QED  BY <1>1, <3>2
  <2> QED  BY <1>2, <2>1, <2>2, <2>3 DEF AckOrder
<1>5. FirstQuality'
  BY <1>0, <1>1, <1>2 DEF FirstQuality
<1> QED  BY <1>3, <1>4, <1>5 DEF MqttInv

\* A receipt releases the message in flight under its id.
LEMMA MessageReleased ==
  ASSUME MqttInv, NEW p \in Payloads, acks # <<>>, acks' = Tail(acks), Head(acks).kind = "pubrec",
         InFlight(p), broker[p].id = Head(acks).id, QoS[p] = 2, broker[p].state = "sent",
         broker' = [broker EXCEPT ![p].state = "released"],
         wire' = Append(wire, Packet("pubrel", p, Head(acks).id)),
         UNCHANGED <<held, published, unpublished>>
  PROVE  MqttInv'
<1>0. MqttType /\ Flights /\ HeldOnce /\ WireOrder /\ AckOrder /\ FirstQuality /\ ConfirmedIsDealt
  BY DEF MqttInv
<1>1. /\ acks' \in Seq(AckPackets) /\ Len(acks) \in Nat /\ Len(acks') = Len(acks) - 1
      /\ Head(acks) = acks[1] /\ 1 \in 1..Len(acks) /\ Head(acks) \in AckPackets
      /\ \A k \in 1..Len(acks') : acks'[k] = acks[k + 1] /\ k + 1 \in 1..Len(acks)
  BY <1>0, Popped DEF MqttType
<1>2. /\ broker' \in [Payloads -> [state : {"new", "sent", "released", "done", "lost"}, id : PacketIds \cup {NoId}]]
      /\ broker'[p].state = "released" /\ broker'[p].id = broker[p].id /\ broker[p].id \in PacketIds
      /\ \A q \in Payloads : broker'[q].id = broker[q].id /\ (q # p => broker'[q] = broker[q])
  BY <1>0, <1>1 DEF MqttType, Flights
<1>3. PICK e : e = Packet("pubrel", p, Head(acks).id)
  OBVIOUS
<1>4. e \in WirePackets /\ e.kind = "pubrel" /\ e.payload = p /\ e.id = broker[p].id
  BY <1>2, <1>3 DEF WirePackets, Packet
<1>5. /\ wire' \in Seq(WirePackets) /\ Len(wire') = Len(wire) + 1 /\ Len(wire) \in Nat
      /\ \A k \in 1..Len(wire) : wire'[k] = wire[k] /\ wire[k] \in WirePackets /\ wire[k].payload \in Payloads
      /\ wire'[Len(wire) + 1] = e
  <2>1. /\ wire' \in Seq(WirePackets) /\ Len(wire') = Len(wire) + 1 /\ Len(wire) \in Nat
        /\ \A k \in 1..Len(wire) : wire'[k] = wire[k] /\ wire[k] \in WirePackets
        /\ wire'[Len(wire) + 1] = e
    BY <1>0, <1>3, <1>4, Appended DEF MqttType
  <2> QED  BY <2>1 DEF WirePackets
<1>6. \A k \in 1..Len(wire') : k \in 1..Len(wire) \/ k = Len(wire) + 1
  BY <1>5
<1>7. \A q \in Payloads : /\ Dealt(q)' <=> Dealt(q)
                          /\ Seen(q)' <=> Seen(q)
                          /\ InFlight(q)' <=> InFlight(q)
                          /\ InFlight(q) /\ broker[q].id = broker[p].id => q = p
  BY <1>0, <1>2 DEF Dealt, Seen, InFlight, Flights
<1>8. Seen(p)
  <2>1. PICK q \in Payloads : Uses(q, acks[1].id) /\ Seen(q)
    BY <1>0, <1>1 DEF AckOrder
  <2> QED  BY <1>1, <1>7, <2>1 DEF Uses
<1>9. \A k \in 1..Len(acks) : acks[k] # Ack("pubcomp", broker[p].id)
  <2>1. acks[1] = Ack("pubrec", broker[p].id)
    BY <1>1 DEF AckPackets, Ack
  <2> QED  BY <1>0, <1>1, <2>1 DEF AckOrder
<1>10. MqttType'
  BY <1>0, <1>1, <1>2, <1>5 DEF MqttType
<1>11. Flights'
  <2>1. \A k \in 1..Len(wire') :
          /\ broker'[wire'[k].payload].state \notin {"new", "lost"}
          /\ broker'[wire'[k].payload].id = wire'[k].id
          /\ wire'[k].kind = "pubrel" => QoS[wire'[k].payload] = 2 /\ broker'[wire'[k].payload].state # "sent"
    BY <1>0, <1>2, <1>4, <1>5, <1>6 DEF Flights
  <2>2. \A q \in Payloads : /\ InFlight(q) => QoS[q] > 0 /\ broker'[q].id \in PacketIds
                            /\ broker'[q].state = "released" => QoS[q] = 2
                            /\ broker'[q].state = "new" => ~Dealt(q)
    BY <1>0, <1>2 DEF Flights
  <2>3. \A q, o \in Payloads : InFlight(q) /\ InFlight(o) /\ broker[q].id = broker[o].id => q = o
    BY <1>0 DEF Flights
  <2> QED  BY <1>2, <1>7, <2>1, <2>2, <2>3 DEF Flights
<1>12. HeldOnce'
  <2>1. \A i \in PacketIds : (held[i] # Nothing => QoS[held[i]] = 2 /\ Uses(held[i], i) /\ ~Dealt(held[i]))'
    <3> SUFFICES ASSUME NEW i \in PacketIds, held'[i] # Nothing
                 PROVE  (QoS[held[i]] = 2 /\ Uses(held[i], i) /\ ~Dealt(held[i]))'
      OBVIOUS
    <3>1. PICK q \in Payloads : q = held[i]
      BY <1>0 DEF MqttType
    <3>2. QoS[q] = 2 /\ Uses(q, i) /\ ~Dealt(q) /\ held'[i] = q
      BY <1>0, <3>1 DEF HeldOnce
    <3>3. broker'[q].id = i /\ broker'[q].state \in {"sent", "released"} /\ published'[q] = published[q]
      BY <1>2, <3>2 DEF Uses, InFlight
    <3> QED  BY <3>2, <3>3 DEF Uses, Dealt, InFlight
  <2>2. \A q \in Payloads : QoS[q] = 2 => published'[q] <= 1 /\ (Dealt(q) => broker'[q].state # "sent")
    BY <1>0, <1>2 DEF HeldOnce
  <2>3. \A k \in 1..Len(wire') : (QoS[wire[k].payload] = 2 /\ wire[k].kind = "publish" => ~Dealt(wire[k].payload))'
    <3> SUFFICES ASSUME NEW k \in 1..Len(wire'), QoS[wire'[k].payload] = 2, wire'[k].kind = "publish"
                 PROVE  ~Dealt(wire[k].payload)'
      OBVIOUS
    <3>1. k \in 1..Len(wire)
      BY <1>4, <1>5, <1>6
    <3>2. PICK q : q = wire[k].payload
      OBVIOUS
    <3>3. ~Dealt(q) /\ wire'[k].payload = q
      BY <1>0, <1>5, <3>1, <3>2 DEF HeldOnce
    <3> QED  BY <3>3 DEF Dealt
  <2> QED  BY <1>7, <2>1, <2>2, <2>3 DEF HeldOnce
<1>13. WireOrder'
  <2> SUFFICES ASSUME NEW q \in Payloads, QoS[q] = 2, InFlight(q)
               PROVE  /\ \A j, k \in 1..Len(wire') :
                           j < k /\ wire'[j].payload = q /\ wire'[k].id = broker[q].id =>
                             wire'[k].payload = q /\ (wire'[j].kind = "pubrel" => wire'[k].kind = "pubrel")
                      /\ broker'[q].state = "released" => Seen(q)
                      /\ Seen(q) => \A k \in 1..Len(wire') : wire'[k].id = broker[q].id => wire'[k].payload = q
    BY <1>2, <1>7 DEF WireOrder
  <2>1. /\ \A j, k \in 1..Len(wire) : j < k /\ wire[j].payload = q /\ wire[k].id = broker[q].id =>
              wire[k].payload = q /\ (wire[j].kind = "pubrel" => wire[k].kind = "pubrel")
        /\ broker[q].state = "released" => Seen(q)
        /\ Seen(q) => \A k \in 1..Len(wire) : wire[k].id = broker[q].id => wire[k].payload = q
    BY <1>0 DEF WireOrder
  <2>2. e.id = broker[q].id => e.payload = q
    BY <1>4, <1>7
  <2>3. \A j, k \in 1..Len(wire') : j < k /\ wire'[j].payload = q /\ wire'[k].id = broker[q].id =>
              wire'[k].payload = q /\ (wire'[j].kind = "pubrel" => wire'[k].kind = "pubrel")
    <3> SUFFICES ASSUME NEW j \in 1..Len(wire'), NEW k \in 1..Len(wire'), j < k,
                        wire'[j].payload = q, wire'[k].id = broker[q].id
                 PROVE  wire'[k].payload = q /\ (wire'[j].kind = "pubrel" => wire'[k].kind = "pubrel")
      OBVIOUS
    <3>1. j \in 1..Len(wire) /\ wire'[j] = wire[j]
      BY <1>5, <1>6
    <3>2. CASE k \in 1..Len(wire)
      BY <1>5, <2>1, <3>1, <3>2
    <3>3. CASE k = Len(wire) + 1
      BY <1>4, <1>5, <2>2, <3>3
    <3> QED  BY <1>6, <3>2, <3>3
  <2>4. Seen(q) => \A k \in 1..Len(wire') : wire'[k].id = broker[q].id => wire'[k].payload = q
    BY <1>5, <1>6, <2>1, <2>2
  <2>5. broker'[q].state = "released" => Seen(q)
    BY <1>2, <1>8, <2>1
  <2> QED  BY <2>3, <2>4, <2>5
<1>14. AckOrder'
  <2>1. \A k \in 1..Len(acks') : (acks[k].kind = "pubrec" =>
           \E q \in Payloads : QoS[q] = 2 /\ Uses(q, acks[k].id) /\ Seen(q))'
    <3> SUFFICES ASSUME NEW k \in 1..Len(acks'), acks'[k].kind = "pubrec"
                 PROVE  \E q \in Payloads : QoS[q] = 2 /\ Uses(q, acks[k].id)' /\ Seen(q)'
      OBVIOUS
    <3>1. PICK q \in Payloads : QoS[q] = 2 /\ Uses(q, acks[k + 1].id) /\ Seen(q)
      BY <1>0, <1>1 DEF AckOrder
    <3>2. Uses(q, acks[k].id)' /\ Seen(q)'
      BY <1>1, <1>2, <1>7, <3>1 DEF Uses
    <3> QED  BY <3>1, <3>2
  <2>2. \A q \in Payloads : \A k \in 1..Len(acks') :
          broker'[q].state = "released" /\ acks'[k] = Ack("pubcomp", broker[q].id) => Dealt(q)
    BY <1>0, <1>1, <1>2, <1>9 DEF AckOrder
  <2>3. \A q \in Payloads : \A j, k \in 1..Len(acks') :
          acks'[j] = Ack("pubcomp", broker[q].id) /\ acks'[k] = Ack("pubrec", broker[q].id) =>
              /\ broker'[q].state = "sent" => j < k
              /\ broker'[q].state = "released" => k < j
    <3> SUFFICES ASSUME NEW q \in Payloads, NEW j \in 1..Len(acks'), NEW k \in 1..Len(acks'),
                        acks'[j] = Ack("pubcomp", broker[q].id), acks'[k] = Ack("pubrec", broker[q].id)
                 PROVE  (broker'[q].state = "sent" => j < k) /\ (broker'[q].state = "released" => k < j)
      OBVIOUS
    <3>1. /\ j + 1 \in 1..Len(acks) /\ k + 1 \in 1..Len(acks)
          /\ acks[j + 1] = Ack("pubcomp", broker[q].id) /\ acks[k + 1] = Ack("pubrec", broker[q].id)
      BY <1>1
    <3>2. q # p /\ broker'[q] = broker[q]
      BY <1>2, <1>9, <3>1
    <3>3. (broker[q].state = "sent" => j + 1 < k + 1) /\ (broker[q].state = "released" => k + 1 < j + 1)
      BY <1>0, <3>1 DEF AckOrder
    <3> QED  BY <1>1, <3>2, <3>3
  <2> QED  BY <1>2, <1>7, <2>1, <2>2, <2>3 DEF AckOrder
<1>15. FirstQuality'
  BY <1>0, <1>1, <1>2, <1>4, <1>5, <1>6, <1>7 DEF FirstQuality
<1>16. ConfirmedIsDealt'
  BY <1>0, <1>2, <1>7 DEF ConfirmedIsDealt
<1> QED  BY <1>10, <1>11, <1>12, <1>13, <1>14, <1>15, <1>16 DEF MqttInv

\* A confirmation ends the flight of a message that the engine has dealt with.
LEMMA MessageConfirmed ==
  ASSUME MqttInv, NEW p \in Payloads, acks # <<>>, acks' = Tail(acks), InFlight(p), broker[p].id = Head(acks).id,
         \/ Head(acks).kind = "puback" /\ QoS[p] = 1
         \/ Head(acks).kind = "pubcomp" /\ broker[p].state = "released",
         broker' = [broker EXCEPT ![p].state = "done"],
         UNCHANGED <<wire, held, published, unpublished>>
  PROVE  MqttInv'
<1>0. MqttType /\ Flights /\ HeldOnce /\ WireOrder /\ AckOrder /\ FirstQuality /\ ConfirmedIsDealt
  BY DEF MqttInv
<1>1. /\ acks' \in Seq(AckPackets) /\ Len(acks) \in Nat /\ Len(acks') = Len(acks) - 1
      /\ Head(acks) = acks[1] /\ 1 \in 1..Len(acks) /\ Head(acks) \in AckPackets
      /\ \A k \in 1..Len(acks') : acks'[k] = acks[k + 1] /\ k + 1 \in 1..Len(acks)
  BY <1>0, Popped DEF MqttType
<1>2. /\ broker' \in [Payloads -> [state : {"new", "sent", "released", "done", "lost"}, id : PacketIds \cup {NoId}]]
      /\ broker'[p].state = "done" /\ broker'[p].id = broker[p].id
      /\ \A q \in Payloads : broker'[q].id = broker[q].id /\ (q # p => broker'[q] = broker[q])
  BY <1>0 DEF MqttType
<1>3. \A q \in Payloads : /\ Dealt(q)' <=> Dealt(q)
                          /\ Seen(q)' <=> Seen(q)
                          /\ InFlight(q)' <=> InFlight(q) /\ q # p
  BY <1>2 DEF Dealt, Seen, InFlight
<1>4. /\ Head(acks).kind = "puback" => acks[1] = Ack("puback", broker[p].id)
      /\ Head(acks).kind = "pubcomp" => acks[1] = Ack("pubcomp", broker[p].id)
  BY <1>1 DEF AckPackets, Ack
<1>5. Dealt(p)
  <2>1. CASE Head(acks).kind = "puback" /\ QoS[p] = 1
    BY <1>0, <1>1, <1>4, <2>1 DEF FirstQuality
  <2>2. CASE Head(acks).kind = "pubcomp" /\ broker[p].state = "released"
    BY <1>0, <1>1, <1>4, <2>2 DEF AckOrder
  <2> QED  BY <2>1, <2>2
<1>6. MqttType'
  BY <1>0, <1>1, <1>2 DEF MqttType
<1>7. Flights'
  <2>1. \A q \in Payloads : /\ InFlight(q) => QoS[q] > 0 /\ broker'[q].id \in PacketIds
                            /\ broker'[q].state = "released" => QoS[q] = 2
                            /\ broker'[q].state = "new" => ~Dealt(q)
    BY <1>0, <1>2 DEF Flights
  <2>2. \A q, o \in Payloads : InFlight(q) /\ InFlight(o) /\ broker[q].id = broker[o].id => q = o
    BY <1>0 DEF Flights
  <2>3. \A k \in 1..Len(wire) : wire[k].payload \in Payloads
    <3>1. \A k \in 1..Len(wire) : wire[k] \in WirePackets
      BY <1>0 DEF MqttType
    <3> QED  BY <3>1 DEF WirePackets
  <2>4. \A k \in 1..Len(wire) :
          /\ broker'[wire[k].payload].state \notin {"new", "lost"}
          /\ broker'[wire[k].payload].id = wire[k].id
          /\ wire[k].kind = "pubrel" => QoS[wire[k].payload] = 2 /\ broker'[wire[k].payload].state # "sent"
    BY <1>0, <1>2, <2>3 DEF Flights
  <2> QED  BY <1>2, <1>3, <2>1, <2>2, <2>4 DEF Flights
<1>8. HeldOnce'
  <2>1. \A i \in PacketIds : (held[i] # Nothing => QoS[held[i]] = 2 /\ Uses(held[i], i) /\ ~Dealt(held[i]))'
    <3> SUFFICES ASSUME NEW i \in PacketIds, held'[i] # Nothing
                 PROVE  (QoS[held[i]] = 2 /\ Uses(held[i], i) /\ ~Dealt(held[i]))'
      OBVIOUS
    <3>1. PICK q \in Payloads : q = held[i]
      BY <1>0 DEF MqttType
    <3>2. QoS[q] = 2 /\ Uses(q, i) /\ ~Dealt(q) /\ held'[i] = q /\ q # p
      BY <1>0, <1>5, <3>1 DEF HeldOnce
    <3>3. broker'[q] = broker[q] /\ published'[q] = published[q]
      BY <1>2, <3>2
    <3> QED  BY <3>2, <3>3 DEF Uses, Dealt, InFlight
  <2>2. \A q \in Payloads : QoS[q] = 2 => published'[q] <= 1 /\ (Dealt(q) => broker'[q].state # "sent")
    BY <1>0, <1>2 DEF HeldOnce
  <2>3. \A k \in 1..Len(wire') : (QoS[wire[k].payload] = 2 /\ wire[k].kind = "publish" => ~Dealt(wire[k].payload))'
    BY <1>0 DEF HeldOnce, Dealt
  <2> QED  BY <1>3, <2>1, <2>2, <2>3 DEF HeldOnce
<1>9. WireOrder'
  BY <1>0, <1>2, <1>3 DEF WireOrder
<1>10. AckOrder'
  <2>1. \A k \in 1..Len(acks') : (acks[k].kind = "pubrec" =>
           \E q \in Payloads : QoS[q] = 2 /\ Uses(q, acks[k].id) /\ Seen(q))'
    <3> SUFFICES ASSUME NEW k \in 1..Len(acks'), acks'[k].kind = "pubrec"
                 PROVE  \E q \in Payloads : QoS[q] = 2 /\ Uses(q, acks[k].id)' /\ Seen(q)'
      OBVIOUS
    <3>1. PICK q \in Payloads : QoS[q] = 2 /\ Uses(q, acks[k + 1].id) /\ Seen(q)
      BY <1>0, <1>1 DEF AckOrder
    <3>2. q # p
      <4> SUFFICES ASSUME q = p PROVE FALSE
        OBVIOUS
      <4>1. acks[k + 1] = Ack("pubrec", broker[p].id) /\ acks[1] = Ack("pubcomp", broker[p].id)
        <5>1. acks[k + 1] \in AckPackets /\ acks[k + 1].kind = "pubrec" /\ acks[k + 1].id = broker[p].id
          BY <1>0, <1>1, <3>1 DEF MqttType, Uses
        <5> QED  BY <1>4, <3>1, <5>1 DEF AckPackets, Ack
      <4>2. broker[p].state = "released" /\ k + 1 \in 1..Len(acks) /\ ~(k + 1 < 1)
        BY <1>1, <3>1
      <4> QED  BY <1>0, <1>1, <4>1, <4>2 DEF AckOrder
    <3>3. Uses(q, acks[k].id)' /\ Seen(q)'
      BY <1>1, <1>2, <1>3, <3>1, <3>2 DEF Uses
    <3> QED  BY <3>1, <3>3
  <2>2. \A q \in Payloads : \A k \in 1..Len(acks') :
          broker'[q].state = "released" /\ acks'[k] = Ack("pubcomp", broker[q].id) => Dealt(q)
    BY <1>0, <1>1, <1>2 DEF AckOrder
  <2>3. \A q \in Payloads : \A j, k \in 1..Len(acks') :
          acks'[j] = Ack("pubcomp", broker[q].id) /\ acks'[k] = Ack("pubrec", broker[q].id) =>
              /\ broker'[q].state = "sent" => j < k
              /\ broker'[q].state = "released" => k < j
    <3> SUFFICES ASSUME NEW q \in Payloads, NEW j \in 1..Len(acks'), NEW k \in 1..Len(acks'),
                        acks'[j] = Ack("pubcomp", broker[q].id), acks'[k] = Ack("pubrec", broker[q].id), q # p
                 PROVE  (broker'[q].state = "sent" => j < k) /\ (broker'[q].state = "released" => k < j)
      BY <1>2
    <3>1. /\ j + 1 \in 1..Len(acks) /\ k + 1 \in 1..Len(acks)
          /\ acks[j + 1] = Ack("pubcomp", broker[q].id) /\ acks[k + 1] = Ack("pubrec", broker[q].id)
      BY <1>1
    <3>2. (broker[q].state = "sent" => j + 1 < k + 1) /\ (broker[q].state = "released" => k + 1 < j + 1)
      BY <1>0, <3>1 DEF AckOrder
    <3> QED  BY <1>1, <1>2, <3>2
  <2> QED  BY <1>2, <1>3, <2>1, <2>2, <2>3 DEF AckOrder
<1>11. FirstQuality'
  BY <1>0, <1>1, <1>2, <1>3 DEF FirstQuality
<1>12. ConfirmedIsDealt'
  BY <1>0, <1>2, <1>3, <1>5 DEF ConfirmedIsDealt
<1> QED  BY <1>6, <1>7, <1>8, <1>9, <1>10, <1>11, <1>12 DEF MqttInv

LEMMA ConfirmationRead ==
  ASSUME MqttInv, BrokerReads
  PROVE  MqttInv'
<1> DEFINE mine == {p \in Payloads : InFlight(p) /\ broker[p].id = Head(acks).id}
<1>1. acks # <<>> /\ acks' = Tail(acks) /\ UNCHANGED <<held, published, unpublished>>
  BY DEF BrokerReads
<1>2. CASE \E p \in mine : /\ Head(acks).kind = "pubrec" /\ QoS[p] = 2 /\ broker[p].state = "sent"
                           /\ broker' = [broker EXCEPT ![p].state = "released"]
                           /\ wire' = Append(wire, Packet("pubrel", p, Head(acks).id))
  BY <1>1, <1>2, MessageReleased
<1>3. CASE \E p \in mine : /\ \/ Head(acks).kind = "puback" /\ QoS[p] = 1
                              \/ Head(acks).kind = "pubcomp" /\ broker[p].state = "released"
                           /\ broker' = [broker EXCEPT ![p].state = "done"] /\ UNCHANGED wire
  BY <1>1, <1>3, MessageConfirmed
<1>4. CASE UNCHANGED <<broker, wire>>
  BY <1>1, <1>4, ConfirmationIgnored
<1> QED  BY <1>2, <1>3, <1>4 DEF BrokerReads

\* publishPayload deals with its message, and with no other one.
LEMMA PayloadPublished ==
  ASSUME MqttType, NEW p \in Payloads, publishPayload(p)
  PROVE  /\ published' \in [Payloads -> Nat] /\ unpublished' \subseteq Payloads
         /\ \A q \in Payloads : /\ Dealt(q)' <=> Dealt(q) \/ q = p
                                /\ q # p => published'[q] = published[q]
         /\ published'[p] <= published[p] + 1 /\ published[p] \in Nat
<1>1. published \in [Payloads -> Nat] /\ unpublished \subseteq Payloads
  BY DEF MqttType
<1>2. CASE published' = [published EXCEPT ![p] = @ + 1] /\ UNCHANGED unpublished
  <2>1. /\ published' \in [Payloads -> Nat] /\ published'[p] = published[p] + 1
        /\ \A q \in Payloads : q # p => published'[q] = published[q]
    BY <1>1, <1>2
  <2>2. published[p] \in Nat /\ published'[p] > 0 /\ published'[p] <= published[p] + 1
    BY <1>1, <2>1
  <2> QED  BY <1>1, <1>2, <2>1, <2>2 DEF Dealt
<1>3. CASE unpublished' = unpublished \cup {p} /\ UNCHANGED published
  BY <1>1, <1>3 DEF Dealt
<1> QED  BY <1>2, <1>3 DEF publishPayload

\* What the engine reads is the first packet; the others keep their order.
LEMMA PacketRead ==
  ASSUME MqttType, wire # <<>>, wire' = Tail(wire)
  PROVE  /\ wire' \in Seq(WirePackets) /\ Len(wire) \in Nat /\ Len(wire') = Len(wire) - 1
         /\ Head(wire) = wire[1] /\ 1 \in 1..Len(wire)
         /\ wire[1].payload \in Payloads /\ wire[1].id \in PacketIds
         /\ \A k \in 1..Len(wire') : /\ wire'[k] = wire[k + 1] /\ k + 1 \in 1..Len(wire) /\ 1 < k + 1
                                     /\ wire[k + 1].payload \in Payloads
<1>1. /\ Tail(wire) \in Seq(WirePackets) /\ Len(wire) \in Nat /\ Len(Tail(wire)) = Len(wire) - 1
      /\ Head(wire) = wire[1] /\ 1 \in 1..Len(wire) /\ Head(wire) \in WirePackets
      /\ \A k \in 1..Len(Tail(wire)) : Tail(wire)[k] = wire[k + 1] /\ k + 1 \in 1..Len(wire)
  BY Popped DEF MqttType
<1>2. \A k \in 1..Len(wire) : wire[k] \in WirePackets
  BY DEF MqttType
<1>3. \A k \in 1..Len(wire) : wire[k].payload \in Payloads /\ wire[k].id \in PacketIds
  BY <1>2 DEF WirePackets
<1> QED  BY <1>1, <1>3

\* The engine reads and publishes a message of quality 0 or 1, and confirms one
\* of quality 1.
LEMMA MessageRead ==
  ASSUME MqttInv, wire # <<>>, wire' = Tail(wire), Head(wire).kind = "publish",
         NEW p, p = Head(wire).payload, publishPayload(p), UNCHANGED <<broker, held>>,
         \/ QoS[p] = 0 /\ UNCHANGED acks
         \/ QoS[p] = 1 /\ acks' = Append(acks, Ack("puback", Head(wire).id))
  PROVE  MqttInv'
<1>0. MqttType /\ Flights /\ HeldOnce /\ WireOrder /\ AckOrder /\ FirstQuality /\ ConfirmedIsDealt
  BY DEF MqttInv
<1>1. /\ wire' \in Seq(WirePackets) /\ Len(wire) \in Nat /\ Len(wire') = Len(wire) - 1
      /\ Head(wire) = wire[1] /\ 1 \in 1..Len(wire)
      /\ p \in Payloads /\ wire[1].id \in PacketIds
      /\ \A k \in 1..Len(wire') : /\ wire'[k] = wire[k + 1] /\ k + 1 \in 1..Len(wire) /\ 1 < k + 1
                                  /\ wire[k + 1].payload \in Payloads
  BY <1>0, PacketRead
<1>2. /\ published' \in [Payloads -> Nat] /\ unpublished' \subseteq Payloads
      /\ \A q \in Payloads : /\ Dealt(q)' <=> Dealt(q) \/ q = p
                             /\ q # p => published'[q] = published[q]
  BY <1>0, <1>1, PayloadPublished
<1>3. /\ acks' \in Seq(AckPackets)
      /\ \A k \in 1..Len(acks') : \/ k \in 1..Len(acks) /\ acks'[k] = acks[k]
                                  \/ QoS[p] = 1 /\ acks'[k] = Ack("puback", wire[1].id)
  <2>1. CASE UNCHANGED acks
    BY <1>0, <2>1 DEF MqttType
  <2>2. CASE QoS[p] = 1 /\ acks' = Append(acks, Ack("puback", Head(wire).id))
    <3>1. Ack("puback", Head(wire).id) \in AckPackets
      BY <1>1 DEF AckPackets, Ack
    <3>2. /\ acks' \in Seq(AckPackets) /\ Len(acks') = Len(acks) + 1 /\ Len(acks) \in Nat
          /\ \A k \in 1..Len(acks) : acks'[k] = acks[k]
          /\ acks'[Len(acks) + 1] = Ack("puback", Head(wire).id)
      BY <1>0, <2>2, <3>1, Appended DEF MqttType
    <3>3. \A k \in 1..Len(acks') : k \in 1..Len(acks) \/ k = Len(acks) + 1
      BY <3>2
    <3> QED  BY <1>1, <2>2, <3>2, <3>3
  <2> QED  BY <2>1, <2>2
<1>4. /\ QoS[p] # 2 /\ broker[p].state \notin {"new", "lost"} /\ broker[p].id = wire[1].id
      /\ \A q \in Payloads : InFlight(q) /\ broker[q].id = broker[p].id /\ QoS[q] = 1 /\ QoS[p] = 1 => q = p
  BY <1>0, <1>1 DEF Flights, FirstQuality
<1>5. \A q \in Payloads : /\ InFlight(q)' <=> InFlight(q)
                          /\ QoS[q] = 2 => (Dealt(q)' <=> Dealt(q)) /\ (Seen(q)' <=> Seen(q))
  BY <1>2, <1>4 DEF InFlight, Seen
<1>6. MqttType'
  BY <1>0, <1>1, <1>2, <1>3 DEF MqttType
<1>7. Flights'
  BY <1>0, <1>1, <1>2, <1>4, <1>5 DEF Flights
<1>8. HeldOnce'
  <2>1. \A i \in PacketIds : (held[i] # Nothing => QoS[held[i]] = 2 /\ Uses(held[i], i) /\ ~Dealt(held[i]))'
    <3> SUFFICES ASSUME NEW i \in PacketIds, held[i] # Nothing
                 PROVE  (QoS[held[i]] = 2 /\ Uses(held[i], i) /\ ~Dealt(held[i]))'
      OBVIOUS
    <3>1. PICK q \in Payloads : q = held[i]
      BY <1>0 DEF MqttType
    <3>2. QoS[q] = 2 /\ Uses(q, i) /\ ~Dealt(q) /\ q # p
      BY <1>0, <1>4, <3>1 DEF HeldOnce
    <3>3. ~Dealt(q)' /\ Uses(q, i)' /\ held'[i] = q
      BY <1>5, <3>1, <3>2 DEF Uses
    <3> QED  BY <3>2, <3>3 DEF Uses, Dealt, InFlight
  <2>2. \A q \in Payloads : QoS[q] = 2 => published'[q] <= 1 /\ (Dealt(q)' => broker[q].state # "sent")
    <3> SUFFICES ASSUME NEW q \in Payloads, QoS[q] = 2
                 PROVE  published'[q] <= 1 /\ (Dealt(q)' => broker[q].state # "sent")
      OBVIOUS
    <3>1. published'[q] = published[q] /\ (Dealt(q)' => Dealt(q))
      BY <1>2, <1>4, <1>5
    <3>2. published[q] <= 1 /\ (Dealt(q) => broker[q].state # "sent")
      BY <1>0 DEF HeldOnce
    <3> QED  BY <3>1, <3>2
  <2>3. \A k \in 1..Len(wire') : (QoS[wire[k].payload] = 2 /\ wire[k].kind = "publish" => ~Dealt(wire[k].payload))'
    <3> SUFFICES ASSUME NEW k \in 1..Len(wire'), QoS[wire'[k].payload] = 2, wire'[k].kind = "publish"
                 PROVE  ~Dealt(wire[k].payload)'
      OBVIOUS
    <3>1. PICK q \in Payloads : q = wire'[k].payload
      BY <1>1
    <3>2. QoS[q] = 2 /\ ~Dealt(q)
      BY <1>0, <1>1, <3>1 DEF HeldOnce
    <3>3. ~Dealt(q)'
      BY <1>5, <3>2
    <3> QED  BY <3>1, <3>3 DEF Dealt
  <2> QED  BY <2>1, <2>2, <2>3 DEF HeldOnce
<1>9. WireOrder'
  <2> SUFFICES ASSUME NEW q \in Payloads, QoS[q] = 2, InFlight(q)
               PROVE  /\ \A j, k \in 1..Len(wire') :
                           j < k /\ wire'[j].payload = q /\ wire'[k].id = broker[q].id =>
                             wire'[k].payload = q /\ (wire'[j].kind = "pubrel" => wire'[k].kind = "pubrel")
                      /\ broker[q].state = "released" => Seen(q)
                      /\ Seen(q) => \A k \in 1..Len(wire') : wire'[k].id = broker[q].id => wire'[k].payload = q
    <3>1. broker' = broker /\ \A q \in Payloads : InFlight(q)' => InFlight(q)
      BY <1>5
    <3>2. \A q \in Payloads : QoS[q] = 2 => (Seen(q)' <=> Seen(q))
      BY <1>5
    <3> QED  BY <3>1, <3>2 DEF WireOrder
  <2>1. /\ \A j, k \in 1..Len(wire) : j < k /\ wire[j].payload = q /\ wire[k].id = broker[q].id =>
              wire[k].payload = q /\ (wire[j].kind = "pubrel" => wire[k].kind = "pubrel")
        /\ broker[q].state = "released" => Seen(q)
        /\ Seen(q) => \A k \in 1..Len(wire) : wire[k].id = broker[q].id => wire[k].payload = q
    BY <1>0 DEF WireOrder
  <2>2. \A j, k \in 1..Len(wire') : j < k => j + 1 < k + 1
    BY <1>1
  <2> QED  BY <1>1, <2>1, <2>2
<1>10. AckOrder'
  <2>1. \A k \in 1..Len(acks') : acks'[k] = Ack("puback", wire[1].id) =>
           acks'[k].kind = "puback" /\ \A i : acks'[k] # Ack("pubcomp", i) /\ acks'[k] # Ack("pubrec", i)
    BY DEF Ack
  <2>2. \A k \in 1..Len(acks') : acks'[k].kind = "pubrec" \/ (\E i : acks'[k] = Ack("pubcomp", i) \/ acks'[k] = Ack("pubrec", i))
           => k \in 1..Len(acks) /\ acks'[k] = acks[k]
    BY <1>3, <2>1
  <2>3. \A k \in 1..Len(acks') : (acks[k].kind = "pubrec" =>
           \E q \in Payloads : QoS[q] = 2 /\ Uses(q, acks[k].id) /\ Seen(q))'
    <3> SUFFICES ASSUME NEW k \in 1..Len(acks'), acks'[k].kind = "pubrec"
                 PROVE  \E q \in Payloads : QoS[q] = 2 /\ Uses(q, acks[k].id)' /\ Seen(q)'
      OBVIOUS
    <3>1. k \in 1..Len(acks) /\ acks'[k] = acks[k]
      BY <2>2
    <3>2. PICK q \in Payloads : QoS[q] = 2 /\ Uses(q, acks[k].id) /\ Seen(q)
      BY <1>0, <3>1 DEF AckOrder
    <3>3. Uses(q, acks[k].id)' /\ Seen(q)'
      BY <1>5, <3>1, <3>2 DEF Uses
    <3> QED  BY <3>2, <3>3
  <2>4. \A q \in Payloads : \A k \in 1..Len(acks') :
          broker[q].state = "released" /\ acks'[k] = Ack("pubcomp", broker[q].id) => Dealt(q)'
    BY <1>0, <1>2, <2>2 DEF AckOrder
  <2>5. \A q \in Payloads : \A j, k \in 1..Len(acks') :
          acks'[j] = Ack("pubcomp", broker[q].id) /\ acks'[k] = Ack("pubrec", broker[q].id) =>
              /\ broker[q].state = "sent" => j < k
              /\ broker[q].state = "released" => k < j
    BY <1>0, <2>2 DEF AckOrder
  <2> QED  BY <2>3, <2>4, <2>5 DEF AckOrder
<1>11. FirstQuality'
  <2> SUFFICES ASSUME NEW q \in Payloads, QoS[q] = 1, InFlight(q)
               PROVE  /\ \A k \in 1..Len(wire') : wire'[k].id = broker[q].id /\ wire'[k].kind = "publish"
                            /\ QoS[wire'[k].payload] = 1 => wire'[k].payload = q
                      /\ \A k \in 1..Len(acks') : acks'[k] = Ack("puback", broker[q].id) => Dealt(q)'
    BY <1>5 DEF FirstQuality
  <2>1. \A k \in 1..Len(wire') : wire'[k].id = broker[q].id /\ wire'[k].kind = "publish"
                            /\ QoS[wire'[k].payload] = 1 => wire'[k].payload = q
    BY <1>0, <1>1 DEF FirstQuality
  <2>2. ASSUME NEW k \in 1..Len(acks'), acks'[k] = Ack("puback", broker[q].id)
        PROVE  Dealt(q)'
    <3>1. CASE k \in 1..Len(acks) /\ acks'[k] = acks[k]
      BY <1>0, <1>2, <2>2, <3>1 DEF FirstQuality
    <3>2. CASE QoS[p] = 1 /\ acks'[k] = Ack("puback", wire[1].id)
      <4>1. broker[q].id = broker[p].id
        BY <1>4, <2>2, <3>2 DEF Ack
      <4> QED  BY <1>1, <1>2, <1>4, <3>2, <4>1
    <3> QED  BY <1>3, <3>1, <3>2
  <2> QED  BY <2>1, <2>2
<1>12. ConfirmedIsDealt'
  BY <1>0, <1>2 DEF ConfirmedIsDealt
<1> QED  BY <1>6, <1>7, <1>8, <1>9, <1>10, <1>11, <1>12 DEF MqttInv

\* The engine reads a message of quality 2 and holds it; what its packet id holds
\* already can only be the same message, repeated.
LEMMA MessageHeld ==
  ASSUME MqttInv, wire # <<>>, wire' = Tail(wire), Head(wire).kind = "publish",
         NEW p, p = Head(wire).payload, QoS[p] = 2, UNCHANGED <<broker, published, unpublished>>,
         held' = [held EXCEPT ![Head(wire).id] = IF @ = Nothing THEN p ELSE @],
         acks' = Append(acks, Ack("pubrec", Head(wire).id))
  PROVE  MqttInv'
<1>0. MqttType /\ Flights /\ HeldOnce /\ WireOrder /\ AckOrder /\ FirstQuality /\ ConfirmedIsDealt
  BY DEF MqttInv
<1>1. /\ wire' \in Seq(WirePackets) /\ Len(wire) \in Nat /\ Len(wire') = Len(wire) - 1
      /\ Head(wire) = wire[1] /\ 1 \in 1..Len(wire)
      /\ p \in Payloads /\ wire[1].id \in PacketIds
      /\ \A k \in 1..Len(wire') : /\ wire'[k] = wire[k + 1] /\ k + 1 \in 1..Len(wire) /\ 1 < k + 1
                                  /\ wire[k + 1].payload \in Payloads
  BY <1>0, PacketRead
<1>2. PICK i \in PacketIds : i = wire[1].id
  BY <1>1
<1>3. ~Dealt(p) /\ broker[p].state \notin {"new", "lost"} /\ broker[p].id = i
  BY <1>0, <1>1, <1>2 DEF Flights, HeldOnce
<1>4. InFlight(p) /\ \A q \in Payloads : InFlight(q) /\ broker[q].id = i => q = p
  <2>1. broker[p].state \in {"new", "sent", "released", "done", "lost"} /\ broker[p].state # "done"
    BY <1>0, <1>1, <1>3 DEF MqttType, ConfirmedIsDealt
  <2>2. InFlight(p)
    BY <1>3, <2>1 DEF InFlight
  <2> QED  BY <1>0, <1>1, <1>3, <2>2 DEF Flights
<1>5. held[i] = Nothing \/ held[i] = p
  <2>1. CASE held[i] # Nothing
    <3>1. held[i] \in Payloads /\ Uses(held[i], i)
      BY <1>0, <2>1 DEF MqttType, HeldOnce
    <3> QED  BY <1>4, <3>1 DEF Uses
  <2> QED  BY <2>1
<1>6. /\ held' \in [PacketIds -> Payloads \cup {Nothing}] /\ held'[i] = p
      /\ \A j \in PacketIds : j # i => held'[j] = held[j]
  BY <1>0, <1>1, <1>2, <1>5 DEF MqttType
<1>7. PICK a : a = Ack("pubrec", i)
  OBVIOUS
<1>8. a \in AckPackets /\ a.kind = "pubrec" /\ a.id = i /\ \A j : a # Ack("pubcomp", j) /\ a # Ack("puback", j)
  BY <1>7 DEF AckPackets, Ack
<1>9. /\ acks' \in Seq(AckPackets) /\ Len(acks') = Len(acks) + 1 /\ Len(acks) \in Nat
      /\ \A k \in 1..Len(acks) : acks'[k] = acks[k]
      /\ acks'[Len(acks) + 1] = a
  BY <1>0, <1>1, <1>2, <1>7, <1>8, Appended DEF MqttType
<1>10. \A k \in 1..Len(acks') : k \in 1..Len(acks) \/ k = Len(acks) + 1
  BY <1>9
<1>11. \A q \in Payloads : (InFlight(q)' <=> InFlight(q)) /\ (Dealt(q)' <=> Dealt(q))
  BY DEF InFlight, Dealt
<1>12. Seen(p)'
  BY <1>3, <1>6 DEF Seen
<1>13. \A q \in Payloads : InFlight(q) /\ q # p => (Seen(q)' <=> Seen(q)) /\ broker[q].id # i
  BY <1>0, <1>4, <1>6, <1>11 DEF Seen, Flights
<1>14. MqttType'
  BY <1>0, <1>1, <1>6, <1>9 DEF MqttType
<1>15. Flights'
  BY <1>0, <1>1, <1>11 DEF Flights
<1>16. HeldOnce'
  <2>1. \A j \in PacketIds : (held[j] # Nothing => QoS[held[j]] = 2 /\ Uses(held[j], j) /\ ~Dealt(held[j]))'
    <3> SUFFICES ASSUME NEW j \in PacketIds, held'[j] # Nothing
                 PROVE  (QoS[held[j]] = 2 /\ Uses(held[j], j) /\ ~Dealt(held[j]))'
      OBVIOUS
    <3>1. PICK q \in Payloads : q = held'[j]
      BY <1>6
    <3>2. QoS[q] = 2 /\ Uses(q, j) /\ ~Dealt(q)
      <4>1. CASE j = i
        BY <1>3, <1>4, <1>6, <3>1, <4>1 DEF Uses
      <4>2. CASE j # i
        BY <1>0, <1>6, <3>1, <4>2 DEF HeldOnce
      <4> QED  BY <4>1, <4>2
    <3>3. Uses(q, j)' /\ ~Dealt(q)'
      BY <1>11, <3>2 DEF Uses
    <3> QED  BY <3>1, <3>2, <3>3 DEF Uses, Dealt, InFlight
  <2>2. \A q \in Payloads : QoS[q] = 2 => published[q] <= 1 /\ (Dealt(q) => broker[q].state # "sent")
    BY <1>0 DEF HeldOnce
  <2>3. \A k \in 1..Len(wire') : (QoS[wire[k].payload] = 2 /\ wire[k].kind = "publish" => ~Dealt(wire[k].payload))'
    <3> SUFFICES ASSUME NEW k \in 1..Len(wire'), QoS[wire'[k].payload] = 2, wire'[k].kind = "publish"
                 PROVE  ~Dealt(wire[k].payload)'
      OBVIOUS
    <3>1. PICK q \in Payloads : q = wire'[k].payload
      BY <1>1
    <3>2. ~Dealt(q)
      BY <1>0, <1>1, <3>1 DEF HeldOnce
    <3> QED  BY <3>1, <3>2 DEF Dealt
  <2> QED  BY <1>11, <2>1, <2>2, <2>3 DEF HeldOnce
<1>17. WireOrder'
  <2> SUFFICES ASSUME NEW q \in Payloads, QoS[q] = 2, InFlight(q)'
               PROVE  /\ \A j, k \in 1..Len(wire') :
                           j < k /\ wire'[j].payload = q /\ wire'[k].id = broker'[q].id =>
                             wire'[k].payload = q /\ (wire'[j].kind = "pubrel" => wire'[k].kind = "pubrel")
                      /\ broker'[q].state = "released" => Seen(q)'
                      /\ Seen(q)' => \A k \in 1..Len(wire') : wire'[k].id = broker'[q].id => wire'[k].payload = q
    BY DEF WireOrder
  <2>0. broker' = broker /\ InFlight(q)
    BY <1>11
  <2>1. /\ \A j, k \in 1..Len(wire) : j < k /\ wire[j].payload = q /\ wire[k].id = broker[q].id =>
              wire[k].payload = q /\ (wire[j].kind = "pubrel" => wire[k].kind = "pubrel")
        /\ broker[q].state = "released" => Seen(q)
        /\ Seen(q) => \A k \in 1..Len(wire) : wire[k].id = broker[q].id => wire[k].payload = q
    BY <1>0, <2>0 DEF WireOrder
  <2>2. \A j, k \in 1..Len(wire') : j < k => j + 1 < k + 1
    BY <1>1
  <2>3. \A j, k \in 1..Len(wire') :
                           j < k /\ wire'[j].payload = q /\ wire'[k].id = broker'[q].id =>
                             wire'[k].payload = q /\ (wire'[j].kind = "pubrel" => wire'[k].kind = "pubrel")
    BY <1>1, <2>0, <2>1, <2>2
  <2>4. CASE q = p
    <3>1. \A k \in 1..Len(wire') : wire'[k].id = broker'[q].id => wire'[k].payload = q
      BY <1>1, <2>0, <2>1, <2>4
    <3> QED  BY <1>12, <2>3, <2>4, <3>1
  <2>5. CASE q # p
    <3>1. Seen(q) => \A k \in 1..Len(wire') : wire'[k].id = broker'[q].id => wire'[k].payload = q
      BY <1>1, <2>0, <2>1
    <3> QED  BY <1>13, <2>0, <2>1, <2>3, <2>5, <3>1
  <2> QED  BY <2>4, <2>5
<1>18. AckOrder'
  <2>1. \A k \in 1..Len(acks') : (acks[k].kind = "pubrec" =>
           \E q \in Payloads : QoS[q] = 2 /\ Uses(q, acks[k].id) /\ Seen(q))'
    <3> SUFFICES ASSUME NEW k \in 1..Len(acks'), acks'[k].kind = "pubrec"
                 PROVE  \E q \in Payloads : QoS[q] = 2 /\ Uses(q, acks[k].id)' /\ Seen(q)'
      OBVIOUS
    <3>1. CASE k \in 1..Len(acks)
      <4>1. PICK q \in Payloads : QoS[q] = 2 /\ Uses(q, acks[k].id) /\ Seen(q)
        BY <1>0, <1>9, <3>1 DEF AckOrder
      <4>2. Uses(q, acks[k].id)' /\ Seen(q)'
        BY <1>9, <1>11, <1>12, <1>13, <3>1, <4>1 DEF Uses
      <4> QED  BY <4>1, <4>2
    <3>2. CASE k = Len(acks) + 1
      <4>1. Uses(p, acks[k].id)'
        BY <1>1, <1>3, <1>4, <1>8, <1>9, <1>11, <3>2 DEF Uses
      <4> QED  BY <1>1, <1>12, <4>1
    <3> QED  BY <1>10, <3>1, <3>2
  <2>2. \A q \in Payloads : \A k \in 1..Len(acks') :
          acks'[k] = Ack("pubcomp", broker[q].id) => k \in 1..Len(acks) /\ acks[k] = Ack("pubcomp", broker[q].id)
    BY <1>8, <1>9, <1>10
  <2>3. \A q \in Payloads : \A k \in 1..Len(acks') :
          broker[q].state = "released" /\ acks'[k] = Ack("pubcomp", broker[q].id) => Dealt(q)
    BY <1>0, <2>2 DEF AckOrder
  <2>4. \A q \in Payloads : \A j, k \in 1..Len(acks') :
          acks'[j] = Ack("pubcomp", broker[q].id) /\ acks'[k] = Ack("pubrec", broker[q].id) =>
              /\ broker[q].state = "sent" => j < k
              /\ broker[q].state = "released" => k < j
    <3> SUFFICES ASSUME NEW q \in Payloads, NEW j \in 1..Len(acks'), NEW k \in 1..Len(acks'),
                        acks'[j] = Ack("pubcomp", broker[q].id), acks'[k] = Ack("pubrec", broker[q].id)
                 PROVE  (broker[q].state = "sent" => j < k) /\ (broker[q].state = "released" => k < j)
      OBVIOUS
    <3>1. j \in 1..Len(acks) /\ acks[j] = Ack("pubcomp", broker[q].id)
      BY <2>2
    <3>2. CASE k \in 1..Len(acks)
      BY <1>0, <1>9, <3>1, <3>2 DEF AckOrder
    <3>3. CASE k = Len(acks) + 1
      <4>1. broker[q].id = i
        BY <1>7, <1>9, <3>3 DEF Ack
      <4>2. broker[q].state # "released"
        <5> SUFFICES ASSUME broker[q].state = "released" PROVE FALSE
          OBVIOUS
        <5>1. q = p
          BY <1>4, <4>1 DEF InFlight
        <5>2. Dealt(q)
          BY <1>0, <3>1 DEF AckOrder
        <5> QED  BY <1>3, <5>1, <5>2
      <4>3. j < k
        BY <1>9, <3>1, <3>3
      <4> QED  BY <4>2, <4>3
    <3> QED  BY <1>10, <3>2, <3>3
  <2> QED  BY <1>11, <2>1, <2>3, <2>4 DEF AckOrder
<1>19. FirstQuality'
  BY <1>0, <1>1, <1>8, <1>9, <1>10, <1>11 DEF FirstQuality
<1>20. ConfirmedIsDealt'
  BY <1>0, <1>11 DEF ConfirmedIsDealt
<1> QED  BY <1>14, <1>15, <1>16, <1>17, <1>18, <1>19, <1>20 DEF MqttInv

LEMMA PublicationRead ==
  ASSUME MqttInv, ReadPublish
  PROVE  MqttInv'
<1>1. PICK p : p = Head(wire).payload
  OBVIOUS
<1>2. wire # <<>> /\ wire' = Tail(wire) /\ Head(wire).kind = "publish" /\ UNCHANGED broker
  BY DEF ReadPublish
<1>3. CASE QoS[p] = 0 /\ publishPayload(p) /\ UNCHANGED <<acks, held>>
  BY <1>1, <1>2, <1>3, MessageRead
<1>4. CASE /\ QoS[p] = 1 /\ publishPayload(p)
           /\ acks' = Append(acks, Ack("puback", Head(wire).id)) /\ UNCHANGED held
  BY <1>1, <1>2, <1>4, MessageRead
<1>5. CASE /\ QoS[p] = 2
           /\ held' = [held EXCEPT ![Head(wire).id] = IF @ = Nothing THEN p ELSE @]
           /\ acks' = Append(acks, Ack("pubrec", Head(wire).id))
           /\ UNCHANGED <<published, unpublished>>
  BY <1>1, <1>2, <1>5, MessageHeld
<1> QED  BY <1>1, <1>3, <1>4, <1>5 DEF ReadPublish

\* The engine reads the release of a message that it does not hold: it was dealt
\* with before.
LEMMA ReleaseRepeated ==
  ASSUME MqttInv, wire # <<>>, wire' = Tail(wire), Head(wire).kind = "pubrel",
         acks' = Append(acks, Ack("pubcomp", Head(wire).id)),
         held[Head(wire).id] = Nothing, UNCHANGED <<broker, held, published, unpublished>>
  PROVE  MqttInv'
<1>0. MqttType /\ Flights /\ HeldOnce /\ WireOrder /\ AckOrder /\ FirstQuality /\ ConfirmedIsDealt
  BY DEF MqttInv
<1>1. /\ wire' \in Seq(WirePackets) /\ Len(wire) \in Nat /\ Len(wire') = Len(wire) - 1
      /\ Head(wire) = wire[1] /\ 1 \in 1..Len(wire)
      /\ wire[1].payload \in Payloads /\ wire[1].id \in PacketIds
      /\ \A k \in 1..Len(wire') : /\ wire'[k] = wire[k + 1] /\ k + 1 \in 1..Len(wire) /\ 1 < k + 1
                                  /\ wire[k + 1].payload \in Payloads
  BY <1>0, PacketRead
<1>2. PICK i \in PacketIds : i = wire[1].id
  BY <1>1
<1>3. PICK a : a = Ack("pubcomp", i)
  OBVIOUS
<1>4. a \in AckPackets /\ a.kind = "pubcomp" /\ a.id = i /\ \A j : a # Ack("pubrec", j) /\ a # Ack("puback", j)
  BY <1>3 DEF AckPackets, Ack
<1>5. /\ acks' \in Seq(AckPackets) /\ Len(acks') = Len(acks) + 1 /\ Len(acks) \in Nat
      /\ \A k \in 1..Len(acks) : acks'[k] = acks[k]
      /\ acks'[Len(acks) + 1] = a
  BY <1>0, <1>1, <1>2, <1>3, <1>4, Appended DEF MqttType
<1>6. \A k \in 1..Len(acks') : k \in 1..Len(acks) \/ k = Len(acks) + 1
  BY <1>5
<1>7. \A q \in Payloads : /\ InFlight(q)' <=> InFlight(q)
                          /\ Dealt(q)' <=> Dealt(q)
                          /\ Seen(q)' <=> Seen(q)
  BY DEF InFlight, Dealt, Seen
<1>8. \A q \in Payloads : QoS[q] = 2 /\ Uses(q, i) /\ Seen(q) => Dealt(q) /\ broker[q].state = "released"
  <2> SUFFICES ASSUME NEW q \in Payloads, QoS[q] = 2, Uses(q, i), Seen(q)
               PROVE  Dealt(q) /\ broker[q].state = "released"
    OBVIOUS
  <2>1. held[broker[q].id] # q
    BY <1>1, <1>2, MqttAssumption DEF Uses
  <2>2. Dealt(q)
    BY <2>1 DEF Seen
  <2> QED  BY <1>0, <2>2 DEF HeldOnce, Uses, InFlight
<1>9. MqttType'
  BY <1>0, <1>1, <1>5 DEF MqttType
<1>10. Flights'
  BY <1>0, <1>1, <1>7 DEF Flights
<1>11. HeldOnce'
  <2>1. /\ \A j \in PacketIds : held[j] # Nothing =>
              QoS[held[j]] = 2 /\ Uses(held[j], j) /\ ~Dealt(held[j])
        /\ \A q \in Payloads : QoS[q] = 2 => published[q] <= 1 /\ (Dealt(q) => broker[q].state # "sent")
    BY <1>0 DEF HeldOnce
  <2>2. \A k \in 1..Len(wire') : (QoS[wire[k].payload] = 2 /\ wire[k].kind = "publish" => ~Dealt(wire[k].payload))'
    <3> SUFFICES ASSUME NEW k \in 1..Len(wire'), QoS[wire'[k].payload] = 2, wire'[k].kind = "publish"
                 PROVE  ~Dealt(wire[k].payload)'
      OBVIOUS
    <3>1. PICK q \in Payloads : q = wire'[k].payload
      BY <1>1
    <3>2. ~Dealt(q)
      BY <1>0, <1>1, <3>1 DEF HeldOnce
    <3> QED  BY <3>1, <3>2 DEF Dealt
  <2> QED  BY <2>1, <2>2 DEF HeldOnce, Uses, InFlight, Dealt
<1>12. WireOrder'
  <2> SUFFICES ASSUME NEW q \in Payloads, QoS[q] = 2, InFlight(q)'
               PROVE  /\ \A j, k \in 1..Len(wire') :
                           j < k /\ wire'[j].payload = q /\ wire'[k].id = broker'[q].id =>
                             wire'[k].payload = q /\ (wire'[j].kind = "pubrel" => wire'[k].kind = "pubrel")
                      /\ broker'[q].state = "released" => Seen(q)'
                      /\ Seen(q)' => \A k \in 1..Len(wire') : wire'[k].id = broker'[q].id => wire'[k].payload = q
    BY DEF WireOrder
  <2>0. broker' = broker /\ InFlight(q) /\ (Seen(q)' <=> Seen(q))
    BY <1>7
  <2>1. /\ \A j, k \in 1..Len(wire) : j < k /\ wire[j].payload = q /\ wire[k].id = broker[q].id =>
              wire[k].payload = q /\ (wire[j].kind = "pubrel" => wire[k].kind = "pubrel")
        /\ broker[q].state = "released" => Seen(q)
        /\ Seen(q) => \A k \in 1..Len(wire) : wire[k].id = broker[q].id => wire[k].payload = q
    BY <1>0, <2>0 DEF WireOrder
  <2>2. \A j, k \in 1..Len(wire') : j < k => j + 1 < k + 1
    BY <1>1
  <2> QED  BY <1>1, <2>0, <2>1, <2>2
<1>13. AckOrder'
  <2>1. \A k \in 1..Len(acks') : (acks[k].kind = "pubrec" =>
           \E q \in Payloads : QoS[q] = 2 /\ Uses(q, acks[k].id) /\ Seen(q))'
    <3> SUFFICES ASSUME NEW k \in 1..Len(acks'), acks'[k].kind = "pubrec"
                 PROVE  \E q \in Payloads : QoS[q] = 2 /\ Uses(q, acks[k].id)' /\ Seen(q)'
      OBVIOUS
    <3>1. k \in 1..Len(acks) /\ acks'[k] = acks[k]
      BY <1>4, <1>5, <1>6
    <3>2. PICK q \in Payloads : QoS[q] = 2 /\ Uses(q, acks[k].id) /\ Seen(q)
      BY <1>0, <3>1 DEF AckOrder
    <3>3. Uses(q, acks[k].id)' /\ Seen(q)'
      BY <1>7, <3>1, <3>2 DEF Uses
    <3> QED  BY <3>2, <3>3
  <2>2. \A q \in Payloads : broker[q].id = i /\ broker[q].state = "released" => Dealt(q)
    <3> SUFFICES ASSUME NEW q \in Payloads, broker[q].id = i, broker[q].state = "released"
                 PROVE  Dealt(q)
      OBVIOUS
    <3>1. InFlight(q) /\ Uses(q, i) /\ QoS[q] = 2
      BY <1>0 DEF Flights, InFlight, Uses
    <3>2. Seen(q)
      BY <1>0, <3>1 DEF WireOrder
    <3> QED  BY <1>8, <3>1, <3>2
  <2>3. \A q \in Payloads : \A k \in 1..Len(acks') :
          broker[q].state = "released" /\ acks'[k] = Ack("pubcomp", broker[q].id) => Dealt(q)
    <3> SUFFICES ASSUME NEW q \in Payloads, NEW k \in 1..Len(acks'),
                        broker[q].state = "released", acks'[k] = Ack("pubcomp", broker[q].id)
                 PROVE  Dealt(q)
      OBVIOUS
    <3>1. CASE k \in 1..Len(acks)
      BY <1>0, <1>5, <3>1 DEF AckOrder
    <3>2. CASE k = Len(acks) + 1
      <4>1. broker[q].id = i
        BY <1>3, <1>5, <3>2 DEF Ack
      <4> QED  BY <2>2, <4>1
    <3> QED  BY <1>6, <3>1, <3>2
  <2>4. \A q \in Payloads : \A j, k \in 1..Len(acks') :
          acks'[j] = Ack("pubcomp", broker[q].id) /\ acks'[k] = Ack("pubrec", broker[q].id) =>
              /\ broker[q].state = "sent" => j < k
              /\ broker[q].state = "released" => k < j
    <3> SUFFICES ASSUME NEW q \in Payloads, NEW j \in 1..Len(acks'), NEW k \in 1..Len(acks'),
                        acks'[j] = Ack("pubcomp", broker[q].id), acks'[k] = Ack("pubrec", broker[q].id)
                 PROVE  (broker[q].state = "sent" => j < k) /\ (broker[q].state = "released" => k < j)
      OBVIOUS
    <3>1. k \in 1..Len(acks) /\ acks[k] = Ack("pubrec", broker[q].id)
      BY <1>4, <1>5, <1>6
    <3>2. CASE j \in 1..Len(acks)
      BY <1>0, <1>5, <3>1, <3>2 DEF AckOrder
    <3>3. CASE j = Len(acks) + 1
      <4>1. broker[q].id = i
        BY <1>3, <1>5, <3>3 DEF Ack
      <4>2. acks[k].kind = "pubrec" /\ acks[k].id = i
        BY <3>1, <4>1 DEF Ack
      <4>3. PICK o \in Payloads : QoS[o] = 2 /\ Uses(o, i) /\ Seen(o)
        BY <1>0, <3>1, <4>2 DEF AckOrder
      <4>4. broker[o].state = "released"
        BY <1>8, <4>3
      <4>5. broker[q].state # "sent"
        BY <1>0, <4>1, <4>3, <4>4 DEF Flights, Uses, InFlight
      <4>6. k < j
        BY <1>5, <3>1, <3>3
      <4> QED  BY <4>5, <4>6
    <3> QED  BY <1>6, <3>2, <3>3
  <2> QED  BY <1>7, <2>1, <2>3, <2>4 DEF AckOrder
<1>14. FirstQuality'
  BY <1>0, <1>1, <1>4, <1>5, <1>6, <1>7 DEF FirstQuality
<1>15. ConfirmedIsDealt'
  BY <1>0, <1>7 DEF ConfirmedIsDealt
<1> QED  BY <1>9, <1>10, <1>11, <1>12, <1>13, <1>14, <1>15 DEF MqttInv

\* The engine reads the release of the message that it holds, and publishes it.
LEMMA HeldPublished ==
  ASSUME MqttInv, wire # <<>>, wire' = Tail(wire), Head(wire).kind = "pubrel",
         acks' = Append(acks, Ack("pubcomp", Head(wire).id)),
         held[Head(wire).id] # Nothing, publishPayload(held[Head(wire).id]),
         held' = [held EXCEPT ![Head(wire).id] = Nothing], UNCHANGED broker
  PROVE  MqttInv'
<1>0. MqttType /\ Flights /\ HeldOnce /\ WireOrder /\ AckOrder /\ FirstQuality /\ ConfirmedIsDealt
  BY DEF MqttInv
<1>1. /\ wire' \in Seq(WirePackets) /\ Len(wire) \in Nat /\ Len(wire') = Len(wire) - 1
      /\ Head(wire) = wire[1] /\ 1 \in 1..Len(wire)
      /\ wire[1].payload \in Payloads /\ wire[1].id \in PacketIds
      /\ \A k \in 1..Len(wire') : /\ wire'[k] = wire[k + 1] /\ k + 1 \in 1..Len(wire) /\ 1 < k + 1
                                  /\ wire[k + 1].payload \in Payloads
  BY <1>0, PacketRead
<1>2. PICK i \in PacketIds : i = wire[1].id
  BY <1>1
<1>3. PICK p \in Payloads : p = held[i]
  BY <1>0, <1>1, <1>2 DEF MqttType
<1>4. QoS[p] = 2 /\ Uses(p, i) /\ ~Dealt(p) /\ Seen(p) /\ InFlight(p) /\ broker[p].id = i
  BY <1>0, <1>1, <1>2, <1>3 DEF HeldOnce, Uses, Seen
<1>5. wire[1].payload = p /\ broker[p].state = "released"
  <2>1. wire[1].payload = p
    BY <1>0, <1>1, <1>2, <1>4 DEF WireOrder
  <2> QED  BY <1>0, <1>1, <1>4, <2>1 DEF Flights, InFlight
<1>6. /\ published' \in [Payloads -> Nat] /\ unpublished' \subseteq Payloads
      /\ \A q \in Payloads : /\ Dealt(q)' <=> Dealt(q) \/ q = p
                             /\ q # p => published'[q] = published[q]
      /\ published'[p] <= 1
  <2>1. publishPayload(p)
    BY <1>1, <1>2, <1>3
  <2>2. /\ published' \in [Payloads -> Nat] /\ unpublished' \subseteq Payloads
        /\ \A q \in Payloads : /\ Dealt(q)' <=> Dealt(q) \/ q = p
                               /\ q # p => published'[q] = published[q]
        /\ published'[p] <= published[p] + 1 /\ published[p] \in Nat
    BY <1>0, <2>1, PayloadPublished
  <2>3. published[p] = 0
    BY <1>4, <2>2 DEF Dealt
  <2>4. published'[p] \in Nat
    BY <2>2
  <2> QED  BY <2>2, <2>3, <2>4
<1>7. /\ held' \in [PacketIds -> Payloads \cup {Nothing}] /\ held'[i] = Nothing
      /\ \A j \in PacketIds : j # i => held'[j] = held[j]
  BY <1>0, <1>1, <1>2 DEF MqttType
<1>8. PICK a : a = Ack("pubcomp", i)
  OBVIOUS
<1>9. a \in AckPackets /\ a.kind = "pubcomp" /\ a.id = i /\ \A j : a # Ack("pubrec", j) /\ a # Ack("puback", j)
  BY <1>8 DEF AckPackets, Ack
<1>10. /\ acks' \in Seq(AckPackets) /\ Len(acks') = Len(acks) + 1 /\ Len(acks) \in Nat
       /\ \A k \in 1..Len(acks) : acks'[k] = acks[k]
       /\ acks'[Len(acks) + 1] = a
  BY <1>0, <1>1, <1>2, <1>8, <1>9, Appended DEF MqttType
<1>11. \A k \in 1..Len(acks') : k \in 1..Len(acks) \/ k = Len(acks) + 1
  BY <1>10
<1>12. \A q \in Payloads : /\ InFlight(q)' <=> InFlight(q)
                           /\ InFlight(q) /\ broker[q].id = i => q = p
  BY <1>0, <1>4 DEF InFlight, Flights
<1>13. \A q \in Payloads : InFlight(q) => (Seen(q)' <=> Seen(q))
  <2>1. Seen(p)'
    BY <1>6 DEF Seen
  <2>2. \A q \in Payloads : InFlight(q) /\ q # p => (Seen(q)' <=> Seen(q))
    BY <1>0, <1>6, <1>7, <1>12 DEF Seen, Flights
  <2> QED  BY <1>4, <2>1, <2>2
<1>14. MqttType'
  BY <1>0, <1>1, <1>6, <1>7, <1>10 DEF MqttType
<1>15. Flights'
  <2>1. \A k \in 1..Len(wire') :
          /\ broker[wire'[k].payload].state \notin {"new", "lost"}
          /\ broker[wire'[k].payload].id = wire'[k].id
          /\ wire'[k].kind = "pubrel" => QoS[wire'[k].payload] = 2 /\ broker[wire'[k].payload].state # "sent"
    BY <1>0, <1>1 DEF Flights
  <2>2. \A q \in Payloads : /\ InFlight(q) => QoS[q] > 0 /\ broker[q].id \in PacketIds
                            /\ broker[q].state = "released" => QoS[q] = 2
                            /\ broker[q].state = "new" => ~Dealt(q)'
    BY <1>0, <1>5, <1>6 DEF Flights
  <2>3. \A q, o \in Payloads : InFlight(q) /\ InFlight(o) /\ broker[q].id = broker[o].id => q = o
    BY <1>0 DEF Flights
  <2> QED  BY <1>12, <2>1, <2>2, <2>3 DEF Flights
<1>16. HeldOnce'
  <2>1. \A j \in PacketIds : (held[j] # Nothing => QoS[held[j]] = 2 /\ Uses(held[j], j) /\ ~Dealt(held[j]))'
    <3> SUFFICES ASSUME NEW j \in PacketIds, held'[j] # Nothing
                 PROVE  (QoS[held[j]] = 2 /\ Uses(held[j], j) /\ ~Dealt(held[j]))'
      OBVIOUS
    <3>1. j # i /\ held'[j] = held[j]
      BY <1>7
    <3>2. PICK q \in Payloads : q = held[j]
      BY <1>7, <3>1
    <3>3. QoS[q] = 2 /\ Uses(q, j) /\ ~Dealt(q)
      BY <1>0, <3>1, <3>2 DEF HeldOnce
    <3>4. q # p
      BY <1>4, <3>1, <3>3 DEF Uses
    <3>5. Uses(q, j)' /\ ~Dealt(q)'
      BY <1>6, <1>12, <3>3, <3>4 DEF Uses
    <3> QED  BY <3>1, <3>2, <3>3, <3>5 DEF Uses, Dealt, InFlight
  <2>2. \A q \in Payloads : QoS[q] = 2 => published'[q] <= 1 /\ (Dealt(q)' => broker[q].state # "sent")
    <3>1. \A q \in Payloads : QoS[q] = 2 => published'[q] <= 1
      BY <1>0, <1>6 DEF HeldOnce
    <3>2. \A q \in Payloads : QoS[q] = 2 /\ Dealt(q) => broker[q].state # "sent"
      BY <1>0 DEF HeldOnce
    <3> QED  BY <1>5, <1>6, <3>1, <3>2
  <2>3. \A k \in 1..Len(wire') : (QoS[wire[k].payload] = 2 /\ wire[k].kind = "publish" => ~Dealt(wire[k].payload))'
    <3> SUFFICES ASSUME NEW k \in 1..Len(wire'), QoS[wire'[k].payload] = 2, wire'[k].kind = "publish"
                 PROVE  ~Dealt(wire[k].payload)'
      OBVIOUS
    <3>1. PICK q \in Payloads : q = wire'[k].payload
      BY <1>1
    <3>2. ~Dealt(q)
      BY <1>0, <1>1, <3>1 DEF HeldOnce
    <3>3. q # p
      <4> SUFFICES ASSUME q = p PROVE FALSE
        OBVIOUS
      <4>1. wire[k + 1].payload = p /\ wire[k + 1].id = i /\ wire[k + 1].kind = "publish"
        BY <1>0, <1>1, <1>4, <3>1 DEF Flights
      <4> QED  BY <1>0, <1>1, <1>4, <1>5, <4>1 DEF WireOrder
    <3>4. ~Dealt(q)'
      BY <1>6, <3>2, <3>3
    <3> QED  BY <3>1, <3>4 DEF Dealt
  <2> QED  BY <1>12, <2>1, <2>2, <2>3 DEF HeldOnce
<1>17. WireOrder'
  <2> SUFFICES ASSUME NEW q \in Payloads, QoS[q] = 2, InFlight(q)'
               PROVE  /\ \A j, k \in 1..Len(wire') :
                           j < k /\ wire'[j].payload = q /\ wire'[k].id = broker'[q].id =>
                             wire'[k].payload = q /\ (wire'[j].kind = "pubrel" => wire'[k].kind = "pubrel")
                      /\ broker'[q].state = "released" => Seen(q)'
                      /\ Seen(q)' => \A k \in 1..Len(wire') : wire'[k].id = broker'[q].id => wire'[k].payload = q
    BY DEF WireOrder
  <2>0. broker' = broker /\ InFlight(q) /\ (Seen(q)' <=> Seen(q))
    BY <1>12, <1>13
  <2>1. /\ \A j, k \in 1..Len(wire) : j < k /\ wire[j].payload = q /\ wire[k].id = broker[q].id =>
              wire[k].payload = q /\ (wire[j].kind = "pubrel" => wire[k].kind = "pubrel")
        /\ broker[q].state = "released" => Seen(q)
        /\ Seen(q) => \A k \in 1..Len(wire) : wire[k].id = broker[q].id => wire[k].payload = q
    BY <1>0, <2>0 DEF WireOrder
  <2>2. \A j, k \in 1..Len(wire') : j < k => j + 1 < k + 1
    BY <1>1
  <2>3. \A j, k \in 1..Len(wire') :
           j < k /\ wire'[j].payload = q /\ wire'[k].id = broker[q].id =>
             wire'[k].payload = q /\ (wire'[j].kind = "pubrel" => wire'[k].kind = "pubrel")
    <3> SUFFICES ASSUME NEW j \in 1..Len(wire'), NEW k \in 1..Len(wire'), j < k,
                        wire'[j].payload = q, wire'[k].id = broker[q].id
                 PROVE  wire'[k].payload = q /\ (wire'[j].kind = "pubrel" => wire'[k].kind = "pubrel")
      OBVIOUS
    <3>1. /\ j + 1 \in 1..Len(wire) /\ k + 1 \in 1..Len(wire) /\ j + 1 < k + 1
          /\ wire'[j] = wire[j + 1] /\ wire'[k] = wire[k + 1]
      BY <1>1, <2>2
    <3> QED  BY <2>1, <3>1
  <2>4. Seen(q) => \A k \in 1..Len(wire') : wire'[k].id = broker[q].id => wire'[k].payload = q
    BY <1>1, <2>1
  <2> QED  BY <2>0, <2>1, <2>3, <2>4
<1>18. AckOrder'
  <2>1. \A k \in 1..Len(acks') : (acks[k].kind = "pubrec" =>
           \E q \in Payloads : QoS[q] = 2 /\ Uses(q, acks[k].id) /\ Seen(q))'
    <3> SUFFICES ASSUME NEW k \in 1..Len(acks'), acks'[k].kind = "pubrec"
                 PROVE  \E q \in Payloads : QoS[q] = 2 /\ Uses(q, acks[k].id)' /\ Seen(q)'
      OBVIOUS
    <3>1. k \in 1..Len(acks) /\ acks'[k] = acks[k]
      BY <1>9, <1>10, <1>11
    <3>2. PICK q \in Payloads : QoS[q] = 2 /\ Uses(q, acks[k].id) /\ Seen(q)
      BY <1>0, <3>1 DEF AckOrder
    <3>3. Uses(q, acks[k].id)' /\ Seen(q)'
      BY <1>12, <1>13, <3>1, <3>2 DEF Uses
    <3> QED  BY <3>2, <3>3
  <2>2. \A q \in Payloads : \A k \in 1..Len(acks') :
          broker[q].state = "released" /\ acks'[k] = Ack("pubcomp", broker[q].id) => Dealt(q)'
    <3> SUFFICES ASSUME NEW q \in Payloads, NEW k \in 1..Len(acks'),
                        broker[q].state = "released", acks'[k] = Ack("pubcomp", broker[q].id)
                 PROVE  Dealt(q)'
      OBVIOUS
    <3>1. CASE k \in 1..Len(acks)
      BY <1>0, <1>6, <1>10, <3>1 DEF AckOrder
    <3>2. CASE k = Len(acks) + 1
      <4>1. broker[q].id = i
        BY <1>8, <1>10, <3>2 DEF Ack
      <4> QED  BY <1>6, <1>12, <4>1 DEF InFlight
    <3> QED  BY <1>11, <3>1, <3>2
  <2>3. \A q \in Payloads : \A j, k \in 1..Len(acks') :
          acks'[j] = Ack("pubcomp", broker[q].id) /\ acks'[k] = Ack("pubrec", broker[q].id) =>
              /\ broker[q].state = "sent" => j < k
              /\ broker[q].state = "released" => k < j
    <3> SUFFICES ASSUME NEW q \in Payloads, NEW j \in 1..Len(acks'), NEW k \in 1..Len(acks'),
                        acks'[j] = Ack("pubcomp", broker[q].id), acks'[k] = Ack("pubrec", broker[q].id)
                 PROVE  (broker[q].state = "sent" => j < k) /\ (broker[q].state = "released" => k < j)
      OBVIOUS
    <3>1. k \in 1..Len(acks) /\ acks[k] = Ack("pubrec", broker[q].id)
      BY <1>9, <1>10, <1>11
    <3>2. CASE j \in 1..Len(acks)
      BY <1>0, <1>10, <3>1, <3>2 DEF AckOrder
    <3>3. CASE j = Len(acks) + 1
      <4>1. broker[q].id = i
        BY <1>8, <1>10, <3>3 DEF Ack
      <4>2. broker[q].state # "sent"
        BY <1>5, <1>12, <4>1 DEF InFlight
      <4>3. k < j
        BY <1>10, <3>1, <3>3
      <4> QED  BY <4>2, <4>3
    <3> QED  BY <1>11, <3>2, <3>3
  <2>4. broker' = broker
    OBVIOUS
  <2> QED  BY <2>1, <2>2, <2>3, <2>4 DEF AckOrder
<1>19. FirstQuality'
  <2>1. \A q \in Payloads : QoS[q] = 1 => (Dealt(q)' <=> Dealt(q))
    BY <1>4, <1>6
  <2> QED  BY SMTT(60), <1>0, <1>1, <1>9, <1>10, <1>11, <1>12, <2>1 DEF FirstQuality
<1>20. ConfirmedIsDealt'
  BY <1>0, <1>6 DEF ConfirmedIsDealt
<1> QED  BY <1>14, <1>15, <1>16, <1>17, <1>18, <1>19, <1>20 DEF MqttInv

LEMMA ReleaseRead ==
  ASSUME MqttInv, ReadRelease
  PROVE  MqttInv'
<1>1. /\ wire # <<>> /\ wire' = Tail(wire) /\ Head(wire).kind = "pubrel" /\ UNCHANGED broker
      /\ acks' = Append(acks, Ack("pubcomp", Head(wire).id))
      /\ held' = [held EXCEPT ![Head(wire).id] = Nothing]
  BY DEF ReadRelease
<1>2. CASE held[Head(wire).id] = Nothing
  <2>1. UNCHANGED <<published, unpublished>>
    BY <1>2 DEF ReadRelease
  <2>2. held \in [PacketIds -> Payloads \cup {Nothing}]
    BY DEF MqttInv, MqttType
  <2>3. held' = held
    BY <1>1, <1>2, <2>2
  <2> QED  BY <1>1, <1>2, <2>1, <2>3, ReleaseRepeated
<1>3. CASE held[Head(wire).id] # Nothing
  <2>1. publishPayload(held[Head(wire).id])
    BY <1>3 DEF ReadRelease
  <2> QED  BY <1>1, <1>3, <2>1, HeldPublished
<1> QED  BY <1>2, <1>3

\* The connection breaks: what was in flight or on the way is lost.
LEMMA ConnectionLost ==
  ASSUME MqttInv, Reconnect
  PROVE  MqttInv'
<1>0. MqttType /\ Flights /\ HeldOnce /\ ConfirmedIsDealt
  BY DEF MqttInv
<1>1. /\ wire' = <<>> /\ acks' = <<>> /\ held' = [i \in PacketIds |-> Nothing]
      /\ UNCHANGED <<published, unpublished>>
      /\ \A p \in Payloads : broker'[p] = IF InFlight(p) \/ (\E i \in DOMAIN wire : wire[i].payload = p)
                                          THEN [broker[p] EXCEPT !.state = "lost"] ELSE broker[p]
  BY DEF Reconnect
<1>2. PICK B : B = [state : {"new", "sent", "released", "done", "lost"}, id : PacketIds \cup {NoId}]
  OBVIOUS
<1>3. \A p \in Payloads : broker'[p] \in B /\ (broker'[p].state = "lost" \/ (broker'[p] = broker[p] /\ ~InFlight(p)))
  <2> SUFFICES ASSUME NEW p \in Payloads
               PROVE  broker'[p] \in B /\ (broker'[p].state = "lost" \/ (broker'[p] = broker[p] /\ ~InFlight(p)))
    OBVIOUS
  <2>1. PICK b : b = broker[p]
    OBVIOUS
  <2>2. b \in B
    BY <1>0, <1>2, <2>1 DEF MqttType
  <2>3. [b EXCEPT !.state = "lost"] \in B /\ [b EXCEPT !.state = "lost"].state = "lost"
    BY <1>2, <2>2
  <2> QED  BY <1>1, <2>1, <2>2, <2>3
<1>4. broker' \in [Payloads -> B]
  <2>1. broker' = [p \in Payloads |-> IF InFlight(p) \/ (\E i \in DOMAIN wire : wire[i].payload = p)
                                      THEN [broker[p] EXCEPT !.state = "lost"] ELSE broker[p]]
    BY DEF Reconnect
  <2> QED  BY <1>3, <2>1
<1>5. \A p \in Payloads : ~InFlight(p)' /\ (Dealt(p)' <=> Dealt(p))
  BY <1>1, <1>3 DEF InFlight, Dealt
<1>6. Len(wire') = 0 /\ Len(acks') = 0 /\ wire' \in Seq(WirePackets) /\ acks' \in Seq(AckPackets)
  BY <1>1
<1>7. MqttType'
  BY <1>0, <1>1, <1>2, <1>4, <1>6 DEF MqttType
<1>8. Flights'
  BY <1>0, <1>3, <1>5, <1>6 DEF Flights, InFlight
<1>9. HeldOnce'
  <2>1. \A i \in PacketIds : held'[i] = Nothing
    BY <1>1
  <2>2. \A p \in Payloads : QoS[p] = 2 => published'[p] <= 1 /\ (Dealt(p)' => broker'[p].state # "sent")
    BY <1>0, <1>1, <1>5 DEF HeldOnce, InFlight
  <2> QED  BY <1>6, <2>1, <2>2 DEF HeldOnce
<1>10. WireOrder' /\ FirstQuality'
  BY <1>5 DEF WireOrder, FirstQuality
<1>11. AckOrder'
  BY <1>6 DEF AckOrder
<1>12. ConfirmedIsDealt'
  BY <1>0, <1>3, <1>5 DEF ConfirmedIsDealt
<1> QED  BY <1>7, <1>8, <1>9, <1>10, <1>11, <1>12 DEF MqttInv

LEMMA MqttInitially == MqttInit => MqttInv
<1> SUFFICES ASSUME MqttInit PROVE MqttInv
  OBVIOUS
<1>1. /\ \A p \in Payloads : broker[p].state = "new" /\ published[p] = 0
      /\ unpublished = {} /\ Len(wire) = 0 /\ Len(acks) = 0
      /\ \A i \in PacketIds : held[i] = Nothing
  BY DEF MqttInit
<1>2. MqttType
  BY DEF MqttInit, MqttType
<1>3. \A p \in Payloads : ~InFlight(p) /\ ~Dealt(p)
  BY <1>1 DEF InFlight, Dealt
<1>4. Flights
  BY <1>1, <1>3 DEF Flights
<1>5. HeldOnce
  BY <1>1, <1>3 DEF HeldOnce
<1>6. WireOrder /\ AckOrder /\ FirstQuality /\ ConfirmedIsDealt
  BY <1>1, <1>3 DEF WireOrder, AckOrder, FirstQuality, ConfirmedIsDealt
<1> QED  BY <1>2, <1>4, <1>5, <1>6 DEF MqttInv

LEMMA MqttInvariance == MqttSpec => []MqttInv
<1>1. MqttInv /\ [MqttNext]_mqttVars => MqttInv'
  <2> SUFFICES ASSUME MqttInv, [MqttNext]_mqttVars PROVE MqttInv'
    OBVIOUS
  <2>1. CASE MqttNext
    BY <2>1, MessageSent, PacketRepeated, ConfirmationRead, PublicationRead, ReleaseRead, ConnectionLost DEF MqttNext
  <2>2. CASE UNCHANGED mqttVars
    <3>0. /\ MqttType /\ Flights /\ HeldOnce /\ WireOrder /\ AckOrder /\ FirstQuality /\ ConfirmedIsDealt
          /\ UNCHANGED <<broker, wire, acks, held, published, unpublished>>
      BY <2>2 DEF mqttVars, MqttInv
    <3>1. MqttType' /\ Flights'
      BY <3>0 DEF MqttType, Flights, InFlight, Dealt
    <3>2. HeldOnce'
      BY <3>0 DEF HeldOnce, InFlight, Uses, Dealt
    <3>3. WireOrder'
      BY <3>0 DEF WireOrder, InFlight, Seen, Dealt
    <3>4. AckOrder'
      BY <3>0 DEF AckOrder, InFlight, Uses, Seen, Dealt
    <3>5. FirstQuality' /\ ConfirmedIsDealt'
      BY <3>0 DEF FirstQuality, ConfirmedIsDealt, InFlight, Dealt
    <3> QED  BY <3>1, <3>2, <3>3, <3>4, <3>5 DEF MqttInv
  <2> QED  BY <2>1, <2>2
<1> QED  BY <1>1, MqttInitially, PTL DEF MqttSpec

\* A message of quality 2 is published at most once, and a message that the
\* engine confirmed was published or its publication failed (engine.go runMQTT).
THEOREM QualityOfServiceKept == MqttSpec => []QualityKept
<1>1. MqttInv => QualityKept
  BY DEF MqttInv, HeldOnce, ConfirmedIsDealt, QualityKept, Dealt
<1> QED  BY <1>1, MqttInvariance, PTL
=============================================================================
