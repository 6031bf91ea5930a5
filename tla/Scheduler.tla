----------------------------- MODULE Scheduler -----------------------------
(***************************************************************************)
(* The scheduled notifications of package automation: engine processes     *)
(* that share one database, elect a worker through the lease row           *)
(* "scheduler", and run the schedules that are due; and the API handlers   *)
(* that create, change and delete those schedules meanwhile.               *)
(*                                                                         *)
(* One step is one database call: between two of them another process, an  *)
(* API handler, the clock or a crash may step in.  Times are seconds.      *)
(***************************************************************************)
EXTENDS Integers, FiniteSets

CONSTANTS
    Instances,    \* engine incarnations: instanceID is fresh in every New
    Reliable,     \* those that neither crash nor are closed
    Schedules,    \* schedule IDs; autoincrement never hands one out twice
    Defs,         \* what the API accepts as the definition of a schedule
    Times,        \* bound: the moments the clock passes through
    FailingCalls, \* the database calls that may return an error
    MaxFailures,  \* bound: errors of such calls
    MaxEdits      \* bound: CreateSchedule and UpdateSchedule calls that save

\* A definition is known by the moments its type, timezone, excluded dates
\* and end date select; excluded moments are not among them, and one of type
\* once has a single moment.
ASSUME SchedulerAssumption ==
    /\ Reliable \subseteq Instances
    /\ Times \subseteq Nat
    /\ Defs \subseteq [occ : SUBSET Nat, once : BOOLEAN, maxRuns : Nat,
                       misfire : {"send", "skip"}]
    /\ \A d \in Defs : d.once => \A o, p \in d.occ : o = p
    /\ MaxFailures \in Nat
    /\ MaxEdits \in Nat

TTL          == 25   \* of the lease
RetryDelay   == 60
MisfireGrace == 300

VARIABLES
    clock,
    lease,      \* the row "scheduler" of automation_leases
    row,        \* scheduled_notifications
    runs,       \* scheduled_notification_runs
    messages,   \* the messages stored by the scheduler
    editing,    \* schedules whose UpdateSchedule has read and not saved yet
    pc,         \* where each incarnation's schedulerLoop stands
    tick,       \* the ticker's channel: one time, possibly an old one
    now,        \* the argument of runDue
    expires,    \* when the lease each incarnation acquired last expires
    todo,       \* the rows runSchedules has loaded and not begun
    cur,        \* the row it works on, with the status of its run
    used,       \* the schedule IDs handed out
    fails, edits, \* counters for the bounds
    delivered,  \* history: how often each message was handed to recipients
    skipped,    \* history: runs given up as misfires
    dropped     \* history: messages stored, then not delivered by an error
                \* or a crash

dbVars   == <<lease, row, runs, messages, used>>
procVars == <<pc, tick, now, expires, todo, cur>>
history  == <<delivered, skipped, dropped>>
vars == <<clock, dbVars, editing, procVars, fails, edits, history>>

NoTime  == -1
NoLease == [holder |-> "none", expires |-> 0]
NoRow   == [ver |-> 0]
NoItem  == [id |-> "none"]

Moments == Times \cup {t + RetryDelay : t \in Times} \cup (UNION {d.occ : d \in Defs})

\* A row of scheduled_notifications.  ver, since and occ are history: the edit
\* that wrote the definition, when it did, and the moment of the definition
\* that next stands for (next is another one only as the retry of it).
Rows == [def : Defs, enabled : BOOLEAN, next : Moments \cup {NoTime},
         runCount : Nat, ver : Nat \ {0}, since : Times, occ : Moments \cup {NoTime}]

Statuses == {"running", "completed", "failed", "skipped"}
Items    == [id : Schedules, item : Rows]
Current  == [id : Schedules, item : Rows, status : Statuses]
Runs     == [id : Schedules, for : Moments, start : Times, by : Instances,
             status : Statuses]
\* The key of a message is its id and for; the rest is history.
Messages == [id : Schedules, for : Moments, by : Instances, ver : Nat \ {0},
             occ : Moments, def : Defs]
Working  == {"begin", "deliver", "saveRun", "saveItem"}
Active   == {"load", "loop"} \cup Working

-----------------------------------------------------------------------------
Init ==
    /\ clock \in Times /\ \A t \in Times : clock <= t
    /\ lease = NoLease
    /\ row = [s \in Schedules |-> NoRow]
    /\ runs = {}
    /\ messages = {}
    /\ used = {}
    /\ editing = {}
    /\ pc = [i \in Instances |-> "new"]
    /\ tick = [i \in Instances |-> NoTime]
    /\ now = [i \in Instances |-> 0]
    /\ expires = [i \in Instances |-> 0]
    /\ todo = [i \in Instances |-> {}]
    /\ cur = [i \in Instances |-> NoItem]
    /\ fails = 0
    /\ edits = 0
    /\ delivered = [k \in Schedules \X Moments |-> 0]
    /\ skipped = {}
    /\ dropped = {}

\* A database call that may fail does, or does not.
Succeeds == UNCHANGED fails
Fails(call) ==
    /\ call \in FailingCalls
    /\ fails < MaxFailures
    /\ fails' = fails + 1

(***************************************************************************)
(* NextScheduleRun: the first moment of the definition after t.            *)
(***************************************************************************)
NextScheduleRun(def, runCount, t) ==
    LET later == {o \in def.occ : o > t}
    IN  IF (def.maxRuns > 0 /\ runCount >= def.maxRuns) \/ later = {}
        THEN NoTime
        ELSE CHOOSE o \in later : \A p \in later : o <= p

(***************************************************************************)
(* The API.  Both handlers refuse an enabled schedule without a next run,  *)
(* and Save inserts the row when an update finds none.                     *)
(***************************************************************************)
SaveSchedule(s, def, enabled) ==
    LET next == NextScheduleRun(def, 0, clock)
    IN  /\ enabled => next # NoTime
        /\ edits < MaxEdits
        /\ edits' = edits + 1
        /\ row' = [row EXCEPT ![s] =
               [def |-> def, enabled |-> enabled, next |-> next,
                runCount |-> 0, ver |-> edits + 1, since |-> clock, occ |-> next]]
        /\ UNCHANGED <<clock, lease, runs, messages, procVars, fails, history>>

CreateSchedule(s, def, enabled) ==
    /\ s \notin used
    /\ used' = used \cup {s}
    /\ SaveSchedule(s, def, enabled)
    /\ UNCHANGED editing

UpdateRead(s) ==
    /\ row[s] # NoRow
    /\ s \notin editing
    /\ edits < MaxEdits
    /\ editing' = editing \cup {s}
    /\ UNCHANGED <<clock, dbVars, procVars, fails, edits, history>>

UpdateSave(s, def, enabled) ==
    /\ s \in editing
    /\ editing' = editing \ {s}
    /\ SaveSchedule(s, def, enabled)
    /\ UNCHANGED used

\* A body that does not parse or validate, or an error of the save.
UpdateAbort(s) ==
    /\ s \in editing
    /\ editing' = editing \ {s}
    /\ UNCHANGED <<clock, dbVars, procVars, fails, edits, history>>

\* The row and its runs, in one transaction.
DeleteSchedule(s) ==
    /\ row[s] # NoRow
    /\ row' = [row EXCEPT ![s] = NoRow]
    /\ runs' = {r \in runs : r.id # s}
    /\ UNCHANGED <<clock, lease, messages, used, editing, procVars, fails, edits, history>>

(***************************************************************************)
(* schedulerLoop: run once at the start and then for every tick; the       *)
(* ticker keeps one time for a loop that is busy.                          *)
(***************************************************************************)
New(i) ==
    /\ pc[i] = "new"
    /\ pc' = [pc EXCEPT ![i] = "idle"]
    /\ tick' = [tick EXCEPT ![i] = clock]
    /\ UNCHANGED <<clock, dbVars, editing, now, expires, todo, cur, fails, edits, history>>

TickerFires(i) ==
    /\ pc[i] \notin {"new", "ended"}
    /\ tick[i] = NoTime
    /\ tick' = [tick EXCEPT ![i] = clock]
    /\ UNCHANGED <<clock, dbVars, editing, pc, now, expires, todo, cur, fails, edits, history>>

(***************************************************************************)
(* TryAcquireAutomationLease: an UPDATE of the row when it is ours or has  *)
(* expired, else an INSERT that a row of any holder refuses.               *)
(***************************************************************************)
\* Mutant: the UPDATE without its condition on the expiry.
MayTakeUnexpired(i, t) == lease # NoLease

\* Mutant: only the holder itself may renew the lease.
MayTakeOwn(i, t) == lease # NoLease /\ lease.holder = i

MayTake(i, t) ==
    /\ lease # NoLease
    /\ lease.holder = i \/ lease.expires <= t

Take(i, t) ==
    /\ now' = [now EXCEPT ![i] = t]
    /\ lease' = [holder |-> i, expires |-> t + TTL]
    /\ expires' = [expires EXCEPT ![i] = t + TTL]
    /\ pc' = [pc EXCEPT ![i] = "load"]
    /\ Succeeds

NotTaken(i) ==
    /\ pc' = [pc EXCEPT ![i] = "idle"]
    /\ now' = [now EXCEPT ![i] = 0]
    /\ UNCHANGED <<lease, expires>>

LeaseUpdate(i) ==
    /\ pc[i] = "idle" /\ tick[i] # NoTime
    /\ tick' = [tick EXCEPT ![i] = NoTime]
    /\ \/ MayTake(i, tick[i]) /\ Take(i, tick[i])
       \/ /\ ~MayTake(i, tick[i])
          /\ pc' = [pc EXCEPT ![i] = "insert"]
          /\ now' = [now EXCEPT ![i] = tick[i]]
          /\ Succeeds
          /\ UNCHANGED <<lease, expires>>
       \/ NotTaken(i) /\ Fails("lease")
    /\ UNCHANGED <<clock, row, runs, messages, used, editing, todo, cur, edits, history>>

LeaseInsert(i) ==
    /\ pc[i] = "insert"
    /\ \/ lease = NoLease /\ Take(i, now[i])
       \/ lease # NoLease /\ NotTaken(i) /\ Succeeds
       \/ NotTaken(i) /\ Fails("lease")
    /\ UNCHANGED <<clock, row, runs, messages, used, editing, tick, todo, cur, edits, history>>

(***************************************************************************)
(* runSchedules: load the rows that are due, then one after the other.     *)
(***************************************************************************)
Due(s, t) ==
    /\ row[s] # NoRow
    /\ row[s].enabled
    /\ row[s].next # NoTime
    /\ row[s].next <= t

GetDueScheduledNotifications(i) ==
    /\ pc[i] = "load"
    /\ \/ /\ todo' = [todo EXCEPT ![i] =
                 {[id |-> s, item |-> row[s]] : s \in {u \in Schedules : Due(u, now[i])}}]
          /\ pc' = [pc EXCEPT ![i] = "loop"]
          /\ Succeeds
       \/ /\ Fails("load")
          /\ pc' = [pc EXCEPT ![i] = "loop"]
          /\ UNCHANGED todo
    /\ UNCHANGED <<clock, dbVars, editing, tick, now, expires, cur, edits, history>>

For(i) == cur[i].item.next

RunRow(i, status) ==
    [id |-> cur[i].id, for |-> For(i), start |-> now[i], by |-> i, status |-> status]

CreateScheduledNotificationRun(i) ==
    /\ pc[i] = "loop"
    /\ \E x \in todo[i] :
          /\ todo' = [todo EXCEPT ![i] = @ \ {x}]
          /\ \/ /\ Succeeds
                /\ cur' = [cur EXCEPT ![i] =
                       [id |-> x.id, item |-> x.item, status |-> "running"]]
                /\ runs' = runs \cup
                       {[id |-> x.id, for |-> x.item.next, start |-> now[i], by |-> i,
                         status |-> "running"]}
                /\ pc' = [pc EXCEPT ![i] = "begin"]
             \/ Fails("createRun") /\ UNCHANGED <<cur, runs, pc>>
    /\ UNCHANGED <<clock, lease, row, messages, used, editing, tick, now, expires, edits, history>>

Misfired(i) ==
    /\ cur[i].item.def.misfire = "skip"
    /\ now[i] > For(i) + MisfireGrace

SkipMisfire(i) ==
    /\ pc[i] = "begin" /\ Misfired(i)
    /\ cur' = [cur EXCEPT ![i].status = "skipped"]
    /\ skipped' = skipped \cup {[id |-> cur[i].id, for |-> For(i), ver |-> cur[i].item.ver]}
    /\ pc' = [pc EXCEPT ![i] = "saveRun"]
    /\ UNCHANGED <<clock, dbVars, editing, tick, now, expires, todo, fails, edits, delivered, dropped>>

(***************************************************************************)
(* storeAndDeliver: the message is stored once per key, and only who       *)
(* stored it delivers it.                                                  *)
(***************************************************************************)
\* Mutant: the key names the tick instead of the scheduled time.
KeyOfTick(i) == <<cur[i].id, now[i]>>

Key(i) == <<cur[i].id, For(i)>>

Stored(k) == \E m \in messages : <<m.id, m.for>> = k

Outcome(i, status, p) ==
    /\ cur' = [cur EXCEPT ![i].status = status]
    /\ pc' = [pc EXCEPT ![i] = p]

StoreNew(i) ==
    /\ ~Stored(Key(i))
    /\ messages' = messages \cup
           {[id |-> Key(i)[1], for |-> Key(i)[2], by |-> i, ver |-> cur[i].item.ver,
             occ |-> cur[i].item.occ, def |-> cur[i].item.def]}
    /\ Outcome(i, "running", "deliver")
    /\ Succeeds

\* Mutant: a message found under the key is delivered like a new one.
StoreDuplicateDelivers(i) ==
    Stored(Key(i)) /\ Outcome(i, "running", "deliver") /\ Succeeds /\ UNCHANGED messages

StoreDuplicate(i) ==
    Stored(Key(i)) /\ Outcome(i, "completed", "saveRun") /\ Succeeds /\ UNCHANGED messages

StoreError(i) ==
    Fails("store") /\ Outcome(i, "failed", "saveRun") /\ UNCHANGED messages

CreateMessageOnce(i) ==
    /\ pc[i] = "begin" /\ ~Misfired(i)
    /\ StoreNew(i) \/ StoreDuplicate(i) \/ StoreError(i)
    /\ UNCHANGED <<clock, lease, row, runs, used, editing, tick, now, expires, todo, edits, history>>

deliverStored(i) ==
    /\ pc[i] = "deliver"
    /\ \/ /\ delivered' = [delivered EXCEPT ![Key(i)] = @ + 1]
          /\ Outcome(i, "completed", "saveRun")
          /\ Succeeds
          /\ UNCHANGED dropped
       \/ /\ Fails("recipients")
          /\ Outcome(i, "failed", "saveRun")
          /\ dropped' = dropped \cup {Key(i)}
          /\ UNCHANGED delivered
    /\ UNCHANGED <<clock, dbVars, editing, tick, now, expires, todo, edits, skipped>>

SaveScheduledNotificationRun(i) ==
    /\ pc[i] = "saveRun"
    /\ pc' = [pc EXCEPT ![i] = "saveItem"]
    /\ \/ /\ Succeeds
          /\ runs' = (runs \ {RunRow(i, "running")}) \cup {RunRow(i, cur[i].status)}
       \/ Fails("saveRun") /\ UNCHANGED runs
    /\ UNCHANGED <<clock, lease, row, messages, used, editing, tick, now, expires, todo, cur, edits, history>>

\* What runSchedules writes back: the row it loaded, moved to its next run.
Scheduled(item, next) ==
    [item EXCEPT !.next = next, !.occ = next, !.enabled = next # NoTime]

Retried(item, t) == [item EXCEPT !.next = t + RetryDelay]

Skipped(item) ==
    Scheduled(item, NextScheduleRun(item.def, item.runCount, item.next + 1))

Completed(item) ==
    LET counted == [item EXCEPT !.runCount = @ + 1]
        last    == \/ item.def.once
                   \/ item.def.maxRuns > 0 /\ counted.runCount >= item.def.maxRuns
    IN  Scheduled(counted, IF last THEN NoTime
                           ELSE NextScheduleRun(item.def, counted.runCount, item.next + 1))

\* Mutant: the next run is searched from the tick, not from the scheduled time.
NewRowFromNow(i) ==
    Scheduled(cur[i].item, NextScheduleRun(cur[i].item.def, cur[i].item.runCount, now[i]))

NewRow(i) ==
    CASE cur[i].status = "skipped"   -> Skipped(cur[i].item)
      [] cur[i].status = "failed"    -> Retried(cur[i].item, now[i])
      [] cur[i].status = "completed" -> Completed(cur[i].item)

SaveScheduledNotification(i) ==
    /\ pc[i] = "saveItem"
    /\ pc' = [pc EXCEPT ![i] = "loop"]
    /\ cur' = [cur EXCEPT ![i] = NoItem]
    /\ \/ Succeeds /\ row' = [row EXCEPT ![cur[i].id] = NewRow(i)]
       \/ Fails("saveItem") /\ UNCHANGED row
    /\ UNCHANGED <<clock, lease, runs, messages, used, editing, tick, now, expires, todo, edits, history>>

\* runDue returns to the loop; the lease stays.
RunDueReturns(i) ==
    /\ pc[i] = "loop" /\ todo[i] = {}
    /\ pc' = [pc EXCEPT ![i] = "idle"]
    /\ now' = [now EXCEPT ![i] = 0]
    /\ expires' = [expires EXCEPT ![i] = 0]
    /\ UNCHANGED <<clock, dbVars, editing, tick, todo, cur, fails, edits, history>>

(***************************************************************************)
(* The end of an incarnation: Close lets the loop finish and release the   *)
(* lease, a crash does not.  Bound: both happen only while the clock can   *)
(* still pass the expiry of a lease left behind.                           *)
(***************************************************************************)
MayEnd(i) ==
    /\ i \notin Reliable
    /\ \E t \in Times : clock + TTL <= t

ReleaseAutomationLease(i) ==
    /\ pc[i] = "idle" /\ MayEnd(i)
    /\ pc' = [pc EXCEPT ![i] = "ended"]
    /\ tick' = [tick EXCEPT ![i] = NoTime]
    /\ \/ Succeeds /\ lease' = IF lease.holder = i THEN NoLease ELSE lease
       \/ Fails("release") /\ UNCHANGED lease
    /\ UNCHANGED <<clock, row, runs, messages, used, editing, now, expires, todo, cur, edits, history>>

Crash(i) ==
    /\ pc[i] \notin {"new", "ended"} /\ MayEnd(i)
    /\ pc' = [pc EXCEPT ![i] = "ended"]
    /\ tick' = [tick EXCEPT ![i] = NoTime]
    /\ now' = [now EXCEPT ![i] = 0]
    /\ expires' = [expires EXCEPT ![i] = 0]
    /\ todo' = [todo EXCEPT ![i] = {}]
    /\ cur' = [cur EXCEPT ![i] = NoItem]
    /\ dropped' = IF pc[i] = "deliver" THEN dropped \cup {Key(i)} ELSE dropped
    /\ UNCHANGED <<clock, dbVars, editing, fails, edits, delivered, skipped>>

ClockTick ==
    /\ \E t \in Times :
          /\ t > clock
          /\ \A u \in Times : u > clock => t <= u
          /\ clock' = t
    /\ UNCHANGED <<dbVars, editing, procVars, fails, edits, history>>

-----------------------------------------------------------------------------
ApiNext(s) ==
    \/ \E def \in Defs, enabled \in BOOLEAN :
          CreateSchedule(s, def, enabled) \/ UpdateSave(s, def, enabled)
    \/ UpdateRead(s)
    \/ UpdateAbort(s)
    \/ DeleteSchedule(s)

RunItem(i) ==
    \/ CreateScheduledNotificationRun(i)
    \/ SkipMisfire(i)
    \/ CreateMessageOnce(i)
    \/ deliverStored(i)
    \/ SaveScheduledNotificationRun(i)
    \/ SaveScheduledNotification(i)

LoopNext(i) ==
    \/ LeaseUpdate(i)
    \/ LeaseInsert(i)
    \/ GetDueScheduledNotifications(i)
    \/ RunItem(i)
    \/ RunDueReturns(i)

Next ==
    \/ \E s \in Schedules : ApiNext(s)
    \/ \E i \in Instances :
          New(i) \/ TickerFires(i) \/ LoopNext(i) \/ ReleaseAutomationLease(i) \/ Crash(i)
    \/ ClockTick

Spec == Init /\ [][Next]_vars

\* The scheduler of the operating system runs what can run, and time passes.
Fairness ==
    /\ WF_vars(ClockTick)
    /\ \A i \in Reliable : WF_vars(New(i))
    /\ \A i \in Instances : WF_vars(LoopNext(i)) /\ WF_vars(TickerFires(i))

FairSpec == Spec /\ Fairness

-----------------------------------------------------------------------------
(* Properties.                                                             *)

\* Type invariant: of the loops, the lease row, the other rows, the items the
\* loops work on, and the histories.
LoopType ==
    /\ clock \in Times
    /\ pc \in [Instances -> {"new", "idle", "insert", "ended"} \cup Active]
    /\ tick \in [Instances -> Times \cup {NoTime}]
    /\ now \in [Instances -> Nat]
    /\ expires \in [Instances -> Nat]

LeaseType == lease = NoLease \/ lease \in [holder : Instances, expires : Nat]

RowType ==
    /\ row \in [Schedules -> Rows \cup {NoRow}]
    /\ runs \subseteq Runs
    /\ messages \subseteq Messages
    /\ used \subseteq Schedules
    /\ editing \subseteq Schedules

ItemType ==
    /\ todo \in [Instances -> SUBSET Items]
    /\ cur \in [Instances -> Current \cup {NoItem}]
    /\ \A i \in Instances : pc[i] \in Working => cur[i] \in Current

HistoryType ==
    /\ fails \in Nat
    /\ edits \in Nat
    /\ delivered \in [Schedules \X Moments -> Nat]
    /\ skipped \subseteq [id : Schedules, for : Moments, ver : Nat \ {0}]
    /\ dropped \subseteq Schedules \X Moments

\* The rows, the loops' variables and the histories keep their types.
TypeOK == LoopType /\ LeaseType /\ RowType /\ ItemType /\ HistoryType

\* At no moment do two engines run schedules on a lease that has not expired
\* (TryAcquireAutomationLease), also when the time they acquired it with was
\* an old tick, or the INSERT follows a release by somebody else.
ExclusiveLease ==
    \A i, j \in Instances :
        /\ pc[i] \in Active /\ expires[i] > clock
        /\ pc[j] \in Active /\ expires[j] > clock
        => i = j

\* A stored message goes to the recipients once, whichever engines retry its
\* run; it goes to none only while its creator is about to deliver it, or
\* when that engine crashed there or could not load the recipients.
DeliveredOnce ==
    \A m \in messages :
        LET k == <<m.id, m.for>>
        IN  \/ delivered[k] = 1 /\ k \notin dropped
            \/ delivered[k] = 0 /\ k \in dropped
            \/ delivered[k] = 0 /\ pc[m.by] = "deliver" /\ Key(m.by) = k

\* One occurrence of a schedule is sent as one message, although runs are
\* repeated after crashes, lost saves and by overlapping workers.
OncePerOccurrence ==
    \A m, n \in messages :
        m.id = n.id /\ m.ver = n.ver /\ m.occ = n.occ => m = n

\* The messages of a definition, without those of runs that another turn, after
\* a crash or beside the sender, wrote off as misfires: these are not counted.
WrittenOff(m) == \E x \in skipped : x.id = m.id /\ x.ver = m.ver /\ x.for = m.occ
Sent(s, ver) == {m \in messages : m.id = s /\ m.ver = ver /\ ~WrittenOff(m)}

\* A definition with a maximum of runs sends no more messages than that.
MaxRunsRespected ==
    \A m \in messages :
        m.def.maxRuns > 0 => Cardinality(Sent(m.id, m.ver)) <= m.def.maxRuns

\* The next run of a schedule never passes an occurrence that was neither sent
\* nor recorded as a misfire, by itself or a second early (the search for the
\* next run starts a second after the last): backlog after a downtime is worked
\* off one by one.
NoOccurrenceLost ==
    \A s \in Schedules :
        LET r == row[s]
        IN  r # NoRow /\ ~(r.def.maxRuns > 0 /\ r.runCount >= r.def.maxRuns) =>
                \A o \in r.def.occ :
                    r.since < o /\ (r.occ = NoTime \/ o < r.occ) =>
                        \E x \in messages \cup skipped :
                            /\ x.id = s
                            /\ o \in {x.for, x.for + 1}
                            /\ r.occ = NoTime \/ x.for < r.occ

\* The occurrences of a definition: each has its turn, up to the maximum
\* (engine.go nextRun, runSchedules).
OccurrencesHandled == NoOccurrenceLost /\ MaxRunsRespected

\* The run history calls a run completed only when its message is stored.
RunHistoryTruthful ==
    \A r \in runs : r.status = "completed" => Stored(<<r.id, r.for>>)

\* A schedule that is due does not stay so: some engine sends it, gives it up
\* or moves it to a retry, if one engine keeps running.
DueHandled ==
    \A s \in Schedules : Due(s, clock) ~> ~Due(s, clock)

-----------------------------------------------------------------------------
(* The inductive invariant of SchedulerProofs.                             *)

Busy(i) == pc[i] \in Active

\* Rows have a next run exactly when they stand for an occurrence.
RowsInv ==
    \A s \in Schedules : row[s] # NoRow => (row[s].next = NoTime <=> row[s].occ = NoTime)

\* A loop that runs has a tick of the clock; loaded rows are due, so they
\* have a next run; a run that is saved has ended.
LoopsInv ==
    \A i \in Instances :
        /\ pc[i] \in Active \cup {"insert"} => now[i] \in Times
        /\ \A x \in todo[i] : x.item.next \in Moments /\ x.item.occ \in Moments
        /\ pc[i] \in Working => cur[i].item.next \in Moments /\ cur[i].item.occ \in Moments
        /\ pc[i] \in {"saveRun", "saveItem"} => cur[i].status # "running"

ItemInv == RowsInv /\ LoopsInv

\* An engine whose lease has not expired is the one the lease row names.
LeaseInv ==
    \A i \in Instances :
        /\ tick[i] <= clock /\ now[i] <= clock
        /\ Busy(i) /\ expires[i] > clock => lease = [holder |-> i, expires |-> expires[i]]

\* Keys are unique; who is about to deliver stored the message; nothing else
\* is delivered or dropped.
DeliveryInv ==
    /\ \A m, n \in messages : m.id = n.id /\ m.for = n.for => m = n
    /\ \A i \in Instances :
          pc[i] = "deliver" =>
              /\ \E m \in messages : m.by = i /\ <<m.id, m.for>> = Key(i)
              /\ delivered[Key(i)] = 0 /\ Key(i) \notin dropped
    /\ \A k \in Schedules \X Moments : delivered[k] # 0 \/ k \in dropped => Stored(k)

\* A run about to be called completed has its message.
RunInv ==
    \A i \in Instances :
        pc[i] \in {"saveRun", "saveItem"} /\ cur[i].status = "completed" => Stored(Key(i))

IInv ==
    /\ TypeOK
    /\ ItemInv
    /\ LeaseInv /\ ExclusiveLease
    /\ DeliveryInv /\ DeliveredOnce
    /\ RunInv /\ RunHistoryTruthful
=============================================================================
