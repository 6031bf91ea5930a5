--------------------------- MODULE SchedulerProofs ---------------------------
(***************************************************************************)
(* Proofs about Scheduler: the inductive invariant IInv, and what follows  *)
(* from it for any set of engines, schedules, definitions and moments, any *)
(* database calls that fail, and any number of failures and edits.         *)
(***************************************************************************)
EXTENDS Scheduler, FiniteSetTheorems, TLAPS, WellFoundedInduction

-----------------------------------------------------------------------------
(* Facts about the operators.                                              *)

\* Moments are natural numbers, so NoTime is none of them, and they include
\* the times of the clock and the retries.
LEMMA MomentFacts ==
    /\ Times \subseteq Nat /\ Moments \subseteq Nat /\ NoTime \notin Moments
    /\ Times \subseteq Moments
    /\ \A t \in Times : t + RetryDelay \in Moments
    /\ \A d \in Defs : d.occ \subseteq Moments
<1>1. Times \subseteq Nat /\ \A d \in Defs : d.occ \subseteq Nat
  BY SchedulerAssumption
<1>2. \A t \in Times : t + RetryDelay \in Nat
  BY <1>1 DEF RetryDelay
<1>3. Moments \subseteq Nat
  BY <1>1, <1>2 DEF Moments
<1>4. NoTime \notin Nat
  BY DEF NoTime
<1> QED  BY <1>1, <1>3, <1>4 DEF Moments

\* A non-empty set of natural numbers has a least element.
LEMMA LeastElement ==
    ASSUME NEW S, S \subseteq Nat, S # {}
    PROVE  \E o \in S : \A p \in S : o <= p
<1>1. PICK o \in S : \A p \in S : ~(<<p, o>> \in OpToRel(<, Nat))
  BY NatLessThanWellFounded, WFMin
<1>2. \A p \in S : ~(p < o)
  BY <1>1 DEF OpToRel
<1> QED  BY <1>2

\* NextScheduleRun answers with a moment of the definition after t, or none.
LEMMA NextIsOccurrence ==
    ASSUME NEW def \in Defs, NEW runCount \in Nat, NEW t \in Int
    PROVE  NextScheduleRun(def, runCount, t) \in Moments \cup {NoTime}
<1> DEFINE later == {o \in def.occ : o > t}
<1>1. later \subseteq Moments /\ later \subseteq Nat
  BY MomentFacts
<1>2. later # {} => (CHOOSE o \in later : \A p \in later : o <= p) \in later
  BY <1>1, LeastElement
<1> HIDE DEF later
<1>3. \/ NextScheduleRun(def, runCount, t) = NoTime
      \/ /\ later # {}
         /\ NextScheduleRun(def, runCount, t) = CHOOSE o \in later : \A p \in later : o <= p
  BY DEF NextScheduleRun, later
<1> QED  BY <1>1, <1>2, <1>3

\* What runSchedules writes back is a row again.
LEMMA RowMoves ==
    ASSUME NEW item \in Rows, item.next \in Moments, item.occ \in Moments
    PROVE  /\ Skipped(item) \in Rows
           /\ Completed(item) \in Rows
           /\ \A t \in Times : Retried(item, t) \in Rows
           /\ Skipped(item).next = NoTime <=> Skipped(item).occ = NoTime
           /\ Completed(item).next = NoTime <=> Completed(item).occ = NoTime
           /\ \A t \in Times : Retried(item, t).next \in Moments /\ Retried(item, t).occ \in Moments
<1>0. item.def \in Defs /\ item.runCount \in Nat /\ item.next + 1 \in Int
  <2>1. item.def \in Defs /\ item.runCount \in Nat
    BY DEF Rows
  <2>2. item.next \in Nat
    BY MomentFacts
  <2> QED  BY <2>1, <2>2
<1>1. \A r \in Rows, n \in Moments \cup {NoTime} :
         Scheduled(r, n) \in Rows /\ Scheduled(r, n).next = n /\ Scheduled(r, n).occ = n
  BY DEF Scheduled, Rows
<1>2. \A t \in Times : Retried(item, t) \in Rows
        /\ Retried(item, t).next = t + RetryDelay /\ Retried(item, t).occ = item.occ
  BY MomentFacts DEF Retried, Rows
<1>3. PICK n \in Moments \cup {NoTime} : Skipped(item) = Scheduled(item, n)
  BY <1>0, NextIsOccurrence DEF Skipped
<1> DEFINE counted == [item EXCEPT !.runCount = item.runCount + 1]
<1>4. counted \in Rows /\ counted.runCount \in Nat
  BY DEF Rows
<1>5. PICK r \in Rows, c \in Moments \cup {NoTime} : Completed(item) = Scheduled(r, c)
  <2>1. NextScheduleRun(item.def, counted.runCount, item.next + 1) \in Moments \cup {NoTime}
    BY <1>0, <1>4, NextIsOccurrence
  <2> DEFINE last == \/ item.def.once
                     \/ item.def.maxRuns > 0 /\ counted.runCount >= item.def.maxRuns
             nxt  == IF last THEN NoTime
                     ELSE NextScheduleRun(item.def, counted.runCount, item.next + 1)
  <2>2. Completed(item) = Scheduled(counted, nxt)
    BY DEF Completed
  <2>3. nxt \in Moments \cup {NoTime}
    BY <2>1
  <2> HIDE DEF nxt
  <2> QED  BY <1>4, <2>2, <2>3
<1>6. Skipped(item) \in Rows /\ Skipped(item).next = n /\ Skipped(item).occ = n
  BY <1>1, <1>3
<1>7. Completed(item) \in Rows /\ Completed(item).next = c /\ Completed(item).occ = c
  BY <1>1, <1>5
<1>8. \A t \in Times : t + RetryDelay \in Moments
  BY MomentFacts
<1> QED  BY <1>2, <1>6, <1>7, <1>8

-----------------------------------------------------------------------------
(* One lemma per part of the invariant: every step keeps it.               *)

\* The API handlers touch the rows only.
LEMMA ApiFrame ==
    ASSUME NEW s \in Schedules, ApiNext(s)
    PROVE  UNCHANGED <<clock, lease, messages, procVars, fails, history>>
BY DEF ApiNext, CreateSchedule, UpdateSave, SaveSchedule, UpdateRead, UpdateAbort,
       DeleteSchedule, dbVars

\* Loop variables keep their types.
LEMMA LoopTypeStep ==
    ASSUME LoopType, [Next]_vars
    PROVE  LoopType'
<1>1. ASSUME NEW s \in Schedules, ApiNext(s) PROVE LoopType'
  BY <1>1, ApiFrame, MomentFacts DEF LoopType, TTL, Active, Working, dbVars, procVars, history
<1>2. ASSUME NEW i \in Instances, New(i) PROVE LoopType'
  BY <1>2, MomentFacts DEF New, LoopType, TTL, Active, Working, dbVars, procVars, history
<1>3. ASSUME NEW i \in Instances, TickerFires(i) PROVE LoopType'
  BY <1>3, MomentFacts DEF TickerFires, LoopType, TTL, Active, Working, dbVars, procVars, history
<1>4. ASSUME NEW i \in Instances, LeaseUpdate(i) PROVE LoopType'
  BY <1>4, MomentFacts DEF LeaseUpdate, Take, NotTaken, LoopType, TTL, Active, Working, dbVars, procVars, history
<1>5. ASSUME NEW i \in Instances, LeaseInsert(i) PROVE LoopType'
  BY <1>5, MomentFacts DEF LeaseInsert, Take, NotTaken, LoopType, TTL, Active, Working, dbVars, procVars, history
<1>6. ASSUME NEW i \in Instances, GetDueScheduledNotifications(i) PROVE LoopType'
  BY <1>6, MomentFacts DEF GetDueScheduledNotifications, LoopType, TTL, Active, Working, dbVars, procVars, history
<1>7. ASSUME NEW i \in Instances, CreateScheduledNotificationRun(i) PROVE LoopType'
  BY <1>7, MomentFacts DEF CreateScheduledNotificationRun, LoopType, TTL, Active, Working, dbVars, procVars, history
<1>8. ASSUME NEW i \in Instances, SkipMisfire(i) PROVE LoopType'
  BY <1>8, MomentFacts DEF SkipMisfire, LoopType, TTL, Active, Working, dbVars, procVars, history
<1>9. ASSUME NEW i \in Instances, CreateMessageOnce(i) PROVE LoopType'
  BY <1>9, MomentFacts DEF CreateMessageOnce, StoreNew, StoreDuplicate, StoreError, Outcome, LoopType, TTL, Active, Working, dbVars, procVars, history
<1>10. ASSUME NEW i \in Instances, deliverStored(i) PROVE LoopType'
  BY <1>10, MomentFacts DEF deliverStored, Outcome, LoopType, TTL, Active, Working, dbVars, procVars, history
<1>11. ASSUME NEW i \in Instances, SaveScheduledNotificationRun(i) PROVE LoopType'
  BY <1>11, MomentFacts DEF SaveScheduledNotificationRun, LoopType, TTL, Active, Working, dbVars, procVars, history
<1>12. ASSUME NEW i \in Instances, SaveScheduledNotification(i) PROVE LoopType'
  BY <1>12, MomentFacts DEF SaveScheduledNotification, LoopType, TTL, Active, Working, dbVars, procVars, history
<1>13. ASSUME NEW i \in Instances, RunDueReturns(i) PROVE LoopType'
  BY <1>13, MomentFacts DEF RunDueReturns, LoopType, TTL, Active, Working, dbVars, procVars, history
<1>14. ASSUME NEW i \in Instances, ReleaseAutomationLease(i) PROVE LoopType'
  BY <1>14, MomentFacts DEF ReleaseAutomationLease, LoopType, TTL, Active, Working, dbVars, procVars, history
<1>15. ASSUME NEW i \in Instances, Crash(i) PROVE LoopType'
  BY <1>15, MomentFacts DEF Crash, LoopType, TTL, Active, Working, dbVars, procVars, history
<1>16. ASSUME ClockTick PROVE LoopType'
  BY <1>16, MomentFacts DEF ClockTick, LoopType, TTL, Active, Working, dbVars, procVars, history
<1>17. ASSUME UNCHANGED vars PROVE LoopType'
  BY <1>17, MomentFacts DEF vars, LoopType, TTL, Active, Working, dbVars, procVars, history
<1> QED  BY <1>1, <1>2, <1>3, <1>4, <1>5, <1>6, <1>7, <1>8, <1>9, <1>10, <1>11, <1>12, <1>13, <1>14, <1>15, <1>16, <1>17 DEF Next, LoopNext, RunItem

\* A lease is taken until a natural number.
LEMMA TtlFacts == \A t \in Nat : t + TTL \in Nat
BY DEF TTL

\* The lease row keeps its type.
LEMMA LeaseTypeStep ==
    ASSUME LoopType, LeaseType, [Next]_vars
    PROVE  LeaseType'
<1>1. ASSUME NEW s \in Schedules, ApiNext(s) PROVE LeaseType'
  BY <1>1, ApiFrame, TtlFacts DEF LeaseType, LoopType, dbVars, procVars, history
<1>2. ASSUME NEW i \in Instances, New(i) PROVE LeaseType'
  BY <1>2, TtlFacts DEF New, LeaseType, LoopType, dbVars, procVars, history
<1>3. ASSUME NEW i \in Instances, TickerFires(i) PROVE LeaseType'
  BY <1>3, TtlFacts DEF TickerFires, LeaseType, LoopType, dbVars, procVars, history
<1>4. ASSUME NEW i \in Instances, LeaseUpdate(i) PROVE LeaseType'
  <2>1. tick[i] # NoTime => tick[i] + TTL \in Nat
    BY TtlFacts, MomentFacts DEF LoopType
  <2> QED  BY <1>4, <2>1 DEF LeaseUpdate, Take, NotTaken, LeaseType
<1>5. ASSUME NEW i \in Instances, LeaseInsert(i) PROVE LeaseType'
  BY <1>5, TtlFacts DEF LeaseInsert, Take, NotTaken, LeaseType, LoopType, dbVars, procVars, history
<1>6. ASSUME NEW i \in Instances, GetDueScheduledNotifications(i) PROVE LeaseType'
  BY <1>6, TtlFacts DEF GetDueScheduledNotifications, LeaseType, LoopType, dbVars, procVars, history
<1>7. ASSUME NEW i \in Instances, CreateScheduledNotificationRun(i) PROVE LeaseType'
  BY <1>7, TtlFacts DEF CreateScheduledNotificationRun, LeaseType, LoopType, dbVars, procVars, history
<1>8. ASSUME NEW i \in Instances, SkipMisfire(i) PROVE LeaseType'
  BY <1>8, TtlFacts DEF SkipMisfire, LeaseType, LoopType, dbVars, procVars, history
<1>9. ASSUME NEW i \in Instances, CreateMessageOnce(i) PROVE LeaseType'
  BY <1>9, TtlFacts DEF CreateMessageOnce, StoreNew, StoreDuplicate, StoreError, Outcome, LeaseType, LoopType, dbVars, procVars, history
<1>10. ASSUME NEW i \in Instances, deliverStored(i) PROVE LeaseType'
  BY <1>10, TtlFacts DEF deliverStored, Outcome, LeaseType, LoopType, dbVars, procVars, history
<1>11. ASSUME NEW i \in Instances, SaveScheduledNotificationRun(i) PROVE LeaseType'
  BY <1>11, TtlFacts DEF SaveScheduledNotificationRun, LeaseType, LoopType, dbVars, procVars, history
<1>12. ASSUME NEW i \in Instances, SaveScheduledNotification(i) PROVE LeaseType'
  BY <1>12, TtlFacts DEF SaveScheduledNotification, LeaseType, LoopType, dbVars, procVars, history
<1>13. ASSUME NEW i \in Instances, RunDueReturns(i) PROVE LeaseType'
  BY <1>13, TtlFacts DEF RunDueReturns, LeaseType, LoopType, dbVars, procVars, history
<1>14. ASSUME NEW i \in Instances, ReleaseAutomationLease(i) PROVE LeaseType'
  BY <1>14, TtlFacts DEF ReleaseAutomationLease, LeaseType, LoopType, dbVars, procVars, history
<1>15. ASSUME NEW i \in Instances, Crash(i) PROVE LeaseType'
  BY <1>15, TtlFacts DEF Crash, LeaseType, LoopType, dbVars, procVars, history
<1>16. ASSUME ClockTick PROVE LeaseType'
  BY <1>16, TtlFacts DEF ClockTick, LeaseType, LoopType, dbVars, procVars, history
<1>17. ASSUME UNCHANGED vars PROVE LeaseType'
  BY <1>17, TtlFacts DEF vars, LeaseType, LoopType, dbVars, procVars, history
<1> QED  BY <1>1, <1>2, <1>3, <1>4, <1>5, <1>6, <1>7, <1>8, <1>9, <1>10, <1>11, <1>12, <1>13, <1>14, <1>15, <1>16, <1>17 DEF Next, LoopNext, RunItem


\* What a loop has in hand while it runs an item.
LEMMA WorkingFacts ==
    ASSUME TypeOK, ItemInv, NEW i \in Instances, pc[i] \in Working
    PROVE  /\ cur[i] \in Current /\ cur[i].id \in Schedules /\ cur[i].item \in Rows
           /\ For(i) \in Moments /\ cur[i].item.occ \in Moments /\ now[i] \in Times
           /\ cur[i].item.ver \in Nat \ {0} /\ cur[i].item.def \in Defs
           /\ cur[i].status \in Statuses
           /\ Key(i) \in Schedules \X Moments
           /\ \A st \in Statuses : RunRow(i, st) \in Runs
<1>1. cur[i] \in Current
  BY DEF TypeOK, ItemType
<1>2. cur[i].id \in Schedules /\ cur[i].item \in Rows /\ cur[i].status \in Statuses
  BY <1>1 DEF Current
<1>3. cur[i].item.ver \in Nat \ {0} /\ cur[i].item.def \in Defs
  BY <1>2 DEF Rows
<1>4. For(i) \in Moments /\ cur[i].item.occ \in Moments /\ now[i] \in Times
  BY DEF ItemInv, LoopsInv, For, Active
<1>5. \A st \in Statuses : RunRow(i, st) \in Runs
  BY <1>2, <1>4 DEF RunRow, Runs
<1> QED  BY <1>1, <1>2, <1>3, <1>4, <1>5 DEF Key

\* The row a loop writes back is a row again.
LEMMA NewRowFacts ==
    ASSUME TypeOK, ItemInv, NEW i \in Instances, pc[i] = "saveItem"
    PROVE  /\ NewRow(i) \in Rows
           /\ NewRow(i).next = NoTime <=> NewRow(i).occ = NoTime
<1>1. /\ cur[i].item \in Rows /\ cur[i].item.next \in Moments /\ cur[i].item.occ \in Moments
      /\ now[i] \in Times /\ cur[i].status \in Statuses
  BY WorkingFacts DEF Working, For
<1>2. cur[i].status # "running"
  BY DEF ItemInv, LoopsInv
<1>3. CASE cur[i].status = "skipped"
  BY <1>1, <1>3, RowMoves DEF NewRow
<1>4. CASE cur[i].status = "completed"
  BY <1>1, <1>4, RowMoves DEF NewRow
<1>5. CASE cur[i].status = "failed"
  <2>1. NewRow(i) = Retried(cur[i].item, now[i])
    BY <1>5 DEF NewRow
  <2> QED  BY <1>1, <2>1, RowMoves, MomentFacts
<1> QED  BY <1>1, <1>2, <1>3, <1>4, <1>5 DEF Statuses

\* The rows keep their types.
LEMMA RowTypeStep ==
    ASSUME TypeOK, LoopType, RowType, ItemType, HistoryType, ItemInv, [Next]_vars
    PROVE  RowType'
<1>1. ASSUME NEW s \in Schedules, ApiNext(s) PROVE RowType'
  <2>1. ASSUME NEW def \in Defs, NEW enabled \in BOOLEAN, SaveSchedule(s, def, enabled)
        PROVE  row' \in [Schedules -> Rows \cup {NoRow}] /\ runs' = runs
    <3> DEFINE next == NextScheduleRun(def, 0, clock)
               new  == [def |-> def, enabled |-> enabled, next |-> next, runCount |-> 0,
                        ver |-> edits + 1, since |-> clock, occ |-> next]
    <3>1. next \in Moments \cup {NoTime}
      BY NextIsOccurrence, MomentFacts DEF LoopType
    <3> HIDE DEF next
    <3>2. new \in Rows
      BY <3>1 DEF Rows, LoopType, HistoryType
    <3> HIDE DEF new
    <3>3. row' = [row EXCEPT ![s] = new] /\ runs' = runs
      BY <2>1 DEF SaveSchedule, next, new
    <3> QED  BY <3>2, <3>3 DEF RowType
  <2>2. ASSUME NEW def \in Defs, NEW enabled \in BOOLEAN, CreateSchedule(s, def, enabled)
        PROVE  RowType'
    BY <1>1, <2>1, <2>2, ApiFrame DEF CreateSchedule, RowType
  <2>3. ASSUME NEW def \in Defs, NEW enabled \in BOOLEAN, UpdateSave(s, def, enabled)
        PROVE  RowType'
    BY <1>1, <2>1, <2>3, ApiFrame DEF UpdateSave, RowType
  <2>4. CASE UpdateRead(s) \/ UpdateAbort(s)
    BY <2>4 DEF UpdateRead, UpdateAbort, RowType, dbVars
  <2>5. CASE DeleteSchedule(s)
    BY <2>5 DEF DeleteSchedule, RowType
  <2> QED  BY <1>1, <2>2, <2>3, <2>4, <2>5 DEF ApiNext
<1>2. ASSUME NEW i \in Instances, New(i) PROVE RowType'
  BY <1>2 DEF New, RowType, dbVars
<1>3. ASSUME NEW i \in Instances, TickerFires(i) PROVE RowType'
  BY <1>3 DEF TickerFires, RowType, dbVars
<1>4. ASSUME NEW i \in Instances, LeaseUpdate(i) PROVE RowType'
  BY <1>4 DEF LeaseUpdate, Take, NotTaken, RowType, dbVars
<1>5. ASSUME NEW i \in Instances, LeaseInsert(i) PROVE RowType'
  BY <1>5 DEF LeaseInsert, Take, NotTaken, RowType, dbVars
<1>6. ASSUME NEW i \in Instances, GetDueScheduledNotifications(i) PROVE RowType'
  BY <1>6 DEF GetDueScheduledNotifications, RowType, dbVars
<1>7. ASSUME NEW i \in Instances, CreateScheduledNotificationRun(i) PROVE RowType'
  <2>1. now[i] \in Times
    BY <1>7 DEF CreateScheduledNotificationRun, ItemInv, LoopsInv, Active
  <2>2. \A x \in todo[i] : [id |-> x.id, for |-> x.item.next, start |-> now[i], by |-> i,
                            status |-> "running"] \in Runs
    BY <2>1 DEF ItemType, ItemInv, LoopsInv, Items, Runs, Statuses
  <2> QED  BY <1>7, <2>2 DEF CreateScheduledNotificationRun, RowType
<1>8. ASSUME NEW i \in Instances, SkipMisfire(i) PROVE RowType'
  BY <1>8 DEF SkipMisfire, RowType, dbVars
<1>9. ASSUME NEW i \in Instances, CreateMessageOnce(i) PROVE RowType'
  <2>1. [id |-> Key(i)[1], for |-> Key(i)[2], by |-> i, ver |-> cur[i].item.ver,
         occ |-> cur[i].item.occ, def |-> cur[i].item.def] \in Messages
    BY <1>9, WorkingFacts DEF CreateMessageOnce, Working, Messages, Key
  <2> QED  BY <1>9, <2>1 DEF CreateMessageOnce, StoreNew, StoreDuplicate, StoreError, RowType
<1>10. ASSUME NEW i \in Instances, deliverStored(i) PROVE RowType'
  BY <1>10 DEF deliverStored, Outcome, RowType, dbVars
<1>11. ASSUME NEW i \in Instances, SaveScheduledNotificationRun(i) PROVE RowType'
  <2>1. RunRow(i, cur[i].status) \in Runs
    BY <1>11, WorkingFacts DEF SaveScheduledNotificationRun, Working
  <2> QED  BY <1>11, <2>1 DEF SaveScheduledNotificationRun, RowType
<1>12. ASSUME NEW i \in Instances, SaveScheduledNotification(i) PROVE RowType'
  <2>1. NewRow(i) \in Rows
    BY <1>12, NewRowFacts DEF SaveScheduledNotification
  <2> QED  BY <1>12, <2>1 DEF SaveScheduledNotification, RowType
<1>13. ASSUME NEW i \in Instances, RunDueReturns(i) PROVE RowType'
  BY <1>13 DEF RunDueReturns, RowType, dbVars
<1>14. ASSUME NEW i \in Instances, ReleaseAutomationLease(i) PROVE RowType'
  BY <1>14 DEF ReleaseAutomationLease, RowType, dbVars
<1>15. ASSUME NEW i \in Instances, Crash(i) PROVE RowType'
  BY <1>15 DEF Crash, RowType, dbVars
<1>16. ASSUME ClockTick PROVE RowType'
  BY <1>16 DEF ClockTick, RowType, dbVars
<1>17. ASSUME UNCHANGED vars PROVE RowType'
  BY <1>17 DEF vars, RowType, dbVars
<1> QED  BY <1>1, <1>2, <1>3, <1>4, <1>5, <1>6, <1>7, <1>8, <1>9, <1>10, <1>11, <1>12, <1>13, <1>14, <1>15, <1>16, <1>17 DEF Next, LoopNext, RunItem

\* Loaded rows and the current one keep their types.
LEMMA ItemTypeStep ==
    ASSUME TypeOK, LoopType, RowType, ItemType, ItemInv, [Next]_vars
    PROVE  ItemType'
<1>1. ASSUME NEW s \in Schedules, ApiNext(s) PROVE ItemType'
  BY <1>1, ApiFrame DEF ItemType, LoopType, Working, procVars
<1>2. ASSUME NEW i \in Instances, New(i) PROVE ItemType'
  BY <1>2 DEF New, ItemType, LoopType, Working, procVars
<1>3. ASSUME NEW i \in Instances, TickerFires(i) PROVE ItemType'
  BY <1>3 DEF TickerFires, ItemType, LoopType, Working, procVars
<1>4. ASSUME NEW i \in Instances, LeaseUpdate(i) PROVE ItemType'
  BY <1>4 DEF LeaseUpdate, Take, NotTaken, ItemType, LoopType, Working, procVars
<1>5. ASSUME NEW i \in Instances, LeaseInsert(i) PROVE ItemType'
  BY <1>5 DEF LeaseInsert, Take, NotTaken, ItemType, LoopType, Working, procVars
<1>6. ASSUME NEW i \in Instances, GetDueScheduledNotifications(i) PROVE ItemType'
  <2>1. {[id |-> s, item |-> row[s]] : s \in {u \in Schedules : Due(u, now[i])}} \subseteq Items
    BY DEF RowType, Due, Items
  <2> QED  BY <1>6, <2>1 DEF GetDueScheduledNotifications, ItemType, LoopType, Working
<1>7. ASSUME NEW i \in Instances, CreateScheduledNotificationRun(i) PROVE ItemType'
  <2>1. \A x \in todo[i] : [id |-> x.id, item |-> x.item, status |-> "running"] \in Current
    BY DEF ItemType, Items, Current, Statuses
  <2> QED  BY <1>7, <2>1 DEF CreateScheduledNotificationRun, ItemType, LoopType, Working
<1>8. ASSUME NEW i \in Instances, SkipMisfire(i) PROVE ItemType'
  <2>1. \A st \in Statuses : [cur[i] EXCEPT !.status = st] \in Current
    BY <1>8, WorkingFacts DEF SkipMisfire, Working, Current
  <2> QED  BY <1>8, <2>1 DEF SkipMisfire, ItemType, LoopType, Statuses, Working, procVars
<1>9. ASSUME NEW i \in Instances, CreateMessageOnce(i) PROVE ItemType'
  <2>1. \A st \in Statuses : [cur[i] EXCEPT !.status = st] \in Current
    BY <1>9, WorkingFacts DEF CreateMessageOnce, Working, Current
  <2> QED  BY <1>9, <2>1 DEF CreateMessageOnce, StoreNew, StoreDuplicate, StoreError, Outcome, ItemType, LoopType, Statuses, Working, procVars
<1>10. ASSUME NEW i \in Instances, deliverStored(i) PROVE ItemType'
  <2>1. \A st \in Statuses : [cur[i] EXCEPT !.status = st] \in Current
    BY <1>10, WorkingFacts DEF deliverStored, Working, Current
  <2> QED  BY <1>10, <2>1 DEF deliverStored, Outcome, ItemType, LoopType, Statuses, Working, procVars
<1>11. ASSUME NEW i \in Instances, SaveScheduledNotificationRun(i) PROVE ItemType'
  BY <1>11 DEF SaveScheduledNotificationRun, ItemType, LoopType, Working, procVars
<1>12. ASSUME NEW i \in Instances, SaveScheduledNotification(i) PROVE ItemType'
  BY <1>12 DEF SaveScheduledNotification, ItemType, LoopType, Working, procVars
<1>13. ASSUME NEW i \in Instances, RunDueReturns(i) PROVE ItemType'
  BY <1>13 DEF RunDueReturns, ItemType, LoopType, Working, procVars
<1>14. ASSUME NEW i \in Instances, ReleaseAutomationLease(i) PROVE ItemType'
  BY <1>14 DEF ReleaseAutomationLease, ItemType, LoopType, Working, procVars
<1>15. ASSUME NEW i \in Instances, Crash(i) PROVE ItemType'
  BY <1>15 DEF Crash, ItemType, LoopType, Working, procVars
<1>16. ASSUME ClockTick PROVE ItemType'
  BY <1>16 DEF ClockTick, ItemType, LoopType, Working, procVars
<1>17. ASSUME UNCHANGED vars PROVE ItemType'
  BY <1>17 DEF vars, ItemType, LoopType, Working, procVars
<1> QED  BY <1>1, <1>2, <1>3, <1>4, <1>5, <1>6, <1>7, <1>8, <1>9, <1>10, <1>11, <1>12, <1>13, <1>14, <1>15, <1>16, <1>17 DEF Next, LoopNext, RunItem

\* The histories keep their types.
LEMMA HistoryTypeStep ==
    ASSUME TypeOK, HistoryType, ItemInv, [Next]_vars
    PROVE  HistoryType'
<1>1. ASSUME NEW s \in Schedules, ApiNext(s) PROVE HistoryType'
  BY <1>1, ApiFrame DEF ApiNext, CreateSchedule, UpdateSave, SaveSchedule, UpdateRead, UpdateAbort,
     DeleteSchedule, HistoryType, history
<1>2. ASSUME NEW i \in Instances, New(i) PROVE HistoryType'
  BY <1>2 DEF New, Succeeds, Fails, HistoryType, history
<1>3. ASSUME NEW i \in Instances, TickerFires(i) PROVE HistoryType'
  BY <1>3 DEF TickerFires, Succeeds, Fails, HistoryType, history
<1>4. ASSUME NEW i \in Instances, LeaseUpdate(i) PROVE HistoryType'
  BY <1>4 DEF LeaseUpdate, Take, NotTaken, Succeeds, Fails, HistoryType, history
<1>5. ASSUME NEW i \in Instances, LeaseInsert(i) PROVE HistoryType'
  BY <1>5 DEF LeaseInsert, Take, NotTaken, Succeeds, Fails, HistoryType, history
<1>6. ASSUME NEW i \in Instances, GetDueScheduledNotifications(i) PROVE HistoryType'
  BY <1>6 DEF GetDueScheduledNotifications, Succeeds, Fails, HistoryType, history
<1>7. ASSUME NEW i \in Instances, CreateScheduledNotificationRun(i) PROVE HistoryType'
  BY <1>7 DEF CreateScheduledNotificationRun, Succeeds, Fails, HistoryType, history
<1>8. ASSUME NEW i \in Instances, SkipMisfire(i) PROVE HistoryType'
  <2>1. [id |-> cur[i].id, for |-> For(i), ver |-> cur[i].item.ver]
          \in [id : Schedules, for : Moments, ver : Nat \ {0}]
    BY <1>8, WorkingFacts DEF SkipMisfire, Working
  <2> QED  BY <1>8, <2>1 DEF SkipMisfire, HistoryType
<1>9. ASSUME NEW i \in Instances, CreateMessageOnce(i) PROVE HistoryType'
  BY <1>9 DEF CreateMessageOnce, StoreNew, StoreDuplicate, StoreError, Outcome, Succeeds, Fails, HistoryType, history
<1>10. ASSUME NEW i \in Instances, deliverStored(i) PROVE HistoryType'
  <2>1. Key(i) \in Schedules \X Moments
    BY <1>10, WorkingFacts DEF deliverStored, Working
  <2> QED  BY <1>10, <2>1 DEF deliverStored, Succeeds, Fails, HistoryType
<1>11. ASSUME NEW i \in Instances, SaveScheduledNotificationRun(i) PROVE HistoryType'
  BY <1>11 DEF SaveScheduledNotificationRun, Succeeds, Fails, HistoryType, history
<1>12. ASSUME NEW i \in Instances, SaveScheduledNotification(i) PROVE HistoryType'
  BY <1>12 DEF SaveScheduledNotification, Succeeds, Fails, HistoryType, history
<1>13. ASSUME NEW i \in Instances, RunDueReturns(i) PROVE HistoryType'
  BY <1>13 DEF RunDueReturns, Succeeds, Fails, HistoryType, history
<1>14. ASSUME NEW i \in Instances, ReleaseAutomationLease(i) PROVE HistoryType'
  BY <1>14 DEF ReleaseAutomationLease, Succeeds, Fails, HistoryType, history
<1>15. ASSUME NEW i \in Instances, Crash(i) PROVE HistoryType'
  <2>1. pc[i] = "deliver" => Key(i) \in Schedules \X Moments
    BY WorkingFacts DEF Working
  <2> QED  BY <1>15, <2>1 DEF Crash, HistoryType
<1>16. ASSUME ClockTick PROVE HistoryType'
  BY <1>16 DEF ClockTick, HistoryType, history
<1>17. ASSUME UNCHANGED vars PROVE HistoryType'
  BY <1>17 DEF vars, HistoryType, history
<1> QED  BY <1>1, <1>2, <1>3, <1>4, <1>5, <1>6, <1>7, <1>8, <1>9, <1>10, <1>11, <1>12, <1>13, <1>14, <1>15, <1>16, <1>17 DEF Next, LoopNext, RunItem

\* An item that only gets a status, and whose loop goes on to save or deliver.
LEMMA OutcomeKeepsItems ==
    ASSUME TypeOK, LoopType, ItemType, ItemInv, NEW i \in Instances, pc[i] \in Working,
           NEW st \in Statuses, NEW p \in {"deliver", "saveRun"},
           p = "saveRun" => st # "running",
           cur' = [cur EXCEPT ![i].status = st], pc' = [pc EXCEPT ![i] = p],
           UNCHANGED <<row, now, todo>>
    PROVE  ItemInv'
<1>1. cur[i] \in Current
  BY WorkingFacts
<1>2. cur'[i].item = cur[i].item /\ cur'[i].status = st
  BY <1>1 DEF Current, ItemType
<1>3. \A j \in Instances : j # i => cur'[j] = cur[j] /\ pc'[j] = pc[j]
  BY DEF ItemType, LoopType
<1>4. pc'[i] = p
  BY DEF LoopType
<1>5. RowsInv'
  BY DEF ItemInv, RowsInv
<1>6. LoopsInv'
  <2> SUFFICES ASSUME NEW j \in Instances
               PROVE  /\ pc'[j] \in Active \cup {"insert"} => now[j] \in Times
                      /\ \A x \in todo[j] : x.item.next \in Moments /\ x.item.occ \in Moments
                      /\ pc'[j] \in Working =>
                             cur'[j].item.next \in Moments /\ cur'[j].item.occ \in Moments
                      /\ pc'[j] \in {"saveRun", "saveItem"} => cur'[j].status # "running"
    BY DEF LoopsInv
  <2>1. CASE j = i
    BY <1>2, <1>4, <2>1 DEF ItemInv, LoopsInv, Active, Working
  <2>2. CASE j # i
    BY <1>3, <2>2 DEF ItemInv, LoopsInv
  <2> QED  BY <2>1, <2>2
<1> QED  BY <1>5, <1>6 DEF ItemInv

\* Loaded rows have a next run, and rows stand for an occurrence or for none.
LEMMA ItemStep ==
    ASSUME TypeOK, LoopType, RowType, ItemType, ItemInv, [Next]_vars
    PROVE  ItemInv'
<1>1. ASSUME NEW s \in Schedules, ApiNext(s) PROVE ItemInv'
  <2>1. ASSUME NEW def \in Defs, NEW enabled \in BOOLEAN, SaveSchedule(s, def, enabled)
        PROVE  RowsInv'
    <3>1. /\ row'[s].next = NextScheduleRun(def, 0, clock)
          /\ row'[s].occ = NextScheduleRun(def, 0, clock)
          /\ \A u \in Schedules : u # s => row'[u] = row[u]
      BY <2>1 DEF SaveSchedule, RowType
    <3> QED  BY <3>1 DEF ItemInv, RowsInv
  <2>2. RowsInv'
    BY <1>1, <2>1 DEF ApiNext, CreateSchedule, UpdateSave, UpdateRead, UpdateAbort,
                   DeleteSchedule, RowsInv, ItemInv, RowType, dbVars
  <2> QED  BY <1>1, <2>2, ApiFrame DEF ItemInv, LoopsInv, procVars
<1>2. ASSUME NEW i \in Instances, New(i) PROVE ItemInv'
  BY <1>2 DEF New, ItemInv, RowsInv, LoopsInv, ItemType, LoopType, Active, Working, dbVars, procVars
<1>3. ASSUME NEW i \in Instances, TickerFires(i) PROVE ItemInv'
  BY <1>3 DEF TickerFires, ItemInv, RowsInv, LoopsInv, ItemType, LoopType, Active, Working, dbVars, procVars
<1>4. ASSUME NEW i \in Instances, LeaseUpdate(i) PROVE ItemInv'
  BY <1>4 DEF LeaseUpdate, Take, NotTaken, ItemInv, RowsInv, LoopsInv, ItemType, LoopType, Active, Working, dbVars, procVars
<1>5. ASSUME NEW i \in Instances, LeaseInsert(i) PROVE ItemInv'
  BY <1>5 DEF LeaseInsert, Take, NotTaken, ItemInv, RowsInv, LoopsInv, ItemType, LoopType, Active, Working, dbVars, procVars
<1>6. ASSUME NEW i \in Instances, GetDueScheduledNotifications(i) PROVE ItemInv'
  <2>1. \A x \in {[id |-> s, item |-> row[s]] : s \in {u \in Schedules : Due(u, now[i])}} :
           x.item.next \in Moments /\ x.item.occ \in Moments
    BY DEF Due, RowType, Rows, ItemInv, RowsInv
  <2> QED  BY <1>6, <2>1 DEF GetDueScheduledNotifications, ItemInv, RowsInv, LoopsInv, ItemType,
                          LoopType, Active, Working, dbVars
<1>7. ASSUME NEW i \in Instances, CreateScheduledNotificationRun(i) PROVE ItemInv'
  BY <1>7 DEF CreateScheduledNotificationRun, ItemInv, RowsInv, LoopsInv, ItemType, LoopType, Active, Working, dbVars, procVars
<1>8. ASSUME NEW i \in Instances, SkipMisfire(i) PROVE ItemInv'
  BY <1>8, OutcomeKeepsItems DEF SkipMisfire, Working, Statuses, dbVars
<1>9. ASSUME NEW i \in Instances, CreateMessageOnce(i) PROVE ItemInv'
  BY <1>9, OutcomeKeepsItems DEF CreateMessageOnce, StoreNew, StoreDuplicate, StoreError, Outcome,
                              Working, Statuses
<1>10. ASSUME NEW i \in Instances, deliverStored(i) PROVE ItemInv'
  BY <1>10, OutcomeKeepsItems DEF deliverStored, Outcome, Working, Statuses, dbVars
<1>11. ASSUME NEW i \in Instances, SaveScheduledNotificationRun(i) PROVE ItemInv'
  BY <1>11 DEF SaveScheduledNotificationRun, ItemInv, RowsInv, LoopsInv, ItemType, LoopType, Active, Working, dbVars, procVars
<1>12. ASSUME NEW i \in Instances, SaveScheduledNotification(i) PROVE ItemInv'
  <2>1. NewRow(i).next = NoTime <=> NewRow(i).occ = NoTime
    BY <1>12, NewRowFacts DEF SaveScheduledNotification
  <2>2. cur[i].id \in Schedules
    BY <1>12, WorkingFacts DEF SaveScheduledNotification, Working
  <2>3. RowsInv'
    BY <1>12, <2>1, <2>2 DEF SaveScheduledNotification, ItemInv, RowsInv, RowType
  <2> QED  BY <1>12, <2>3 DEF SaveScheduledNotification, ItemInv, LoopsInv, ItemType, LoopType,
                          Active, Working
<1>13. ASSUME NEW i \in Instances, RunDueReturns(i) PROVE ItemInv'
  BY <1>13 DEF RunDueReturns, ItemInv, RowsInv, LoopsInv, ItemType, LoopType, Active, Working, dbVars, procVars
<1>14. ASSUME NEW i \in Instances, ReleaseAutomationLease(i) PROVE ItemInv'
  BY <1>14 DEF ReleaseAutomationLease, ItemInv, RowsInv, LoopsInv, ItemType, LoopType, Active, Working, dbVars, procVars
<1>15. ASSUME NEW i \in Instances, Crash(i) PROVE ItemInv'
  BY <1>15 DEF Crash, ItemInv, RowsInv, LoopsInv, ItemType, LoopType, Active, Working, dbVars, procVars
<1>16. ASSUME ClockTick PROVE ItemInv'
  BY <1>16 DEF ClockTick, ItemInv, RowsInv, LoopsInv, dbVars, procVars
<1>17. ASSUME UNCHANGED vars PROVE ItemInv'
  BY <1>17 DEF vars, ItemInv, RowsInv, LoopsInv, dbVars, procVars
<1> QED  BY <1>1, <1>2, <1>3, <1>4, <1>5, <1>6, <1>7, <1>8, <1>9, <1>10, <1>11, <1>12, <1>13, <1>14, <1>15, <1>16, <1>17 DEF Next, LoopNext, RunItem

\* The lease row names the engine whose lease has not expired.
LEMMA LeaseStep ==
    ASSUME LoopType, LeaseType, LeaseInv, [Next]_vars
    PROVE  LeaseInv'
<1>1. ASSUME NEW s \in Schedules, ApiNext(s) PROVE LeaseInv'
  BY <1>1, ApiFrame, MomentFacts DEF LeaseInv, LoopType, Busy, Active, Working, NoTime, dbVars, procVars
<1>2. ASSUME NEW i \in Instances, New(i) PROVE LeaseInv'
  BY <1>2, MomentFacts DEF New, LeaseInv, LoopType, Busy, Active, Working, NoTime, dbVars, procVars
<1>3. ASSUME NEW i \in Instances, TickerFires(i) PROVE LeaseInv'
  BY <1>3, MomentFacts DEF TickerFires, LeaseInv, LoopType, Busy, Active, Working, NoTime, dbVars, procVars
<1>4. ASSUME NEW i \in Instances, LeaseUpdate(i) PROVE LeaseInv'
  <2>0. clock \in Nat /\ tick[i] \in Nat /\ tick[i] <= clock
    BY <1>4, MomentFacts DEF LeaseUpdate, LeaseInv, LoopType
  <2>1. CASE lease' = lease /\ expires' = expires
    BY <1>4, <2>0, <2>1 DEF LeaseUpdate, Take, NotTaken, LeaseInv, LoopType, Busy, Active, Working, NoTime
  <2>2. CASE MayTake(i, tick[i]) /\ Take(i, tick[i])
    <3>1. \A j \in Instances : j # i => ~(Busy(j) /\ expires[j] > clock)
      BY <2>0, <2>2 DEF MayTake, LeaseInv, LoopType
    <3> QED  BY <1>4, <2>0, <2>2, <3>1 DEF LeaseUpdate, Take, LeaseInv, LoopType, Busy, NoTime
  <2> QED  BY <1>4, <2>1, <2>2 DEF LeaseUpdate, NotTaken
<1>5. ASSUME NEW i \in Instances, LeaseInsert(i) PROVE LeaseInv'
  <2>0. clock \in Nat /\ now[i] \in Nat /\ now[i] <= clock
    BY <1>5, MomentFacts DEF LeaseInv, LoopType
  <2>1. CASE lease' = lease /\ expires' = expires
    BY <1>5, <2>0, <2>1 DEF LeaseInsert, Take, NotTaken, LeaseInv, LoopType, Busy, Active, Working
  <2>2. CASE lease = NoLease /\ Take(i, now[i])
    <3>1. lease.expires = 0
      BY <2>2 DEF NoLease
    <3>2. \A j \in Instances : Busy(j) /\ expires[j] > clock => lease.expires = expires[j]
      BY DEF LeaseInv
    <3>3. \A j \in Instances : ~(Busy(j) /\ expires[j] > clock)
      BY <2>0, <3>1, <3>2 DEF LoopType
    <3> QED  BY <1>5, <2>0, <2>2, <3>3 DEF LeaseInsert, Take, LeaseInv, LoopType, Busy
  <2> QED  BY <1>5, <2>1, <2>2 DEF LeaseInsert, NotTaken
<1>6. ASSUME NEW i \in Instances, GetDueScheduledNotifications(i) PROVE LeaseInv'
  BY <1>6, MomentFacts DEF GetDueScheduledNotifications, LeaseInv, LoopType, Busy, Active, Working, NoTime, dbVars, procVars
<1>7. ASSUME NEW i \in Instances, CreateScheduledNotificationRun(i) PROVE LeaseInv'
  BY <1>7, MomentFacts DEF CreateScheduledNotificationRun, LeaseInv, LoopType, Busy, Active, Working, NoTime, dbVars, procVars
<1>8. ASSUME NEW i \in Instances, SkipMisfire(i) PROVE LeaseInv'
  BY <1>8, MomentFacts DEF SkipMisfire, LeaseInv, LoopType, Busy, Active, Working, NoTime, dbVars, procVars
<1>9. ASSUME NEW i \in Instances, CreateMessageOnce(i) PROVE LeaseInv'
  BY <1>9, MomentFacts DEF CreateMessageOnce, StoreNew, StoreDuplicate, StoreError, Outcome, LeaseInv, LoopType, Busy, Active, Working, NoTime, dbVars, procVars
<1>10. ASSUME NEW i \in Instances, deliverStored(i) PROVE LeaseInv'
  BY <1>10, MomentFacts DEF deliverStored, Outcome, LeaseInv, LoopType, Busy, Active, Working, NoTime, dbVars, procVars
<1>11. ASSUME NEW i \in Instances, SaveScheduledNotificationRun(i) PROVE LeaseInv'
  BY <1>11, MomentFacts DEF SaveScheduledNotificationRun, LeaseInv, LoopType, Busy, Active, Working, NoTime, dbVars, procVars
<1>12. ASSUME NEW i \in Instances, SaveScheduledNotification(i) PROVE LeaseInv'
  BY <1>12, MomentFacts DEF SaveScheduledNotification, LeaseInv, LoopType, Busy, Active, Working, NoTime, dbVars, procVars
<1>13. ASSUME NEW i \in Instances, RunDueReturns(i) PROVE LeaseInv'
  BY <1>13, MomentFacts DEF RunDueReturns, LeaseInv, LoopType, Busy, Active, Working, NoTime, dbVars, procVars
<1>14. ASSUME NEW i \in Instances, ReleaseAutomationLease(i) PROVE LeaseInv'
  <2>1. \A j \in Instances : Busy(j)' => Busy(j) /\ j # i
    BY <1>14 DEF ReleaseAutomationLease, Busy, LoopType, Active, Working
  <2>2. \A j \in Instances : Busy(j) /\ expires[j] > clock /\ j # i => lease' = lease
    BY <1>14 DEF ReleaseAutomationLease, LeaseInv
  <2> QED  BY <1>14, <2>1, <2>2, MomentFacts DEF ReleaseAutomationLease, LeaseInv, LoopType, NoTime
<1>15. ASSUME NEW i \in Instances, Crash(i) PROVE LeaseInv'
  BY <1>15, MomentFacts DEF Crash, LeaseInv, LoopType, Busy, Active, Working, NoTime, dbVars, procVars
<1>16. ASSUME ClockTick PROVE LeaseInv'
  <2>1. clock \in Nat /\ clock' \in Nat /\ clock < clock'
    BY <1>16, MomentFacts DEF ClockTick, LoopType
  <2>2. UNCHANGED <<lease, pc, tick, now, expires>>
    BY <1>16 DEF ClockTick, dbVars, procVars
  <2>3. \A j \in Instances : /\ tick[j] \in Int /\ now[j] \in Int /\ expires[j] \in Int
                            /\ tick[j] <= clock /\ now[j] <= clock
    BY MomentFacts DEF LoopType, LeaseInv, NoTime
  <2>4. \A j \in Instances : tick[j] <= clock' /\ now[j] <= clock'
                            /\ (expires[j] > clock' => expires[j] > clock)
    BY <2>1, <2>3
  <2> QED  BY <2>2, <2>4 DEF LeaseInv, Busy
<1>17. ASSUME UNCHANGED vars PROVE LeaseInv'
  BY <1>17, MomentFacts DEF vars, LeaseInv, LoopType, Busy, Active, Working, NoTime, dbVars, procVars
<1> QED  BY <1>1, <1>2, <1>3, <1>4, <1>5, <1>6, <1>7, <1>8, <1>9, <1>10, <1>11, <1>12, <1>13, <1>14, <1>15, <1>16, <1>17 DEF Next, LoopNext, RunItem

\* Steps that neither bring a loop to the delivery nor take one from it keep
\* the delivery part of the invariant.
LEMMA DeliveryFrame ==
    ASSUME DeliveryInv, DeliveredOnce, ItemType, RowType,
           UNCHANGED <<messages, delivered, dropped>>,
           \A j \in Instances : /\ pc'[j] = "deliver" <=> pc[j] = "deliver"
                                /\ pc[j] = "deliver" => cur'[j] = cur[j]
    PROVE  DeliveryInv' /\ DeliveredOnce'
<1>1. \A j \in Instances : pc[j] = "deliver" => Key(j)' = Key(j)
  BY DEF Key, For
<1>2. DeliveryInv'
  BY <1>1 DEF DeliveryInv, Stored
<1>3. \A m \in messages : m.by \in Instances
  BY DEF RowType, Messages
<1> QED  BY <1>1, <1>2, <1>3 DEF DeliveredOnce

\* A loop leaves the delivery by delivering its message or by dropping it.
LEMMA DeliveryEnds ==
    ASSUME DeliveryInv, DeliveredOnce, RowType, HistoryType, NEW i \in Instances,
           Key(i) \in Schedules \X Moments,
           UNCHANGED messages, pc[i] = "deliver", pc'[i] # "deliver",
           \/ /\ delivered' = [delivered EXCEPT ![Key(i)] = delivered[Key(i)] + 1]
              /\ dropped' = dropped
           \/ delivered' = delivered /\ dropped' = dropped \cup {Key(i)},
           \A j \in Instances : j # i => pc'[j] = pc[j] /\ cur'[j] = cur[j]
    PROVE  DeliveryInv' /\ DeliveredOnce'
<1>1. \A j \in Instances : j # i => Key(j)' = Key(j)
  BY DEF Key, For
<1>2. PICK m \in messages : m.by = i /\ <<m.id, m.for>> = Key(i)
  BY DEF DeliveryInv
<1>3. \A n \in messages : <<n.id, n.for>> = Key(i) => n = m
  BY <1>2 DEF DeliveryInv
<1>4. \A n \in messages : n.by \in Instances /\ <<n.id, n.for>> \in Schedules \X Moments
  BY DEF RowType, Messages
<1>5. delivered[Key(i)] = 0 /\ Key(i) \notin dropped
  BY DEF DeliveryInv
<1>6. /\ \A k \in Schedules \X Moments :
            k # Key(i) => delivered'[k] = delivered[k] /\ (k \in dropped' <=> k \in dropped)
      /\ \/ delivered'[Key(i)] = 1 /\ Key(i) \notin dropped'
         \/ delivered'[Key(i)] = 0 /\ Key(i) \in dropped'
  BY <1>5 DEF HistoryType
<1>7. DeliveryInv'
  <2>1. \A j \in Instances : pc'[j] = "deliver" =>
           /\ j # i /\ Key(j)' = Key(j)
           /\ \E n \in messages : n.by = j /\ <<n.id, n.for>> = Key(j)
           /\ delivered[Key(j)] = 0 /\ Key(j) \notin dropped
    BY <1>1 DEF DeliveryInv
  <2>2. \A j \in Instances : pc'[j] = "deliver" =>
           /\ \E n \in messages' : n.by = j /\ <<n.id, n.for>> = Key(j)'
           /\ Key(j) # Key(i) /\ Key(j) \in Schedules \X Moments
    BY <1>2, <1>3, <1>4, <2>1
  <2>3. \A j \in Instances : pc'[j] = "deliver" =>
           delivered'[Key(j)'] = 0 /\ Key(j)' \notin dropped'
    BY <1>6, <2>1, <2>2
  <2>4. \A k \in Schedules \X Moments : delivered'[k] # 0 \/ k \in dropped' => Stored(k)'
    BY <1>2, <1>6 DEF DeliveryInv, Stored
  <2>5. \A n, o \in messages' : n.id = o.id /\ n.for = o.for => n = o
    BY DEF DeliveryInv
  <2> QED  BY <2>2, <2>3, <2>4, <2>5 DEF DeliveryInv
<1>8. DeliveredOnce'
  <2> SUFFICES ASSUME NEW n \in messages
               PROVE  LET k == <<n.id, n.for>>
                      IN  \/ delivered'[k] = 1 /\ k \notin dropped'
                          \/ delivered'[k] = 0 /\ k \in dropped'
                          \/ delivered'[k] = 0 /\ pc'[n.by] = "deliver" /\ Key(n.by)' = k
    BY DEF DeliveredOnce
  <2>1. CASE <<n.id, n.for>> = Key(i)
    BY <1>6, <2>1
  <2>2. CASE <<n.id, n.for>> # Key(i)
    BY <1>1, <1>4, <1>6, <2>2 DEF DeliveredOnce
  <2> QED  BY <2>1, <2>2
<1> QED  BY <1>7, <1>8

\* A message is delivered once, or dropped, by the loop that stored it.
LEMMA DeliveryStep ==
    ASSUME TypeOK, LoopType, RowType, ItemType, HistoryType, ItemInv,
           DeliveryInv, DeliveredOnce, [Next]_vars
    PROVE  DeliveryInv' /\ DeliveredOnce'
<1>1. ASSUME NEW s \in Schedules, ApiNext(s) PROVE DeliveryInv' /\ DeliveredOnce'
  BY <1>1, ApiFrame, DeliveryFrame DEF procVars, history
<1>2. ASSUME NEW i \in Instances, New(i) PROVE DeliveryInv' /\ DeliveredOnce'
  BY <1>2, DeliveryFrame DEF New, ItemType, LoopType, dbVars, procVars, history
<1>3. ASSUME NEW i \in Instances, TickerFires(i) PROVE DeliveryInv' /\ DeliveredOnce'
  BY <1>3, DeliveryFrame DEF TickerFires, ItemType, LoopType, dbVars, procVars, history
<1>4. ASSUME NEW i \in Instances, LeaseUpdate(i) PROVE DeliveryInv' /\ DeliveredOnce'
  BY <1>4, DeliveryFrame DEF LeaseUpdate, Take, NotTaken, ItemType, LoopType, dbVars, procVars, history
<1>5. ASSUME NEW i \in Instances, LeaseInsert(i) PROVE DeliveryInv' /\ DeliveredOnce'
  BY <1>5, DeliveryFrame DEF LeaseInsert, Take, NotTaken, ItemType, LoopType, dbVars, procVars, history
<1>6. ASSUME NEW i \in Instances, GetDueScheduledNotifications(i) PROVE DeliveryInv' /\ DeliveredOnce'
  BY <1>6, DeliveryFrame DEF GetDueScheduledNotifications, ItemType, LoopType, dbVars, procVars, history
<1>7. ASSUME NEW i \in Instances, CreateScheduledNotificationRun(i) PROVE DeliveryInv' /\ DeliveredOnce'
  BY <1>7, DeliveryFrame DEF CreateScheduledNotificationRun, ItemType, LoopType, dbVars, procVars, history
<1>8. ASSUME NEW i \in Instances, SkipMisfire(i) PROVE DeliveryInv' /\ DeliveredOnce'
  BY <1>8, DeliveryFrame DEF SkipMisfire, ItemType, LoopType, dbVars, procVars, history
<1>9. ASSUME NEW i \in Instances, CreateMessageOnce(i) PROVE DeliveryInv' /\ DeliveredOnce'
  <2>1. CASE StoreNew(i)
    <3> DEFINE new == [id |-> Key(i)[1], for |-> Key(i)[2], by |-> i, ver |-> cur[i].item.ver,
                       occ |-> cur[i].item.occ, def |-> cur[i].item.def]
    <3>1. /\ Key(i) \in Schedules \X Moments /\ Key(i)' = Key(i) /\ pc[i] = "begin"
          /\ <<new.id, new.for>> = Key(i) /\ new.by = i
      <4>1. cur[i] \in Current /\ Key(i) \in Schedules \X Moments
        BY <1>9, WorkingFacts DEF CreateMessageOnce, Working
      <4>2. Key(i)' = Key(i)
        BY <2>1, <4>1 DEF StoreNew, Outcome, Current, ItemType, Key, For
      <4> QED  BY <1>9, <4>1, <4>2 DEF CreateMessageOnce
    <3> HIDE DEF new
    <3>2. /\ messages' = messages \cup {new} /\ \A m \in messages : <<m.id, m.for>> # Key(i)
          /\ UNCHANGED <<delivered, dropped>>
          /\ pc' = [pc EXCEPT ![i] = "deliver"]
          /\ \A j \in Instances : j # i => cur'[j] = cur[j]
      BY <1>9, <2>1 DEF CreateMessageOnce, StoreNew, Outcome, Stored, ItemType, history, new
    <3>3. \A j \in Instances : j # i => Key(j)' = Key(j) /\ pc'[j] = pc[j]
      BY <3>2 DEF Key, For, LoopType
    <3>4. delivered[Key(i)] = 0 /\ Key(i) \notin dropped /\ pc'[i] = "deliver"
      BY <3>1, <3>2 DEF DeliveryInv, Stored, LoopType
    <3>5. DeliveryInv'
      <4>1. \A m, n \in messages' : m.id = n.id /\ m.for = n.for => m = n
        BY <3>1, <3>2 DEF DeliveryInv
      <4>2. \A j \in Instances : pc'[j] = "deliver" =>
               /\ \E m \in messages' : m.by = j /\ <<m.id, m.for>> = Key(j)'
               /\ delivered'[Key(j)'] = 0 /\ Key(j)' \notin dropped'
        BY <3>1, <3>2, <3>3, <3>4 DEF DeliveryInv
      <4>3. \A k \in Schedules \X Moments : delivered'[k] # 0 \/ k \in dropped' => Stored(k)'
        BY <3>2 DEF DeliveryInv, Stored
      <4> QED  BY <4>1, <4>2, <4>3 DEF DeliveryInv
    <3>6. \A m \in messages : m.by \in Instances
      BY DEF RowType, Messages
    <3>7. DeliveredOnce'
      <4> SUFFICES ASSUME NEW m \in messages'
                   PROVE  LET k == <<m.id, m.for>>
                          IN  \/ delivered'[k] = 1 /\ k \notin dropped'
                              \/ delivered'[k] = 0 /\ k \in dropped'
                              \/ delivered'[k] = 0 /\ pc'[m.by] = "deliver" /\ Key(m.by)' = k
        BY DEF DeliveredOnce
      <4>1. CASE m = new
        BY <3>1, <3>2, <3>4, <4>1
      <4>2. CASE m \in messages
        BY <3>1, <3>2, <3>3, <3>6, <4>2 DEF DeliveredOnce
      <4> QED  BY <3>2, <4>1, <4>2
    <3> QED  BY <3>5, <3>7
  <2>2. CASE StoreDuplicate(i) \/ StoreError(i)
    BY <1>9, <2>2, DeliveryFrame DEF CreateMessageOnce, StoreDuplicate, StoreError, Outcome,
                                  ItemType, LoopType, history
  <2> QED  BY <1>9, <2>1, <2>2 DEF CreateMessageOnce
<1>10. ASSUME NEW i \in Instances, deliverStored(i) PROVE DeliveryInv' /\ DeliveredOnce'
  <2>1. Key(i) \in Schedules \X Moments
      BY <1>10, WorkingFacts DEF deliverStored, Working
  <2>2. /\ UNCHANGED messages /\ pc[i] = "deliver" /\ pc'[i] # "deliver"
          /\ \/ /\ delivered' = [delivered EXCEPT ![Key(i)] = delivered[Key(i)] + 1]
                /\ dropped' = dropped
             \/ delivered' = delivered /\ dropped' = dropped \cup {Key(i)}
          /\ \A j \in Instances : j # i => pc'[j] = pc[j] /\ cur'[j] = cur[j]
      BY <1>10 DEF deliverStored, Outcome, ItemType, LoopType, dbVars
  <2> QED  BY <2>1, <2>2, DeliveryEnds
<1>11. ASSUME NEW i \in Instances, SaveScheduledNotificationRun(i) PROVE DeliveryInv' /\ DeliveredOnce'
  BY <1>11, DeliveryFrame DEF SaveScheduledNotificationRun, ItemType, LoopType, dbVars, procVars, history
<1>12. ASSUME NEW i \in Instances, SaveScheduledNotification(i) PROVE DeliveryInv' /\ DeliveredOnce'
  BY <1>12, DeliveryFrame DEF SaveScheduledNotification, ItemType, LoopType, dbVars, procVars, history
<1>13. ASSUME NEW i \in Instances, RunDueReturns(i) PROVE DeliveryInv' /\ DeliveredOnce'
  BY <1>13, DeliveryFrame DEF RunDueReturns, ItemType, LoopType, dbVars, procVars, history
<1>14. ASSUME NEW i \in Instances, ReleaseAutomationLease(i) PROVE DeliveryInv' /\ DeliveredOnce'
  BY <1>14, DeliveryFrame DEF ReleaseAutomationLease, ItemType, LoopType, dbVars, procVars, history
<1>15. ASSUME NEW i \in Instances, Crash(i) PROVE DeliveryInv' /\ DeliveredOnce'
  <2>1. CASE pc[i] = "deliver"
    <3>1. Key(i) \in Schedules \X Moments
      BY <1>15, <2>1, WorkingFacts DEF Working
    <3>2. /\ UNCHANGED messages /\ pc[i] = "deliver" /\ pc'[i] # "deliver"
          /\ \/ /\ delivered' = [delivered EXCEPT ![Key(i)] = delivered[Key(i)] + 1]
                /\ dropped' = dropped
             \/ delivered' = delivered /\ dropped' = dropped \cup {Key(i)}
          /\ \A j \in Instances : j # i => pc'[j] = pc[j] /\ cur'[j] = cur[j]
      BY <1>15, <2>1 DEF Crash, ItemType, LoopType, dbVars
    <3> QED  BY <3>1, <3>2, DeliveryEnds
  <2>2. CASE pc[i] # "deliver"
    BY <1>15, <2>2, DeliveryFrame DEF Crash, ItemType, LoopType, dbVars
  <2> QED  BY <2>1, <2>2
<1>16. ASSUME ClockTick PROVE DeliveryInv' /\ DeliveredOnce'
  BY <1>16, DeliveryFrame DEF ClockTick, dbVars, procVars, history
<1>17. ASSUME UNCHANGED vars PROVE DeliveryInv' /\ DeliveredOnce'
  BY <1>17, DeliveryFrame DEF vars, dbVars, procVars, history
<1> QED  BY <1>1, <1>2, <1>3, <1>4, <1>5, <1>6, <1>7, <1>8, <1>9, <1>10, <1>11, <1>12, <1>13, <1>14, <1>15, <1>16, <1>17 DEF Next, LoopNext, RunItem

\* Messages stay stored, so steps that bring no loop to saving a run and no
\* run to its end keep the run history true.
LEMMA RunFrame ==
    ASSUME RunInv, RunHistoryTruthful, messages \subseteq messages',
           \A r \in runs' : r \in runs \/ r.status = "running",
           \A j \in Instances :
               pc'[j] \in {"saveRun", "saveItem"} =>
                   pc[j] \in {"saveRun", "saveItem"} /\ cur'[j] = cur[j]
    PROVE  RunInv' /\ RunHistoryTruthful'
<1>1. \A k : Stored(k) => Stored(k)'
  BY DEF Stored
<1>2. RunHistoryTruthful'
  BY <1>1 DEF RunHistoryTruthful
<1>3. \A j \in Instances : cur'[j] = cur[j] => Key(j)' = Key(j)
  BY DEF Key, For
<1> QED  BY <1>1, <1>2, <1>3 DEF RunInv

\* The run history stays true.
LEMMA RunStep ==
    ASSUME TypeOK, LoopType, ItemType, ItemInv, DeliveryInv,
           RunInv, RunHistoryTruthful, [Next]_vars
    PROVE  RunInv' /\ RunHistoryTruthful'
<1>1. ASSUME NEW s \in Schedules, ApiNext(s) PROVE RunInv' /\ RunHistoryTruthful'
  <2>1. runs' \subseteq runs
    BY <1>1 DEF ApiNext, CreateSchedule, UpdateSave, SaveSchedule, UpdateRead, UpdateAbort,
             DeleteSchedule, dbVars
  <2> QED  BY <1>1, <2>1, ApiFrame, RunFrame DEF procVars
<1>2. ASSUME NEW i \in Instances, New(i) PROVE RunInv' /\ RunHistoryTruthful'
  BY <1>2, RunFrame DEF New, ItemType, LoopType, dbVars, procVars
<1>3. ASSUME NEW i \in Instances, TickerFires(i) PROVE RunInv' /\ RunHistoryTruthful'
  BY <1>3, RunFrame DEF TickerFires, ItemType, LoopType, dbVars, procVars
<1>4. ASSUME NEW i \in Instances, LeaseUpdate(i) PROVE RunInv' /\ RunHistoryTruthful'
  BY <1>4, RunFrame DEF LeaseUpdate, Take, NotTaken, ItemType, LoopType, dbVars, procVars
<1>5. ASSUME NEW i \in Instances, LeaseInsert(i) PROVE RunInv' /\ RunHistoryTruthful'
  BY <1>5, RunFrame DEF LeaseInsert, Take, NotTaken, ItemType, LoopType, dbVars, procVars
<1>6. ASSUME NEW i \in Instances, GetDueScheduledNotifications(i) PROVE RunInv' /\ RunHistoryTruthful'
  BY <1>6, RunFrame DEF GetDueScheduledNotifications, ItemType, LoopType, dbVars, procVars
<1>7. ASSUME NEW i \in Instances, CreateScheduledNotificationRun(i) PROVE RunInv' /\ RunHistoryTruthful'
  BY <1>7, RunFrame DEF CreateScheduledNotificationRun, ItemType, LoopType, dbVars, procVars
<1>8. ASSUME NEW i \in Instances, SkipMisfire(i) PROVE RunInv' /\ RunHistoryTruthful'
  <2>1. cur[i] \in Current
    BY <1>8, WorkingFacts DEF SkipMisfire, Working
  <2>2. /\ Key(i)' = Key(i) /\ cur'[i].status \in Statuses
        /\ \A j \in Instances : j # i => pc'[j] = pc[j] /\ cur'[j] = cur[j]
    BY <1>8, <2>1 DEF SkipMisfire, Current, Statuses, ItemType, LoopType, Key, For
  <2>3. \A k : Stored(k) => Stored(k)'
    BY <1>8 DEF SkipMisfire, StoreNew, StoreDuplicate, StoreError, Stored, dbVars
  <2>4. pc'[i] \in {"saveRun", "saveItem"} /\ cur'[i].status = "completed" => Stored(Key(i))
    BY <1>8, <2>1 DEF SkipMisfire, Current, ItemType, LoopType, DeliveryInv, Stored
  <2>5. \A j \in Instances : j # i => Key(j)' = Key(j)
    BY <2>2 DEF Key, For
  <2>6. RunInv'
    BY <2>2, <2>3, <2>4, <2>5 DEF RunInv
  <2>7. RunHistoryTruthful'
    BY <1>8, <2>3 DEF SkipMisfire, RunHistoryTruthful, dbVars
  <2> QED  BY <2>6, <2>7
<1>9. ASSUME NEW i \in Instances, CreateMessageOnce(i) PROVE RunInv' /\ RunHistoryTruthful'
  <2>1. cur[i] \in Current
    BY <1>9, WorkingFacts DEF CreateMessageOnce, Working
  <2>2. /\ Key(i)' = Key(i) /\ cur'[i].status \in Statuses
        /\ \A j \in Instances : j # i => pc'[j] = pc[j] /\ cur'[j] = cur[j]
    BY <1>9, <2>1 DEF CreateMessageOnce, StoreNew, StoreDuplicate, StoreError, Outcome, Current, Statuses, ItemType, LoopType, Key, For
  <2>3. \A k : Stored(k) => Stored(k)'
    BY <1>9 DEF CreateMessageOnce, StoreNew, StoreDuplicate, StoreError, Stored, dbVars
  <2>4. pc'[i] \in {"saveRun", "saveItem"} /\ cur'[i].status = "completed" => Stored(Key(i))
    BY <1>9, <2>1 DEF CreateMessageOnce, StoreNew, StoreDuplicate, StoreError, Outcome, Current, ItemType, LoopType, DeliveryInv, Stored
  <2>5. \A j \in Instances : j # i => Key(j)' = Key(j)
    BY <2>2 DEF Key, For
  <2>6. RunInv'
    BY <2>2, <2>3, <2>4, <2>5 DEF RunInv
  <2>7. RunHistoryTruthful'
    BY <1>9, <2>3 DEF CreateMessageOnce, RunHistoryTruthful, dbVars
  <2> QED  BY <2>6, <2>7
<1>10. ASSUME NEW i \in Instances, deliverStored(i) PROVE RunInv' /\ RunHistoryTruthful'
  <2>1. cur[i] \in Current
    BY <1>10, WorkingFacts DEF deliverStored, Working
  <2>2. /\ Key(i)' = Key(i) /\ cur'[i].status \in Statuses
        /\ \A j \in Instances : j # i => pc'[j] = pc[j] /\ cur'[j] = cur[j]
    BY <1>10, <2>1 DEF deliverStored, Outcome, Current, Statuses, ItemType, LoopType, Key, For
  <2>3. \A k : Stored(k) => Stored(k)'
    BY <1>10 DEF deliverStored, StoreNew, StoreDuplicate, StoreError, Stored, dbVars
  <2>4. pc'[i] \in {"saveRun", "saveItem"} /\ cur'[i].status = "completed" => Stored(Key(i))
    BY <1>10, <2>1 DEF deliverStored, Outcome, Current, ItemType, LoopType, DeliveryInv, Stored
  <2>5. \A j \in Instances : j # i => Key(j)' = Key(j)
    BY <2>2 DEF Key, For
  <2>6. RunInv'
    BY <2>2, <2>3, <2>4, <2>5 DEF RunInv
  <2>7. RunHistoryTruthful'
    BY <1>10, <2>3 DEF deliverStored, RunHistoryTruthful, dbVars
  <2> QED  BY <2>6, <2>7
<1>11. ASSUME NEW i \in Instances, SaveScheduledNotificationRun(i) PROVE RunInv' /\ RunHistoryTruthful'
  <2>1. cur[i].status = "completed" => Stored(Key(i))
    BY <1>11 DEF SaveScheduledNotificationRun, RunInv
  <2>2. RunRow(i, cur[i].status).status = cur[i].status
        /\ <<RunRow(i, cur[i].status).id, RunRow(i, cur[i].status).for>> = Key(i)
    BY DEF RunRow, Key
  <2>3. \A k : Stored(k)' <=> Stored(k)
    BY <1>11 DEF SaveScheduledNotificationRun, Stored
  <2>4. RunHistoryTruthful'
    BY <1>11, <2>1, <2>2, <2>3 DEF SaveScheduledNotificationRun, RunHistoryTruthful
  <2>5. \A j \in Instances : Key(j)' = Key(j) /\ cur'[j] = cur[j]
                          /\ (pc'[j] \in {"saveRun", "saveItem"} => pc[j] \in {"saveRun", "saveItem"})
    BY <1>11 DEF SaveScheduledNotificationRun, LoopType, Key, For
  <2> QED  BY <2>3, <2>4, <2>5 DEF RunInv
<1>12. ASSUME NEW i \in Instances, SaveScheduledNotification(i) PROVE RunInv' /\ RunHistoryTruthful'
  BY <1>12, RunFrame DEF SaveScheduledNotification, ItemType, LoopType, dbVars, procVars
<1>13. ASSUME NEW i \in Instances, RunDueReturns(i) PROVE RunInv' /\ RunHistoryTruthful'
  BY <1>13, RunFrame DEF RunDueReturns, ItemType, LoopType, dbVars, procVars
<1>14. ASSUME NEW i \in Instances, ReleaseAutomationLease(i) PROVE RunInv' /\ RunHistoryTruthful'
  BY <1>14, RunFrame DEF ReleaseAutomationLease, ItemType, LoopType, dbVars, procVars
<1>15. ASSUME NEW i \in Instances, Crash(i) PROVE RunInv' /\ RunHistoryTruthful'
  BY <1>15, RunFrame DEF Crash, ItemType, LoopType, dbVars, procVars
<1>16. ASSUME ClockTick PROVE RunInv' /\ RunHistoryTruthful'
  BY <1>16, RunFrame DEF ClockTick, dbVars, procVars
<1>17. ASSUME UNCHANGED vars PROVE RunInv' /\ RunHistoryTruthful'
  BY <1>17, RunFrame DEF vars, dbVars, procVars
<1> QED  BY <1>1, <1>2, <1>3, <1>4, <1>5, <1>6, <1>7, <1>8, <1>9, <1>10, <1>11, <1>12, <1>13, <1>14, <1>15, <1>16, <1>17 DEF Next, LoopNext, RunItem

-----------------------------------------------------------------------------
(* The theorems.                                                           *)

\* Two unexpired leases belong to one engine.
LEMMA LeaseExcludes ==
    ASSUME LeaseInv
    PROVE  ExclusiveLease
<1> SUFFICES ASSUME NEW i \in Instances, NEW j \in Instances,
                    pc[i] \in Active, expires[i] > clock,
                    pc[j] \in Active, expires[j] > clock
             PROVE  i = j
  BY DEF ExclusiveLease
<1>1. lease.holder = i /\ lease.holder = j
  BY DEF LeaseInv, Busy
<1> QED  BY <1>1

LEMMA InitInv == Init => IInv
<1> SUFFICES ASSUME Init PROVE IInv
  OBVIOUS
<1>1. LoopType /\ LeaseType
  BY DEF Init, LoopType, LeaseType
<1>2. RowType /\ ItemType
  BY DEF Init, RowType, ItemType, Working
<1>3. HistoryType
  BY DEF Init, HistoryType
<1>4. ItemInv
  BY DEF Init, ItemInv, RowsInv, LoopsInv, Active, Working
<1>5. LeaseInv
  BY <1>1, MomentFacts DEF Init, LeaseInv, LoopType, Busy, Active, Working, NoTime
<1>6. DeliveryInv /\ DeliveredOnce
  BY DEF Init, DeliveryInv, DeliveredOnce, Stored
<1>7. RunInv /\ RunHistoryTruthful
  BY DEF Init, RunInv, RunHistoryTruthful
<1> QED  BY <1>1, <1>2, <1>3, <1>4, <1>5, <1>6, <1>7, LeaseExcludes DEF IInv, TypeOK

\* IInv holds of every state: engines that crash, close and overlap, failing
\* database calls and concurrent edits keep all its parts.
THEOREM Invariance == Spec => []IInv
<1>1. IInv /\ [Next]_vars => IInv'
  <2> SUFFICES ASSUME IInv, [Next]_vars PROVE IInv'
    OBVIOUS
  <2>1. LoopType /\ LeaseType /\ RowType /\ ItemType /\ HistoryType
    BY DEF IInv, TypeOK
  <2>2. TypeOK /\ ItemInv /\ LeaseInv /\ DeliveryInv /\ DeliveredOnce /\ RunInv /\ RunHistoryTruthful
    BY DEF IInv
  <2>3. TypeOK'
    BY <2>1, <2>2, LoopTypeStep, LeaseTypeStep, RowTypeStep, ItemTypeStep, HistoryTypeStep DEF TypeOK
  <2>4. ItemInv'
    BY <2>1, <2>2, ItemStep
  <2>5. LeaseInv'
    BY <2>1, <2>2, LeaseStep
  <2>6. ExclusiveLease'
    BY <2>5, LeaseExcludes, PTL
  <2>7. DeliveryInv' /\ DeliveredOnce'
    BY <2>1, <2>2, DeliveryStep
  <2>8. RunInv' /\ RunHistoryTruthful'
    BY <2>1, <2>2, RunStep
  <2> QED  BY <2>3, <2>4, <2>5, <2>6, <2>7, <2>8 DEF IInv
<1> QED  BY <1>1, InitInv, PTL DEF Spec

\* Rows, leases and the loops' variables keep their types; in particular every
\* next run that is written is a moment of the definition or a retry.
THEOREM TypeCorrect == Spec => []TypeOK
<1>1. IInv => TypeOK
  BY DEF IInv
<1> QED  BY <1>1, Invariance, PTL

\* TryAcquireAutomationLease never leaves two engines at work on leases that
\* have not expired, whatever old ticks they use and however they end.
THEOREM LeaseIsExclusive == Spec => []ExclusiveLease
<1>1. IInv => ExclusiveLease
  BY DEF IInv
<1> QED  BY <1>1, Invariance, PTL

\* storeAndDeliver hands a stored message to its recipients once, although runs
\* are repeated by overlapping engines and after crashes.
THEOREM MessageDeliveredOnce == Spec => []DeliveredOnce
<1>1. IInv => DeliveredOnce
  BY DEF IInv
<1> QED  BY <1>1, Invariance, PTL

\* A run recorded as completed has its message in the database.
THEOREM HistoryTruthful == Spec => []RunHistoryTruthful
<1>1. IInv => RunHistoryTruthful
  BY DEF IInv
<1> QED  BY <1>1, Invariance, PTL

-----------------------------------------------------------------------------
(* The occurrences of a definition that have a turn. A run that is over is  *)
(* followed by the first occurrence more than a second later, so that one   *)
(* which follows within a second has no turn of its own.                    *)

FirstAfter(def, t, o) == o > t /\ \A p \in def.occ : p > t => o <= p

Closed(def, since, T) ==
    /\ \A o \in def.occ : FirstAfter(def, since, o) => o \in T
    /\ \A t \in T, o \in def.occ : FirstAfter(def, t + 1, o) => o \in T

Trail(def, since) == {o \in def.occ : \A T \in SUBSET def.occ : Closed(def, since, T) => o \in T}

\* A set that has the first turn and with each turn the next has them all.
LEMMA TrailInduction ==
    ASSUME NEW def \in Defs, NEW since \in Nat, NEW T \in SUBSET def.occ, Closed(def, since, T)
    PROVE  Trail(def, since) \subseteq T
  BY DEF Trail

\* The turns are such a set.
LEMMA TrailGrows ==
    ASSUME NEW def \in Defs, NEW since \in Nat
    PROVE  /\ \A o \in def.occ : FirstAfter(def, since, o) => o \in Trail(def, since)
           /\ \A t \in Trail(def, since), o \in def.occ : FirstAfter(def, t + 1, o) => o \in Trail(def, since)
  BY DEF Trail, Closed

\* Occurrences are natural numbers.
LEMMA OccurrencesAreNat == \A def \in Defs : def.occ \subseteq Nat
  BY SchedulerAssumption

\* Turns come after the definition was written, and not before its first.
LEMMA TrailAfter ==
    ASSUME NEW def \in Defs, NEW since \in Nat, NEW o \in Trail(def, since)
    PROVE  o \in def.occ /\ o \in Nat /\ o > since
<1>1. def.occ \subseteq Nat
  BY OccurrencesAreNat
<1> DEFINE T == {p \in def.occ : p > since}
<1>2. Closed(def, since, T)
  <2>1. \A t \in T, p \in def.occ : FirstAfter(def, t + 1, p) => p \in T
    BY <1>1 DEF FirstAfter
  <2> QED  BY <2>1 DEF Closed, FirstAfter
<1>3. Trail(def, since) \subseteq T
  BY <1>2, TrailInduction
<1> QED  BY <1>1, <1>3

\* No turn comes within a second after another.
LEMMA TrailGap ==
    ASSUME NEW def \in Defs, NEW since \in Nat,
           NEW p \in Trail(def, since), NEW q \in Trail(def, since), p < q
    PROVE  p + 1 < q
<1> DEFINE All == Trail(def, since)
<1>1. All \subseteq def.occ /\ def.occ \subseteq Nat /\ \A t \in All : t > since
  BY OccurrencesAreNat, TrailAfter
<1> DEFINE Apart(c) == \A t \in All : t < c => t + 1 < c
<1>2. ASSUME NEW c \in All, Apart(c) PROVE All \subseteq {t \in All : t <= c \/ c + 1 < t}
  <2> DEFINE T == {t \in All : t <= c \/ c + 1 < t}
  <2>1. ASSUME NEW o \in def.occ, FirstAfter(def, since, o) PROVE o \in T
    <3>1. o \in All
      BY <2>1, TrailGrows
    <3>2. o <= c
      BY <1>1, <2>1 DEF FirstAfter
    <3> QED  BY <3>1, <3>2
  <2>2. ASSUME NEW t \in T, NEW o \in def.occ, FirstAfter(def, t + 1, o) PROVE o \in T
    <3>1. o \in All
      BY <2>2, TrailGrows
    <3>2. CASE t < c
      <4>1. t + 1 < c
        BY <1>2, <3>2
      <4>2. o <= c
        BY <1>1, <2>2, <4>1 DEF FirstAfter
      <4> QED  BY <3>1, <4>2
    <3>3. CASE ~(t < c)
      <4>1. c + 1 < o
        BY <1>1, <2>2, <3>3 DEF FirstAfter
      <4> QED  BY <3>1, <4>1
    <3> QED  BY <3>2, <3>3
  <2>3. T \in SUBSET def.occ
    BY <1>1
  <2>4. Closed(def, since, T)
    BY <2>1, <2>2 DEF Closed
  <2> QED  BY <2>3, <2>4, TrailInduction
<1> DEFINE T == {c \in All : Apart(c)}
<1>3. ASSUME NEW o \in def.occ, FirstAfter(def, since, o) PROVE o \in T
  <2>1. o \in All
    BY <1>3, TrailGrows
  <2>2. \A t \in All : ~(t < o)
    BY <1>1, <1>3 DEF FirstAfter
  <2> QED  BY <2>1, <2>2
<1>4. ASSUME NEW c \in T, NEW o \in def.occ, FirstAfter(def, c + 1, o) PROVE o \in T
  <2>1. o \in All
    BY <1>4, TrailGrows
  <2>2. \A t \in All : t <= c \/ c + 1 < t
    BY <1>2
  <2>3. ASSUME NEW t \in All, t < o PROVE t + 1 < o
    BY <1>1, <1>4, <2>2, <2>3 DEF FirstAfter
  <2> QED  BY <2>1, <2>3
<1>5. T \in SUBSET def.occ
  BY <1>1
<1>6. Closed(def, since, T)
  BY <1>3, <1>4 DEF Closed
<1>7. All \subseteq T
  BY <1>5, <1>6, TrailInduction
<1> QED  BY <1>7

\* What NextScheduleRun answers.
LEMMA NextRunFacts ==
    ASSUME NEW def \in Defs, NEW runCount \in Nat, NEW t \in Int
    PROVE  LET next == NextScheduleRun(def, runCount, t)
           IN  \/ next \in def.occ /\ FirstAfter(def, t, next)
                    /\ ~(def.maxRuns > 0 /\ runCount >= def.maxRuns)
               \/ next = NoTime /\ def.maxRuns > 0 /\ runCount >= def.maxRuns
               \/ next = NoTime /\ \A o \in def.occ : ~(o > t)
<1> DEFINE later == {o \in def.occ : o > t}
<1>1. def.occ \subseteq Nat
  BY OccurrencesAreNat
<1>2. ASSUME later # {}
      PROVE  LET o == CHOOSE x \in later : \A p \in later : x <= p
             IN  o \in later /\ \A p \in later : o <= p
  <2>1. \E o \in later : \A p \in later : o <= p
    BY <1>1, <1>2, LeastElement
  <2> QED  BY <2>1
<1>3. CASE (def.maxRuns > 0 /\ runCount >= def.maxRuns) \/ later = {}
  BY <1>3 DEF NextScheduleRun
<1>4. CASE ~((def.maxRuns > 0 /\ runCount >= def.maxRuns) \/ later = {})
  <2>1. NextScheduleRun(def, runCount, t) = CHOOSE x \in later : \A p \in later : x <= p
    BY <1>4 DEF NextScheduleRun
  <2> QED  BY <1>2, <1>4, <2>1 DEF FirstAfter
<1> QED  BY <1>3, <1>4

\* Every occurrence since the definition was written has a turn, or the one a
\* second before it has.
LEMMA TrailCovers ==
    ASSUME NEW def \in Defs, NEW since \in Nat, NEW o \in def.occ, o > since
    PROVE  \E q \in Trail(def, since) : o \in {q, q + 1}
<1> DEFINE All == Trail(def, since)
<1>1. All \subseteq def.occ /\ def.occ \subseteq Nat /\ \A t \in All : t > since
  BY OccurrencesAreNat, TrailAfter
<1>2. PICK f \in def.occ : FirstAfter(def, since, f)
  <2>1. PICK f \in {p \in def.occ : p > since} : \A p \in {p \in def.occ : p > since} : f <= p
    BY <1>1, LeastElement
  <2> QED  BY <2>1 DEF FirstAfter
<1>3. f \in All /\ f <= o
  BY <1>2, TrailGrows DEF FirstAfter
<1> DEFINE Below == {t \in All : t <= o}
<1>4. PICK q \in Below : \A t \in Below : t <= q
  <2> DEFINE Gaps == {o - t : t \in Below}
  <2>1. Gaps \subseteq Nat /\ Gaps # {}
    BY <1>1, <1>3
  <2>2. PICK g \in Gaps : \A h \in Gaps : g <= h
    <3> HIDE DEF Gaps
    <3> QED  BY <2>1, LeastElement
  <2>3. PICK t \in Below : g = o - t
    BY <2>2
  <2>4. \A u \in Below : u <= t
    BY <1>1, <2>2, <2>3
  <2> QED  BY <2>4
<1>5. SUFFICES ASSUME q + 1 < o PROVE FALSE
  BY <1>1, <1>4
<1>6. PICK n \in def.occ : FirstAfter(def, q + 1, n)
  <2>1. PICK n \in {p \in def.occ : p > q + 1} : \A p \in {p \in def.occ : p > q + 1} : n <= p
    BY <1>1, <1>5, LeastElement
  <2> QED  BY <2>1 DEF FirstAfter
<1>7. n \in All /\ n <= o /\ n > q
  BY <1>1, <1>4, <1>5, <1>6, TrailGrows DEF FirstAfter
<1> QED  BY <1>1, <1>4, <1>7
-----------------------------------------------------------------------------
(* Occurrences have their turn. A row is known while it is in the database *)
(* or an engine has it in hand: an engine that was overtaken writes back   *)
(* what it loaded, so that every known row can become the stored one. What *)
(* the invariant says of the stored row it must say of all known ones.     *)

KnownRows(s) ==
    ({row[s]} \ {NoRow})
        \cup {x.item : x \in {y \in UNION {todo[i] : i \in Instances} : y.id = s}}
        \cup {cur[i].item : i \in {j \in Instances : pc[j] \in Working /\ cur[j].id = s}}

\* A turn is over when its message is stored or it was written off.
Over(s, ver, q) == Stored(<<s, q>>) \/ [id |-> s, for |-> q, ver |-> ver] \in skipped

Limited(r) == r.def.maxRuns > 0 /\ r.runCount >= r.def.maxRuns

Before(r, q) == IF r.occ = NoTime THEN ~Limited(r) ELSE q < r.occ

\* A row stands at a turn of its definition; the turns before it are over, and
\* it has counted the messages sent for them.
RowKeepsTurns(s, r) ==
    /\ r.ver <= edits
    /\ r.next = r.occ
    /\ r.occ # NoTime => r.occ \in Trail(r.def, r.since) /\ ~Limited(r)
    /\ \A q \in Trail(r.def, r.since) : Before(r, q) => Over(s, r.ver, q)
    /\ r.occ # NoTime => Cardinality({m \in Sent(s, r.ver) : m.occ < r.occ}) <= r.runCount

\* A message was sent for a turn of its definition, and those before are over.
MessageKeepsTurns(s, r, m) ==
    m.id = s /\ m.ver = r.ver =>
        /\ m.def = r.def
        /\ m.occ \in Trail(r.def, r.since)
        /\ \A q \in Trail(r.def, r.since) : q < m.occ => Over(s, r.ver, q)

RowsKeepTurns ==
    \A s \in Schedules : \A r \in KnownRows(s) :
        /\ RowKeepsTurns(s, r)
        /\ \A m \in messages : MessageKeepsTurns(s, r, m)
        /\ \A t \in KnownRows(s) : r.ver = t.ver => r.def = t.def /\ r.since = t.since

MessagesKeepTurns ==
    /\ IsFiniteSet(messages)
    /\ \A m \in messages : m.for = m.occ /\ m.ver <= edits
    /\ \A m, n \in messages : m.id = n.id /\ m.ver = n.ver => m.def = n.def
    /\ MaxRunsRespected

\* No run fails between the store and the save; one that ends as a misfire is
\* recorded as such.
RunsEnd ==
    \A i \in Instances :
        pc[i] \in {"saveRun", "saveItem"} =>
            /\ cur[i].status # "failed"
            /\ cur[i].status = "skipped" =>
                   [id |-> cur[i].id, for |-> For(i), ver |-> cur[i].item.ver] \in skipped

TurnsInv == MessagesKeepTurns /\ RowsKeepTurns /\ RunsEnd

\* The calls whose error makes storeAndDeliver fail and the run be retried under
\* another time, which sends its message again, do not fail.
QuietStore == "store" \notin FailingCalls /\ "recipients" \notin FailingCalls

\* What the prover needs of KnownRows: where a known row is.
LEMMA KnownWhere ==
    ASSUME NEW s
    PROVE  \A r : r \in KnownRows(s) <=>
             \/ r = row[s] /\ r # NoRow
             \/ \E i \in Instances : \E x \in todo[i] : x.id = s /\ x.item = r
             \/ \E i \in Instances : pc[i] \in Working /\ cur[i].id = s /\ cur[i].item = r
BY DEF KnownRows

\* Known rows have the type of rows.
LEMMA KnownAreRows ==
    ASSUME TypeOK, NEW s \in Schedules, NEW r \in KnownRows(s)
    PROVE  /\ r \in Rows /\ r.def \in Defs /\ r.since \in Nat /\ r.ver \in Nat \ {0} /\ r.runCount \in Nat
           /\ r.occ \in Moments \cup {NoTime} /\ r.next \in Moments \cup {NoTime}
<1>1. r \in Rows
  <2>1. \A i \in Instances : \A x \in todo[i] : x.item \in Rows
    BY DEF TypeOK, ItemType, Items
  <2>2. \A i \in Instances : pc[i] \in Working => cur[i].item \in Rows
    BY DEF TypeOK, ItemType, Current
  <2>3. row[s] \in Rows \cup {NoRow}
    BY DEF TypeOK, RowType
  <2> QED  BY <2>1, <2>2, <2>3, KnownWhere
<1> QED  BY <1>1, MomentFacts DEF Rows

\* A step that writes no row makes none known that was not.
LEMMA KnownShrinks ==
    ASSUME row' = row,
           \A i \in Instances : \A x \in todo'[i] : x \in todo[i] \/ (x.item = row[x.id] /\ x.item # NoRow),
           \A i \in Instances : pc'[i] \in Working =>
               \/ pc[i] \in Working /\ cur'[i].id = cur[i].id /\ cur'[i].item = cur[i].item
               \/ \E x \in todo[i] : cur'[i].id = x.id /\ cur'[i].item = x.item
    PROVE  \A s : KnownRows(s)' \subseteq KnownRows(s)
<1> SUFFICES ASSUME NEW s, NEW r \in KnownRows(s)' PROVE r \in KnownRows(s)
  OBVIOUS
<1>1. \/ r = row'[s] /\ r # NoRow
      \/ \E i \in Instances : \E x \in todo'[i] : x.id = s /\ x.item = r
      \/ \E i \in Instances : pc'[i] \in Working /\ cur'[i].id = s /\ cur'[i].item = r
  BY KnownWhere DEF KnownRows
<1>2. CASE r = row'[s] /\ r # NoRow
  BY <1>2, KnownWhere
<1>3. CASE \E i \in Instances : \E x \in todo'[i] : x.id = s /\ x.item = r
  BY <1>3, KnownWhere
<1>4. CASE \E i \in Instances : pc'[i] \in Working /\ cur'[i].id = s /\ cur'[i].item = r
  BY <1>4, KnownWhere
<1> QED  BY <1>1, <1>2, <1>3, <1>4

\* What is over stays over, and so a step that sends nothing and makes no row
\* known keeps what the invariant says of messages and rows.
LEMMA TurnsFrame ==
    ASSUME TypeOK, MessagesKeepTurns, RowsKeepTurns,
           messages' = messages, skipped' = skipped, edits' \in Nat, edits <= edits',
           \A s \in Schedules : KnownRows(s)' \subseteq KnownRows(s)
    PROVE  MessagesKeepTurns' /\ RowsKeepTurns'
<1>1. \A s, v : Sent(s, v)' = Sent(s, v)
  BY DEF Sent, WrittenOff
<1>2. \A s, v, q : Over(s, v, q)' <=> Over(s, v, q)
  BY DEF Over, Stored
<1>3. edits \in Nat /\ \A m \in messages : m.ver \in Nat
  BY DEF TypeOK, HistoryType, RowType, Messages
<1>4. MessagesKeepTurns'
  BY <1>1, <1>3 DEF MessagesKeepTurns, MaxRunsRespected
<1>5. ASSUME NEW s \in Schedules, NEW r \in KnownRows(s), RowKeepsTurns(s, r)
      PROVE  RowKeepsTurns(s, r)'
  <2>1. r.ver \in Nat
    BY KnownAreRows
  <2>2. r.ver <= edits'
    BY <1>3, <1>5, <2>1 DEF RowKeepsTurns
  <2> QED  BY <1>1, <1>2, <1>5, <2>2 DEF RowKeepsTurns
<1>6. ASSUME NEW s \in Schedules, NEW r \in KnownRows(s), NEW m \in messages, MessageKeepsTurns(s, r, m)
      PROVE  MessageKeepsTurns(s, r, m)'
  BY <1>2, <1>6 DEF MessageKeepsTurns
<1>7. RowsKeepTurns'
  BY <1>5, <1>6 DEF RowsKeepTurns
<1> QED  BY <1>4, <1>7

\* The same when one more row becomes known, if it keeps its turns too.
LEMMA OneMoreRow ==
    ASSUME TypeOK, MessagesKeepTurns, RowsKeepTurns,
           messages' = messages, skipped' = skipped, edits' \in Nat, edits <= edits',
           NEW s \in Schedules, NEW n, RowKeepsTurns(s, n)',
           \A m \in messages : MessageKeepsTurns(s, n, m),
           \A t \in KnownRows(s) : n.ver = t.ver => n.def = t.def /\ n.since = t.since,
           \A u \in Schedules : KnownRows(u)' \subseteq KnownRows(u) \cup {x \in {n} : u = s}
    PROVE  MessagesKeepTurns' /\ RowsKeepTurns'
<1>1. \A u, v : Sent(u, v)' = Sent(u, v)
  BY DEF Sent, WrittenOff
<1>2. \A u, v, q : Over(u, v, q)' <=> Over(u, v, q)
  BY DEF Over, Stored
<1>3. edits \in Nat /\ \A m \in messages : m.ver \in Nat
  BY DEF TypeOK, HistoryType, RowType, Messages
<1>4. MessagesKeepTurns'
  BY <1>1, <1>3 DEF MessagesKeepTurns, MaxRunsRespected
<1>5. ASSUME NEW u \in Schedules, NEW r \in KnownRows(u), RowKeepsTurns(u, r)
      PROVE  RowKeepsTurns(u, r)'
  <2>1. r.ver \in Nat
    BY KnownAreRows
  <2>2. r.ver <= edits'
    BY <1>3, <1>5, <2>1 DEF RowKeepsTurns
  <2> QED  BY <1>1, <1>2, <1>5, <2>2 DEF RowKeepsTurns
<1>6. ASSUME NEW u, NEW r, NEW m \in messages, MessageKeepsTurns(u, r, m)
      PROVE  MessageKeepsTurns(u, r, m)'
  BY <1>2, <1>6 DEF MessageKeepsTurns
<1>7. \A u \in Schedules : \A r \in KnownRows(u)' : RowKeepsTurns(u, r)'
  BY <1>5 DEF RowsKeepTurns
<1>8. \A u \in Schedules : \A r \in KnownRows(u)' : \A m \in messages' : MessageKeepsTurns(u, r, m)'
  BY <1>6 DEF RowsKeepTurns
<1>9. \A u \in Schedules : \A r \in KnownRows(u)' : \A t \in KnownRows(u)' :
          r.ver = t.ver => r.def = t.def /\ r.since = t.since
  BY DEF RowsKeepTurns
<1> QED  BY <1>4, <1>7, <1>8, <1>9 DEF RowsKeepTurns

\* A definition that is saved is a version of its own and stands at its first
\* turn, if it has one.
LEMMA ScheduleSaved ==
    ASSUME TypeOK, MessagesKeepTurns, RowsKeepTurns,
           NEW s \in Schedules, NEW def \in Defs, NEW enabled \in BOOLEAN,
           SaveSchedule(s, def, enabled)
    PROVE  MessagesKeepTurns' /\ RowsKeepTurns'
<1> DEFINE next == NextScheduleRun(def, 0, clock)
<1>1. PICK n : n = [def |-> def, enabled |-> enabled, next |-> next, runCount |-> 0,
                    ver |-> edits + 1, since |-> clock, occ |-> next]
  OBVIOUS
<1>2. /\ n.def = def /\ n.next = next /\ n.occ = next /\ n.runCount = 0
      /\ n.ver = edits + 1 /\ n.since = clock
  BY <1>1
<1>3. /\ row' = [row EXCEPT ![s] = n] /\ edits' = edits + 1
      /\ messages' = messages /\ skipped' = skipped /\ pc' = pc /\ todo' = todo /\ cur' = cur
  BY <1>1 DEF SaveSchedule, procVars, history
<1>4. edits \in Nat /\ clock \in Nat /\ def.maxRuns \in Nat /\ def.occ \subseteq Nat
  BY OccurrencesAreNat, MomentFacts, SchedulerAssumption DEF TypeOK, HistoryType, LoopType
<1>5. \A u \in Schedules : KnownRows(u)' \subseteq KnownRows(u) \cup {x \in {n} : u = s}
  <2>1. row'[s] = n /\ \A u \in Schedules : u # s => row'[u] = row[u]
    BY <1>3 DEF TypeOK, RowType
  <2> QED  BY <1>3, <2>1 DEF KnownRows
<1>6. \/ next \in def.occ /\ FirstAfter(def, clock, next)
      \/ next = NoTime /\ \A o \in def.occ : ~(o > clock)
  BY <1>4, NextRunFacts
<1>7. \A m \in messages : m.ver # n.ver
  BY <1>2, <1>4 DEF MessagesKeepTurns, TypeOK, RowType, Messages
<1>8. ASSUME NEW t \in KnownRows(s) PROVE t.ver # n.ver
  <2>1. t.ver \in Nat
    BY KnownAreRows
  <2>2. t.ver <= edits
    BY DEF RowsKeepTurns, RowKeepsTurns
  <2> QED  BY <1>2, <1>4, <2>1, <2>2
<1> HIDE DEF next
<1>9. RowKeepsTurns(s, n)'
  <2>1. next # NoTime => next \in Trail(def, clock) /\ ~Limited(n)
    BY <1>2, <1>4, <1>6, TrailGrows DEF Limited
  <2>2. ASSUME NEW q \in Trail(def, clock) PROVE ~Before(n, q)
    <3>1. q \in def.occ /\ q \in Nat /\ q > clock
      BY <1>4, TrailAfter
    <3>2. next # NoTime /\ next \in def.occ /\ next <= q
      BY <1>4, <1>6, <3>1 DEF FirstAfter, NoTime
    <3> QED  BY <1>2, <1>4, <3>1, <3>2 DEF Before
  <2>3. \A m \in Sent(s, n.ver)' : FALSE
    BY <1>3, <1>7 DEF Sent
  <2>4. {m \in Sent(s, n.ver)' : m.occ < n.occ} = {}
    BY <2>3
  <2>5. Cardinality({m \in Sent(s, n.ver)' : m.occ < n.occ}) <= n.runCount
    BY <1>2, <2>4, FS_EmptySet
  <2>6. n.ver <= edits' /\ n.next = n.occ
    BY <1>2, <1>3, <1>4
  <2> QED  BY <1>2, <2>1, <2>2, <2>5, <2>6 DEF RowKeepsTurns
<1> QED  BY <1>3, <1>4, <1>5, <1>7, <1>8, <1>9, OneMoreRow DEF MessageKeepsTurns

\* The row a turn leaves behind: of the same definition, at the turn after it.
MovesOn(r, n, counted) ==
    /\ n.def = r.def /\ n.since = r.since /\ n.ver = r.ver
    /\ n.runCount = r.runCount + (IF counted THEN 1 ELSE 0)
    /\ n.next = n.occ
    /\ n.occ # NoTime => n.occ \in Trail(r.def, r.since) /\ ~Limited(n)
    /\ \A q \in Trail(r.def, r.since) : Before(n, q) => q <= r.occ

\* What a row that moves keeps.
LEMMA ScheduledFields ==
    ASSUME NEW r \in Rows, NEW x
    PROVE  /\ Scheduled(r, x).def = r.def /\ Scheduled(r, x).since = r.since
           /\ Scheduled(r, x).ver = r.ver /\ Scheduled(r, x).runCount = r.runCount
           /\ Scheduled(r, x).next = x /\ Scheduled(r, x).occ = x
BY DEF Scheduled, Rows

\* The first occurrence more than a second after a turn is the turn after it.
LEMMA TurnAfter ==
    ASSUME NEW r \in Rows, r.occ \in Trail(r.def, r.since), r.next = r.occ,
           NEW k \in Nat, NEW x, x = NextScheduleRun(r.def, k, r.next + 1)
    PROVE  /\ x # NoTime => x \in Trail(r.def, r.since) /\ ~(r.def.maxRuns > 0 /\ k >= r.def.maxRuns)
           /\ ~(r.def.maxRuns > 0 /\ k >= r.def.maxRuns) =>
                 \A q \in Trail(r.def, r.since) : x = NoTime \/ q < x => q <= r.occ
<1>1. r.def \in Defs /\ r.since \in Nat
  BY MomentFacts DEF Rows
<1>2. r.occ \in Nat /\ r.def.occ \subseteq Nat /\ r.def.maxRuns \in Nat
  BY <1>1, TrailAfter, OccurrencesAreNat, SchedulerAssumption
<1>3. \/ x \in r.def.occ /\ FirstAfter(r.def, r.occ + 1, x) /\ ~(r.def.maxRuns > 0 /\ k >= r.def.maxRuns)
      \/ x = NoTime /\ r.def.maxRuns > 0 /\ k >= r.def.maxRuns
      \/ x = NoTime /\ \A o \in r.def.occ : ~(o > r.occ + 1)
  <2>1. PICK t \in Int : t = r.occ + 1
    BY <1>2
  <2>2. x = NextScheduleRun(r.def, k, t)
    BY <2>1
  <2> QED  BY <1>1, <2>1, <2>2, NextRunFacts
<1>4. x # NoTime => x \in Trail(r.def, r.since) /\ ~(r.def.maxRuns > 0 /\ k >= r.def.maxRuns)
  BY <1>1, <1>3, TrailGrows
<1>5. ASSUME ~(r.def.maxRuns > 0 /\ k >= r.def.maxRuns),
             NEW q \in Trail(r.def, r.since), x = NoTime \/ q < x
      PROVE  q <= r.occ
  <2>1. q \in r.def.occ /\ q \in Nat
    BY <1>1, TrailAfter
  <2>2. ASSUME ~(q <= r.occ) PROVE FALSE
    <3>1. r.occ + 1 < q
      BY <1>1, <1>2, <2>1, <2>2, TrailGap
    <3> QED  BY <1>2, <1>3, <1>5, <2>1, <3>1 DEF FirstAfter, NoTime
  <2> QED  BY <2>2
<1> QED  BY <1>4, <1>5

\* A misfire moves on without counting.
LEMMA SkippedMovesOn ==
    ASSUME NEW r \in Rows, r.occ \in Trail(r.def, r.since), r.next = r.occ, ~Limited(r)
    PROVE  MovesOn(r, Skipped(r), FALSE)
<1>1. PICK x : x = NextScheduleRun(r.def, r.runCount, r.next + 1)
  OBVIOUS
<1>2. r.runCount \in Nat
  BY DEF Rows
<1>3. Skipped(r) = Scheduled(r, x)
  BY <1>1 DEF Skipped
<1>4. PICK n : n = Skipped(r)
  OBVIOUS
<1>5. /\ n.def = r.def /\ n.since = r.since /\ n.ver = r.ver /\ n.runCount = r.runCount
      /\ n.next = x /\ n.occ = x
  BY <1>3, <1>4, ScheduledFields
<1>6. /\ x # NoTime => x \in Trail(r.def, r.since)
      /\ \A q \in Trail(r.def, r.since) : x = NoTime \/ q < x => q <= r.occ
  BY <1>1, <1>2, TurnAfter DEF Limited
<1>7. ~Limited(n)
  BY <1>5 DEF Limited
<1> QED  BY <1>2, <1>4, <1>5, <1>6, <1>7 DEF MovesOn, Before

\* A completed run counts, and ends a definition that runs once or has reached
\* its maximum.
LEMMA CompletedMovesOn ==
    ASSUME NEW r \in Rows, r.occ \in Trail(r.def, r.since), r.next = r.occ, ~Limited(r)
    PROVE  MovesOn(r, Completed(r), TRUE)
<1>1. PICK z : z = [r EXCEPT !.runCount = @ + 1]
  OBVIOUS
<1>2. r.runCount \in Nat
  BY DEF Rows
<1>3. /\ z \in Rows /\ z.runCount = r.runCount + 1 /\ z.runCount \in Nat
      /\ z.def = r.def /\ z.since = r.since /\ z.ver = r.ver /\ z.next = r.next /\ z.occ = r.occ
  BY <1>1, <1>2 DEF Rows
<1>4. PICK y : y = NextScheduleRun(r.def, z.runCount, r.next + 1)
  OBVIOUS
<1>5. PICK last \in BOOLEAN : last = (r.def.once \/ (r.def.maxRuns > 0 /\ z.runCount >= r.def.maxRuns))
  OBVIOUS
<1>6. PICK x : x = IF r.def.once \/ (r.def.maxRuns > 0 /\ z.runCount >= r.def.maxRuns)
                   THEN NoTime ELSE y
  OBVIOUS
<1>7. PICK n : n = Completed(r)
  OBVIOUS
<1>8. n = Scheduled(z, x)
  BY <1>1, <1>4, <1>6, <1>7 DEF Completed
<1>9. /\ n.def = r.def /\ n.since = r.since /\ n.ver = r.ver /\ n.runCount = r.runCount + 1
      /\ n.next = x /\ n.occ = x
  BY <1>3, <1>8, ScheduledFields
<1>10. Limited(n) <=> r.def.maxRuns > 0 /\ z.runCount >= r.def.maxRuns
  BY <1>3, <1>9 DEF Limited
<1>11. /\ y # NoTime => y \in Trail(r.def, r.since) /\ ~Limited(n)
       /\ ~Limited(n) => \A q \in Trail(r.def, r.since) : y = NoTime \/ q < y => q <= r.occ
  <2>1. y = NextScheduleRun(r.def, z.runCount, r.next + 1) /\ z.runCount \in Nat
    BY <1>3, <1>4
  <2> QED  BY <1>10, <2>1, TurnAfter
<1>12. x # NoTime => x \in Trail(r.def, r.since) /\ ~Limited(n)
  BY <1>6, <1>11
<1>13. ASSUME NEW q \in Trail(r.def, r.since), Before(n, q) PROVE q <= r.occ
  <2>1. r.def \in Defs /\ r.since \in Nat
    BY MomentFacts DEF Rows
  <2>2. q \in r.def.occ /\ q \in Nat /\ r.occ \in r.def.occ
    BY <2>1, TrailAfter
  <2>3. CASE last /\ r.def.once
    <3>1. q = r.occ
      BY <2>1, <2>2, <2>3, SchedulerAssumption
    <3> QED  BY <2>2, <3>1
  <2>4. CASE last /\ ~r.def.once
    BY <1>5, <1>6, <1>9, <1>10, <1>13, <2>4 DEF Before
  <2>5. CASE ~last
    BY <1>5, <1>6, <1>9, <1>10, <1>11, <1>13, <2>5 DEF Before
  <2> QED  BY <2>3, <2>4, <2>5
<1> QED  BY <1>2, <1>7, <1>9, <1>12, <1>13 DEF MovesOn

\* A row in hand is a known row that stands at the turn it runs.
LEMMA InHand ==
    ASSUME TypeOK, ItemInv, RowsKeepTurns, NEW i \in Instances, pc[i] \in Working
    PROVE  /\ cur[i].id \in Schedules /\ cur[i].item \in KnownRows(cur[i].id)
           /\ cur[i].item \in Rows /\ cur[i].item.def \in Defs /\ cur[i].item.since \in Nat
           /\ cur[i].item.runCount \in Nat
           /\ RowKeepsTurns(cur[i].id, cur[i].item)
           /\ For(i) = cur[i].item.occ /\ cur[i].item.next = cur[i].item.occ /\ cur[i].item.occ \in Nat
           /\ cur[i].item.occ \in Trail(cur[i].item.def, cur[i].item.since) /\ ~Limited(cur[i].item)
<1>1. cur[i].id \in Schedules /\ cur[i].item.occ \in Moments
  BY WorkingFacts
<1>2. cur[i].item \in KnownRows(cur[i].id)
  BY KnownWhere
<1>3. RowKeepsTurns(cur[i].id, cur[i].item)
  BY <1>1, <1>2 DEF RowsKeepTurns
<1>4. cur[i].item.occ # NoTime /\ cur[i].item.occ \in Nat
  BY <1>1, MomentFacts
<1> QED  BY <1>1, <1>2, <1>3, <1>4, KnownAreRows DEF RowKeepsTurns, For

\* A set with at most one element adds at most one.
LEMMA OneMoreAtMost ==
    ASSUME NEW A, NEW B, IsFiniteSet(A), \A x, y \in B : x = y
    PROVE  IsFiniteSet(A \cup B) /\ Cardinality(A \cup B) <= Cardinality(A) + 1
<1>1. Cardinality(A) \in Nat
  BY FS_CardinalityType
<1>2. CASE B = {}
  <2>1. A \cup B = A
    BY <1>2
  <2>2. Cardinality(A \cup B) = Cardinality(A)
    BY <2>1
  <2> QED  BY <1>1, <2>1, <2>2
<1>3. CASE B # {}
  <2>1. PICK x \in B : TRUE
    BY <1>3
  <2>2. A \cup B = A \cup {x}
    BY <2>1
  <2>3. PICK U : U = A \cup {x}
    OBVIOUS
  <2>4. IsFiniteSet(U) /\ (Cardinality(U) = Cardinality(A) \/ Cardinality(U) = Cardinality(A) + 1)
    BY <2>3, FS_AddElement
  <2>5. Cardinality(U) <= Cardinality(A) + 1
    BY <1>1, <2>4
  <2> QED  BY <2>2, <2>3, <2>4, <2>5
<1> QED  BY <1>2, <1>3

\* The row written after a run stands at the next turn, and has counted the
\* message of a run that completed.
LEMMA TurnSaved ==
    ASSUME TypeOK, ItemInv, DeliveryInv, RunInv, TurnsInv,
           NEW i \in Instances, SaveScheduledNotification(i)
    PROVE  MessagesKeepTurns' /\ RowsKeepTurns'
<1> PICK s, c, n : s = cur[i].id /\ c = cur[i].item /\ n = NewRow(i)
  OBVIOUS
<1>0. pc[i] = "saveItem" /\ pc[i] \in Working /\ MessagesKeepTurns /\ RowsKeepTurns
  BY DEF SaveScheduledNotification, Working, TurnsInv
<1>1. /\ s \in Schedules /\ c \in KnownRows(s) /\ c \in Rows /\ c.def \in Defs /\ c.since \in Nat
      /\ c.runCount \in Nat /\ RowKeepsTurns(s, c) /\ For(i) = c.occ /\ c.next = c.occ /\ c.occ \in Nat
      /\ c.occ \in Trail(c.def, c.since) /\ ~Limited(c)
  BY <1>0, InHand
<1>2. /\ messages' = messages /\ skipped' = skipped /\ edits' = edits /\ todo' = todo
      /\ edits \in Nat /\ pc' = [pc EXCEPT ![i] = "loop"] /\ cur' = [cur EXCEPT ![i] = NoItem]
      /\ row' = row \/ row' = [row EXCEPT ![s] = n]
  BY DEF SaveScheduledNotification, history, TypeOK, HistoryType
<1>3. \A j \in Instances : pc'[j] \in Working => pc[j] \in Working /\ cur'[j] = cur[j]
  BY <1>2 DEF TypeOK, LoopType, ItemType, Working
<1>4. CASE row' = row
  BY <1>0, <1>2, <1>3, <1>4, KnownShrinks, TurnsFrame
<1>5. CASE row' = [row EXCEPT ![s] = n]
  <2>1. PICK counted \in BOOLEAN :
            /\ MovesOn(c, n, counted)
            /\ counted => Stored(<<s, c.occ>>)
            /\ ~counted => [id |-> s, for |-> c.occ, ver |-> c.ver] \in skipped
    <3>1. cur[i].status \in Statuses /\ cur[i].status # "running" /\ cur[i].status # "failed"
      BY <1>0, WorkingFacts DEF ItemInv, LoopsInv, TurnsInv, RunsEnd
    <3>2. CASE cur[i].status = "skipped"
      <4>1. n = Skipped(c)
        BY <3>2 DEF NewRow
      <4>2. [id |-> s, for |-> c.occ, ver |-> c.ver] \in skipped
        BY <1>0, <1>1, <3>2 DEF TurnsInv, RunsEnd
      <4> QED  BY <1>1, <4>1, <4>2, SkippedMovesOn
    <3>3. CASE cur[i].status = "completed"
      <4>1. n = Completed(c)
        BY <3>3 DEF NewRow
      <4>2. Stored(<<s, c.occ>>)
        BY <1>0, <1>1, <3>3 DEF RunInv, Key
      <4> QED  BY <1>1, <4>1, <4>2, CompletedMovesOn
    <3> QED  BY <3>1, <3>2, <3>3 DEF Statuses
  <2>2. \A u \in Schedules : KnownRows(u)' \subseteq KnownRows(u) \cup {x \in {n} : u = s}
    <3>1. row'[s] = n /\ \A u \in Schedules : u # s => row'[u] = row[u]
      BY <1>1, <1>5 DEF TypeOK, RowType
    <3> QED  BY <1>2, <1>3, <3>1 DEF KnownRows
  <2>3. \A m \in messages : MessageKeepsTurns(s, n, m)
    <3>1. \A m \in messages : MessageKeepsTurns(s, c, m)
      BY <1>0, <1>1 DEF RowsKeepTurns
    <3> QED  BY <2>1, <3>1 DEF MessageKeepsTurns, MovesOn
  <2>4. \A t \in KnownRows(s) : n.ver = t.ver => n.def = t.def /\ n.since = t.since
    <3>1. n.ver = c.ver /\ n.def = c.def /\ n.since = c.since
      BY <2>1 DEF MovesOn
    <3>2. \A t \in KnownRows(s) : c.ver = t.ver => c.def = t.def /\ c.since = t.since
      BY <1>0, <1>1 DEF RowsKeepTurns
    <3> QED  BY <3>1, <3>2
  <2>5. \A q \in Trail(c.def, c.since) : q \in Nat
    BY <1>1, TrailAfter
  <2>6. ASSUME NEW q \in Trail(n.def, n.since), Before(n, q) PROVE Over(s, n.ver, q)
    <3>1. q \in Trail(c.def, c.since) /\ q <= c.occ /\ n.ver = c.ver
      BY <2>1, <2>6 DEF MovesOn
    <3>2. CASE q = c.occ
      BY <2>1, <3>1, <3>2 DEF Over
    <3>3. CASE q # c.occ
      <4>1. Before(c, q)
        BY <1>1, <2>5, <3>1, <3>3 DEF Before, NoTime
      <4> QED  BY <1>1, <3>1, <4>1 DEF RowKeepsTurns
    <3> QED  BY <3>2, <3>3
  <2>7. n.occ # NoTime => Cardinality({m \in Sent(s, n.ver) : m.occ < n.occ}) <= n.runCount
    <3> SUFFICES ASSUME n.occ # NoTime
                 PROVE  Cardinality({m \in Sent(s, n.ver) : m.occ < n.occ}) <= n.runCount
      OBVIOUS
    <3> DEFINE Old == {m \in Sent(s, c.ver) : m.occ < c.occ}
               Behind == {m \in Sent(s, n.ver) : m.occ < n.occ}
               At  == {m \in Sent(s, c.ver) : m.occ = c.occ}
    <3>0. IsFiniteSet(messages) /\ \A m \in messages : m.for = m.occ
      BY <1>0 DEF MessagesKeepTurns
    <3>1. IsFiniteSet(Old) /\ IsFiniteSet(At) /\ IsFiniteSet(Behind)
      <4>1. Old \subseteq messages /\ At \subseteq messages /\ Behind \subseteq messages
        BY DEF Sent
      <4> HIDE DEF Old, At, Behind
      <4> QED  BY <3>0, <4>1, FS_Subset
    <3>2. c.occ # NoTime /\ Cardinality(Old) <= c.runCount
      BY <1>1 DEF RowKeepsTurns, NoTime
    <3>3. Behind \subseteq Old \cup At
      <4> SUFFICES ASSUME NEW m \in Behind PROVE m \in Old \cup At
        OBVIOUS
      <4>1. m \in messages /\ m \in Sent(s, c.ver) /\ m.occ < n.occ /\ m.id = s /\ m.ver = c.ver
        BY <2>1 DEF Sent, MovesOn
      <4>2. m.occ \in Trail(c.def, c.since)
        BY <1>0, <1>1, <4>1 DEF RowsKeepTurns, MessageKeepsTurns
      <4>3. m.occ <= c.occ /\ m.occ \in Nat
        BY <2>1, <2>5, <4>1, <4>2 DEF MovesOn, Before
      <4> QED  BY <1>1, <4>1, <4>3
    <3>4. \A x, y \in At : x = y
      BY <3>0 DEF DeliveryInv, Sent
    <3>5. CASE counted
      <4>1. Cardinality(Old \cup At) <= Cardinality(Old) + 1 /\ IsFiniteSet(Old \cup At)
        <5> HIDE DEF Old, At
        <5> QED  BY <3>1, <3>4, OneMoreAtMost
      <4>2. Cardinality(Behind) <= Cardinality(Old \cup At) /\ Cardinality(Behind) \in Nat
            /\ Cardinality(Old \cup At) \in Nat /\ Cardinality(Old) \in Nat
        <5> HIDE DEF Old, At, Behind
        <5> QED  BY <3>1, <3>3, <4>1, FS_Subset, FS_CardinalityType
      <4>3. n.runCount = c.runCount + 1
        BY <2>1, <3>5 DEF MovesOn
      <4> HIDE DEF Old, At, Behind
      <4>4. Cardinality(Behind) <= n.runCount
        BY <1>1, <3>2, <4>1, <4>2, <4>3
      <4> QED  BY <4>4 DEF Behind
    <3>6. CASE ~counted
      <4>1. At = {}
        <5> SUFFICES ASSUME NEW m \in At PROVE FALSE
          OBVIOUS
        <5>1. m.id = s /\ m.ver = c.ver /\ m.occ = c.occ /\ ~WrittenOff(m)
          BY DEF Sent
        <5>2. [id |-> s, for |-> c.occ, ver |-> c.ver] \in skipped
          BY <2>1, <3>6
        <5> QED  BY <5>1, <5>2 DEF WrittenOff
      <4>2. Behind \subseteq Old
        BY <3>3, <4>1
      <4>3. Cardinality(Behind) <= Cardinality(Old) /\ Cardinality(Behind) \in Nat /\ Cardinality(Old) \in Nat
        <5> HIDE DEF Old, Behind
        <5> QED  BY <3>1, <4>2, FS_Subset, FS_CardinalityType
      <4>4. n.runCount = c.runCount
        BY <1>1, <2>1, <3>6 DEF MovesOn
      <4> HIDE DEF Old, At, Behind
      <4>5. Cardinality(Behind) <= n.runCount
        BY <1>1, <3>2, <4>3, <4>4
      <4> QED  BY <4>5 DEF Behind
    <3> QED  BY <3>5, <3>6
  <2>8. n.ver <= edits /\ n.next = n.occ /\ (n.occ # NoTime => n.occ \in Trail(n.def, n.since) /\ ~Limited(n))
    BY <1>1, <2>1 DEF MovesOn, RowKeepsTurns
  <2>9. RowKeepsTurns(s, n)
    BY <2>6, <2>7, <2>8 DEF RowKeepsTurns
  <2>10. RowKeepsTurns(s, n)'
    <3>1. \A u, v : Sent(u, v)' = Sent(u, v)
      BY <1>2 DEF Sent, WrittenOff
    <3>2. \A u, v, q : Over(u, v, q)' <=> Over(u, v, q)
      BY <1>2 DEF Over, Stored
    <3> QED  BY <1>2, <2>9, <3>1, <3>2 DEF RowKeepsTurns
  <2> QED  BY <1>0, <1>1, <1>2, <2>2, <2>3, <2>4, <2>10, OneMoreRow
<1> QED  BY <1>2, <1>4, <1>5

\* Giving a run up as a misfire records its turn, and makes no message count.
LEMMA MisfireRecorded ==
    ASSUME TypeOK, ItemInv, TurnsInv, NEW i \in Instances, SkipMisfire(i)
    PROVE  TurnsInv'
<1> PICK x : x = [id |-> cur[i].id, for |-> For(i), ver |-> cur[i].item.ver]
  OBVIOUS
<1>0. pc[i] \in Working /\ MessagesKeepTurns /\ RowsKeepTurns /\ RunsEnd
  BY DEF SkipMisfire, Working, TurnsInv
<1>1. /\ skipped' = skipped \cup {x} /\ messages' = messages /\ row' = row /\ todo' = todo /\ edits' = edits
      /\ pc' = [pc EXCEPT ![i] = "saveRun"] /\ cur' = [cur EXCEPT ![i].status = "skipped"]
  BY DEF SkipMisfire, dbVars
<1>2. cur[i] \in Current
  BY <1>0, WorkingFacts
<1>3. /\ cur'[i].id = cur[i].id /\ cur'[i].item = cur[i].item /\ cur'[i].status = "skipped"
      /\ \A j \in Instances : j # i => pc'[j] = pc[j] /\ cur'[j] = cur[j]
  BY <1>1, <1>2 DEF Current, TypeOK, ItemType, LoopType
<1>4. \A s : KnownRows(s)' \subseteq KnownRows(s)
  BY <1>0, <1>1, <1>3, KnownShrinks
<1>5. \A s, v : Sent(s, v)' \subseteq Sent(s, v)
  BY <1>1 DEF Sent, WrittenOff
<1>6. \A s, v, q : Over(s, v, q) => Over(s, v, q)'
  BY <1>1 DEF Over, Stored
<1>7. \A s, v : IsFiniteSet(Sent(s, v)) /\ Cardinality(Sent(s, v)') \in Nat
                  /\ Cardinality(Sent(s, v)) \in Nat /\ Cardinality(Sent(s, v)') <= Cardinality(Sent(s, v))
  <2> TAKE s, v
  <2>1. Sent(s, v) \subseteq messages
    BY DEF Sent
  <2>2. IsFiniteSet(Sent(s, v))
    BY <1>0, <2>1, FS_Subset DEF MessagesKeepTurns
  <2> QED  BY <1>5, <2>2, FS_Subset, FS_CardinalityType
<1>8. MessagesKeepTurns'
  <2>1. \A m \in messages : m.def.maxRuns \in Nat
    BY SchedulerAssumption DEF TypeOK, RowType, Messages
  <2>2. MaxRunsRespected'
    BY <1>0, <1>1, <1>7, <2>1 DEF MessagesKeepTurns, MaxRunsRespected
  <2> QED  BY <1>0, <1>1, <2>2 DEF MessagesKeepTurns
<1>9. ASSUME NEW s \in Schedules, NEW r \in KnownRows(s), RowKeepsTurns(s, r)
      PROVE  RowKeepsTurns(s, r)'
  <2> DEFINE Was == {m \in Sent(s, r.ver) : m.occ < r.occ}
             Is  == {m \in Sent(s, r.ver)' : m.occ < r.occ}
  <2>1. r.runCount \in Nat
    BY KnownAreRows
  <2>2. Is \subseteq Was /\ Was \subseteq Sent(s, r.ver)
    BY <1>5
  <2>3. Cardinality(Is) <= Cardinality(Was) /\ Cardinality(Is) \in Nat /\ Cardinality(Was) \in Nat
    <3> HIDE DEF Is, Was
    <3> QED  BY <1>7, <2>2, FS_Subset, FS_CardinalityType
  <2>4. r.occ # NoTime => Cardinality(Was) <= r.runCount
    BY <1>9 DEF RowKeepsTurns
  <2>5. r.occ # NoTime => Cardinality(Is) <= r.runCount
    <3> HIDE DEF Is, Was
    <3> QED  BY <2>1, <2>3, <2>4
  <2> QED  BY <1>1, <1>6, <1>9, <2>5 DEF RowKeepsTurns
<1>10. ASSUME NEW s, NEW r, NEW m, MessageKeepsTurns(s, r, m)
       PROVE  MessageKeepsTurns(s, r, m)'
  BY <1>6, <1>10 DEF MessageKeepsTurns
<1>11. RowsKeepTurns'
  <2>1. \A s \in Schedules : \A r \in KnownRows(s)' : RowKeepsTurns(s, r)'
    BY <1>0, <1>4, <1>9 DEF RowsKeepTurns
  <2>2. \A s \in Schedules : \A r \in KnownRows(s)' : \A m \in messages' : MessageKeepsTurns(s, r, m)'
    BY <1>0, <1>1, <1>4, <1>10 DEF RowsKeepTurns
  <2>3. \A s \in Schedules : \A r \in KnownRows(s)' : \A t \in KnownRows(s)' :
            r.ver = t.ver => r.def = t.def /\ r.since = t.since
    BY <1>0, <1>4 DEF RowsKeepTurns
  <2> QED  BY <2>1, <2>2, <2>3 DEF RowsKeepTurns
<1>12. RunsEnd'
  <2>1. x \in skipped' /\ x = [id |-> cur'[i].id, for |-> cur'[i].item.next, ver |-> cur'[i].item.ver]
    BY <1>1, <1>3 DEF For
  <2> QED  BY <1>0, <1>1, <1>3, <2>1 DEF RunsEnd, For
<1> QED  BY <1>8, <1>11, <1>12 DEF TurnsInv

\* A message that is stored is the first of its turn: a row or a message of the
\* same version that is further on shows that the turn was written off, and then
\* it does not count; else the row in hand still allows a message.
LEMMA MessageTakesTurn ==
    ASSUME TypeOK, ItemInv, DeliveryInv, TurnsInv, NEW i \in Instances,
           pc[i] = "begin", StoreNew(i), row' = row, todo' = todo, edits' = edits, skipped' = skipped
    PROVE  MessagesKeepTurns' /\ RowsKeepTurns'
<1> PICK s, c, e : /\ s = cur[i].id /\ c = cur[i].item
                   /\ e = [id |-> s, for |-> For(i), by |-> i, ver |-> c.ver, occ |-> c.occ, def |-> c.def]
  OBVIOUS
<1>0. pc[i] \in Working /\ MessagesKeepTurns /\ RowsKeepTurns
  BY DEF Working, TurnsInv
<1>1. /\ s \in Schedules /\ c \in KnownRows(s) /\ c \in Rows /\ c.def \in Defs /\ c.since \in Nat
      /\ c.runCount \in Nat /\ RowKeepsTurns(s, c) /\ For(i) = c.occ /\ c.next = c.occ /\ c.occ \in Nat
      /\ c.occ \in Trail(c.def, c.since) /\ ~Limited(c)
  BY <1>0, InHand
<1>2. /\ messages' = messages \cup {e} /\ ~Stored(<<s, c.occ>>)
      /\ pc' = [pc EXCEPT ![i] = "deliver"] /\ cur' = [cur EXCEPT ![i].status = "running"]
  BY <1>1 DEF StoreNew, Outcome, Key
<1>3. e.id = s /\ e.for = c.occ /\ e.occ = c.occ /\ e.ver = c.ver /\ e.def = c.def
  BY <1>1
<1>4. \A u : KnownRows(u)' \subseteq KnownRows(u)
  <2>1. cur[i] \in Current
    BY <1>0, WorkingFacts
  <2>2. /\ cur'[i].id = cur[i].id /\ cur'[i].item = cur[i].item
        /\ \A j \in Instances : j # i => pc'[j] = pc[j] /\ cur'[j] = cur[j]
    BY <1>2, <2>1 DEF Current, TypeOK, ItemType, LoopType
  <2> QED  BY <1>0, <2>2, KnownShrinks
<1>5. \A u, v, q : Over(u, v, q) => Over(u, v, q)'
  BY <1>2 DEF Over, Stored
<1>6. \A m \in messages : m.id = s /\ m.ver = c.ver => m.def = c.def /\ m.occ \in Trail(c.def, c.since) /\ m.occ \in Nat
                            /\ m.occ # c.occ
  <2>1. \A m \in messages : MessageKeepsTurns(s, c, m)
    BY <1>0, <1>1 DEF RowsKeepTurns
  <2>2. \A q \in Trail(c.def, c.since) : q \in Nat
    BY <1>1, TrailAfter
  <2>3. \A m \in messages : m.for = m.occ
    BY <1>0 DEF MessagesKeepTurns
  <2> QED  BY <1>2, <2>1, <2>2, <2>3 DEF MessageKeepsTurns, Stored
<1>7. \A u, v : Sent(u, v)' = IF e.id = u /\ e.ver = v /\ ~WrittenOff(e) THEN Sent(u, v) \cup {e} ELSE Sent(u, v)
  <2>1. \A m : WrittenOff(m)' <=> WrittenOff(m)
    BY DEF WrittenOff
  <2> QED  BY <1>2, <2>1 DEF Sent
<1>8. ASSUME [id |-> s, for |-> c.occ, ver |-> c.ver] \in skipped PROVE WrittenOff(e)
  BY <1>3, <1>8 DEF WrittenOff
<1>9. IsFiniteSet(messages') /\ \A u, v : IsFiniteSet(Sent(u, v)) /\ Cardinality(Sent(u, v)) \in Nat
  <2>1. IsFiniteSet(messages)
    BY <1>0 DEF MessagesKeepTurns
  <2>2. \A u, v : Sent(u, v) \subseteq messages
    BY DEF Sent
  <2> QED  BY <1>2, <2>1, <2>2, FS_AddElement, FS_Subset, FS_CardinalityType
<1>10. ~WrittenOff(e) => \A m \in Sent(s, c.ver) : m.occ < c.occ
  <2> SUFFICES ASSUME ~WrittenOff(e), NEW m \in Sent(s, c.ver), ~(m.occ < c.occ) PROVE FALSE
    OBVIOUS
  <2>1. m \in messages /\ m.id = s /\ m.ver = c.ver
    BY DEF Sent
  <2>2. c.occ < m.occ
    BY <1>1, <1>6, <2>1
  <2>3. Over(s, c.ver, c.occ)
    BY <1>0, <1>1, <2>1, <2>2 DEF RowsKeepTurns, MessageKeepsTurns
  <2> QED  BY <1>2, <1>8, <2>3 DEF Over
<1>11. MessagesKeepTurns'
  <2>1. ASSUME NEW m \in messages', m.def.maxRuns > 0
        PROVE  Cardinality(Sent(m.id, m.ver)') <= m.def.maxRuns
    <3>1. CASE m.id = s /\ m.ver = c.ver /\ ~WrittenOff(e)
      <4>1. m.def = c.def /\ c.def.maxRuns \in Nat
        BY <1>1, <1>2, <1>3, <1>6, <3>1, SchedulerAssumption
      <4>2. Sent(s, c.ver) = {x \in Sent(s, c.ver) : x.occ < c.occ}
        BY <1>10, <3>1
      <4>3. Cardinality(Sent(s, c.ver)) <= c.runCount
        <5>1. c.occ # NoTime
          BY <1>1 DEF NoTime
        <5>2. Cardinality({x \in Sent(s, c.ver) : x.occ < c.occ}) <= c.runCount
          BY <1>1, <5>1 DEF RowKeepsTurns
        <5> QED  BY <4>2, <5>2
      <4>4. Sent(s, c.ver)' = Sent(s, c.ver) \cup {e}
        BY <1>3, <1>7, <3>1
      <4>5. Cardinality(Sent(s, c.ver)') <= Cardinality(Sent(s, c.ver)) + 1
            /\ Cardinality(Sent(s, c.ver)') \in Nat
        <5> PICK S : S = Sent(s, c.ver)
          OBVIOUS
        <5>1. IsFiniteSet(S) /\ Cardinality(S) \in Nat /\ Sent(s, c.ver)' = S \cup {e}
          BY <1>9, <4>4
        <5>2. Cardinality(S \cup {e}) \in {Cardinality(S), Cardinality(S) + 1}
          BY <5>1, FS_AddElement
        <5> QED  BY <5>1, <5>2
      <4>6. c.runCount < c.def.maxRuns
        BY <1>1, <2>1, <4>1 DEF Limited
      <4>7. Cardinality(Sent(s, c.ver)') <= c.def.maxRuns
        BY <1>1, <1>9, <4>1, <4>3, <4>5, <4>6
      <4> QED  BY <3>1, <4>1, <4>7
    <3>2. CASE ~(m.id = s /\ m.ver = c.ver) /\ m \in messages
      BY <1>0, <1>3, <1>7, <2>1, <3>2 DEF MessagesKeepTurns, MaxRunsRespected
    <3>3. CASE m.id = s /\ m.ver = c.ver /\ WrittenOff(e)
      <4>1. Sent(s, c.ver)' = Sent(s, c.ver)
        BY <1>7, <3>3
      <4>2. CASE Sent(s, c.ver) = {}
        <5>1. m.def = c.def /\ c.def.maxRuns \in Nat
          BY <1>1, <1>2, <1>3, <1>6, <3>3, SchedulerAssumption
        <5> QED  BY <2>1, <3>3, <4>1, <4>2, <5>1, FS_EmptySet
      <4>3. CASE Sent(s, c.ver) # {}
        <5>1. PICK x \in Sent(s, c.ver) : TRUE
          BY <4>3
        <5>2. x \in messages /\ x.id = s /\ x.ver = c.ver
          BY <5>1 DEF Sent
        <5>3. x.def = m.def
          BY <1>2, <1>3, <1>6, <3>3, <5>2
        <5> QED  BY <1>0, <2>1, <3>3, <4>1, <5>2, <5>3 DEF MessagesKeepTurns, MaxRunsRespected
      <4> QED  BY <4>2, <4>3
    <3> QED  BY <1>2, <1>3, <3>1, <3>2, <3>3
  <2>2. \A m \in messages' : m.for = m.occ /\ m.ver <= edits'
    BY <1>0, <1>1, <1>2, <1>3 DEF MessagesKeepTurns, RowKeepsTurns
  <2>3. \A m, n \in messages' : m.id = n.id /\ m.ver = n.ver => m.def = n.def
    BY <1>0, <1>2, <1>3, <1>6 DEF MessagesKeepTurns
  <2> QED  BY <1>9, <2>1, <2>2, <2>3 DEF MessagesKeepTurns, MaxRunsRespected
<1>12. ASSUME NEW u \in Schedules, NEW r \in KnownRows(u) PROVE RowKeepsTurns(u, r)'
  <2>0. RowKeepsTurns(u, r) /\ r.occ \in Nat \cup {NoTime}
    BY <1>0, KnownAreRows, MomentFacts DEF RowsKeepTurns
  <2>1. r.occ # NoTime => {m \in Sent(u, r.ver)' : m.occ < r.occ} = {m \in Sent(u, r.ver) : m.occ < r.occ}
    <3> SUFFICES ASSUME r.occ # NoTime, u = s, r.ver = c.ver, ~WrittenOff(e), c.occ < r.occ PROVE FALSE
      BY <1>3, <1>7
    <3>1. c.occ \in Trail(r.def, r.since)
      BY <1>0, <1>1 DEF RowsKeepTurns
    <3>2. Over(s, c.ver, c.occ)
      BY <2>0, <3>1 DEF RowKeepsTurns, Before
    <3> QED  BY <1>2, <1>8, <3>2 DEF Over
  <2> QED  BY <1>5, <2>0, <2>1 DEF RowKeepsTurns
<1>13. ASSUME NEW u \in Schedules, NEW r \in KnownRows(u), NEW m \in messages' PROVE MessageKeepsTurns(u, r, m)'
  <2>1. CASE m \in messages
    <3>1. MessageKeepsTurns(u, r, m)
      BY <1>0, <2>1 DEF RowsKeepTurns
    <3> QED  BY <1>5, <3>1 DEF MessageKeepsTurns
  <2>2. CASE m = e
    <3> SUFFICES ASSUME u = s, r.ver = c.ver
                 PROVE  /\ c.def = r.def /\ c.occ \in Trail(r.def, r.since)
                        /\ \A q \in Trail(r.def, r.since) : q < c.occ => Over(s, r.ver, q)'
      BY <1>3, <2>2 DEF MessageKeepsTurns
    <3>1. r.def = c.def /\ r.since = c.since
      BY <1>0, <1>1 DEF RowsKeepTurns
    <3>2. \A q \in Trail(c.def, c.since) : q < c.occ => Over(s, c.ver, q)
      BY <1>1 DEF RowKeepsTurns, Before, NoTime
    <3> QED  BY <1>1, <1>5, <3>1, <3>2
  <2> QED  BY <1>2, <2>1, <2>2
<1>14. \A u \in Schedules : \A r \in KnownRows(u)' : \A t \in KnownRows(u)' :
            r.ver = t.ver => r.def = t.def /\ r.since = t.since
  BY <1>0, <1>4 DEF RowsKeepTurns
<1> QED  BY <1>4, <1>11, <1>12, <1>13, <1>14 DEF RowsKeepTurns

\* A step that ends no run.
LEMMA RunsEndFrame ==
    ASSUME RunsEnd, skipped' = skipped,
           \A i \in Instances : pc'[i] \in {"saveRun", "saveItem"} =>
               pc[i] \in {"saveRun", "saveItem"} /\ cur'[i] = cur[i]
    PROVE  RunsEnd'
BY DEF RunsEnd, For

\* A step of an engine that writes no row and ends no run.
LEMMA TurnsKept ==
    ASSUME TypeOK, TurnsInv, row' = row, messages' = messages, skipped' = skipped, edits' = edits,
           \A i \in Instances : \A x \in todo'[i] : x \in todo[i] \/ (x.item = row[x.id] /\ x.item # NoRow),
           \A i \in Instances : pc'[i] \in Working =>
               \/ pc[i] \in Working /\ cur'[i] = cur[i]
                    /\ (pc'[i] \in {"saveRun", "saveItem"} => pc[i] \in {"saveRun", "saveItem"})
               \/ pc'[i] = "begin" /\ \E x \in todo[i] : cur'[i].id = x.id /\ cur'[i].item = x.item
    PROVE  TurnsInv'
<1>1. \A s : KnownRows(s)' \subseteq KnownRows(s)
  BY KnownShrinks
<1>2. MessagesKeepTurns' /\ RowsKeepTurns'
  BY <1>1, TurnsFrame DEF TurnsInv, TypeOK, HistoryType
<1>3. RunsEnd'
  BY RunsEndFrame DEF TurnsInv, Working
<1> QED  BY <1>2, <1>3 DEF TurnsInv

\* Every step keeps the turns.
LEMMA TurnsStep ==
    ASSUME QuietStore, IInv, TurnsInv, [Next]_vars
    PROVE  TurnsInv'
<1>0. /\ TypeOK /\ ItemInv /\ DeliveryInv /\ RunInv /\ LoopType /\ ItemType /\ RowType /\ HistoryType
      /\ MessagesKeepTurns /\ RowsKeepTurns /\ RunsEnd
  BY DEF IInv, TypeOK, TurnsInv
<1>1. ASSUME NEW s \in Schedules, ApiNext(s) PROVE TurnsInv'
  <2>1. RunsEnd'
    BY <1>0, <1>1, ApiFrame, RunsEndFrame DEF procVars, history
  <2>2. ASSUME NEW def \in Defs, NEW enabled \in BOOLEAN,
               CreateSchedule(s, def, enabled) \/ UpdateSave(s, def, enabled)
        PROVE  MessagesKeepTurns' /\ RowsKeepTurns'
    BY <1>0, <2>2, ScheduleSaved DEF CreateSchedule, UpdateSave
  <2>3. CASE UpdateRead(s) \/ UpdateAbort(s)
    <3>1. row' = row /\ messages' = messages /\ skipped' = skipped /\ edits' = edits
          /\ todo' = todo /\ pc' = pc /\ cur' = cur
      BY <2>3 DEF UpdateRead, UpdateAbort, dbVars, procVars, history
    <3>2. \A u : KnownRows(u)' = KnownRows(u)
      BY <3>1 DEF KnownRows
    <3>3. edits' \in Nat /\ edits <= edits'
      BY <1>0, <3>1 DEF HistoryType
    <3> QED  BY <1>0, <2>1, <3>1, <3>2, <3>3, TurnsFrame DEF TurnsInv
  <2>4. CASE DeleteSchedule(s)
    <3>1. messages' = messages /\ skipped' = skipped /\ edits' = edits
          /\ todo' = todo /\ pc' = pc /\ cur' = cur /\ row' = [row EXCEPT ![s] = NoRow]
      BY <2>4 DEF DeleteSchedule, procVars, history
    <3>2. \A u \in Schedules : row'[u] = row[u] \/ row'[u] = NoRow
      BY <1>0, <3>1 DEF RowType
    <3>3. \A u \in Schedules : KnownRows(u)' \subseteq KnownRows(u)
      BY <3>1, <3>2 DEF KnownRows
    <3>4. edits' \in Nat /\ edits <= edits'
      BY <1>0, <3>1 DEF HistoryType
    <3> QED  BY <1>0, <2>1, <3>1, <3>3, <3>4, TurnsFrame DEF TurnsInv
  <2> QED  BY <1>1, <2>1, <2>2, <2>3, <2>4 DEF ApiNext, TurnsInv
<1>2. ASSUME NEW i \in Instances, New(i) \/ TickerFires(i) PROVE TurnsInv'
  BY <1>0, <1>2, TurnsKept DEF New, TickerFires, dbVars, history, LoopType, Working
<1>3. ASSUME NEW i \in Instances, LeaseUpdate(i) \/ LeaseInsert(i) PROVE TurnsInv'
  BY <1>0, <1>3, TurnsKept DEF LeaseUpdate, LeaseInsert, Take, NotTaken, history, LoopType, Working
<1>4. ASSUME NEW i \in Instances, GetDueScheduledNotifications(i) PROVE TurnsInv'
  <2>1. \A j \in Instances : \A x \in todo'[j] : x \in todo[j] \/ (x.item = row[x.id] /\ x.item # NoRow)
    BY <1>0, <1>4 DEF GetDueScheduledNotifications, ItemType, Due
  <2>2. /\ row' = row /\ messages' = messages /\ skipped' = skipped /\ edits' = edits /\ cur' = cur
        /\ \A j \in Instances : pc'[j] \in Working => pc'[j] = pc[j]
    BY <1>0, <1>4 DEF GetDueScheduledNotifications, dbVars, history, LoopType, Working
  <2> QED  BY <1>0, <2>1, <2>2, TurnsKept
<1>5. ASSUME NEW i \in Instances, CreateScheduledNotificationRun(i) PROVE TurnsInv'
  <2>1. /\ row' = row /\ messages' = messages /\ skipped' = skipped /\ edits' = edits
        /\ \A j \in Instances : \A x \in todo'[j] : x \in todo[j]
        /\ \A j \in Instances : j # i => pc'[j] = pc[j] /\ cur'[j] = cur[j]
    BY <1>0, <1>5 DEF CreateScheduledNotificationRun, history, LoopType, ItemType
  <2>2. \/ pc'[i] = pc[i] /\ cur'[i] = cur[i]
        \/ pc'[i] = "begin" /\ \E x \in todo[i] : cur'[i].id = x.id /\ cur'[i].item = x.item
    BY <1>0, <1>5 DEF CreateScheduledNotificationRun, LoopType, ItemType
  <2> QED  BY <1>0, <2>1, <2>2, TurnsKept
<1>6. ASSUME NEW i \in Instances, SkipMisfire(i) PROVE TurnsInv'
  BY <1>0, <1>6, MisfireRecorded
<1>7. ASSUME NEW i \in Instances, CreateMessageOnce(i) PROVE TurnsInv'
  <2>1. /\ row' = row /\ skipped' = skipped /\ edits' = edits /\ todo' = todo /\ pc[i] = "begin"
        /\ StoreNew(i) \/ StoreDuplicate(i)
    BY <1>7 DEF CreateMessageOnce, StoreError, Fails, QuietStore, history
  <2>2. cur[i] \in Current
    BY <1>0, <2>1, WorkingFacts DEF Working
  <2>3. /\ cur'[i].id = cur[i].id /\ cur'[i].item = cur[i].item
        /\ pc'[i] = "deliver" \/ cur'[i].status = "completed"
        /\ \A j \in Instances : j # i => pc'[j] = pc[j] /\ cur'[j] = cur[j]
    BY <1>0, <2>1, <2>2 DEF StoreNew, StoreDuplicate, Outcome, Current, ItemType, LoopType
  <2>4. RunsEnd'
    BY <1>0, <2>1, <2>3 DEF RunsEnd, For
  <2>5. CASE StoreNew(i)
    BY <1>0, <2>1, <2>4, <2>5, MessageTakesTurn DEF TurnsInv
  <2>6. CASE StoreDuplicate(i)
    <3>1. messages' = messages
      BY <2>6 DEF StoreDuplicate
    <3>2. \A s : KnownRows(s)' \subseteq KnownRows(s)
      BY <2>1, <2>3, KnownShrinks DEF Working
    <3> QED  BY <1>0, <2>1, <2>4, <3>1, <3>2, TurnsFrame DEF TurnsInv, HistoryType
  <2> QED  BY <2>1, <2>5, <2>6
<1>8. ASSUME NEW i \in Instances, deliverStored(i) PROVE TurnsInv'
  <2>1. /\ row' = row /\ skipped' = skipped /\ edits' = edits /\ todo' = todo /\ messages' = messages
        /\ pc[i] = "deliver" /\ Outcome(i, "completed", "saveRun")
    BY <1>8 DEF deliverStored, Fails, QuietStore, dbVars
  <2>2. cur[i] \in Current
    BY <1>0, <2>1, WorkingFacts DEF Working
  <2>3. /\ cur'[i].id = cur[i].id /\ cur'[i].item = cur[i].item /\ cur'[i].status = "completed"
        /\ \A j \in Instances : j # i => pc'[j] = pc[j] /\ cur'[j] = cur[j]
    BY <1>0, <2>1, <2>2 DEF Outcome, Current, ItemType, LoopType
  <2>4. RunsEnd'
    BY <1>0, <2>1, <2>3 DEF RunsEnd, For
  <2>5. \A s : KnownRows(s)' \subseteq KnownRows(s)
    BY <2>1, <2>3, KnownShrinks DEF Working
  <2> QED  BY <1>0, <2>1, <2>4, <2>5, TurnsFrame DEF TurnsInv, HistoryType
<1>9. ASSUME NEW i \in Instances, SaveScheduledNotificationRun(i) PROVE TurnsInv'
  BY <1>0, <1>9, TurnsKept DEF SaveScheduledNotificationRun, history, LoopType, Working
<1>10. ASSUME NEW i \in Instances, SaveScheduledNotification(i) PROVE TurnsInv'
  <2>1. RunsEnd'
    BY <1>0, <1>10, RunsEndFrame DEF SaveScheduledNotification, history, LoopType, ItemType
  <2> QED  BY <1>0, <1>10, <2>1, TurnSaved DEF TurnsInv
<1>11. ASSUME NEW i \in Instances, RunDueReturns(i) \/ ReleaseAutomationLease(i) PROVE TurnsInv'
  BY <1>0, <1>11, TurnsKept DEF RunDueReturns, ReleaseAutomationLease, dbVars, history, LoopType, Working
<1>12. ASSUME NEW i \in Instances, Crash(i) PROVE TurnsInv'
  BY <1>0, <1>12, TurnsKept DEF Crash, dbVars, LoopType, ItemType, Working
<1>13. CASE ClockTick \/ UNCHANGED vars
  BY <1>0, <1>13, TurnsKept DEF ClockTick, vars, dbVars, procVars, history
<1> QED  BY <1>1, <1>2, <1>3, <1>4, <1>5, <1>6, <1>7, <1>8, <1>9, <1>10, <1>11, <1>12, <1>13
         DEF Next, LoopNext, RunItem

\* Nothing is known and nothing sent when the engines start.
LEMMA TurnsInit == Init => TurnsInv
<1> SUFFICES ASSUME Init PROVE TurnsInv
  OBVIOUS
<1>1. \A s \in Schedules : KnownRows(s) = {}
  BY DEF Init, KnownRows, Working
<1>2. messages = {} /\ \A i \in Instances : pc[i] = "new"
  BY DEF Init
<1> QED  BY <1>1, <1>2, FS_EmptySet DEF TurnsInv, MessagesKeepTurns, MaxRunsRespected, RowsKeepTurns, RunsEnd

\* The turns hold of every state: all rows an engine may still write back are at
\* a turn whose predecessors are over.
THEOREM TurnsHold == ASSUME QuietStore PROVE Spec => [](IInv /\ TurnsInv)
<1>1. IInv /\ TurnsInv /\ [Next]_vars => TurnsInv'
  BY TurnsStep
<1> QED  BY <1>1, TurnsInit, Invariance, PTL DEF Spec

\* Each occurrence of a definition is sent or given up before the schedule goes
\* past it, and a definition sends no more messages than its maximum (engine.go
\* nextRun, runSchedules), whichever engines repeat, overtake and abandon runs.
THEOREM OccurrencesHaveTheirTurn == ASSUME QuietStore PROVE Spec => []OccurrencesHandled
<1>1. IInv /\ TurnsInv => OccurrencesHandled
  <2> SUFFICES ASSUME IInv, TurnsInv PROVE OccurrencesHandled
    OBVIOUS
  <2>1. TypeOK /\ MessagesKeepTurns /\ RowsKeepTurns
    BY DEF IInv, TurnsInv
  <2>2. NoOccurrenceLost
    <3> SUFFICES ASSUME NEW s \in Schedules, row[s] # NoRow, ~Limited(row[s]), NEW o \in row[s].def.occ,
                        row[s].since < o, row[s].occ = NoTime \/ o < row[s].occ
                 PROVE  \E x \in messages \cup skipped :
                            /\ x.id = s
                            /\ o \in {x.for, x.for + 1}
                            /\ row[s].occ = NoTime \/ x.for < row[s].occ
      BY DEF NoOccurrenceLost, Limited
    <3> PICK r : r = row[s]
      OBVIOUS
    <3>1. r \in KnownRows(s)
      BY KnownWhere
    <3>2. /\ r.def \in Defs /\ r.since \in Nat /\ r.occ \in Nat \cup {NoTime}
          /\ r.def.occ \subseteq Nat
      BY <2>1, <3>1, KnownAreRows, MomentFacts, OccurrencesAreNat
    <3>3. PICK q \in Trail(r.def, r.since) : o \in {q, q + 1}
      BY <3>2, TrailCovers
    <3>4. q \in Nat /\ o \in Nat
      BY <3>2, TrailAfter
    <3>5. r.occ = NoTime \/ q < r.occ
      BY <3>2, <3>3, <3>4
    <3>6. Over(s, r.ver, q)
      BY <2>1, <3>1, <3>5 DEF RowsKeepTurns, RowKeepsTurns, Before
    <3>7. \E x \in messages \cup skipped : x.id = s /\ x.for = q
      BY <3>6 DEF Over, Stored
    <3> QED  BY <3>3, <3>5, <3>7
  <2> QED  BY <2>1, <2>2 DEF OccurrencesHandled, MessagesKeepTurns
<1> QED  BY <1>1, TurnsHold, PTL

\* An occurrence is sent as one message of its definition (database
\* CreateMessageOnce), also after crashes, lost saves and by overlapping workers.
THEOREM SentOncePerOccurrence == ASSUME QuietStore PROVE Spec => []OncePerOccurrence
<1>1. IInv /\ TurnsInv => OncePerOccurrence
  BY DEF IInv, TurnsInv, DeliveryInv, MessagesKeepTurns, OncePerOccurrence
<1> QED  BY <1>1, TurnsHold, PTL
=============================================================================
