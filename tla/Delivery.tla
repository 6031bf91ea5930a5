------------------------------ MODULE Delivery ------------------------------
(* Delivery of stored messages to one user under her digest and quiet-hours *)
(* policies: the publishers (deliver), the digest and the deferred part of  *)
(* the automation turns (runDigests, runDeferred), and the policy endpoints.*)
(* The policies and the queues are rows of the user, so one user suffices.  *)
(* A turn holds the automation lease for 25 seconds and does not renew it,  *)
(* so a long turn of one engine overlaps the next one of another.           *)
EXTENDS Integers, FiniteSets

CONSTANTS
    Workers,          \* the engines, each with one turn at a time
    MaxPosts,         \* messages 1..MaxPosts are published to the user
    Priority,         \* their priorities
    DigestForms,      \* what the user may save: [enabled, interval, immediate]
    QuietForms,       \* what the user may save: [enabled, start, end, allow, mode]
    Day,              \* length of a day
    MaxClock, MaxSaves, MaxDeletes,
    MaxFailures       \* failed database calls and crashes

Posts == 1..MaxPosts

ASSUME DeliveryAssumption ==
    /\ MaxPosts \in Nat /\ Day \in Nat \ {0} /\ MaxClock \in Nat
    /\ MaxSaves \in Nat /\ MaxDeletes \in Nat /\ MaxFailures \in Nat
    /\ Priority \in [Posts -> Nat]
    /\ \A f \in DigestForms : f.enabled \in BOOLEAN /\ f.interval \in Nat \ {0} /\ f.immediate \in Nat
    /\ \A f \in QuietForms : f.enabled \in BOOLEAN /\ f.start \in 0..Day-1 /\ f.end \in 0..Day-1
                             /\ f.allow \in Nat /\ f.mode \in {"suppress", "defer"}

\* A digest is a message too; its deduplication key is the time it was due.
Keys == 0..(MaxClock + MaxClock)
DigestId(key) == MaxPosts + 1 + key
CopyIds == Posts \cup {DigestId(k) : k \in Keys}

VARIABLES
    clock,
    message,     \* CopyIds -> "absent", "stored" or "deleted"
    digest,      \* the DigestPolicy row
    quiet,       \* the QuietHoursPolicy row
    items,       \* DigestItem rows
    deferred,    \* DeferredNotification rows
    notified,    \* realtime notifications per message
    pub,         \* where the publisher of a message is
    worker,      \* the automation turn of an engine: pc, now, loaded policy, loaded rows
    api,         \* the SaveDigest call in progress
    fails, saves, deletes,
    summarised,  \* history: messages named in a stored digest
    excused,     \* history: messages that may stay unseen (see Accounted)
    tardy,       \* history: messages overtaken by the end of the digest
    redone       \* history: messages two turns had in hand at once, and digests
                 \* stored again after the user deleted them

rows == <<message, digest, quiet, items, deferred>>
history == <<summarised, excused, tardy, redone>>
counts == <<fails, saves, deletes>>
deliveryVars == <<clock, rows, notified, pub, worker, api, counts, history>>

NoPolicy == [enabled |-> FALSE]
Idle     == [pc |-> "idle"]

DeliveryInit ==
    /\ clock = 0
    /\ message = [i \in CopyIds |-> "absent"]
    /\ digest = NoPolicy /\ quiet = NoPolicy
    /\ items = {} /\ deferred = {}
    /\ notified = [i \in CopyIds |-> 0]
    /\ pub = [m \in Posts |-> "new"]
    /\ worker = [w \in Workers |-> Idle] /\ api = Idle
    /\ fails = 0 /\ saves = 0 /\ deletes = 0
    /\ summarised = {} /\ excused = {} /\ tardy = {} /\ redone = {}

Tick == clock < MaxClock /\ clock' = clock + 1
        /\ UNCHANGED <<rows, notified, pub, worker, api, counts, history>>

Fails    == fails < MaxFailures /\ fails' = fails + 1
Succeeds == UNCHANGED fails

Notify(id) == notified' = [notified EXCEPT ![id] = @ + 1]

\* Quiet from start up to end, over midnight when end is the smaller, and all
\* day when they are equal.
quietNow(policy, time) ==
    LET minute == time % Day
    IN  \/ policy.start = policy.end
        \/ policy.start < policy.end /\ minute >= policy.start /\ minute < policy.end
        \/ policy.start > policy.end /\ (minute >= policy.start \/ minute < policy.end)

Silenced(priority, time) ==
    quiet.enabled /\ priority < quiet.allow /\ quietNow(quiet, time)

-----------------------------------------------------------------------------
(* A publisher delivers its message to the user.                           *)

Stage(m, stage) == pub' = [pub EXCEPT ![m] = stage]

StoreMessage(m) ==
    /\ pub[m] = "new"
    /\ message' = [message EXCEPT ![m] = "stored"]
    /\ Stage(m, "deliver")
    /\ UNCHANGED <<clock, digest, quiet, items, deferred, notified, worker, api, counts, history>>

ReadDigestPolicy(m) ==
    /\ pub[m] = "deliver"
    /\ IF digest.enabled /\ Priority[m] < digest.immediate
       THEN /\ Stage(m, "queue")
            /\ tardy' = IF api.pc = "save" THEN tardy \cup {m} ELSE tardy
       ELSE Stage(m, "quiet") /\ UNCHANGED tardy
    /\ UNCHANGED <<clock, rows, notified, worker, api, counts,
                   summarised, excused, redone>>

\* A digest under the key of this policy is stored already.
Repeated(policy) == policy.enabled /\ message[DigestId(policy.next)] = "stored"

\* An item queued in the middle of a digest, or while a digest with the key of
\* the next one is stored already, may be cleared without having been read.
QueueDigestItem(m) ==
    /\ pub[m] = "queue"
    /\ items' = items \cup {m}
    /\ Stage(m, "done")
    /\ excused' = IF \/ \E w \in Workers :
                           \/ worker[w].pc \in {"store", "quiet", "defer", "clear"}
                           \/ worker[w].pc = "items" /\ Repeated(worker[w].policy)
                     \/ Repeated(digest)
                     \/ message[m] = "deleted"
                  THEN excused \cup {m} ELSE excused
    /\ UNCHANGED <<clock, message, digest, quiet, deferred, notified, worker, api, counts,
                   summarised, tardy, redone>>

ReadQuietHours(m) ==
    /\ pub[m] = "quiet"
    /\ IF ~Silenced(Priority[m], clock)
       THEN Notify(m) /\ Stage(m, "done") /\ UNCHANGED excused
       ELSE /\ UNCHANGED notified
            /\ IF quiet.mode = "defer"
               THEN Stage(m, "defer") /\ UNCHANGED excused
               ELSE Stage(m, "done") /\ excused' = excused \cup {m}
    /\ UNCHANGED <<clock, rows, worker, api, counts, summarised, tardy, redone>>

QueueDeferredNotification(m) ==
    /\ pub[m] = "defer"
    /\ deferred' = deferred \cup {m}
    /\ Stage(m, "done")
    /\ excused' = IF message[m] = "deleted" THEN excused \cup {m} ELSE excused
    /\ UNCHANGED <<clock, message, digest, quiet, items, notified, worker, api, counts,
                   summarised, tardy, redone>>

\* An error of deliver: the message is sent at once.
PolicyError(m) ==
    /\ pub[m] \in {"deliver", "queue", "quiet", "defer"}
    /\ Fails
    /\ Notify(m)
    /\ Stage(m, "done")
    /\ UNCHANGED <<clock, rows, worker, api, saves, deletes, history>>

DeleteCopy(id) ==
    /\ message[id] = "stored" /\ deletes < MaxDeletes
    /\ deletes' = deletes + 1
    /\ message' = [message EXCEPT ![id] = "deleted"]
    /\ items' = items \ {id} /\ deferred' = deferred \ {id}
    /\ excused' = excused \cup ({id} \cap Posts)
    /\ UNCHANGED <<clock, digest, quiet, notified, pub, worker, api, fails, saves,
                   summarised, tardy, redone>>

-----------------------------------------------------------------------------
(* The policy endpoints.                                                   *)

SaveQuietHours(form) ==
    /\ saves < MaxSaves /\ saves' = saves + 1
    /\ quiet' = form
    /\ UNCHANGED <<clock, message, digest, items, deferred, notified, pub, worker, api,
                   fails, deletes, history>>

\* Switching the digest off clears the queue before the policy is saved.
SaveDigest(form) ==
    /\ api.pc = "idle" /\ saves < MaxSaves /\ saves' = saves + 1
    /\ api' = [pc |-> "save", form |-> form]
    /\ IF form.enabled
       THEN UNCHANGED <<items, excused, tardy>>
       ELSE /\ items' = {}
            /\ excused' = excused \cup items
            /\ tardy' = tardy \cup {m \in Posts : pub[m] = "queue"}
    /\ UNCHANGED <<clock, message, digest, quiet, deferred, notified, pub, worker,
                   fails, deletes, summarised, redone>>

\* One row per user: the upsert replaces every column the form has.
SaveDigestPolicy(policy) == digest' = policy

WithNext(form, next) ==
    [enabled |-> form.enabled, interval |-> form.interval, immediate |-> form.immediate, next |-> next]

SaveDigestForm ==
    /\ api.pc = "save"
    /\ SaveDigestPolicy(WithNext(api.form, IF api.form.enabled THEN clock + api.form.interval ELSE -1))
    /\ excused' = IF Repeated(digest') THEN excused \cup items ELSE excused
    /\ tardy' = IF api.form.enabled THEN tardy ELSE tardy \cup {m \in Posts : pub[m] = "queue"}
    /\ api' = Idle
    /\ UNCHANGED <<clock, message, quiet, items, deferred, notified, pub, worker, counts,
                   summarised, redone>>

SaveDigestFails ==
    /\ api.pc = "save" /\ Fails
    /\ api' = Idle
    /\ UNCHANGED <<clock, rows, notified, pub, worker, saves, deletes, history>>

-----------------------------------------------------------------------------
(* An automation turn: digests, then deferred notifications.                *)

Highest(w) == LET p == {Priority[m] : m \in worker[w].batch} IN CHOOSE x \in p : \A y \in p : x >= y
Becomes(w, turn) == worker' = [worker EXCEPT ![w] = turn]
Goto(w, pc) == worker' = [worker EXCEPT ![w].pc = pc]
Deferring(w) == [pc |-> "deferred", now |-> worker[w].now]

\* What a turn has read of the deferred rows and not yet removed or passed over.
InHand(w) == CASE worker[w].pc = "send" -> worker[w].todo
               [] worker[w].pc = "unqueue" -> worker[w].todo \cup {worker[w].id}
               [] OTHER -> {}

GetDueDigestPolicies(w) ==
    /\ worker[w].pc = "idle"
    /\ Becomes(w, IF digest.enabled /\ digest.next <= clock
                  THEN [pc |-> "items", now |-> clock, policy |-> digest]
                  ELSE [pc |-> "deferred", now |-> clock])
    /\ UNCHANGED <<clock, rows, notified, pub, api, counts, history>>

GetDigestItems(w) ==
    /\ worker[w].pc = "items"
    /\ Becomes(w, [pc |-> IF items = {} THEN "save" ELSE "store",
                   now |-> worker[w].now, policy |-> worker[w].policy, batch |-> items])
    /\ UNCHANGED <<clock, rows, notified, pub, api, counts, history>>

\* Mutant: the items are cleared although the digest could not be stored.
StoreDigestErrorClears(w) ==
    /\ worker[w].pc \in {"items", "store"} /\ Fails
    /\ IF worker[w].pc = "store" THEN Goto(w, "clear") ELSE Becomes(w, Deferring(w))
    /\ UNCHANGED <<clock, rows, notified, pub, api, saves, deletes, history>>

\* A failed read, digest Channel or store: the policy is left for the next turn.
StoreDigestError(w) ==
    /\ worker[w].pc \in {"items", "store"} /\ Fails
    /\ Becomes(w, Deferring(w))
    /\ UNCHANGED <<clock, rows, notified, pub, api, saves, deletes, history>>

\* CreateMessageOnce under the key of the occurrence: a second digest of the
\* same occurrence is not stored, and its items are cleared all the same.
StoreDigest(w) ==
    LET id == DigestId(worker[w].policy.next)
    IN  /\ worker[w].pc = "store"
        /\ IF message[id] = "stored"
           THEN Goto(w, "clear") /\ UNCHANGED <<message, summarised, redone>>
           ELSE /\ message' = [message EXCEPT ![id] = "stored"]
                /\ summarised' = summarised \cup worker[w].batch
                /\ redone' = IF message[id] = "deleted" THEN redone \cup {id} ELSE redone
                /\ Goto(w, "quiet")
        /\ UNCHANGED <<clock, digest, quiet, items, deferred, notified, pub, api, counts,
                       excused, tardy>>

NotifyDigest(w) ==
    LET id == DigestId(worker[w].policy.next)
        silent == Silenced(Highest(w), worker[w].now)
    IN  /\ worker[w].pc = "quiet"
        /\ IF silent THEN UNCHANGED notified ELSE Notify(id)
        /\ Goto(w, IF silent /\ quiet.mode = "defer" THEN "defer" ELSE "clear")
        /\ UNCHANGED <<clock, rows, pub, api, counts, history>>

DeferDigest(w) ==
    /\ worker[w].pc = "defer"
    /\ \/ deferred' = deferred \cup {DigestId(worker[w].policy.next)} /\ Succeeds
       \/ Fails /\ UNCHANGED deferred
    /\ Goto(w, "clear")
    /\ UNCHANGED <<clock, message, digest, quiet, items, notified, pub, api, saves, deletes, history>>

DigestQuietError(w) ==
    /\ worker[w].pc = "quiet" /\ Fails
    /\ Goto(w, "clear")
    /\ UNCHANGED <<clock, rows, notified, pub, api, saves, deletes, history>>

\* All items of the user are deleted; on an error the policy stays due.
DeleteDigestItems(w) ==
    /\ worker[w].pc = "clear"
    /\ \/ items' = {} /\ Goto(w, "save") /\ Succeeds
       \/ Fails /\ Becomes(w, Deferring(w)) /\ UNCHANGED items
    /\ UNCHANGED <<clock, message, digest, quiet, deferred, notified, pub, api, saves, deletes, history>>

\* The policy is written back as it was loaded, with its next run.
RescheduleDigest(w) ==
    /\ worker[w].pc = "save"
    /\ \/ /\ SaveDigestPolicy(WithNext(worker[w].policy, worker[w].now + worker[w].policy.interval))
          /\ Succeeds
          /\ excused' = IF Repeated(digest') THEN excused \cup items ELSE excused
       \/ Fails /\ UNCHANGED <<digest, excused>>
    /\ Becomes(w, Deferring(w))
    /\ UNCHANGED <<clock, message, quiet, items, deferred, notified, pub, api, saves, deletes,
                   summarised, tardy, redone>>

GetDeferredNotifications(w) ==
    /\ worker[w].pc = "deferred"
    /\ Becomes(w, [pc |-> "send", now |-> worker[w].now, todo |-> deferred])
    /\ redone' = redone \cup (deferred \cap UNION {InHand(v) : v \in Workers \ {w}})
    /\ UNCHANGED <<clock, rows, notified, pub, api, counts, summarised, excused, tardy>>

Sending(w, todo) == [pc |-> "send", now |-> worker[w].now, todo |-> todo]
Skip(w, id) == Becomes(w, Sending(w, worker[w].todo \ {id}))

\* The allowed priority does not count here: quiet hours hold everything back.
SendDeferred(w, id) ==
    /\ worker[w].pc = "send" /\ id \in worker[w].todo
    /\ IF quiet.enabled /\ quietNow(quiet, worker[w].now)
       THEN Skip(w, id) /\ UNCHANGED notified
       ELSE /\ Becomes(w, [pc |-> "unqueue", now |-> worker[w].now, todo |-> worker[w].todo \ {id}, id |-> id])
            /\ IF message[id] = "stored" THEN Notify(id) ELSE UNCHANGED notified
    /\ UNCHANGED <<clock, rows, pub, api, counts, history>>

SendDeferredFails(w, id) ==
    /\ worker[w].pc = "send" /\ id \in worker[w].todo /\ Fails
    /\ Skip(w, id)
    /\ UNCHANGED <<clock, rows, notified, pub, api, saves, deletes, history>>

\* Mutant: the row of a sent notification stays.
KeepDeferredNotification(w) ==
    /\ worker[w].pc = "unqueue"
    /\ Becomes(w, Sending(w, worker[w].todo))
    /\ UNCHANGED <<clock, rows, notified, pub, api, counts, history>>

DeleteDeferredNotification(w) ==
    /\ worker[w].pc = "unqueue"
    /\ \/ deferred' = deferred \ {worker[w].id} /\ Succeeds
       \/ Fails /\ UNCHANGED deferred
    /\ Becomes(w, Sending(w, worker[w].todo))
    /\ UNCHANGED <<clock, message, digest, quiet, items, notified, pub, api, saves, deletes, history>>

EndTurn(w) ==
    /\ worker[w].pc = "send" /\ worker[w].todo = {}
    /\ Becomes(w, Idle)
    /\ UNCHANGED <<clock, rows, notified, pub, api, counts, history>>

\* A process dies: the turns in it stop where they are, and so do the publishers
\* and the API call when it served them.
Crash ==
    /\ Fails
    /\ \E dead \in SUBSET Workers : worker' = [w \in Workers |-> IF w \in dead THEN Idle ELSE worker[w]]
    /\ \/ /\ api' = Idle
          /\ pub' = [m \in Posts |-> IF pub[m] = "new" THEN "new" ELSE "done"]
          /\ excused' = excused \cup {m \in Posts : pub[m] \notin {"new", "done"}}
       \/ UNCHANGED <<api, pub, excused>>
    /\ UNCHANGED <<clock, rows, notified, saves, deletes, summarised, tardy, redone>>

Turn(w) ==
    \/ GetDueDigestPolicies(w) \/ GetDigestItems(w) \/ StoreDigestError(w) \/ StoreDigest(w)
    \/ NotifyDigest(w) \/ DeferDigest(w) \/ DigestQuietError(w) \/ DeleteDigestItems(w)
    \/ RescheduleDigest(w) \/ GetDeferredNotifications(w) \/ DeleteDeferredNotification(w) \/ EndTurn(w)
    \/ \E id \in CopyIds : SendDeferred(w, id) \/ SendDeferredFails(w, id)

DeliveryNext ==
    \/ Tick \/ (\E w \in Workers : Turn(w)) \/ Crash \/ SaveDigestForm \/ SaveDigestFails
    \/ \E m \in Posts :
          \/ StoreMessage(m) \/ ReadDigestPolicy(m) \/ QueueDigestItem(m)
          \/ ReadQuietHours(m) \/ QueueDeferredNotification(m) \/ PolicyError(m)
    \/ \E id \in CopyIds : DeleteCopy(id)
    \/ \E f \in QuietForms : SaveQuietHours(f)
    \/ \E f \in DigestForms : SaveDigest(f)

DeliverySpec == DeliveryInit /\ [][DeliveryNext]_deliveryVars

-----------------------------------------------------------------------------
(* Properties.                                                             *)

\* Every message whose delivery has ended reached the user, in realtime or in
\* a stored digest, or waits for the end of the quiet hours or for a digest that
\* is switched on; unless quiet hours suppressed it, she deleted it or ended the
\* digest, its publisher read the policy before she did and queued the item
\* afterwards, the process died during its delivery, or it was queued while a
\* digest was being made (engine.go deliver, runDigests, runDeferred).
Accounted ==
    \A m \in Posts : pub[m] = "done" =>
        \/ notified[m] > 0
        \/ m \in summarised \cup deferred \cup excused
        \/ m \in items /\ (digest.enabled \/ m \in tardy)

\* No message, and no digest, is sent in realtime more often than once and once
\* more for every failed call or crash (runDeferred deletes after it sends), unless
\* two turns that overlapped had its deferred row in hand at once, or it is a
\* digest that a second turn stored again after the user deleted it.
SentOnce == \A id \in CopyIds \ redone : notified[id] <= 1 + fails
=============================================================================
