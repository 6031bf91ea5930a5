------------------------------- MODULE Feeds --------------------------------
(* A feed monitor (RSS and Atom, or a calendar) polled by the connector     *)
(* managers of several processes that share the database, while an          *)
(* administrator edits it. A feed lists its entries, the oldest first, and  *)
(* its entity tag stands for the entries it listed. An administrator may    *)
(* point the monitor at another feed; the tag of the old one stays.         *)
EXTENDS Integers

CONSTANTS
    Managers,    \* processes; each polls on its own ticker
    NoManager,   \* the holder of a lease whose process is gone
    Urls, MaxEntries, \* feeds, and how many entries each may list
    PollLease,   \* life of the lease of a poll (2 minutes), never renewed
    Interval,    \* minutes between two polls of the monitor
    Ahead,       \* NotifyBeforeMinutes of a calendar monitor
    KeepSeen,    \* age at which a seen item is removed (6 months)
    MaxMinute, MaxFailures, MaxMonitorEdits

ASSUME FeedAssumption ==
    /\ NoManager \notin Managers
    /\ MaxEntries \in Nat \ {0} /\ PollLease \in Nat /\ Interval \in Nat \ {0} /\ Ahead \in Nat
    /\ KeepSeen \in Nat /\ MaxMinute \in Nat /\ MaxFailures \in Nat /\ MaxMonitorEdits \in Nat

Entries == Urls \X (1..MaxEntries)
Never == -1

VARIABLES
    kind,       \* "rss" or "ical": which of the two monitors this is
    minute,
    listed,     \* external: how many entries each feed lists
    monitor,    \* the row: [exists, enabled, url, checked, tag, wanted]; no tag is {}
    admin,      \* an update under way, with the row it read
    pollLease,  \* the lease row "rss:id" or "ical:id"
    poller,     \* per manager: how far its poll is, with the row it loaded
    seenAt,     \* ConnectorSeenItem: entry -> time, Never if absent
    failures, monitorEdits,
    posted,     \* history: how often each entry was published
    forgotten,  \* history: how often the seen record of each entry was removed
    offered,    \* history: entries some finished poll went through
    excused     \* history: entries filtered out, not published after a failure, in an answer
                \* that could not be parsed, or behind a 304 to the tag of another feed

feedVars == <<kind, minute, listed, monitor, admin, pollLease, poller, seenAt, failures,
              monitorEdits, posted, forgotten, offered, excused>>

NoPoll == [pc |-> "idle"]
NoAdmin == [reading |-> FALSE]
FreeLease == [holder |-> NoManager, expires |-> Never]

FeedInit ==
    /\ kind \in {"rss", "ical"}
    /\ minute = 0 /\ listed = [u \in Urls |-> 1]
    /\ \E u \in Urls :
          monitor = [exists |-> TRUE, enabled |-> TRUE, url |-> u, checked |-> Never, tag |-> {}, wanted |-> Entries]
    /\ admin = NoAdmin /\ pollLease = FreeLease
    /\ poller = [m \in Managers |-> NoPoll]
    /\ seenAt = [e \in Entries |-> Never]
    /\ failures = 0 /\ monitorEdits = 0
    /\ posted = [e \in Entries |-> 0] /\ forgotten = [e \in Entries |-> 0]
    /\ offered = {} /\ excused = {}

MinutePasses ==
    /\ minute < MaxMinute /\ minute' = minute + 1
    /\ UNCHANGED <<kind, listed, monitor, admin, pollLease, poller, seenAt, failures, monitorEdits,
                   posted, forgotten, offered, excused>>

FeedGrows(u) ==
    /\ listed[u] < MaxEntries /\ listed' = [listed EXCEPT ![u] = @ + 1]
    /\ UNCHANGED <<kind, minute, monitor, admin, pollLease, poller, seenAt, failures, monitorEdits,
                   posted, forgotten, offered, excused>>

Fails == failures < MaxFailures /\ failures' = failures + 1
Works == UNCHANGED failures

-----------------------------------------------------------------------------
(* One poll. The row is loaded before the lease is asked for, and not read  *)
(* again once it is held.                                                   *)

Due(row, at) ==
    row.exists /\ row.enabled /\ (row.checked = Never \/ row.checked + Interval <= at)

LoadDueMonitors(m) ==
    /\ poller[m] = NoPoll /\ Due(monitor, minute)
    /\ poller' = [poller EXCEPT ![m] = [pc |-> "lease", row |-> monitor, at |-> minute]]
    /\ UNCHANGED <<kind, minute, listed, monitor, admin, pollLease, seenAt, failures, monitorEdits,
                   posted, forgotten, offered, excused>>

\* The time of the lease is the time the poll began.
AcquirePollLease(m) ==
    /\ poller[m].pc = "lease"
    /\ LET at == poller[m].at
       IN  IF pollLease.holder = m \/ pollLease.expires <= at
           THEN /\ pollLease' = [holder |-> m, expires |-> at + PollLease]
                /\ poller' = [poller EXCEPT ![m].pc = "fetch"]
           ELSE /\ poller' = [poller EXCEPT ![m].pc = "cleanup"]
                /\ UNCHANGED pollLease
    /\ UNCHANGED <<kind, minute, listed, monitor, admin, seenAt, failures, monitorEdits,
                   posted, forgotten, offered, excused>>

Listed(u) == {u} \X (1..listed[u])

\* Entries the answer offers to this poll: for a calendar, the events that
\* begin between a minute ago and Ahead minutes from now.
Offers(u, at) ==
    IF kind = "rss" THEN Listed(u) ELSE {e \in Listed(u) : e[2] >= at - 1 /\ e[2] <= at + Ahead}

\* The tag was stored for another feed than the one the monitor has now. What
\* that server makes of it, or of the date that goes with it, is open.
OfAnotherFeed(row) == row.tag # {} /\ \A e \in row.tag : e[1] # row.url

Turn(m, row, todo, all) ==
    poller' = [poller EXCEPT ![m] =
                  [pc |-> "entries", row |-> row, at |-> poller[m].at, todo |-> todo, all |-> all]]

\* fetchURL, parseFeed and the assignments before the loop: a failure, 304 Not
\* Modified (only for a monitor that sent a tag), the entries, or an answer that
\* cannot be parsed. The row has the new tag before the answer is parsed.
Fetch(m) ==
    /\ poller[m].pc = "fetch"
    /\ LET row == [poller[m].row EXCEPT !.checked = poller[m].at]
           page == Listed(row.url)
       IN  \/ Fails /\ Turn(m, row, {}, {}) /\ UNCHANGED excused
           \/ /\ kind = "rss" /\ row.tag = page /\ Works
              /\ Turn(m, row, {}, page) /\ UNCHANGED excused
           \/ /\ kind = "rss" /\ OfAnotherFeed(row) /\ Works
              /\ Turn(m, row, {}, page) /\ excused' = excused \cup page
           \/ /\ kind = "rss" /\ Fails
              /\ Turn(m, [row EXCEPT !.tag = page], {}, page) /\ excused' = excused \cup page
           \/ /\ kind = "rss" /\ Works
              /\ Turn(m, [row EXCEPT !.tag = page], page, page) /\ UNCHANGED excused
           \/ /\ kind = "ical" /\ Works
              /\ LET soon == Offers(row.url, poller[m].at)
                 IN  Turn(m, row, soon, soon) /\ UNCHANGED excused
    /\ UNCHANGED <<kind, minute, listed, monitor, admin, pollLease, seenAt, monitorEdits,
                   posted, forgotten, offered>>

\* MarkConnectorItemSeen inserts the record, or finds that it is there.
NewItem(e) == seenAt[e] = Never

Oldest(todo) == CHOOSE e \in todo : \A o \in todo : e[2] <= o[2]

\* Mutant: the loop ends at the first entry that was seen before.
SkipAll(m) == poller' = [poller EXCEPT ![m].todo = {}]

Skip(m) == poller' = [poller EXCEPT ![m].todo = @ \ {Oldest(@)}]

\* The next entry: filtered out, not marked because of an error, seen before,
\* or marked; only then it is published.
MarkEntry(m) ==
    /\ poller[m].pc = "entries" /\ poller[m].todo # {}
    /\ LET e == Oldest(poller[m].todo)
       IN  \/ /\ e \notin poller[m].row.wanted /\ Works
              /\ excused' = excused \cup {e}
              /\ poller' = [poller EXCEPT ![m].todo = @ \ {e}] /\ UNCHANGED seenAt
           \/ /\ e \in poller[m].row.wanted /\ Fails
              /\ excused' = excused \cup {e}
              /\ poller' = [poller EXCEPT ![m].todo = @ \ {e}] /\ UNCHANGED seenAt
           \/ /\ e \in poller[m].row.wanted /\ ~NewItem(e) /\ Works
              /\ Skip(m) /\ UNCHANGED <<seenAt, excused>>
           \/ /\ e \in poller[m].row.wanted /\ NewItem(e) /\ Works
              /\ seenAt' = [seenAt EXCEPT ![e] = poller[m].at]
              /\ poller' = [poller EXCEPT ![m].pc = "publish"] /\ UNCHANGED excused
    /\ UNCHANGED <<kind, minute, listed, monitor, admin, pollLease, monitorEdits,
                   posted, forgotten, offered>>

PublishEntry(m) ==
    /\ poller[m].pc = "publish"
    /\ LET e == Oldest(poller[m].todo)
       IN  /\ \/ Works /\ posted' = [posted EXCEPT ![e] = @ + 1] /\ UNCHANGED excused
              \/ Fails /\ excused' = excused \cup {e} /\ UNCHANGED posted
           /\ poller' = [poller EXCEPT ![m].pc = "entries", ![m].todo = @ \ {e}]
    /\ UNCHANGED <<kind, minute, listed, monitor, admin, pollLease, seenAt, monitorEdits,
                   forgotten, offered>>

\* UpdateRSSMonitorStatus or SaveCalendarMonitor: the whole row as it was
\* loaded, also when it was edited or deleted meanwhile. Errors are dropped.
SaveStatus(m) ==
    /\ poller[m].pc = "entries" /\ poller[m].todo = {}
    /\ \/ Works /\ monitor' = poller[m].row
       \/ Fails /\ UNCHANGED monitor
    /\ offered' = offered \cup poller[m].all
    /\ poller' = [poller EXCEPT ![m] = [pc |-> "release", at |-> poller[m].at]]
    /\ UNCHANGED <<kind, minute, listed, admin, pollLease, seenAt, monitorEdits,
                   posted, forgotten, excused>>

ReleasePollLease(m) ==
    /\ poller[m].pc = "release"
    /\ pollLease' = IF pollLease.holder = m THEN FreeLease ELSE pollLease
    /\ poller' = [poller EXCEPT ![m].pc = "cleanup"]
    /\ UNCHANGED <<kind, minute, listed, monitor, admin, seenAt, failures, monitorEdits,
                   posted, forgotten, offered, excused>>

Forget(gone) ==
    /\ seenAt' = [e \in Entries |-> IF e \in gone THEN Never ELSE seenAt[e]]
    /\ forgotten' = [e \in Entries |-> forgotten[e] + (IF e \in gone THEN 1 ELSE 0)]

\* The poll ends with CleanupConnectorSeenItems, the age counted from its start.
Cleanup(m) ==
    /\ poller[m].pc = "cleanup"
    /\ Forget({e \in Entries : seenAt[e] # Never /\ seenAt[e] < poller[m].at - KeepSeen})
    /\ poller' = [poller EXCEPT ![m] = NoPoll]
    /\ UNCHANGED <<kind, minute, listed, monitor, admin, pollLease, failures, monitorEdits,
                   posted, offered, excused>>

\* A process dies; the manager that replaces it has a new instance id, so the
\* lease it held is nobody's until it runs out.
Die(m) ==
    /\ poller[m] # NoPoll /\ Fails
    /\ poller' = [poller EXCEPT ![m] = NoPoll]
    /\ pollLease' = IF pollLease.holder = m THEN [pollLease EXCEPT !.holder = NoManager] ELSE pollLease
    /\ excused' = IF poller[m].pc = "publish" THEN excused \cup {Oldest(poller[m].todo)} ELSE excused
    /\ UNCHANGED <<kind, minute, listed, monitor, admin, seenAt, monitorEdits, posted, forgotten, offered>>

-----------------------------------------------------------------------------
(* The endpoints.                                                           *)

ReadMonitor ==
    /\ admin = NoAdmin /\ monitor.exists /\ monitorEdits < MaxMonitorEdits
    /\ monitorEdits' = monitorEdits + 1
    /\ admin' = [reading |-> TRUE, row |-> monitor]
    /\ UNCHANGED <<kind, minute, listed, monitor, pollLease, poller, seenAt, failures,
                   posted, forgotten, offered, excused>>

\* URL, filters and enabled change, the rest of the row is written back as it
\* was read: the tag too.
SaveMonitor(u, wanted, enabled) ==
    /\ admin.reading
    /\ monitor' = [admin.row EXCEPT !.url = u, !.wanted = wanted, !.enabled = enabled]
    /\ admin' = NoAdmin
    /\ UNCHANGED <<kind, minute, listed, pollLease, poller, seenAt, failures, monitorEdits,
                   posted, forgotten, offered, excused>>

UpdateRSS(u, wanted, enabled) == kind = "rss" /\ SaveMonitor(u, wanted, enabled)
UpdateCalendar(u, wanted, enabled) == kind = "ical" /\ SaveMonitor(u, wanted, enabled)

\* In one transaction with the seen items of the monitor.
DeleteMonitor ==
    /\ monitor.exists /\ monitorEdits < MaxMonitorEdits
    /\ monitorEdits' = monitorEdits + 1
    /\ monitor' = [monitor EXCEPT !.exists = FALSE]
    /\ Forget({e \in Entries : seenAt[e] # Never})
    /\ UNCHANGED <<kind, minute, listed, admin, pollLease, poller, failures, posted, offered, excused>>

FeedNext ==
    \/ MinutePasses \/ ReadMonitor \/ DeleteMonitor
    \/ \E u \in Urls : FeedGrows(u)
    \/ \E u \in Urls, wanted \in {{}, Entries}, enabled \in BOOLEAN :
          UpdateRSS(u, wanted, enabled) \/ UpdateCalendar(u, wanted, enabled)
    \/ \E m \in Managers :
          \/ LoadDueMonitors(m) \/ AcquirePollLease(m) \/ Fetch(m) \/ MarkEntry(m) \/ PublishEntry(m)
          \/ SaveStatus(m) \/ ReleasePollLease(m) \/ Cleanup(m) \/ Die(m)

FeedSpec == FeedInit /\ [][FeedNext]_feedVars

-----------------------------------------------------------------------------
\* An entry is published once, and once more for each time its seen record was
\* removed, however the polls of two processes overlap when a lease runs out
\* under a slow fetch (connectors/manager.go pollRSS, pollCalendar).
OncePerEntry == \A e \in Entries : posted[e] <= 1 + forgotten[e]

Publishing(e) == \E m \in Managers : poller[m].pc = "publish" /\ Oldest(poller[m].todo) = e

\* A poll that ended without an error leaves every entry of the answer dealt
\* with, a 304 included, and so does a stored tag, which may make the next
\* answer a 304: the entry was published, is about to be by the process that
\* marked it, was filtered out, or is one of those the code gives up: after a
\* failed statement or publication, in an answer that could not be parsed, whose
\* tag is saved all the same, or behind a 304 to the tag of another feed
\* (connectors/manager.go pollRSS, api/connectors.go UpdateRSS).
NothingSkipped ==
    \A e \in offered \cup monitor.tag : posted[e] > 0 \/ e \in excused \/ Publishing(e)

\* What becomes of the entries of a feed (connectors/manager.go pollRSS).
EntriesSettled == OncePerEntry /\ NothingSkipped
=============================================================================
