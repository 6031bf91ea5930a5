# Gotify-MU in TLA+

Specifications of the Gotify-MU server: its WebSocket hub, automation engine,
connectors, plugins, channels, messages, accounts and its own files. TLC checks
them on small instances; TLAPS proves the invariants for every instance. `PROJECT.json` lists the components, the runs, the
source lines each definition stands for, the mutants that show that the
properties can fail, the findings, the hazards and the theorems.

## 1. The system

Gotify-MU is one Go process (several may share one database) with a REST API, a
database behind GORM, a WebSocket hub, background engines and plugins.

| Component | State | Operations | Interacts with |
|---|---|---|---|
| WebSocket hub, `api/stream` | maps of clients behind one `RWMutex`; per client a socket, a write channel, a closed channel, a once flag | `Handle`, `HandleMUEvents`, `Notify`, `NotifyMUEvent`, `NotifyDeletedUser`, `NotifyDeletedClient`, `Close`, two goroutines per client | every handler that stores a message or deletes a user or a client |
| Scheduler, `automation/engine.go` | lease row, scheduled notifications, their runs, messages | `schedulerLoop`, `runSchedules`, `storeAndDeliver`; API create, update, delete | engines that share the database; hub |
| Escalations, same file | rules, states, acknowledgements, messages with parent, root and depth | `queueEscalations`, `runEscalations`; rules, acknowledge, delete | same loop, same store |
| Delivery policies, same file | digest policies and items, quiet hours, deferred notifications | `deliver`, `runDigests`, `runDeferred`; policy API | scheduler loop, hub |
| Integrations and MQTT, same file | connections, leases, running contexts, packets in flight, pairing codes | `integrationLoop`, `restartIntegrations`, `runWithLease`, `runMQTT`; native Home Assistant endpoints | database, broker |
| Webhooks, `api/automation.go`, `security` | routes, rate windows, replay cache | `ReceiveWebhook`, rotation and deletion of a route | engine |
| Connectors, `connectors` | monitor and route rows, seen items, leases | RSS and calendar polls, SMTP and Syslog listeners, mail | engine, database |
| Plugins, `plugin`, `api/plugin.go` | files, loaded plugins, instances per user, configuration rows | install, update, uninstall, enable, disable, configure | API, messages |
| Membership, `database/application_membership.go`, `group.go` | members, groups and their assignments, owner, automatic assignment | synchronise, transfer, add, remove | recipients of every message |
| Messages, `api/message.go`, `database/message.go` | messages, dismissals, archive | create, reply, page, hide, archive, delete, retention | all producers |
| Collaboration, `api/collaboration.go` | attachments and their files, reactions, mentions, read marks, workflow | transactions on one message, hourly sweep | hub events |
| Sessions, `auth`, `api/session.go`, `client.go`, `mfa.go`, `passkey.go` | client tokens, expiry, elevation, second factors, challenges | authenticate, elevate, revoke, clean up | hub, by deletion of clients |
| OIDC and LDAP, `api/oidc.go`, `ldap.go`, `decaymap` | pending sign-ins, bound accounts | redirect, callback, external token | identity provider |
| Channels and their order, `api/application.go`, `fracdex` | row, picture, sort key | create, update, delete, picture, reorder | membership |
| Managed update, `api/update.go`, entry point script | status file, downloaded and running binary | check, install, restart | file system |
| Backup and restore, `operations` | bundle, pending restore, safety bundles | create, stage, apply at start | file system, database |
| Router, runner, configuration, audit, health, UI | wiring or reporting | two maintenance tickers | |

What is hard here:

- *Concurrency.* The hub's goroutines meet in one lock, a once flag and bounded
  channels. Engines of several processes meet in the database, call by call.
  Two requests on one row overlap between its read and its write.
- *Failure.* A turn of an engine, an upload, an installation or a restore is a
  sequence of database calls and file operations without a transaction. Each can
  fail and the process can end between two.
- *Time.* Leases, retries, misfires, repeats, replay windows and expiry compare
  stored times with ticks that may be old.
- *Stale reads.* GORM's `Save` writes back the whole row as it was loaded, and
  inserts it when it is gone.
- *Delivery.* Brokers repeat packets, feeds are polled again, log lines come
  twice, identity providers answer late or twice.

## 2. Modules

Each module is one component with its own variables, `...Init`, one action per
handler, call or file operation, and `...Next`. History variables are marked in
the declarations; they are read by properties only, except to bound the
behaviours that a bound names. Where a database call can fail, the module has
the error path of the code as an action of its own, counted against a bound.

Several properties have the form "it holds unless ...". The exceptions are the
interleavings the code leaves open, recorded by one history variable in the
steps that cause them (a save of a row that changed meanwhile, a failure that is
not retried). They state exactly what the code guarantees, and section 4 lists
them as known limits.

### The hub: `Stream`, `MessageProofs`

Steps are operations on locks, channels and sockets.

| Variable | Code |
|---|---|
| `registered` | `API.clients`, `API.muClients` |
| `announced`, `rlocked` | `API.lock`, as Go implements it: `Lock` first shuts out new readers, then waits for those inside |
| `done`, `connOpen`, `closed`, `buf` | per client: `once`, `conn`, `closed`, `write` |
| `inflight` | the message in the hands of `startWriteHandler` |
| `hpc`, `gpc`, `npc`, `kpc` and locals | connection handler, reading and writing goroutine, callers of `Notify*`, callers of `NotifyDeleted*` and `Close` |

`once` is the repository's own (`once.go`): `Do` returns at once when the flag
is set, also while the function still runs. Message clients (one slot, `Notify`
waits) and event clients (`EventCap` slots, 8 in the code, `NotifyMUEvent`
drops) share the actions, told apart by `KindOf`. A read or a write may fail at
any time, and a write always ends because it has a deadline.

### The engine: `Scheduler`, `Escalation`, `Delivery`, `SchedulerProofs`, `EscalationProofs`, `EngineProofs`

Steps are database calls; API handlers, other engines, the clock and crashes
come in between.

`Scheduler` keeps times in seconds with the code's constants (lease 25, retry
60, misfire grace 300), and its clock passes through the set `Times`, chosen
around these. A schedule's definition is the set of moments it selects, whether
it is a single run, its maximum of runs and its misfire policy;
`NextScheduleRun` is then the first moment after a time. `row.ver`, `row.since`
and `row.occ` are history: which edit wrote the row, when, and which occurrence
the next run stands for, so that a retry at another time is still known as that
occurrence. An instance is one incarnation of a process: `instanceID` is drawn
anew in `New`, so a restart is another member of `Instances`.

`Escalation` indexes states by rule and message, the table's unique index.
`queueEscalations` is one step that may end early with any part of its
insertions. Turns of several engines may overlap, because the lease does not
prevent it. The depth limit, 5 in the code, is `MaxDepth`. The walk that looks for
a cycle ends where a parent is deleted or cannot be loaded, as in the code. The
users and groups of `Mortal` may be deleted while rules name them; the rule and its
states stay, and the target cannot be resolved any more.

`Delivery` is one user: `deliver` of each publisher, `runDigests` and
`runDeferred` call by call with the rows they loaded, and the policy endpoints.
Each engine of `Workers` has a turn of its own and turns may overlap, because the
lease is not renewed during a turn; two of them may have one deferred row in hand.
A digest is a message whose key is the time it was due.

### Integrations: `Lease`, `Integrations`, `Mqtt`, `HomeAssistant`, `EngineProofs`

`Lease` is the abstract specification of what an automation lease promises: one
party works under a grant that has not run out. `Integrations` is
`integrationLoop` (reload channel of one token, stop, load, start),
`runWithLease` with its renewal goroutine, and the stray renewals that outlive a
loop. It implements `Lease` under the mapping `holders <- {e : Working(e)}`,
checked as the property `ExclusiveWork`.

`Mqtt` is one connection: PUBLISH, PUBREC, PUBREL, PUBCOMP and PUBACK over an
ordered stream, with `pendingQoS2` keyed by packet id; the broker is external.
It gives a packet id to one message at a time, and gives the id of a repeated
message of quality 1 to no other one of that quality while a copy or a confirmation
of it is on the way: a confirmation names the id alone, and without this the
confirmation of the one message would end the flight of the other.
`HomeAssistant` is the row of a native bridge under overlapping requests.

### Inbound: `Webhooks`, `Feeds`, `SmtpReceiver`, `Syslog`, `InboundProofs`

`Webhooks` follows one request through the limiter (`security/ratelimit.go`),
the comparison of secrets, the timestamp window, the replay cache
(`security/replay.go`) and the publication. Limiter and cache are memory of one
process: several processes start and stop, each with both empty at its start.
`Feeds` polls an RSS or a calendar monitor in several processes: lease, conditional
fetch, parsing, filters, seen items, publication, save of the row, cleanup of seen
items. A tag belongs to the feed (`Urls`) that answered it; it is taken before the
answer is parsed, and an edit of the URL keeps it. `SmtpReceiver` is what
`handleSMTP` keeps between two commands. `Syslog` is the listener loop and
`MarkConnectorItemSeenWithin`, an update and an insert.

### Plugins: `PluginFiles`, `PluginInstances`, `FileProofs`

`PluginFiles` is the directory and the manager's tables; a file stands for its
content because it is named after its checksum. Its start loads every file and
fails when one does not load. `PluginInstances` is one instance with its row,
written by the manager, the API and the plugin's storage handler, only some of
them under the manager's lock. Every save can fail after the instance was switched
or configured; `unsaved` records the part of the row that is behind.

### Messages: `Messages`, `Collaboration`, `MessageProofs`

`Messages` is the history of one channel: the posts with `reply_to` and
`thread_root`, hidden and archived marks per user, deletion of threads,
retention, and a client that pages by `since` meanwhile. `Collaboration` is what
hangs on a message, rows and files, with failures between them, and the hourly
sweep that reads the names first and the directory afterwards.

### Channels: `Membership`, `Channels`, `SortKeys`, `ChannelProofs`

`Membership` has one channel, its owner, members and groups. Requests that
decide outside the transaction that writes keep what they read in `thread`.
Roles are ranks (1 viewer to 4 owner). A synchronisation that finds its channel
gone ends without an error, and the deletion of a user goes on. `Channels` is the row and the picture
file, with both ways of deletion: the endpoint, and the account of the owner. `SortKeys` is `fracdex` as the code computes it (`KeyBetween`, `midpoint`,
`incrementInt`, `decrementInt`, `NKeysBetween`) over a smaller alphabet, driven
by insertions, and is checked against the order the user arranged. The recursive
functions of the code are recursive functions there, not RECURSIVE operators, so
that they can be proved about.

### Accounts: `Sessions`, `SignIn`, `Users`, `SecondFactor`, `AccountProofs`

`Sessions` is the clients of one user, the requests between their database and
hub calls, the four ways a client ends (the deletion of the account takes the rows
one by one) and the five-minute round; its hub is the
registry of `Stream` at the grain of one call. `SignIn` is the two-generation
`DecayMap` and the pending sign-ins in it. `Users` is who is administrator and
which identity an account is bound to. `SecondFactor` is MFA, recovery codes,
passkeys and challenges.

### The server's own files: `Restore`, `Updater`, `FileProofs`

Steps are file operations; the process can die between any two.
`Restore` maps entries of the data directory to versions. `Updater` has the
temporary file of each version, the runtime binary, the previous one, the status
file and the entry point that chooses what to start. Each file operation of an
installation can fail, and so can each write of the status file, whose errors the
code drops.

### Composition

The modules that share the engine's loop and tables (scheduler, escalations,
delivery) are connected by their assumptions: overlapping turns come from
`Scheduler`, repeated calls of `deliver` from both. Modules that share no state
are explored together by one run: `MCEngines`, `MCExternal`, `MCMessages` and `MCServer` have
a variable `part`, chosen by the initial state, and a
behaviour takes the steps of that part only. This is the union of separate
state spaces, not their product, and no module is restricted by it but as the
bounds below say.

`Restore` and `Updater` are modelled apart although they share files in the code:
a bundle holds everything in the data directory, the runtime binary of an update
(`.monita-runtime`) and the update status file included. Applying one may therefore
put back an older runtime or an older status. The start does this before it looks
at the status; that interaction is not modelled.

## 3. Runs

`CHECK_DEADLOCK FALSE` everywhere: the numbers of calls are bounded, so every
instance comes to rest. That nobody is stuck before is what `NothingHangs`,
`DueHandled` and `StateSettles` say.

| Run | Instance | What it shows |
|---|---|---|
| `stream` | a message client and an event client of one user, two calls of a notifier, a deletion or `Close` | no channel is closed twice, no message is lost silently, no closed client stays registered |
| `stream_live` | one client, two messages, a deletion or `Close`, fairness | calls return, closed clients are released |
| `sched_edit` | two engines, one schedule created or edited twice (two runs at most, with misfires sent or skipped, or a single run), deletion, crashes | no occurrence is passed over or sent twice, the maximum of runs is kept |
| `sched_failures` | two engines, one of them reliable, any one call fails, misfires skipped, fairness | lease exclusion, delivery once, due schedules are handled |
| `engines` | two workers on a rule with a repeat and a crash; two rules out of a loop between two Channels and a user who escalates to herself, with one edit, deletion or parent that cannot be loaded; two supervisors of one connection | copies are bounded and stop at an acknowledgement; chains end; no edit of a connection is missed; the supervisors implement `Lease` |
| `esc_failures` | one worker, a rule switched on and off, any one call fails or the worker crashes, the target of the rule may be deleted, fairness | states are closed with a copy or a reason, a failed read among them; due states settle unless their target is gone |
| `external` | `Mqtt`, `HomeAssistant`, `Webhooks` in two processes, `Feeds` with two pollers and two URLs, `SmtpReceiver`, `Syslog`, `PluginFiles`, `PluginInstances`, `Restore`, `Updater` | see below |
| `messages` | `Delivery`, `Messages`, `Collaboration` | see below |
| `server` | `Membership`, `Channels`, `SortKeys`, `Sessions`, `SignIn`, `Users`, `SecondFactor` | see below |
| `stream_close` | as `stream` | violated: `Close` does not stop new connections |
| `sched_retry` | one engine, the recipients query fails once | violated: the retry sends the occurrence again |
| `attachments` | a send with two images beside the sweep | violated: a delivered message lacks a file |

`engines`, beside the escalations:

- `NoEditMissed`: an engine without a pending reload runs the newest
  configuration saved through it. `ExclusiveWork`: the refinement of `Lease`.

`external`:

- `QualityKept`: quality 2 at most once, confirmed messages published.
- `PairingSound`: a native secret taken out of the row is not accepted again.
- `WebhookSound`: a process accepts a signed request once although its cache forgets
  after ten minutes (at the first and at the last moment of its life it can pass
  twice), and no span of a window's length passes it more than twice the limit.
- `EntriesSettled`: entries are published at most once per life of their seen
  record, and none is left out without a reason: an answer that could not be parsed
  and the tag of another feed are reasons.
- `DuplicatesApart`, `MailCleared`: repeated lines, recipients of mails.
- `FilesSound`, `RowMatchesInstance`: the next start loads the directory; the
  row says whether the instance runs, but for what a failed save left out.
- `RestoreWhole`, `UpdateSound`: a crash or a failure at any file operation is
  recovered from by the next start; a report of a failed execution that was not
  written is the named exception for what the status says.

`messages`:

- `Accounted`: a message whose delivery ended was received, waits for somebody
  who will send it, or was suppressed on purpose. `SentOnce`: one more
  notification than failures at most, but for rows that two overlapping turns had
  in hand at once and digests stored again after their deletion.
- `PagingComplete`: a client that pages meanwhile gets every steady message
  once, newest first. `ThreadsWhole`: no reply outlives its root.
- `RowsConsistent`: attachment rows have files, files have rows or are swept,
  marks belong to messages that exist.

`server`:

- `OwnerIsMember`, `GroupAccess`: the owner's membership; the roles of groups.
- `ChannelIntact`, `OrderKept`: row and picture (the one of a channel deleted with
  its owner stays); keys in the user's order.
- `NoLooseSocket`, `OnlyIdleRemoved`: open connections have a client; clients in
  use are kept.
- `PendingSound`, `LastAdminKept`, `BindingKept`, `SpentOnce`: a sign-in is redeemed once
  and not lost early, an administrator stays, bindings stay, codes and
  challenges are used once.

### Bounds

- Hub: the races are between the goroutines of one client, callers and closers,
  and between one client being closed and another being walked. Two calls make a
  full channel with another message waiting. `EventCap = 1` makes event channels
  full at once.
- Scheduler: schedules share only the lease, and a turn handles them one after
  the other, so one is enough. Two engines give every pair of overlapping turns,
  and the second is also the restart of the first. `Times` contains a moment
  past the lease, a backlog and one past the misfire grace; one definition has two
  occurrences a second apart, as cron expressions with seconds do. `MaxEdits`
  counts the creation. `MayEnd` lets engines end only while the clock can still pass the
  lease they leave behind; otherwise the end of `Times` would look like a lease
  that never expires.
- Escalations: `MaxDepth = 2` has a first copy, a chained one and one refused;
  `MaxMessages` leaves room for all copies, including one stored again after a
  deletion. In `engines`, two workers share one rule that repeats (`Overlap`: one
  save of a rule), and one worker follows chains (`Chains`: one disturbance, which
  is an edit, a deletion or a failed read of a parent; nothing forces one to happen,
  and each alone lets a cycle through). In `esc_failures` one update of a rule is
  under way at a time, and at most two of a failure, an acknowledgement, the deletion
  of a message and that of the target happen (`FewAtOnce`).
- Delivery: one turn alone is explored with everything; two turns that overlap are
  explored with both messages and one save or deletion, or with one message and all
  of them (`TurnBound`): the overlap is about a row that two turns have loaded.
- Failures and crashes: one per behaviour (`MaxFailures`, `MaxFaults`, `MaxErrors`,
  `MaxBreaks`, `MaxMishaps`), at every call that can fail; three in `Restore` and
  `Updater`, whose recovery can crash in turn. Two failures at once are not
  covered elsewhere.
- Requests: two overlap everywhere, as the races found are between a request
  that reads and one that writes in between; up to four or five follow each
  other, enough to undo and redo (enable, disable, remove; pair, revoke, pair).
- Leases have length 1 in clocks of a few units, so that they expire while
  somebody works, and in `Integrations` may be renewed with an old time.
- `Integrations`: edits, faults and steps of the clock are explored three at a
  time (`EditBound`), so a fault or an edit meets a lease that runs out; two
  edits, which meet in a reload channel, are explored alone.
- `Feeds`: two entries at the feed the monitor points at first, and another feed. RSS
  has one failure and one edit; the calendar, and a monitor pointed at the other feed,
  have one of the two; an edit that changes the URL changes nothing else
  (`FeedBound`).
- `SortKeys`: base 3 and two heads of each sign reach both ends of the integers
  and carries of every length within four insertions, also at random starting
  keys of length 4 as a client may send.
- `SignIn`: a generation of two units and a clock of five pass two changes.
- `Webhooks`: the clock passes the whole life of an entry of the replay cache and
  two rate windows; two processes are both a restart (one stops, the other starts)
  and two servers on one database. Edits of the route are explored with one process
  (`WebhookBound`), because the processes share the row alone.

Symmetry is used where actors are interchangeable and no liveness property is
checked: the instances in `sched_edit`, rules and workers in `engines`, pollers in
`external`, requests in `messages`, requests and what they act on in `server`.

### Fairness

- Hub: a goroutine that can run runs (weak fairness). `Announce` and `RLock` are
  strongly fair: Go's mutex hands over to a starving waiter and `Unlock` admits
  the readers that waited. Nothing is assumed of the peer: a read fails for
  certain only when this side has closed the socket.
- Scheduler: the clock moves on, a started loop and its ticker run, and the
  engines in `Reliable` start and neither crash nor close. `DueHandled` needs
  one such engine; without any, nothing can be expected.
- Escalations: clock, publishers and workers go on. Crashes and errors are
  bounded, so they end at some time.

The other modules state safety only.

## 4. Findings

1. `Close` of the hub promises to stop answering new connections
   (`api/stream/stream.go:252`). A handler that has upgraded its connection and
   waits for the lock registers afterwards and stays (`stream_close`).
2. `docs/releases/v0.5.0.md:53` lists idempotent scheduled delivery. When the
   recipients cannot be loaded after the store, the retry has another key and
   stores a second message (`sched_retry`).
3. The hourly sweep reads the names with a row and then the directory. A file
   uploaded in between has its row by the time it is removed, and its message is
   delivered without it (`attachments`).

Known limits, met while modelling, that have no run of their own:

- *Engine.* The lease does not elect one worker as `model/automation.go:279`
  says: it is not renewed during a turn, and an old tick makes it expire early.
  The stored keys keep the effects apart. An error of the query for the message
  or the rule closes an escalation like a deletion (`engine.go:654`), and a crash
  before `queueEscalations` ends the chain (250). A rule edited after the check
  for cycles leads a chain back, and so does a parent that cannot be loaded during
  that check (358); the depth limit ends both. When the user or the group of a rule
  is deleted, the rule and its states stay, its target cannot be resolved, and the
  state is due at every turn for ever (`database/automation.go:503`). The next run is searched
  from a second after the last (`engine.go:468`), so an occurrence in the second
  after another has no turn. A run that was sent, and is written off as a misfire
  by the turn that repeats it, is not counted toward the maximum of runs.
- *Delivery.* `DeleteDigestItems` also removes items queued since the digest was
  read; a turn saves the whole policy over an edit. Turns of two engines that overlap
  both load a deferred row and both send it, without any failure (`engine.go:621`).
  A digest the user deletes can be stored and sent again by a second turn. In the
  model digests made at one moment share a key; the code's keys have nanoseconds.
- *Integrations.* A renewal with an old time cuts a newer grant short; after a
  failed load of the connections nothing runs until the next reload; other
  processes do not hear of an edit. Whole-row saves bring a revoked native
  secret back, or a deleted row.
- *Webhooks.* The replay key is remembered before the publication, so a request
  repeated after a failure is refused. Replay cache and rate limiter are memory of one
  process (`router/router.go:198`): after a restart, or at a second process on the same
  database, a signed request passes again while its timestamp is in tolerance.
  `docs/releases/v0.5.0.md:25` and 77 list replay protection without this restriction;
  `WebhookSound` speaks of each process alone.
- *Connectors.* An entry is marked before it is published. The tag of an answer is
  taken before the answer is parsed and saved with the parse error
  (`manager.go:309`), so the next poll hears that nothing changed and what the answer
  held is never seen. An edit of the URL keeps the tag of the old feed
  (`api/connectors.go:124`). A poll neither renews
  its lease nor reads the row again (`manager.go:207`). An appointment is missed
  when `NotifyBefore` is shorter than the interval (381). A busy listener does
  not renew its lease (503). A mail with several recipients goes to the last.
- *Plugins.* The manager's lock is held while a plugin is enabled, and the
  message handler needs it (`manager.go:366`, 91). `RemoveUser` walks the
  instances without it (422). The instance is switched, configured or removed before
  the row is saved; a save that fails (300, 380, 384; `api/plugin.go:583`) leaves the
  row behind, and an uninstall that trusts such a row drops an instance that still
  runs. A crash between the rename and the removal of an
  update leaves two files of one module, which the next start refuses.
- *Channels.* Deleting an account deletes its channels without their pictures
  (`database/user.go:97`; the endpoint of a channel removes its own), and an upload
  that fails may leave a part of its file. A sort key given by a client is not validated
  (`api/application.go:139`, 361); `fracdex` hands out the smallest integer and
  then refuses it as a bound. Replies deep in a thread keep a `reply_to` that is
  gone. Assigning and changing the status of a message overwrite each other.
- *Accounts.* A client saved after its revocation is inserted again. A restart
  forgets pending sign-ins. The external token request consumes its state before
  the exchange. A directory sign-in takes the flag of the last administrator.
  A change of the password can undo a binding made meanwhile.
- *Files.* Two starts within one second write one safety bundle. A bundle that
  cannot be extracted stops every start until it is removed
  (`operations/backup.go:216`). A crash during an installation leaves the status
  active (`api/update.go:143`), which refuses later installs: a start ends only
  "restarting". Two installs may share the temporary file. Errors of writing the
  status are dropped (502, 524): after a failed execution it can stay at
  "restarting", and the next start reports the old build as the completed update.

## 5. Proofs

Each theorem is `Spec => []Property` for every value of the constants that
meets the named assumption of the module, which gives the constants types and,
where the code has them, lower bounds (a window or a list of entries is not
empty). It follows from an inductive invariant by one lemma for the initial
states and one step per action. The invariants say what the code relies on and
nowhere writes down; the strongest of them were checked by TLC before they were
proved.

### The hub: `MessageProofs`

`Spec => []IInv`, for any sets of clients, callers and closers, gives
`TypeCorrect`, `RegistryExclusion`, `WalkIsStable`, `ChannelClosedOnce`,
`NoZombies`, `NotifyLosesNothing`.

`LockInv`: who is in a critical section holds the lock, readers inside are
exactly those walking, and what a closer still has to do is registered and
selected; it makes exclusion and `NoZombieClient` inductive. `OnceInv`: the life
of a client is registered, then once fired, then its channel closed; without it
two goroutines could be inside one once. `DataInv`: what the writer holds and
that only message clients are owed something; it carries `NoSilentLoss` through
`DropEvent` and a failed write.

### The engine: `SchedulerProofs`, `EscalationProofs`

`SchedulerProofs`: `TypeCorrect`, `LeaseIsExclusive`, `MessageDeliveredOnce`,
`HistoryTruthful`, `OccurrencesHaveTheirTurn` and `SentOncePerOccurrence`, for any
engines, schedules, definitions, times and failing calls. `ItemInv`: loaded rows are due, so they have a next run, and a run that is
saved has ended. `LeaseInv`: ticks are not in the future, and an engine with a
lease that has not expired is the one the row names; two of them are then the
same. `DeliveryInv`: keys are unique, who is about to deliver stored the message
and has not delivered it, and nothing unstored is delivered. `RunInv`: a run
about to be called completed has its message.

The last two theorems are about the order of occurrences. `Trail` is the set of
those that have a turn: the first, and after each the first more than a second
later, as a least fixed point, so that the proof uses an induction over sets
(`TrailInduction`) and no recursion. `TurnsInv` speaks of every row that is in the
database or in the hands of an engine (`KnownRows`), because an engine that was
overtaken writes back what it loaded and so every one of them can become the
stored row. Such a row stands at a turn, all turns before are over (the message
is stored, or the run was written off), and it has counted the messages before
it; a message implies that the turns before it are over. A message that an old
row would send behind them finds its key taken or was written off, and this is
why the maximum holds although counts go back. Both assume `QuietStore`: neither
the store nor the query for recipients fails. Where they do, the retry has
another key and the code does send an occurrence twice (`sched_retry`); the other
six calls may fail. The proof also corrected the property: the count leaves out
runs that were sent and then written off (section 4).

`EscalationProofs`: `AlwaysTyped`, `ChainsAreBounded`, `CopiesStayBounded`,
`ClosedWithReason`, for any workers, rules, users and depth limit.

- `Chained`: a copy is one deeper than its source and carries the Channels of its
  ancestors, and a turn that is about to store has passed the depth check on the
  message it holds. A return to a Channel needs an edit or a deletion since the
  check, or a parent that could not be loaded during it, which the history records.
- `CopiesCounted`: the key of a copy names its state and its number, a number is
  stored once, and no state counts more than its rule ever allowed. A crash
  between store and save therefore repeats a number and never adds one.
- `LateSettled`: of the copies after an acknowledgement, each but one has a
  deletion of its own. A copy after an acknowledgement can be stored only by a
  turn that looked before it, with the key every other such turn has; only a
  deletion frees the key.
- `ClosedWithReason` (`WorkReasoned`) holds whatever fails: a state is closed without
  a copy for an acknowledgement, an edit, a deletion, or a read of the message or of
  the rule that failed although the row is there, and `misled` names the last of these
  per state (section 4).

### Deliveries and integrations: `EngineProofs`

`EditsReachTheLoops` (`VersionInv`): an engine with nothing to reload has loaded at
least the version it saved last, or could not read the table. `LeaseRefined`: for
any engines every step of `Integrations` is a step of `Lease` or leaves its
variables alone. `RowInv`: the row names whoever works under a grant that has not
run out, and expires when that grant does; with `CallInv`, that a renewal has the
time of a tick in the past, an old renewal can only cut a grant short.

`EveryMessageAccounted` and `SentOncePerFailure` follow from `DeliveryInv`, for any
number of engines with overlapping turns:

- `KeysPast`: no digest was made under a key that is still to come, so a new key
  names a new digest.
- `Budget`: what will still be sent fits what failures allow. A digest that is due
  and one that is being made under the same key count together (`Owed`), and so
  does the row that waits for it (`Unsent`).
- `InOneHand`: a message that was not `redone` is in the hands of one turn at most; it
  is what makes `Budget` inductive, and overlapping turns are what `redone` records.
- `ItemsRead`: the items a digest will clear are in it, or in the one that an
  earlier turn stored under its key.
- `OffIsLate`: while the digest is off, only publishers that read the policy
  before queue items.

`QualityOfServiceKept` follows from `MqttInv`. A publication and a release that
repeat each other are told apart by nothing but their order, so the invariant is
about order: of a quality-2 message in flight the packets are the last under its
id, releases after publications, and the only ones once the engine has seen it
(`WireOrder`); a receipt on the way is after the completion of an older message
with the id and before that of its own (`AckOrder`); what is held is in flight and
unpublished (`HeldOnce`).

### Inbound and plugins: `InboundProofs`

| Theorem | Invariant beside the types |
|---|---|
| `RecipientsCleared` | `SessionSound`: a recipient kept between two commands was cleared after the last mail |
| `LinesApart` | `SyslogSound`: the stored time is that of the last publication (`MarkedLast`), and two listeners about to publish claimed the line a window apart (`ClaimsApart`) |
| `PairingsHold` | `HomeSound`: what a request holds is in the row still or known to be raced (`CopiesKnown`), the row holds nothing that left it (`RowFresh`), and a code that made a secret is in no row and no copy (`CodesSpent`) |
| `RowIsTrue` | `InstanceSound`: until a call writes over a newer row, a removal is alone (`RemovalAlone`), the instance runs as the row says except between the switch and the write (`RunsAsWritten`), and has the configuration of the row or one about to be written (`AppliedKnown`), each but for the part a failed save left behind |
| `EntriesDealtWith` | `FeedSound`: each publication, made or about to be, has a record of its own (`OnceCounted`), and what a tag of the feed covers, is recorded or was left behind by a poll is published, excused or being published (`LeftSettled`); a parse error and the tag of another feed are excuses with a name |
| `RequestsBounded` | `WebhookKept`, for each process: two acceptances are the life of a cache entry apart (`RememberedApart`), windows do not overlap and number their requests (`WindowsApart`) |

From `RememberedApart` follows that only the two ends of the life of a timestamp
can both be accepted; from `WindowsApart` that a span as long as the window meets
two windows at most, and that a window has no more requests than the limit, by
an injection into `1..Limit`.

### Messages: `MessageProofs`

- `ThreadsStayWhole` (`RootsKnown`): a root that is stored is not a reply itself, and
  roots that replies name, stored or about to be, were numbered before them, so no
  new message can become the root of an old thread.
- `PagesMissNothing` (`PagesSound`), for any page size: what was visible all the time
  has been received or is below the cursor, and the cursor is the last message
  received. The order of a page is a lemma (`NewestInOrder`): the place of a message
  is the number of messages down to it, and a set fills all places
  (`PlacesCount`).
- `RowsFit` (`NamesDrawn`, `WaitingFresh`): a file that waits for its row is nobody
  else's and no request removes it; what a request will remove has no row any more,
  or that of its own message, or of a message whose removal failed. A deletion
  clears every table (`RowsErased`).

### Channels: `ChannelProofs`

- `RowAndPicture` (`ChannelTyped`, `Tidy`): at its save a request has the row it
  read and the columns it changes, the file of an upload is unknown to everybody
  else, and, while nobody was crossed or cut short, each picture on disk is the
  row's, an upload's, about to be removed, or that of a channel that went with its
  owner's account, and nobody removes the row's.
- `OwnersStay` (`MembersTyped`, `Unborn`, `OwnerKept`): a request that is not
  outdated has the channel as it is stored, and the memberships a synchronisation
  read contain the owner's, given by hand.
- `GroupsGiveAccess` (`Settled`, `Newcomers`): without a synchronisation under way
  every row is what `Access` says, and people who do not exist yet have neither
  rows nor groups. That a set of ranks has a highest one (`Highest`) is a lemma of
  its own: ranks are any finite set of naturals.
- `KeysKeepOrder` (`OrderInv`), for any alphabet of at least two digits, any number
  of heads, and any key the first channel was given: every key is below all that come after
  it. Neighbours alone would not do, since a removal brings distant keys together.
  The argument is bottom up. Two strings part at one position (`Parts`, `Lower`),
  which gives a total order. The code's `midpoint` returns a fraction strictly
  between its bounds that does not end in a zero (`MidOpen`, `MidBetween`).
  `incrementInt` and `decrementInt` give the next integer key or fail at the ends
  (`IncrementFacts`, `DecrementFacts`); `KeyBetween` returns a key between any two
  bounds in order, and `NKeysBetween` as many as it is asked for, or fails
  (`KeyBetweenFacts`, `NKeysFacts`).
  That the two recursions define functions is not assumed: `midpoint` satisfies
  its equation because a closed form of it does (`Mid`), `NKeysBetween` because it
  is well-founded in the number of keys. The induction theorems of the library
  are not used with an operator; the least counterexample of a set is
  (`LeastNumber`).

### Accounts: `AccountProofs`

- `FactorsSpentOnce` (`CodesInv`, `ChallengeInv`): a fresh code is in no row and no
  copy, a request that consumes a code holds a row without it, and a challenge
  that was read once is held by one request and deleted once answered.
- `AdminRemains`, `BindingHolds` (`TaskInv`): whoever takes the flag of an
  administrator has counted another, and the copy of a request has the binding
  of the row it read, or binds an account that had none.
- `SocketsHaveClients`, `OnlyIdleClientsRemoved` (`SeenInv`, `UseInv`, `ExpiredInv`):
  a row is never ahead of the last use, and that of a client that is not behind
  is within `RefreshAge` of it, except while the round holds its token. A deletion of
  the account that is under way still has every row it has not reached in hand
  (`RemainingCall`).
- `PendingSignIns` (`MapsInv`, `AcceptedInv`, `OnceInv`): a generation holds what was
  added in its period, a state that was added is in a map, taken, or two
  generations old, and one that is still in a map has been redeemed by nobody.

### Files: `FileProofs`

- `RestoreKeepsData` (`SafetyInv`, `MoveInv`, `WholeInv`): what an entry held is in
  the entry or in a safety bundle, in a bundle before the first is removed, and
  the entries that are not in the working directory any more are in place.
- `UpdateLeavesAProgram` (`OneInstall`, `FilesInv`, `ReportInv`): without overlap one
  installation owns the status, places a file only after it was verified, and
  asks for a restart only with its version in place. What the status reports is
  true while no report of a failed execution was lost (`unwritten`).
- `PluginsOutliveRestarts` (`StageAlone`, `PathsRight`, `StageKnows`, `DiskSettled`,
  `UploadsApart`, `PathsStored`): each part holds as long as the overlap that would
  break it has not happened. Every file in the directory is the one of a plugin in
  memory, or a request under way has still to accept or remove it; the file of a
  plugin in memory is there, except between the two halves of a stage, and no
  upload or removal under way names it. A crash that meets no such request leaves
  a directory that loads: of a stage that is over with the old file only the new
  one is there.

### What stays with TLC

- Liveness (`NothingHangs`, `DueHandled`, `StateSettles`): fairness and ENABLED are
  out of the prover's reach.
- `DeliveredComplete` is false (section 4).

Every invariant of a passing run is stated by a theorem.

## 6. Mutants

Beside a definition the modules have a variant marked *Mutant*: a plausible bug
(a dropped guard, a missing reset, another key). No specification uses it; put
in the definition's place, it makes the property it belongs to fail in its run.

## 7. Plan

1. Pure operators against reference definitions: `NextScheduleRun` on a small
   calendar, quiet hours across time zones.

## 8. Not modelled

Cryptography and the secrets at rest, configuration, migrations, wiring and the
web UI have no protocol state of their own. Parsing, rendering and wire formats
(MQTT, SMTP, RSS, LDAP, OIDC) succeed or fail. Rows of one user that interact
with nothing (saved searches, templates, service accounts, e-mail gateways,
display names) and read-only endpoints are left out. What a plugin does when it
is enabled is code outside the repository. Clock skew between machines is not
modelled: all engines read one clock.
