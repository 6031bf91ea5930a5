----------------------------- MODULE Membership -----------------------------
(* Who belongs to a channel: its owner, members added by hand, by automatic *)
(* assignment and through user groups. One channel; requests that read and  *)
(* write in separate statements may overlap.                                *)
EXTENDS Naturals

CONSTANTS
    People, Admins,   \* users; administrators are among them
    Groups,
    Roles, Notify,    \* what a request may give: roles, as ranks, and receiveNotifications
    NoOne,            \* the owner of a channel that was never created
    Threads,          \* requests under way at the same time
    MaxChanges, MaxErrors

ASSUME MembershipAssumption ==
    /\ Admins \subseteq People /\ NoOne \notin People /\ NoOne \notin Groups
    /\ Roles \subseteq 1..4 /\ Notify \subseteq BOOLEAN
    /\ MaxChanges \in Nat /\ MaxErrors \in Nat

VARIABLES
    channel,     \* the channel's row: exists, owner, auto_assign, allow_member_post
    rows,        \* application_memberships of the channel, by user
    standing,    \* of each user: "new", "live" or "gone"; ids are not given twice
    inGroup,     \* members of each group
    given,       \* application_group_assignments: group -> role and receive, NoRow if none
    thread,      \* per request: what it does next and what it has read
    changes, errors,
    outdated,    \* history: requests under way since the channel's row last changed
    overtaken,   \* history: a request wrote from a channel row that had changed meanwhile
    unsynced,    \* history: the last synchronisation failed or used outdated rows
    removed      \* history: users whose row was deleted since the last synchronisation

membershipVars ==
    <<channel, rows, standing, inGroup, given, thread, changes, errors, outdated, overtaken,
      unsynced, removed>>

\* Channel roles by rank: 1 readonly, 3 publisher; 0 is the empty string.
member == 2
manager == 4

people == {u \in People : standing[u] = "live"}

NoRequest == [op |-> "none"]
NoRow == [row |-> "none"]
PlainRow == [role |-> 0, receive |-> TRUE, override |-> "none", auto |-> FALSE,
             group |-> FALSE, grole |-> 0, greceive |-> FALSE]
AutoRow == [PlainRow EXCEPT !.auto = TRUE]

MembershipInit ==
    /\ channel = [exists |-> FALSE, owner |-> NoOne, auto |-> FALSE, posting |-> FALSE]
    /\ rows = [u \in People |-> NoRow]
    /\ standing \in {[u \in People |-> IF u \in S THEN "live" ELSE "new"] : S \in {Admins, People}}
    /\ inGroup = [g \in Groups |-> {}]
    /\ given = [g \in Groups |-> NoRow]
    /\ thread = [t \in Threads |-> NoRequest]
    /\ changes = 0 /\ errors = 0
    /\ outdated = {} /\ overtaken = FALSE /\ unsynced = FALSE /\ removed = {}

Best(a, b) == IF a > b THEN a ELSE b

EffectiveChannelRole(r) ==
    LET hand == IF r.auto THEN Best(r.role, member) ELSE r.role
        best == IF r.group THEN Best(hand, r.grole) ELSE hand
    IN  IF best = 0 /\ ~r.group THEN member ELSE best

\* The channel exists and the caller is its owner, an administrator or a manager.
authorizeChannelManager(u) ==
    /\ channel.exists /\ u \in people
    /\ \/ u = channel.owner \/ u \in Admins
       \/ rows[u] # NoRow /\ EffectiveChannelRole(rows[u]) = manager

Arrive == changes < MaxChanges /\ changes' = changes + 1
Begin(t, r) ==
    /\ Arrive /\ thread[t] = NoRequest /\ thread' = [thread EXCEPT ![t] = r]
    /\ outdated' = outdated \ {t}
Finish(t) == thread' = [thread EXCEPT ![t] = NoRequest]

\* History: what any request has read of the channel before is outdated now.
ChannelWritten == outdated' = IF channel' = channel THEN outdated ELSE Threads

-----------------------------------------------------------------------------
(* Requests that check and write in one transaction, or whose check cannot  *)
(* be outdated by another request in a way that matters.                    *)

\* assignApplicationToAllUsers: the insertion skips the rows that exist.
AssignAll(owner) == [u \in People |-> IF u \in people \ {owner} /\ rows[u] = NoRow THEN AutoRow ELSE rows[u]]

CreateApplication(u, auto, posting) ==
    /\ ~channel.exists /\ channel.owner = NoOne /\ u \in people
    /\ auto \/ posting => u \in Admins
    /\ channel' = [exists |-> TRUE, owner |-> u, auto |-> auto, posting |-> posting]
    /\ rows' = [(IF auto THEN AssignAll(u) ELSE rows) EXCEPT ![u] = PlainRow]
    /\ ChannelWritten
    /\ UNCHANGED <<standing, inGroup, given, thread, changes, errors, overtaken, unsynced, removed>>

\* In one transaction with the rows of the global channels.
CreateUser(u) ==
    /\ Arrive /\ standing[u] = "new"
    /\ standing' = [standing EXCEPT ![u] = "live"]
    /\ rows' = IF channel.exists /\ channel.auto /\ rows[u] = NoRow THEN [rows EXCEPT ![u] = AutoRow] ELSE rows
    /\ UNCHANGED <<channel, inGroup, given, thread, errors, overtaken, unsynced, removed, outdated>>

SetAutoAssign(enabled) ==
    /\ Arrive /\ channel.exists
    /\ channel' = [channel EXCEPT !.auto = enabled]
    /\ rows' = IF enabled THEN AssignAll(channel.owner)
               ELSE [u \in People |-> IF rows[u] # NoRow /\ rows[u].auto THEN NoRow ELSE rows[u]]
    /\ removed' = removed \cup {u \in People : rows[u] # NoRow /\ rows'[u] = NoRow}
    /\ ChannelWritten
    /\ UNCHANGED <<standing, inGroup, given, thread, errors, overtaken, unsynced>>

SetMemberPosting(enabled) ==
    /\ Arrive /\ channel.exists
    /\ channel' = [channel EXCEPT !.posting = enabled]
    /\ ChannelWritten
    /\ UNCHANGED <<rows, standing, inGroup, given, thread, errors, overtaken, unsynced, removed>>

\* A member's own choice, which later synchronisations respect.
SetCurrentUserNotifications(u, enabled) ==
    /\ Arrive /\ channel.exists /\ rows[u] # NoRow
    /\ rows' = [rows EXCEPT ![u] = [@ EXCEPT !.receive = enabled, !.override = IF enabled THEN "on" ELSE "off"]]
    /\ UNCHANGED <<channel, standing, inGroup, given, thread, errors, overtaken, unsynced, removed, outdated>>

\* Mutant: the new owner keeps the row automatic assignment gave.
KeepsAutoRow(u) == IF rows[u] = NoRow THEN PlainRow ELSE rows[u]

OwnersRow(u) == IF rows[u] = NoRow THEN PlainRow ELSE [rows[u] EXCEPT !.auto = FALSE]

\* TransferApplicationOwnership, one transaction; the sort key is in SortKeys.
TransferOwnership(caller, u) ==
    /\ Arrive /\ authorizeChannelManager(caller) /\ u \in people \ {channel.owner}
    /\ rows' = [rows EXCEPT ![u] = OwnersRow(u)]
    /\ channel' = [channel EXCEPT !.owner = u]
    /\ ChannelWritten
    /\ UNCHANGED <<standing, inGroup, given, thread, errors, overtaken, unsynced, removed>>

DeleteApplication(u) ==
    /\ Arrive /\ channel.exists /\ u \in people
    /\ u \in Admins \/ (u = channel.owner /\ ~channel.auto)
    /\ channel' = [channel EXCEPT !.exists = FALSE]
    /\ rows' = [p \in People |-> NoRow]
    /\ given' = [g \in Groups |-> NoRow]
    /\ ChannelWritten
    /\ UNCHANGED <<standing, inGroup, thread, errors, overtaken, unsynced, removed>>

\* Startup: owner rows and global rows are filled in, and a row that has no role
\* of any kind becomes a member's.
Restart ==
    /\ Arrive /\ \A t \in Threads : thread[t] = NoRequest
    /\ LET owned == IF channel.exists /\ channel.owner \in people /\ rows[channel.owner] = NoRow
                    THEN [rows EXCEPT ![channel.owner] = PlainRow] ELSE rows
           all == [u \in People |-> IF channel.exists /\ channel.auto /\ u \in people \ {channel.owner} /\ owned[u] = NoRow
                                    THEN AutoRow ELSE owned[u]]
       IN  rows' = [u \in People |-> IF all[u] # NoRow /\ all[u].role = 0 /\ ~all[u].auto /\ ~all[u].group
                                     THEN [all[u] EXCEPT !.role = member] ELSE all[u]]
    /\ UNCHANGED <<channel, standing, inGroup, given, thread, errors, overtaken, unsynced, removed, outdated>>

-----------------------------------------------------------------------------
(* Requests that read the channel, then write.                              *)

UpsertMember(t, caller, u, role, receive) ==
    /\ authorizeChannelManager(caller) /\ u \in people \ {channel.owner}
    /\ Begin(t, [op |-> "upsert", user |-> u, role |-> role, receive |-> receive, channel |-> channel])
    /\ UNCHANGED <<channel, rows, standing, inGroup, given, errors, overtaken, unsynced, removed>>

\* ON CONFLICT: role, receive and auto_assigned only; the group's columns stay.
UpsertApplicationMembership(t) ==
    /\ thread[t].op = "upsert"
    /\ LET u == thread[t].user
           base == IF rows[u] = NoRow THEN PlainRow ELSE rows[u]
       IN  rows' = [rows EXCEPT ![u] = [base EXCEPT !.role = thread[t].role,
                                        !.receive = thread[t].receive, !.auto = FALSE]]
    /\ overtaken' = (overtaken \/ t \in outdated)
    /\ Finish(t)
    /\ UNCHANGED <<channel, standing, inGroup, given, changes, errors, unsynced, removed, outdated>>

Removable(u) == u # channel.owner /\ rows[u] # NoRow /\ ~channel.auto

DeleteMember(t, caller, u) ==
    /\ authorizeChannelManager(caller) /\ Removable(u)
    /\ Begin(t, [op |-> "remove", user |-> u, channel |-> channel])
    /\ UNCHANGED <<channel, rows, standing, inGroup, given, errors, overtaken, unsynced, removed>>

DeleteApplicationMembership(t) ==
    /\ thread[t].op = "remove"
    /\ rows' = [rows EXCEPT ![thread[t].user] = NoRow]
    /\ removed' = removed \cup {thread[t].user}
    /\ overtaken' = (overtaken \/ t \in outdated)
    /\ Finish(t)
    /\ UNCHANGED <<channel, standing, inGroup, given, changes, errors, unsynced, outdated>>

\* UpdateApplication, UpdateApplicationSecurity and the images read the row and
\* save all its columns (module Channels has the other columns).
UpdateApplication(t, caller) ==
    /\ authorizeChannelManager(caller)
    /\ Begin(t, [op |-> "save", channel |-> channel])
    /\ UNCHANGED <<channel, rows, standing, inGroup, given, errors, overtaken, unsynced, removed>>

SaveApplication(t) ==
    /\ thread[t].op = "save"
    /\ channel' = thread[t].channel
    /\ overtaken' = (overtaken \/ t \in outdated)
    /\ Finish(t)
    /\ ChannelWritten
    /\ UNCHANGED <<rows, standing, inGroup, given, changes, errors, unsynced, removed>>

-----------------------------------------------------------------------------
(* Groups: every change of an assignment or of a group is followed by       *)
(* SyncApplicationGroupAssignments, which reads outside the transaction in  *)
(* which it writes.                                                         *)

Sync == [op |-> "sync", then |-> NoOne]

UpsertGroupAssignment(t, caller, g, role, receive) ==
    /\ authorizeChannelManager(caller)
    /\ given' = [given EXCEPT ![g] = [role |-> role, receive |-> receive]]
    /\ Begin(t, Sync)
    /\ UNCHANGED <<channel, rows, standing, inGroup, errors, overtaken, unsynced, removed>>

DeleteGroupAssignment(t, caller, g) ==
    /\ authorizeChannelManager(caller) /\ given[g] # NoRow
    /\ given' = [given EXCEPT ![g] = NoRow]
    /\ Begin(t, Sync)
    /\ UNCHANGED <<channel, rows, standing, inGroup, errors, overtaken, unsynced, removed>>

\* Only the channels the group is assigned to are synchronised.
SyncGroup(t, assigned) == IF assigned THEN Begin(t, Sync) ELSE Arrive /\ UNCHANGED <<thread, outdated>>

AddUserGroupMember(t, g, u) ==
    /\ u \in people \ inGroup[g]
    /\ inGroup' = [inGroup EXCEPT ![g] = @ \cup {u}]
    /\ SyncGroup(t, given[g] # NoRow)
    /\ UNCHANGED <<channel, rows, standing, given, errors, overtaken, unsynced, removed>>

RemoveUserGroupMember(t, g, u) ==
    /\ u \in inGroup[g]
    /\ inGroup' = [inGroup EXCEPT ![g] = @ \ {u}]
    /\ SyncGroup(t, given[g] # NoRow)
    /\ UNCHANGED <<channel, rows, standing, given, errors, overtaken, unsynced, removed>>

\* The assigned channels are read before the rows are deleted.
DeleteUserGroup(t, g) ==
    /\ inGroup[g] # {} \/ given[g] # NoRow
    /\ inGroup' = [inGroup EXCEPT ![g] = {}]
    /\ given' = [given EXCEPT ![g] = NoRow]
    /\ SyncGroup(t, given[g] # NoRow)
    /\ UNCHANGED <<channel, rows, standing, errors, overtaken, unsynced, removed>>

\* The groups that give u access, their best role, and whether one of them notifies.
GroupsOf(u) == {g \in Groups : given[g] # NoRow /\ u \in inGroup[g]}

Highest(ranks) == CHOOSE r \in ranks : \A other \in ranks : other <= r

Access(u) ==
    IF GroupsOf(u) = {} \/ u \notin people THEN NoRow
    ELSE [role |-> Highest({given[g].role : g \in GroupsOf(u)}),
          receive |-> \E g \in GroupsOf(u) : given[g].receive]

Desired == [u \in People |-> Access(u)]

\* The channel, the assignments and the groups.
ReadDesired(t) ==
    /\ thread[t] # NoRequest /\ thread[t].op = "sync" /\ channel.exists
    /\ thread' = [thread EXCEPT ![t] = [op |-> "synced", then |-> @.then, channel |-> channel, desired |-> Desired]]
    /\ outdated' = outdated \ {t}
    /\ UNCHANGED <<channel, rows, standing, inGroup, given, changes, errors, overtaken, unsynced, removed>>

ReadMemberships(t) ==
    /\ thread[t].op = "synced"
    /\ thread' = [thread EXCEPT ![t] = [op |-> "apply", then |-> @.then, channel |-> @.channel,
                                        desired |-> @.desired, rows |-> rows]]
    /\ UNCHANGED <<channel, rows, standing, inGroup, given, changes, errors, overtaken, unsynced, removed, outdated>>

Receives(r, otherwise) == IF r.override = "none" THEN otherwise ELSE r.override = "on"

\* Mutant: a group's role is never lowered.
NeverLowered(r, a) == [r EXCEPT !.group = TRUE, !.grole = Best(r.grole, a.role), !.greceive = a.receive]

Granted(r, a) == [r EXCEPT !.group = TRUE, !.grole = a.role, !.greceive = a.receive]

OnlyGroup(r, u, owner) == r.role = 0 /\ ~r.auto /\ u # owner

\* What the synchronisation makes of the row it has read.
Synced(r, a, u, owner) ==
    IF r = NoRow THEN IF a = NoRow THEN NoRow ELSE [Granted(PlainRow, a) EXCEPT !.receive = a.receive]
    ELSE IF a # NoRow
         THEN [Granted(r, a) EXCEPT !.receive = Receives(r, IF OnlyGroup(r, u, owner) THEN a.receive ELSE r.receive)]
         ELSE IF ~r.group THEN r
              ELSE IF OnlyGroup(r, u, owner) THEN NoRow
                   ELSE [r EXCEPT !.group = FALSE, !.grole = 0, !.greceive = FALSE, !.receive = Receives(r, r.receive)]

\* Rows the transaction writes: the ones a group gives, and gave. An insertion
\* fails when another request has inserted the row meanwhile.
Touched(t, u) == thread[t].desired[u] # NoRow \/ (thread[t].rows[u] # NoRow /\ thread[t].rows[u].group)

Collides(t) == \E u \in People : thread[t].desired[u] # NoRow /\ thread[t].rows[u] = NoRow /\ rows[u] # NoRow

Following(t) == IF thread[t].then = NoOne THEN NoRequest ELSE [op |-> "forget", user |-> thread[t].then]

\* A channel that is gone has nothing to synchronise.
NothingToSync(t) ==
    /\ thread[t].op = "sync" /\ ~channel.exists
    /\ thread' = [thread EXCEPT ![t] = Following(t)]
    /\ UNCHANGED <<channel, rows, standing, inGroup, given, changes, errors, overtaken, unsynced, removed, outdated>>

SyncApplicationGroupAssignments(t) ==
    /\ thread[t].op = "apply" /\ ~Collides(t)
    /\ rows' = [u \in People |-> IF Touched(t, u)
                   THEN Synced(thread[t].rows[u], thread[t].desired[u], u, thread[t].channel.owner) ELSE rows[u]]
    /\ LET fresh == thread[t].desired = Desired /\ thread[t].rows = rows
       IN  /\ unsynced' = ~fresh
           /\ removed' = IF fresh THEN {} ELSE removed
    /\ overtaken' = (overtaken \/ t \in outdated)
    /\ thread' = [thread EXCEPT ![t] = Following(t)]
    /\ UNCHANGED <<channel, standing, inGroup, given, changes, errors, outdated>>

\* An error of the database, or the collision, ends the request as it stands.
SyncFails(t) ==
    /\ thread[t].op \in {"sync", "synced", "apply"}
    /\ \/ thread[t].op = "apply" /\ Collides(t) /\ unsynced' = TRUE /\ UNCHANGED errors
       \/ errors < MaxErrors /\ errors' = errors + 1 /\ unsynced' = TRUE
    /\ Finish(t)
    /\ UNCHANGED <<channel, rows, standing, inGroup, given, changes, overtaken, removed, outdated>>

-----------------------------------------------------------------------------
(* DeleteUserByID: a sequence of statements, not a transaction.             *)

DeleteUser(t, u) ==
    /\ u \in people \ Admins
    /\ \/ ~channel.exists \/ channel.owner # u \/ \A p \in People \ {u} : rows[p] = NoRow
    /\ Begin(t, [op |-> "unjoin", user |-> u, owned |-> channel.exists /\ channel.owner = u])
    /\ UNCHANGED <<channel, rows, standing, inGroup, given, errors, overtaken, unsynced, removed>>

DeleteOwnedAndMemberships(t) ==
    /\ thread[t].op = "unjoin"
    /\ LET u == thread[t].user
       IN  /\ channel' = IF thread[t].owned THEN [channel EXCEPT !.exists = FALSE] ELSE channel
           /\ rows' = IF thread[t].owned THEN [p \in People |-> NoRow] ELSE [rows EXCEPT ![u] = NoRow]
           /\ given' = IF thread[t].owned THEN [g \in Groups |-> NoRow] ELSE given
           /\ overtaken' = (overtaken \/ (channel.exists /\ channel.owner = u /\ ~thread[t].owned))
           /\ removed' = removed \cup {u}
           /\ thread' = [thread EXCEPT ![t] = [op |-> "ungroup", user |-> u]]
    /\ ChannelWritten
    /\ UNCHANGED <<standing, inGroup, changes, errors, unsynced>>

DeleteUserGroupMembershipsForUser(t) ==
    /\ thread[t].op = "ungroup"
    /\ LET u == thread[t].user
       IN  /\ inGroup' = [g \in Groups |-> inGroup[g] \ {u}]
           /\ thread' = [thread EXCEPT ![t] = IF GroupsOf(u) # {} THEN [Sync EXCEPT !.then = u]
                                              ELSE [op |-> "forget", user |-> u]]
    /\ UNCHANGED <<channel, rows, standing, given, changes, errors, overtaken, unsynced, removed, outdated>>

ForgetUser(t) ==
    /\ thread[t].op = "forget"
    /\ standing' = [standing EXCEPT ![thread[t].user] = "gone"]
    /\ overtaken' = (overtaken \/ (channel.exists /\ channel.owner = thread[t].user))
    /\ Finish(t)
    /\ UNCHANGED <<channel, rows, inGroup, given, changes, errors, unsynced, removed, outdated>>

MembershipNext ==
    \/ \E u \in People, a, p \in BOOLEAN : CreateApplication(u, a, p)
    \/ \E b \in BOOLEAN : SetAutoAssign(b) \/ SetMemberPosting(b)
    \/ \E u \in People : CreateUser(u) \/ DeleteApplication(u)
    \/ \E u \in People, b \in BOOLEAN : SetCurrentUserNotifications(u, b)
    \/ \E c, u \in People : TransferOwnership(c, u)
    \/ Restart
    \/ \E t \in Threads :
          \/ \E c, u \in People : DeleteMember(t, c, u)
          \/ \E c, u \in People, r \in Roles, b \in Notify : UpsertMember(t, c, u, r, b)
          \/ \E c \in People : UpdateApplication(t, c)
          \/ \E c \in People, g \in Groups : DeleteGroupAssignment(t, c, g)
          \/ \E c \in People, g \in Groups, r \in Roles, b \in Notify : UpsertGroupAssignment(t, c, g, r, b)
          \/ \E g \in Groups, u \in People : AddUserGroupMember(t, g, u) \/ RemoveUserGroupMember(t, g, u)
          \/ \E g \in Groups : DeleteUserGroup(t, g)
          \/ \E u \in People : DeleteUser(t, u)
          \/ UpsertApplicationMembership(t) \/ DeleteApplicationMembership(t) \/ SaveApplication(t)
          \/ ReadDesired(t) \/ ReadMemberships(t) \/ NothingToSync(t) \/ SyncApplicationGroupAssignments(t) \/ SyncFails(t)
          \/ DeleteOwnedAndMemberships(t) \/ DeleteUserGroupMembershipsForUser(t) \/ ForgetUser(t)

MembershipSpec == MembershipInit /\ [][MembershipNext]_membershipVars

-----------------------------------------------------------------------------
\* What the comment of TransferApplicationOwnership guarantees: the owner has a
\* membership that turning automatic assignment off does not remove.
OwnerGuaranteed ==
    channel.exists => rows[channel.owner] # NoRow /\ ~rows[channel.owner].auto

\* The guarantee holds unless a request wrote from a row of the channel that
\* another request had changed meanwhile (database/application_membership.go
\* TransferApplicationOwnership, SetApplicationAutoAssign).
OwnerIsMember == ~overtaken => OwnerGuaranteed

\* When no synchronisation is pending, each member of an assigned group has the
\* best role the groups give, and nobody else has a group's role. The
\* exceptions: the last synchronisation failed or worked on rows that changed
\* meanwhile; the row was deleted by hand, or with automatic assignment, after it
\* (database/application_membership.go SyncApplicationGroupAssignments).
GroupAccess ==
    (channel.exists /\ ~unsynced /\ ~overtaken
       /\ \A t \in Threads : thread[t].op \notin {"sync", "synced", "apply", "unjoin", "ungroup", "forget"})
    => \A u \in people \ removed :
          IF Access(u) = NoRow THEN rows[u] = NoRow \/ ~rows[u].group
          ELSE rows[u] # NoRow /\ rows[u].group /\ rows[u].grole = Access(u).role
=============================================================================
