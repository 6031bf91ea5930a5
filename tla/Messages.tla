------------------------------ MODULE Messages ------------------------------
(* The history of a channel as its members see it: posting and replying,    *)
(* hiding, archiving and restoring for oneself, deleting for everyone, the  *)
(* retention of the channel, and a client that reads the history page by    *)
(* page while all this goes on. Attachments are in Collaboration, the       *)
(* notification of a post in Stream, Delivery and Escalation, the roles in  *)
(* Membership.                                                              *)
EXTENDS Naturals, FiniteSets, FiniteSetsExt, Sequences, SequencesExt

CONSTANTS
    Readers, Moderators,   \* users; the administrators among them
    Owner, Reader,         \* the owner of the channel; the user who pages
    Posting, Managing,     \* users whose role allows posting; those with role manager
    PageSize,
    Requests,              \* requests and retention runs under way at the same time
    MaxMessages, MaxDeeds  \* bounds: posts; other requests

ASSUME MessageAssumption ==
    /\ Moderators \cup Posting \cup Managing \cup {Owner, Reader} \subseteq Readers
    /\ PageSize \in Nat \ {0} /\ MaxMessages \in Nat /\ MaxDeeds \in Nat

VARIABLES
    posts,       \* messages that exist: id -> reply_to, thread_root, older than the retention
    last,        \* the last identifier the database gave
    mark,        \* message_dismissals: user -> id -> "none", "dismissed" or "archived"
    joined, global,        \* members of the channel; auto_assign
    request,     \* per request: the decision it has taken
    page,        \* the paging client: view, cursor, what it has received, how far it is
    steady,      \* history: messages in the client's view all the time since its first page
    late,        \* history: replies stored when the root of their thread was gone
    deeds

messageVars == <<posts, last, mark, joined, global, request, page, steady, late, deeds>>

Ids == 1..MaxMessages
NoDeed == [op |-> "none"]

MessageInit ==
    /\ posts = <<>> /\ last = 0
    /\ mark = [u \in Readers |-> [m \in Ids |-> "none"]]
    /\ joined \in {{Owner}, Readers} /\ global = FALSE
    /\ request = [r \in Requests |-> NoDeed]
    /\ page = [archived |-> FALSE, since |-> 0, got |-> <<>>, at |-> "idle"]
    /\ steady = {} /\ late = {} /\ deeds = 0

stored == DOMAIN posts
visibleMessages(u) == IF u \in joined THEN {m \in stored : mark[u][m] = "none"} ELSE {}
archivedMessages(u) == IF u \in joined THEN {m \in stored : mark[u][m] = "archived"} ELSE {}

Deed == deeds < MaxDeeds /\ deeds' = deeds + 1
Ends(r) == request' = [request EXCEPT ![r] = NoDeed]
Decides(r, decision) == request[r] = NoDeed /\ request' = [request EXCEPT ![r] = decision]

\* Identifiers as the database sorts them: each is at the place that counts the members
\* down to it.
NewestFirst(S) == [i \in 1..Cardinality(S) |-> CHOOSE m \in S : Cardinality({n \in S : n >= m}) = i]
OldestFirst(S) == Reverse(NewestFirst(S))

-----------------------------------------------------------------------------
(* Posting. A reply reads its parent, and is stored later.                  *)

Store(parent, root) ==
    /\ last < MaxMessages
    /\ last' = last + 1
    /\ posts' = [m \in stored \cup {last'} |->
                   IF m = last' THEN [parent |-> parent, root |-> root, old |-> FALSE] ELSE posts[m]]

CreateMessage ==
    /\ Store(0, 0)
    /\ UNCHANGED <<mark, joined, global, request, page, late, deeds>>

canPostToChannel(u) == u \in Moderators \cup {Owner} \/ (u \in joined /\ u \in Posting)

Reply(u, m, r) ==
    /\ canPostToChannel(u) /\ m \in stored
    /\ Deed
    /\ Decides(r, [op |-> "reply", to |-> m,
                   root |-> IF posts[m].root = 0 THEN m ELSE posts[m].root])
    /\ UNCHANGED <<posts, last, mark, joined, global, page, late>>

StoreReply(r) ==
    /\ request[r].op = "reply"
    /\ Store(request[r].to, request[r].root)
    /\ late' = IF request[r].root \in stored THEN late ELSE late \cup {last'}
    /\ Ends(r)
    /\ UNCHANGED <<mark, joined, global, page, deeds>>

\* Messages grow older than the retention in the order they were stored.
Age ==
    /\ \E m \in stored : ~posts[m].old
    /\ posts' = [posts EXCEPT ![Min({m \in stored : ~posts[m].old})].old = TRUE]
    /\ UNCHANGED <<last, mark, joined, global, request, page, late, deeds>>

\* What Membership does, as far as it matters here.
ChangeMembers(members, auto) ==
    /\ Owner \in members /\ (auto => members = Readers)
    /\ <<members, auto>> /= <<joined, global>>
    /\ Deed
    /\ joined' = members /\ global' = auto
    /\ UNCHANGED <<posts, last, mark, request, page, late>>

-----------------------------------------------------------------------------
(* Archiving and restoring: each is one statement or one transaction.       *)

Marks(u, ms, as) ==
    /\ Deed
    /\ mark' = [mark EXCEPT ![u] = [m \in Ids |-> IF m \in ms THEN as ELSE @[m]]]
    /\ UNCHANGED <<posts, last, joined, global, request, page, late>>

ArchiveMessage(u, m) == u \in joined /\ m \in stored /\ Marks(u, {m}, "archived")

ArchiveMessageWithApplication(u) == u \in joined /\ Marks(u, visibleMessages(u), "archived")

UnarchiveMessage(u, m) ==
    u \in joined /\ m \in stored /\ mark[u][m] = "archived" /\ Marks(u, {m}, "none")

UnarchiveMessageWithApplication(u) ==
    u \in joined /\ Marks(u, {m \in stored : mark[u][m] = "archived"}, "none")

-----------------------------------------------------------------------------
(* Deleting: the rows of channel, membership, user and member count are     *)
(* read one after the other, the deletion follows.                          *)

Personal(u) == ~(u = Owner /\ Cardinality(joined) = 1)

DeleteMessage(u, m, r) ==
    /\ u \in joined /\ m \in stored
    /\ u \in Moderators \/ ~global
    /\ Deed
    /\ Decides(r, IF u \in Moderators \/ ~Personal(u) THEN [op |-> "erase", ids |-> <<m>>]
                  ELSE [op |-> "dismiss", who |-> u, ids |-> {m}])
    /\ UNCHANGED <<posts, last, mark, joined, global, page, late>>

DeleteMessageWithApplication(u, r) ==
    /\ u \in joined
    /\ global => u \in Moderators
    /\ Deed
    /\ Decides(r, IF global \/ ~Personal(u) THEN [op |-> "clear"] ELSE [op |-> "dismissAll", who |-> u])
    /\ UNCHANGED <<posts, last, mark, joined, global, page, late>>

DeleteMessagesForEveryone(u, r) ==
    /\ u \in Moderators \/ (~global /\ (u = Owner \/ u \in joined \cap Managing))
    /\ Deed
    /\ Decides(r, [op |-> "clear"])
    /\ UNCHANGED <<posts, last, mark, joined, global, page, late>>

\* The hourly retention run picks the old messages and then deletes them one by one.
ApplyMessageRetention(r) ==
    /\ \E m \in stored : posts[m].old
    /\ Deed
    /\ Decides(r, [op |-> "erase", ids |-> OldestFirst({m \in stored : posts[m].old})])
    /\ UNCHANGED <<posts, last, mark, joined, global, page, late>>

Without(ms) == posts' = [m \in stored \ ms |-> posts[m]]
Unmarked(ms) ==
    mark' = [u \in Readers |-> [m \in Ids |-> IF m \in ms THEN "none" ELSE mark[u][m]]]

\* Mutant: only direct replies go with a message.
LeavesThread(id) == {m \in stored : m = id \/ posts[m].parent = id}

Erased(id) == {m \in stored : m = id \/ posts[m].parent = id \/ posts[m].root = id}

DeleteMessageByID(r) ==
    /\ request[r].op = "erase"
    /\ LET id == Head(request[r].ids) IN Without(Erased(id)) /\ Unmarked(Erased(id))
    /\ request' = [request EXCEPT ![r] = IF Len(@.ids) = 1 THEN NoDeed
                                           ELSE [op |-> "erase", ids |-> Tail(@.ids)]]
    /\ UNCHANGED <<last, joined, global, page, late, deeds>>

DeleteMessagesByApplication(r) ==
    /\ request[r].op = "clear"
    /\ Without(stored) /\ Unmarked(stored)
    /\ Ends(r)
    /\ UNCHANGED <<last, joined, global, page, late, deeds>>

\* One message: a row that exists is set to dismissed. The message may be gone by now.
DismissMessageForUser(r) ==
    /\ request[r].op = "dismiss"
    /\ mark' = [mark EXCEPT ![request[r].who] =
                  [m \in Ids |-> IF m \in request[r].ids THEN "dismissed" ELSE @[m]]]
    /\ Ends(r)
    /\ UNCHANGED <<posts, last, joined, global, page, late, deeds>>

\* All messages: rows that exist stay as they are, so archived messages stay archived.
DismissMessagesByApplicationForUser(r) ==
    /\ request[r].op = "dismissAll"
    /\ mark' = [mark EXCEPT ![request[r].who] =
                  [m \in Ids |-> IF m \in stored /\ @[m] = "none" THEN "dismissed" ELSE @[m]]]
    /\ Ends(r)
    /\ UNCHANGED <<posts, last, joined, global, page, late, deeds>>

-----------------------------------------------------------------------------
(* Reading page by page: the next page starts below the last message of     *)
(* this one.                                                                *)

View == IF page.archived THEN archivedMessages(Reader) ELSE visibleMessages(Reader)

\* At most PageSize + 1 messages below the cursor, newest first.
Fetched ==
    LET below == {m \in View : page.since = 0 \/ m < page.since}
        all == NewestFirst(below)
    IN  SubSeq(all, 1, IF Len(all) > PageSize THEN PageSize + 1 ELSE Len(all))

\* Mutant: the next page starts below the message that was fetched to see whether there is one.
ExtraIsCursor(ms) ==
    IF Len(ms) > PageSize THEN [messages |-> Front(ms), since |-> Last(ms)]
    ELSE [messages |-> ms, since |-> 0]

buildWithPaging(ms) ==
    IF Len(ms) > PageSize THEN [messages |-> Front(ms), since |-> Last(Front(ms))]
    ELSE [messages |-> ms, since |-> 0]

\* The messages of a user, and those of a channel, which needs the membership.
GetMessages(archived) ==
    /\ Reader \in joined
    /\ page.at = "idle" /\ page' = [page EXCEPT !.archived = archived, !.at = "open"]
    /\ UNCHANGED <<posts, last, mark, joined, global, request, late, deeds>>

GetNextPage ==
    /\ page.at \in {"open", "more"}
    /\ LET answer == buildWithPaging(Fetched)
       IN  page' = [page EXCEPT !.got = @ \o answer.messages, !.since = answer.since,
                                !.at = IF answer.since = 0 THEN "done" ELSE "more"]
    /\ UNCHANGED <<posts, last, mark, joined, global, request, late, deeds>>

-----------------------------------------------------------------------------
MessageNext ==
    /\ \/ CreateMessage \/ Age
       \/ \E u \in Readers, m \in stored, r \in Requests : Reply(u, m, r) \/ DeleteMessage(u, m, r)
       \/ \E u \in Readers, m \in stored : ArchiveMessage(u, m) \/ UnarchiveMessage(u, m)
       \/ \E u \in Readers : ArchiveMessageWithApplication(u) \/ UnarchiveMessageWithApplication(u)
       \/ \E u \in Readers, r \in Requests :
             DeleteMessageWithApplication(u, r) \/ DeleteMessagesForEveryone(u, r)
       \/ \E members \in SUBSET Readers, auto \in BOOLEAN : ChangeMembers(members, auto)
       \/ \E r \in Requests :
             \/ ApplyMessageRetention(r) \/ DeleteMessageByID(r) \/ DeleteMessagesByApplication(r)
             \/ DismissMessageForUser(r) \/ DismissMessagesByApplicationForUser(r) \/ StoreReply(r)
       \/ \E archived \in BOOLEAN : GetMessages(archived)
       \/ GetNextPage
    /\ steady' = CASE page'.at = "open" -> View'
                   [] page'.at \in {"more", "done"} -> steady \cap View'
                   [] OTHER -> {}

MessageSpec == MessageInit /\ [][MessageNext]_messageVars

\* A client that reads the history page by page receives every message that was in its
\* view all the time, each once and newest first, whatever was posted, hidden, archived,
\* restored or deleted between its requests (GetMessages, buildWithPaging).
PagingComplete ==
    /\ page.at = "done" => steady \subseteq ToSet(page.got)
    /\ \A i, j \in DOMAIN page.got : i < j => page.got[i] > page.got[j]

\* A stored message of a thread has its root: deleting a root, one by one or by the
\* retention, takes the whole thread with it (DeleteMessageByID). Only a reply whose root
\* was deleted while the reply was being sent is left without one.
ThreadsWhole ==
    \A m \in stored : posts[m].root \in stored \cup {0} \/ m \in late
=============================================================================
