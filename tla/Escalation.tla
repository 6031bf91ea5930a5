----------------------------- MODULE Escalation -----------------------------
(***************************************************************************)
(* Escalations of package automation: messages that match a rule get a     *)
(* pending state, and the turns of the engines (runEscalations) copy the   *)
(* unacknowledged ones to the rule's target, while users acknowledge, and  *)
(* administrators edit and delete rules and messages.                      *)
(*                                                                         *)
(* One step is one database call.  Two turns may overlap: module Scheduler *)
(* shows that the lease does not prevent it.  Times are minutes.           *)
(***************************************************************************)
EXTENDS Integers, Sequences, FiniteSets

CONSTANTS
    Workers,      \* engines that run escalation turns
    Apps,         \* Channels, and the internal Channels of user targets
    RuleIds,      \* autoincrement: an ID is handed out once
    RuleDefs,     \* the rules the API accepts
    Priorities,   \* of published messages
    Users,        \* who may acknowledge
    Mortal,       \* Channels, and users with their internal Channel, that may be deleted
    MaxDepth,     \* queueEscalations follows no message of this depth (5 in the code)
    FailingCalls, \* the database calls that may return an error
    MaxFailures,  \* bound: errors of such calls
    MaxPublished, \* bound: messages published
    MaxMessages,  \* bound: messages stored
    MaxRuleSaves, \* bound: rules created or updated
    MaxAcks,      \* bound: acknowledgements given
    MaxDeletes,   \* bound: messages deleted
    MaxClock      \* bound: minutes

MsgIds   == 1..MaxMessages
StateIds == RuleIds \X MsgIds

\* A turn looks at two acknowledgements, one after the other: that of the
\* message and that of the root of its chain.
LateKeys == StateIds \X {"message", "root"}

\* validateEscalationTarget: a Channel target differs from the source.
ASSUME EscalationAssumption ==
    /\ RuleDefs \subseteq [source : Apps, kind : {"channel", "user"}, target : Apps,
                           minPriority : Nat, delay : Nat \ {0}, repeat : Nat,
                           maxRepeats : Nat, enabled : BOOLEAN]
    /\ \A d \in RuleDefs : d.kind = "channel" => d.source # d.target
    /\ Priorities \subseteq Nat
    /\ Mortal \subseteq Apps
    /\ MaxDepth \in Nat
    /\ {MaxFailures, MaxPublished, MaxMessages, MaxRuleSaves, MaxAcks, MaxDeletes,
        MaxClock} \subseteq Nat

VARIABLES
    clock,
    msgs,       \* messages in the order of their IDs; alive until deleted
    rules,      \* escalation_rules
    states,     \* escalation_states, by rule and message (their unique index)
    acks,       \* message_acknowledgements
    gone,       \* Channels and users that were deleted
    publishing, \* published messages whose escalations are not queued yet
    editing,    \* what an UpdateEscalation will save of the rule it has read
    pc, now, todo, cur,            \* the turn of each worker
    fails, published, saves, given, deleted, \* counters for the bounds
    late,       \* history: copies stored since the message, or its root, is acknowledged
    everAcked,  \* history: messages acknowledged at some time
    touched,    \* history: rules updated or deleted at some time
    misled      \* history: states made or closed after a failed read of a row that is there

dbVars   == <<msgs, rules, states, acks, gone>>
turnVars == <<pc, now, todo, cur>>
counters == <<fails, published, saves, given, deleted>>
history  == <<late, everAcked, touched, misled>>
vars == <<clock, dbVars, publishing, editing, turnVars, counters, history>>

NoRule  == [enabled |-> FALSE]
NoState == [completed |-> TRUE]
NoKey   == <<>>
NoItem  == [id |-> <<>>]  \* no state in work

State(due, count, completed) == [due |-> due, count |-> count, completed |-> completed]
Pending(s) == states[s] # NoState /\ ~states[s].completed

Init ==
    /\ clock = 0
    /\ msgs = <<>>
    /\ rules = [r \in RuleIds |-> NoRule]
    /\ states = [s \in StateIds |-> NoState]
    /\ acks = {}
    /\ gone = {}
    /\ publishing = {}
    /\ editing = {}
    /\ pc = [w \in Workers |-> "idle"]
    /\ now = [w \in Workers |-> 0]
    /\ todo = [w \in Workers |-> {}]
    /\ cur = [w \in Workers |-> NoItem]
    /\ fails = 0 /\ published = 0 /\ saves = 0 /\ given = 0 /\ deleted = 0
    /\ late = [q \in LateKeys |-> {}]
    /\ everAcked = {}
    /\ touched = {}
    /\ misled = {}

Succeeds == UNCHANGED fails
Fails(call) ==
    /\ call \in FailingCalls
    /\ fails < MaxFailures
    /\ fails' = fails + 1

-----------------------------------------------------------------------------
(* Messages.                                                               *)

Alive(m) == m \in DOMAIN msgs /\ msgs[m].alive
RootOf(m) == IF msgs[m].root = 0 THEN m ELSE msgs[m].root
IsMessageAcknowledged(m) == \E u \in Users : <<u, m>> \in acks
AckedBy(by, m) == IsMessageAcknowledged(IF by = "message" THEN m ELSE RootOf(m))
\* Mutant: no unique index on the deduplication key.
NeverStored(key) == FALSE

StoredKey(key) == \E m \in DOMAIN msgs : msgs[m].alive /\ msgs[m].key = key

\* The Channels of a message and of its parents, up to one that is deleted.
ChainApps(m) ==
    LET up[k \in 0..Len(msgs)] ==
            IF k = 0 \/ ~Alive(k) THEN {} ELSE {msgs[k].app} \cup up[msgs[k].parent]
    IN  {msgs[m].app} \cup up[msgs[m].parent]

\* Only the message itself is compared, not its parents.
WouldCycleAtOnce(m, rule) == rule.kind = "channel" /\ rule.target = msgs[m].app

escalationWouldCycle(m, rule) == rule.kind = "channel" /\ rule.target \in ChainApps(m)

\* queueEscalations: the states it inserts for message m.  It reads the rules
\* and inserts one state after the other; an error ends it early.
Matching(m) ==
    {r \in RuleIds :
        /\ msgs[m].depth < MaxDepth
        /\ rules[r].enabled
        /\ rules[r].source = msgs[m].app
        /\ rules[r].minPriority <= msgs[m].prio}
Queued(m) == {r \in Matching(m) : ~escalationWouldCycle(m, rules[r])}

\* A parent that cannot be loaded ends the walk of escalationWouldCycle, and
\* what lies above it is not compared.
Unseen(m) == {r \in Matching(m) : ~WouldCycleAtOnce(m, rules[r])}

Insert(m, rs) ==
    states' = [s \in StateIds |->
                  IF s[2] = m /\ s[1] \in rs /\ states[s] = NoState
                  THEN State(clock + rules[s[1]].delay, 0, FALSE)
                  ELSE states[s]]

queueEscalations(m) ==
    \/ Insert(m, Queued(m)) /\ Succeeds /\ UNCHANGED misled
    \/ /\ Fails("queue")
       /\ \E rs \in SUBSET Queued(m) : rs # Queued(m) /\ Insert(m, rs)
       /\ UNCHANGED misled
    \/ /\ Fails("parent")
       /\ \E rs \in SUBSET Unseen(m) :
              /\ rs \ Queued(m) # {}
              /\ Insert(m, rs)
              /\ misled' = misled \cup ({"parent"} \X ((rs \ Queued(m)) \X {m}))

Publish(a, p) ==
    /\ a \notin gone /\ published < MaxPublished /\ Len(msgs) < MaxMessages
    /\ msgs' = Append(msgs, [app |-> a, prio |-> p, parent |-> 0, root |-> 0, depth |-> 0,
                             rule |-> 0, key |-> NoKey, alive |-> TRUE])
    /\ publishing' = publishing \cup {Len(msgs) + 1}
    /\ published' = published + 1
    /\ UNCHANGED <<clock, rules, states, acks, gone, editing, turnVars, fails, saves, given, deleted, history>>

PublishQueue(m) ==
    /\ m \in publishing
    /\ publishing' = publishing \ {m}
    /\ queueEscalations(m)
    /\ UNCHANGED <<clock, msgs, rules, acks, gone, editing, turnVars, published, saves, given, deleted,
                   late, everAcked, touched>>

\* The publisher dies, or cannot load the recipients: nothing is queued.
PublishFails(m) ==
    /\ m \in publishing
    /\ publishing' = publishing \ {m}
    /\ Fails("recipients")
    /\ UNCHANGED <<clock, dbVars, editing, turnVars, published, saves, given, deleted, history>>

\* History: there are no late copies once nobody acknowledges any more.
ForgetLate ==
    late' = [q \in LateKeys |->
                IF q[1][2] \in DOMAIN msgs /\ ~AckedBy(q[2], q[1][2])' THEN {} ELSE late[q]]

\* DeleteMessageByID takes the acknowledgements and states with the message.
DeleteMessage(m) ==
    /\ Alive(m)
    /\ msgs' = [msgs EXCEPT ![m].alive = FALSE]
    /\ acks' = {a \in acks : a[2] # m}
    /\ states' = [s \in StateIds |-> IF s[2] = m THEN NoState ELSE states[s]]
    /\ ForgetLate
    /\ deleted < MaxDeletes /\ deleted' = deleted + 1
    /\ UNCHANGED <<clock, rules, gone, publishing, editing, turnVars, fails, published, saves, given,
                   everAcked, touched, misled>>

AcknowledgeMessage(u, m) ==
    /\ Alive(m) /\ <<u, m>> \notin acks
    /\ given < MaxAcks
    /\ given' = given + 1
    /\ acks' = acks \cup {<<u, m>>}
    /\ everAcked' = everAcked \cup {m}
    /\ UNCHANGED <<clock, msgs, rules, states, gone, publishing, editing, turnVars, fails, published,
                   saves, deleted, late, touched, misled>>

UnacknowledgeMessage(u, m) ==
    /\ Alive(m) /\ <<u, m>> \in acks
    /\ acks' = acks \ {<<u, m>>}
    /\ UNCHANGED msgs
    /\ ForgetLate
    /\ UNCHANGED <<clock, rules, states, gone, publishing, editing, turnVars, counters,
                   everAcked, touched, misled>>

-----------------------------------------------------------------------------
(* Rules.  An update reads the rule, checks that source and target exist,  *)
(* and saves it whole: Save inserts it again when it was deleted meanwhile. *)

SaveEscalationRule(r, def) ==
    /\ saves < MaxRuleSaves
    /\ saves' = saves + 1
    /\ rules' = [rules EXCEPT ![r] = def]
    /\ UNCHANGED <<clock, msgs, states, acks, gone, publishing, turnVars, fails, published, given,
                   deleted, late, everAcked, misled>>

Valid(def) == {def.source, def.target} \cap gone = {}

CreateEscalation(r, def) ==
    /\ rules[r] = NoRule /\ r \notin touched /\ (\A d \in RuleDefs : <<r, d>> \notin editing)
    /\ Valid(def)
    /\ SaveEscalationRule(r, def)
    /\ UNCHANGED <<editing, touched>>

UpdateRead(r, def) ==
    /\ rules[r] # NoRule /\ saves < MaxRuleSaves
    /\ Valid(def)
    /\ editing' = editing \cup {<<r, def>>}
    /\ UNCHANGED <<clock, dbVars, publishing, turnVars, counters, history>>

UpdateEscalation(r, def) ==
    /\ <<r, def>> \in editing
    /\ editing' = editing \ {<<r, def>>}
    /\ touched' = touched \cup {r}
    /\ SaveEscalationRule(r, def)

\* Rules go with their states.
DropRules(rs) ==
    /\ rules' = [r \in RuleIds |-> IF r \in rs THEN NoRule ELSE rules[r]]
    /\ states' = [s \in StateIds |-> IF s[1] \in rs THEN NoState ELSE states[s]]
    /\ touched' = touched \cup rs
    /\ UNCHANGED <<clock, msgs, acks, publishing, editing, turnVars, counters, late, everAcked, misled>>

DeleteEscalationRule(r) ==
    /\ rules[r] # NoRule
    /\ DropRules({r})
    /\ UNCHANGED gone

\* The rules of which a Channel is the source or the target; a rule for a user
\* names the user, and stays when she is deleted with her internal Channel.
Naming(a) == {r \in RuleIds : /\ rules[r] # NoRule
                              /\ rules[r].source = a \/ (rules[r].kind = "channel" /\ rules[r].target = a)}

\* The last transaction of the deletion of a Channel, or of a user.  Its messages
\* were deleted before (DeleteMessage); those stored in between stay.
DeleteApplicationByID(a) ==
    /\ a \in Mortal \ gone
    /\ gone' = gone \cup {a}
    /\ DropRules(Naming(a))

-----------------------------------------------------------------------------
(* runEscalations: one turn of a worker.  cur is the state in work as the  *)
(* turn has it in memory, with the rule it read and the message it stored. *)

Item(id, st) == [id |-> id, st |-> st, rule |-> NoRule, child |-> 0]

Goto(w, p) == pc' = [pc EXCEPT ![w] = p]

\* continue: the database keeps the state as it is.
NextItem(w) ==
    /\ Goto(w, "next")
    /\ cur' = [cur EXCEPT ![w] = NoItem]

SaveAs(w, st) ==
    /\ Goto(w, "save")
    /\ cur' = [cur EXCEPT ![w].st = st]

Cancel(w) == SaveAs(w, [cur[w].st EXCEPT !.completed = TRUE])

\* What a turn that began at time t makes of a state whose copy is stored.
Advanced(st, rule, t) ==
    IF rule.repeat > 0 /\ st.count + 1 <= rule.maxRepeats
    THEN State(t + rule.repeat, st.count + 1, FALSE)
    ELSE State(st.due, st.count + 1, TRUE)

AdvanceItem(w) == SaveAs(w, Advanced(cur[w].st, cur[w].rule, now[w]))

\* An error and an empty result end the turn without a change.
GetDueEscalations(w) ==
    /\ pc[w] = "idle"
    /\ \E s \in StateIds : Pending(s) /\ states[s].due <= clock
    /\ todo' = [todo EXCEPT ![w] = {Item(s, states[s]) :
                   s \in {s \in StateIds : Pending(s) /\ states[s].due <= clock}}]
    /\ now' = [now EXCEPT ![w] = clock]
    /\ Goto(w, "next")
    /\ UNCHANGED <<clock, dbVars, publishing, editing, cur, counters, history>>

TurnKeeps == UNCHANGED <<clock, dbVars, publishing, editing, now, published, saves, given,
                         deleted, late, everAcked, touched>>
TurnOnly == TurnKeeps /\ UNCHANGED misled

\* History: the row of state s is closed because of a failed read.
FailsOn(call, s) ==
    /\ Fails(call)
    /\ misled' = misled \cup {<<call, s>>}

\* GetMessageByID: a message that cannot be loaded counts as one that is gone.
GetSource(w) ==
    /\ pc[w] = "next"
    /\ \E item \in todo[w] :
           /\ todo' = [todo EXCEPT ![w] = @ \ {item}]
           /\ \/ /\ Alive(item.id[2]) /\ Succeeds
                 /\ Goto(w, "ack")
                 /\ cur' = [cur EXCEPT ![w] = item]
                 /\ UNCHANGED misled
              \/ /\ IF Alive(item.id[2]) THEN FailsOn("source", item.id) ELSE Succeeds /\ UNCHANGED misled
                 /\ Goto(w, "save")
                 /\ cur' = [cur EXCEPT ![w] = [item EXCEPT !.st.completed = TRUE]]
    /\ TurnKeeps

\* Mutant: an error counts as an acknowledgement.
CheckAckErrorCancels(w, m, next) ==
    /\ \/ Succeeds /\ IF IsMessageAcknowledged(m) THEN Cancel(w) ELSE Goto(w, next) /\ UNCHANGED cur
       \/ Fails("ack") /\ Cancel(w)
    /\ UNCHANGED todo
    /\ TurnOnly

CheckAck(w, m, next) ==
    /\ \/ Succeeds /\ IF IsMessageAcknowledged(m) THEN Cancel(w) ELSE Goto(w, next) /\ UNCHANGED cur
       \/ Fails("ack") /\ NextItem(w)
    /\ UNCHANGED todo
    /\ TurnOnly

CheckSourceAck(w) ==
    /\ pc[w] = "ack"
    /\ LET m == cur[w].id[2]
       IN  CheckAck(w, m, IF RootOf(m) = m THEN "rule" ELSE "ackRoot")

CheckRootAck(w) ==
    /\ pc[w] = "ackRoot"
    /\ CheckAck(w, RootOf(cur[w].id[2]), "rule")

GetEscalationRuleByID(w) ==
    /\ pc[w] = "rule"
    /\ LET rule == rules[cur[w].id[1]]
       IN  \/ /\ rule.enabled /\ Succeeds
              /\ Goto(w, "resolve")
              /\ cur' = [cur EXCEPT ![w].rule = rule]
              /\ UNCHANGED misled
           \/ /\ IF rule.enabled THEN FailsOn("rule", cur[w].id) ELSE Succeeds /\ UNCHANGED misled
              /\ Cancel(w)
    /\ UNCHANGED todo
    /\ TurnKeeps

\* A user or a group is reached through an internal Channel, made on demand; a
\* target that was deleted is an error of every turn.
ResolveEscalationTargetApplication(w) ==
    /\ pc[w] = "resolve"
    /\ \/ cur[w].rule.target \notin gone /\ Goto(w, "store") /\ Succeeds /\ UNCHANGED cur
       \/ /\ IF cur[w].rule.target \in gone THEN Succeeds ELSE Fails("resolve")
          /\ NextItem(w)
    /\ UNCHANGED todo
    /\ TurnOnly

Child(w) ==
    LET m == cur[w].id[2]
    IN  [app |-> cur[w].rule.target, prio |-> msgs[m].prio, parent |-> m, root |-> RootOf(m),
         depth |-> msgs[m].depth + 1, rule |-> cur[w].id[1],
         key |-> <<cur[w].id, cur[w].st.count>>, alive |-> TRUE]

StoreNew(w) ==
    /\ ~StoredKey(Child(w).key)
    /\ Len(msgs) < MaxMessages
    /\ Succeeds
    /\ msgs' = Append(msgs, Child(w))
    /\ late' = [q \in LateKeys |->
                   IF q[1] = cur[w].id /\ AckedBy(q[2], q[1][2]) THEN late[q] \cup {Len(msgs) + 1}
                                                               ELSE late[q]]
    /\ Goto(w, "deliver")
    /\ cur' = [cur EXCEPT ![w].child = Len(msgs) + 1]

\* Mutant: a copy that is already stored does not advance the state.
StoreDuplicateSkips(w) ==
    /\ StoredKey(Child(w).key)
    /\ Succeeds
    /\ NextItem(w)
    /\ UNCHANGED <<msgs, late>>

StoreDuplicate(w) ==
    /\ StoredKey(Child(w).key)
    /\ Succeeds
    /\ AdvanceItem(w)
    /\ UNCHANGED <<msgs, late>>

StoreError(w) ==
    /\ Fails("store")
    /\ NextItem(w)
    /\ UNCHANGED <<msgs, late>>

CreateMessageOnce(w) ==
    /\ pc[w] = "store"
    /\ StoreNew(w) \/ StoreDuplicate(w) \/ StoreError(w)
    /\ UNCHANGED <<clock, rules, states, acks, gone, publishing, editing, now, todo, published, saves,
                   given, deleted, everAcked, touched, misled>>

\* deliverStored: the first copy of a state is itself subject to the rules.
Deliver(w) ==
    /\ pc[w] = "deliver"
    /\ \/ /\ Succeeds
          /\ IF cur[w].st.count = 0 THEN Goto(w, "chain") /\ UNCHANGED cur ELSE AdvanceItem(w)
       \/ Fails("recipients") /\ NextItem(w)
    /\ UNCHANGED todo
    /\ TurnOnly

QueueChain(w) ==
    /\ pc[w] = "chain"
    /\ queueEscalations(cur[w].child)
    /\ AdvanceItem(w)
    /\ UNCHANGED <<clock, msgs, rules, acks, gone, publishing, editing, now, todo, published, saves,
                   given, deleted, late, everAcked, touched>>

\* Save writes the whole row, and inserts it when it was deleted meanwhile.
SaveEscalationState(w) ==
    /\ pc[w] = "save"
    /\ \/ Succeeds /\ states' = [states EXCEPT ![cur[w].id] = cur[w].st]
       \/ Fails("save") /\ UNCHANGED states
    /\ NextItem(w)
    /\ UNCHANGED <<clock, msgs, rules, acks, gone, publishing, editing, now, todo, published, saves,
                   given, deleted, history>>

Idle(w) ==
    /\ Goto(w, "idle")
    /\ now' = [now EXCEPT ![w] = 0]
    /\ todo' = [todo EXCEPT ![w] = {}]
    /\ cur' = [cur EXCEPT ![w] = NoItem]
    /\ UNCHANGED <<clock, dbVars, publishing, editing, published, saves, given, deleted, history>>

EndTurn(w) ==
    /\ pc[w] = "next" /\ todo[w] = {}
    /\ Succeeds
    /\ Idle(w)

\* The process ends between two calls and starts again.
Crash(w) ==
    /\ pc[w] # "idle"
    /\ Fails("crash")
    /\ Idle(w)

ClockTick ==
    /\ clock < MaxClock
    /\ clock' = clock + 1
    /\ UNCHANGED <<dbVars, publishing, editing, turnVars, counters, history>>

-----------------------------------------------------------------------------
Turn(w) ==
    \/ GetDueEscalations(w) \/ GetSource(w) \/ CheckSourceAck(w) \/ CheckRootAck(w)
    \/ GetEscalationRuleByID(w) \/ ResolveEscalationTargetApplication(w)
    \/ CreateMessageOnce(w) \/ Deliver(w) \/ QueueChain(w) \/ SaveEscalationState(w)
    \/ EndTurn(w)

Next ==
    \/ \E a \in Apps, p \in Priorities : Publish(a, p)
    \/ \E m \in publishing : PublishQueue(m) \/ PublishFails(m)
    \/ \E m \in DOMAIN msgs : DeleteMessage(m)
    \/ \E u \in Users, m \in DOMAIN msgs : AcknowledgeMessage(u, m) \/ UnacknowledgeMessage(u, m)
    \/ \E r \in RuleIds, def \in RuleDefs :
          CreateEscalation(r, def) \/ UpdateRead(r, def) \/ UpdateEscalation(r, def)
    \/ \E r \in RuleIds : DeleteEscalationRule(r)
    \/ \E a \in Apps : DeleteApplicationByID(a)
    \/ \E w \in Workers : Turn(w) \/ Crash(w)
    \/ ClockTick

Spec == Init /\ [][Next]_vars

\* The publishers and the engines run; the clock goes on.
Fairness ==
    /\ WF_vars(ClockTick)
    /\ \A m \in MsgIds : WF_vars(PublishQueue(m))
    /\ \A w \in Workers : WF_vars(Turn(w))

FairSpec == Spec /\ Fairness

-----------------------------------------------------------------------------
\* Chains end: no message is more than MaxDepth escalations away from a
\* published one, though a user's rule may lead back to the Channel it starts from.
DepthBounded ==
    \A m \in DOMAIN msgs : msgs[m].depth <= MaxDepth

Ancestors(m) ==
    LET up[k \in 0..Len(msgs)] == IF k = 0 THEN {} ELSE {k} \cup up[msgs[k].parent]
    IN  up[msgs[m].parent]

ComesBack(m) ==
    /\ msgs[m].rule # 0 /\ rules[msgs[m].rule] # NoRule /\ rules[msgs[m].rule].kind = "channel"
    /\ \E a \in Ancestors(m) : msgs[a].app = msgs[m].app

\* A rule between Channels copies a message to a Channel its chain has already
\* been in only when the rule was edited or a message of the chain deleted
\* after escalationWouldCycle looked, or when it could not load a parent.
NoChannelTwice ==
    \A m \in DOMAIN msgs :
        ComesBack(m) => \/ msgs[m].rule \in touched
                        \/ <<"parent", <<msgs[m].rule, msgs[m].parent>>>> \in misled
                        \/ \E a \in Ancestors(m) : ~msgs[a].alive

Copies(s) == {m \in DOMAIN msgs : msgs[m].alive /\ msgs[m].rule = s[1] /\ msgs[m].parent = s[2]}
MaxCopies(rule) == IF rule.repeat > 0 THEN rule.maxRepeats + 1 ELSE 1

\* However often overlapping or restarted turns handle a state, it yields no
\* more copies than its rule's maximum of repeats allows.
RepeatsBounded ==
    \A s \in StateIds :
        s[1] \notin touched /\ rules[s[1]] # NoRule
            => Cardinality(Copies(s)) <= MaxCopies(rules[s[1]])

\* Once a message is acknowledged, and once the root of its chain is, a state
\* stores at most the one copy whose turn had already looked at it, or one that
\* a deletion makes room for.
AckStops == \A q \in LateKeys : Cardinality(late[q]) <= 1 + deleted

\* The copies of a state (engine.go runEscalations).
CopiesBounded == RepeatsBounded /\ AckStops

\* The chains of copies (engine.go escalationWouldCycle).
ChainsEnd == NoChannelTwice /\ DepthBounded

Excused(s) ==
    \/ {s[2], RootOf(s[2])} \cap everAcked # {}
    \/ s[1] \in touched
    \/ ~msgs[s[2]].alive
    \/ {<<"source", s>>, <<"rule", s>>} \cap misled # {}

\* A state is closed without any copy only when somebody acknowledged, the
\* rule was changed, the message was deleted, or a turn could not load the
\* message or the rule, which runEscalations takes for their deletion.
EscalatedUnlessExcused ==
    \A s \in StateIds :
        states[s] # NoState /\ states[s].completed /\ states[s].count = 0 => Excused(s)

Due(s) == Pending(s) /\ states[s].due <= MaxClock

\* Its rule is for a user, or a Channel, that was deleted.
Stranded(s) == rules[s[1]] # NoRule /\ rules[s[1]].target \in gone

\* Every state that falls due is eventually closed, deleted, or put off beyond
\* the end of time, whatever fails or crashes in between; but the state of a
\* rule whose target was deleted stays due.
StateSettles == \A s \in StateIds : Due(s) ~> (~Due(s) \/ Stranded(s))

=============================================================================
