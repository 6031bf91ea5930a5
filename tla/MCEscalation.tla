---------------------------- MODULE MCEscalation ----------------------------
(* Instances of Escalation for TLC.                                        *)
EXTENDS Escalation, TLC

Rule(kind, source, target, repeat, maxRepeats) ==
    [kind |-> kind, source |-> source, target |-> target, minPriority |-> 1, delay |-> 1,
     repeat |-> repeat, maxRepeats |-> maxRepeats, enabled |-> TRUE]

\* One repeat after the first copy.
RepeatDefs == {Rule("channel", "a", "b", 1, 1)}

\* The internal Channel of a user who escalates it to herself.
SelfRule == Rule("user", "b", "b", 0, 0)

\* The same, and its switched off form.
SwitchDefs == {SelfRule, [SelfRule EXCEPT !.enabled = FALSE]}

\* The internal Channel of a user, and a Channel whose messages escalate to her.
UserDefs == SwitchDefs \cup {Rule("user", "a", "b", 0, 0)}

\* One update of a rule at a time, and at most two of a failure, an
\* acknowledgement, the deletion of a message and that of the target: steps
\* that nothing forces.
FewAtOnce ==
    /\ Cardinality(editing') <= 1
    /\ fails' + given' + deleted' + Cardinality(gone') <= 2

FailureSpec == Init /\ [][Next /\ FewAtOnce]_vars /\ Fairness

\* Two Channels that escalate to each other.
LoopDefs == {Rule("channel", "a", "b", 0, 0), Rule("channel", "b", "a", 0, 0)}

ChainDefs == LoopDefs \cup {SelfRule}

Symmetric == Permutations(RuleIds) \cup Permutations(Workers)
=============================================================================
