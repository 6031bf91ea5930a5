----------------------------- MODULE MCMessages -----------------------------
(* What happens to a message, for TLC: its delivery under the policies of   *)
(* its recipient, the history of the channel, and what members add to it.   *)
(* The parts share no state, so each is explored on its own: a behaviour    *)
(* takes the steps of one of them.                                          *)
EXTENDS Delivery, Messages, Collaboration

Priorities == [m \in Posts |-> 1]

\* On with any immediate priority; off has one form.
DigestChoices == {[enabled |-> e, interval |-> 1, immediate |-> i] : e \in BOOLEAN, i \in {0, 2}}
                 \ {[enabled |-> FALSE, interval |-> 1, immediate |-> 0]}

\* Quiet for the second half of a day of two units.
QuietChoices == {[enabled |-> TRUE, start |-> 1, end |-> 0, allow |-> 2, mode |-> m] :
                    m \in {"suppress", "defer"}}

VARIABLE part

vars == <<part, deliveryVars, messageVars, collaborationVars>>

Init ==
    /\ part \in {"delivery", "overlap", "messages", "collaboration"}
    /\ DeliveryInit /\ MessageInit /\ CollaborationInit
    \* the parts that do not move have one initial state
    /\ part # "messages" => joined = Readers

\* One turn alone is explored with everything; two turns with both messages and
\* one save or deletion, or with one message and all of them.
FirstWorker == CHOOSE w \in Workers : TRUE
TurnBound ==
    IF part = "delivery" THEN \A w \in Workers \ {FirstWorker} : worker'[w] = worker[w]
                         ELSE \/ saves' + deletes' <= 1
                              \/ \A m \in Posts \ {1} : pub'[m] = "new"

Next ==
    /\ UNCHANGED part
    /\ \/ part \in {"delivery", "overlap"} /\ DeliveryNext /\ TurnBound /\ UNCHANGED <<messageVars, collaborationVars>>
       \/ part = "messages" /\ MessageNext /\ UNCHANGED <<deliveryVars, collaborationVars>>
       \/ part = "collaboration" /\ CollaborationNext /\ UNCHANGED <<deliveryVars, messageVars>>

Spec == Init /\ [][Next]_vars

\* Requests and Works are the same two.
Symmetric == Permutations(Requests)
=============================================================================
