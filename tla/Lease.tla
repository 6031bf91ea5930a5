------------------------------- MODULE Lease --------------------------------
(* What an automation lease promises: at any time at most one party works   *)
(* under a grant that has not run out. A party enters only when nobody is   *)
(* in, and leaves when it gives the lease back or its grant runs out.       *)
CONSTANT Parties
VARIABLE holders

Enter(p) == holders = {} /\ holders' = {p}
Leave(p) == p \in holders /\ holders' = holders \ {p}

Spec == holders = {} /\ [][\E p \in Parties : Enter(p) \/ Leave(p)]_holders
=============================================================================
