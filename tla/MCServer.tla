------------------------------ MODULE MCServer -------------------------------
(* Channels and accounts, for TLC. The parts share no state, so each is     *)
(* explored on its own: a behaviour takes the steps of one of them.         *)
EXTENDS Membership, Channels, SortKeys, Sessions, SignIn, Users, SecondFactor, TLC

VARIABLE part

channels == <<membershipVars, channelVars, sortVars>>
accounts == <<sessionVars, signInVars, userVars, factorVars>>

vars == <<part, channels, accounts>>

Init ==
    /\ part \in {"members", "channel", "order", "sessions", "signin", "users", "factors"}
    /\ MembershipInit /\ ChannelInit /\ SortInit
    /\ SessionInit /\ SignInInit /\ UserInit /\ FactorInit
    \* the parts that do not move have one initial state
    /\ part # "order" => order = <<>>
    /\ part # "members" => people = People

ChannelSteps ==
    /\ UNCHANGED accounts
    /\ \/ part = "members" /\ MembershipNext /\ UNCHANGED <<channelVars, sortVars>>
       \/ part = "channel" /\ ChannelNext /\ UNCHANGED <<membershipVars, sortVars>>
       \/ part = "order" /\ SortNext /\ UNCHANGED <<membershipVars, channelVars>>

AccountSteps ==
    /\ UNCHANGED channels
    /\ \/ part = "sessions" /\ SessionNext /\ UNCHANGED <<signInVars, userVars, factorVars>>
       \/ part = "signin" /\ SignInNext /\ UNCHANGED <<sessionVars, userVars, factorVars>>
       \/ part = "users" /\ UserNext /\ UNCHANGED <<sessionVars, signInVars, factorVars>>
       \/ part = "factors" /\ FactorNext /\ UNCHANGED <<sessionVars, signInVars, userVars>>

Next == UNCHANGED part /\ (ChannelSteps \/ AccountSteps)

Spec == Init /\ [][Next]_vars

\* The actors of all parts are the same two, and so are the things they act on.
Symmetric == Permutations(Threads) \cup Permutations(Clients)
=============================================================================
