------------------------------ MODULE MCStream ------------------------------
(***************************************************************************)
(* Instances of Stream for TLC.  All connections are of one user; with two *)
(* connections, each has a token of its own, so that NotifyDeletedClient   *)
(* selects one of them and NotifyDeletedUser both.                         *)
(***************************************************************************)
EXTENDS Stream

CONSTANTS c1, c2, u1, t1, t2

OneConn  == {c1}
TwoConns == {c1, c2}
OneUser  == {u1}
OneToken == {t1}
TwoTokens == {t1, t2}

MCUserOf         == [c \in Conns |-> u1]
MCTokenOf        == [c \in Conns |-> IF c = c1 THEN t1 ELSE t2]
MCMessageClients == [c \in Conns |-> "message"]
MCMixedClients   == [c \in Conns |-> IF c = c1 THEN "message" ELSE "event"]

=============================================================================
