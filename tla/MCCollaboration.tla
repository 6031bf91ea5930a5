-------------------------- MODULE MCCollaboration --------------------------
(* Collaboration on its own, for TLC.                                       *)
EXTENDS Collaboration, TLC
=============================================================================
