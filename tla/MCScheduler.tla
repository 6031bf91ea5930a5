---------------------------- MODULE MCScheduler ----------------------------
(***************************************************************************)
(* Instances of Scheduler for TLC.  Moments are seconds, chosen around the *)
(* expiry of the lease, the retry and the misfire grace.                   *)
(***************************************************************************)
EXTENDS Scheduler, TLC

Def(occ, once, maxRuns, misfire) ==
    [occ |-> occ, once |-> once, maxRuns |-> maxRuns, misfire |-> misfire]

\* Two runs at most; a single one; misfires skipped.
Twice    == Def({60, 120, 180}, FALSE, 2, "send")
Once     == Def({60}, TRUE, 0, "send")
Skipping == Def({60, 120, 420}, FALSE, 0, "skip")
SkipTwice == Def({60, 61, 120, 420}, FALSE, 2, "skip")

DefsTwice == {Twice}
DefsEdit  == {Twice, Once, SkipTwice}
DefsSkip  == {Skipping}
TimesOverlap == {0, 60, 90, 180}
TimesSkip    == {0, 60, 425}
TimesEdit    == {0, 60, 90, 425}
Symmetric    == Permutations(Instances)
=============================================================================
