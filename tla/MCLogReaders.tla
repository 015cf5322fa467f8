--------------------------- MODULE MCLogReaders ---------------------------
(* Instances of LogReaders for TLC.                                        *)
EXTENDS LogReaders, TLC

CONSTANTS r1, r2, s1, s2

TwoRuns == {r1, r2}
RunSymmetry == Permutations(TwoRuns)
OneStep == {s1}
TwoSteps == {s1, s2}

(* The page and the poller share nothing but the file: one at a time.      *)
OneReader == page.log = "none" \/ (poll.since = 0 /\ ~poll.asked)
=============================================================================
