----------------------------- MODULE MCStateFile -----------------------------
(* Small instances of StateFile for TLC.                                   *)
EXTENDS StateFile, TLC

Every(n) == [a \in Accounts |-> n]
MCDailyQuota == Every(2)
MCOnes == Every(1)
MCSymmetry == Permutations(Requests)
=============================================================================
