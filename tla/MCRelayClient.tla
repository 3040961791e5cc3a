---------------------------- MODULE MCRelayClient ----------------------------
(* Small instances of RelayClient for TLC.                                 *)
EXTENDS RelayClient, TLC

Every(n) == [a \in Accounts |-> n]
MCDailyQuota == Every(2)
MCOnes == Every(1)
MCSymmetry == Permutations(Requests \ Batches)
=============================================================================
