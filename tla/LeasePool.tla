------------------------------ MODULE LeasePool ------------------------------
(***************************************************************************)
(* What the scheduler promises its callers, whatever its strategy, quotas  *)
(* and cool-offs: an account is a pool of MaxInFlight slots, a caller      *)
(* holds at most one slot, and it gives back the one it took.  There is no *)
(* counter here: the cap is on the callers that really hold a slot.        *)
(***************************************************************************)
EXTENDS Integers, FiniteSets

CONSTANTS Requests, Accounts, MaxInFlight, None

VARIABLE holding   \* the account each caller holds a slot of, or None

HoldersOf(a) == {r \in Requests : holding[r] = a}

Init == holding = [r \in Requests |-> None]

Acquire(r, a) ==
  /\ holding[r] = None
  /\ Cardinality(HoldersOf(a)) < MaxInFlight
  /\ holding' = [holding EXCEPT ![r] = a]

GiveBack(r) ==
  /\ holding[r] # None
  /\ holding' = [holding EXCEPT ![r] = None]

Next == \E r \in Requests : GiveBack(r) \/ \E a \in Accounts : Acquire(r, a)

Spec == Init /\ [][Next]_holding
=============================================================================
