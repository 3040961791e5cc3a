----------------------------- MODULE QuotaProofs -----------------------------
(***************************************************************************)
(* What no single step of the relay client may do to an account that is    *)
(* spent or cooling off, for every configuration.                          *)
(***************************************************************************)
EXTENDS RelayClientProofs

(* A window that is over is rolled to a later start, so a roll that leaves *)
(* the start alone leaves the whole window alone.                          *)
LEMMA RollOrNot ==
  ASSUME SchedulerTypeOK, RollWindows, NEW a \in Accounts, ~Rolled(a)
  PROVE  /\ ~WindowOver(a)
         /\ callsToday'[a] = callsToday[a] /\ cooloffUntil'[a] = cooloffUntil[a]
<1>1. /\ now \in Int /\ quotaWindowStart[a] \in Int /\ Day \in Nat \ {0}
  BY SchedulerConfigAssumption DEF SchedulerTypeOK
<1>2. quotaWindowStart'[a] = IF WindowOver(a) THEN now ELSE quotaWindowStart[a]
  BY DEF RollWindows
<1>3. quotaWindowStart'[a] = quotaWindowStart[a]
  BY DEF Rolled
<1>4. ~WindowOver(a)
  BY <1>1, <1>2, <1>3 DEF WindowOver
<1>5. /\ callsToday'[a] = CallsNow(a) /\ cooloffUntil'[a] = CooloffNow(a)
  BY DEF RollWindows
<1> QED
  BY <1>4, <1>5 DEF CallsNow, CooloffNow

(* The strategies only choose among the candidates.                        *)
LEMMA LeasedIsEligible ==
  ASSUME NEW excl, NEW a, Lease(excl, a)
  PROVE  a \in Accounts /\ Eligible(a)
<1>1. a \in Picks(Candidates(excl))
  BY DEF Lease
<1>2. Picks(Candidates(excl)) \subseteq Candidates(excl)
  BY SchedulerConfigAssumption DEF Picks, RoundRobinPicks, LeastLoadedPicks
<1> QED
  BY <1>1, <1>2 DEF Candidates

(* Counting more calls, or exactly the daily quota, leaves an account      *)
(* spent.                                                                  *)
LEMMA SpentArithmetic ==
  ASSUME SchedulerTypeOK, NEW a \in Accounts,
         \/ Spent(a) /\ callsToday'[a] \in {callsToday[a], callsToday[a] + 1}
         \/ callsToday'[a] = DailyQuota[a]
  PROVE  Spent(a)'
<1>1. /\ DailyQuota[a] \in Nat /\ SafetyMargin \in 1..100 /\ callsToday[a] \in Nat
  BY AccountsAssumption, SchedulerConfigAssumption DEF SchedulerTypeOK
<1>2. DailyQuota[a] * SafetyMargin \in Nat
  BY <1>1
<1>3. CASE Spent(a) /\ callsToday'[a] \in {callsToday[a], callsToday[a] + 1}
  BY <1>1, <1>2, <1>3 DEF Spent
<1>4. CASE callsToday'[a] = DailyQuota[a]
  <2> DEFINE q == DailyQuota[a]
             m == SafetyMargin
  <2>1. q \in Nat /\ m \in Nat /\ 100 - m \in Nat
    BY <1>1
  <2> HIDE DEF q, m
  <2>2. q * (100 - m) >= 0 /\ q * (100 - m) = q * 100 - q * m /\ q * m \in Nat
    BY <2>1
  <2>3. q * 100 >= q * m
    BY <2>1, <2>2
  <2>4. DailyQuota[a] * 100 >= DailyQuota[a] * SafetyMargin
    BY <2>3 DEF q, m
  <2> QED
    BY <1>4, <2>4 DEF Spent
<1> QED
  BY <1>3, <1>4

(* SpentStaysOut for one step.                                             *)
LEMMA SpentStep ==
  ASSUME IInv, [Next]_vars, NEW a \in Accounts,
         Spent(a) \/ QuotaAnswer(a), ~Rolled(a)
  PROVE  Spent(a)' /\ inFlight'[a] <= inFlight[a]
<1>1. TypeOK /\ LocalsMatchPlace /\ SchedulerTypeOK
  BY DEF IInv, TypeOK
<1>2. inFlight[a] \in Int
  BY <1>1 DEF SchedulerTypeOK
<1>3. ASSUME Spent(a), callsToday' = callsToday, inFlight' = inFlight
      PROVE  Spent(a)' /\ inFlight'[a] <= inFlight[a]
  BY <1>1, <1>2, <1>3, SpentArithmetic
<1>4. ASSUME \A q \in Requests : pc[q] = "post" => pc'[q] # "release"
      PROVE  Spent(a)
  BY <1>4 DEF QuotaAnswer
<1>5. ASSUME NEW r \in Requests, Begin(r) PROVE Spent(a)' /\ inFlight'[a] <= inFlight[a]
  <2>1. Spent(a)
    BY <1>1, <1>4, <1>5 DEF TypeOK, Begin
  <2> QED
    BY <1>3, <1>5, <2>1 DEF Begin, schedVars, windowVars, leaseVars
<1>6. ASSUME NEW r \in Requests, Select(r) PROVE Spent(a)' /\ inFlight'[a] <= inFlight[a]
  <2>1. Spent(a)
    BY <1>1, <1>4, <1>6 DEF TypeOK, Select
  <2>2. PICK b \in Accounts : Lease(excluded[r], b)
    BY <1>6 DEF Select
  <2>3. ~WindowOver(a) /\ callsToday'[a] = callsToday[a]
    BY <1>1, <2>2, RollOrNot DEF Lease
  <2>4. b # a
    <3>1. Eligible(b)
      BY <2>2, LeasedIsEligible
    <3>2. ~Eligible(a)
      <4>1. CallsNow(a) = callsToday[a]
        BY <2>3 DEF CallsNow
      <4>2. ~(callsToday[a] * 100 < DailyQuota[a] * SafetyMargin)
        <5>1. /\ callsToday[a] \in Nat /\ DailyQuota[a] \in Nat
              /\ SafetyMargin \in Nat
          BY <1>1, AccountsAssumption, SchedulerConfigAssumption DEF SchedulerTypeOK
        <5>2. callsToday[a] * 100 \in Nat /\ DailyQuota[a] * SafetyMargin \in Nat
          BY <5>1
        <5> QED
          BY <2>1, <5>2 DEF Spent
      <4> QED
        BY <4>1, <4>2 DEF Eligible
    <3> QED
      BY <3>1, <3>2
  <2>5. inFlight'[a] = inFlight[a]
    BY <1>1, <2>2, <2>4 DEF Lease, SchedulerTypeOK
  <2> QED
    BY <1>1, <1>2, <2>1, <2>3, <2>5, SpentArithmetic
<1>7. ASSUME NEW r \in Requests, SelectFails(r)
      PROVE  Spent(a)' /\ inFlight'[a] <= inFlight[a]
  <2>1. Spent(a)
    BY <1>1, <1>4, <1>7 DEF TypeOK, SelectFails, Return
  <2>2. callsToday'[a] = callsToday[a] /\ inFlight' = inFlight
    BY <1>1, <1>7, RollOrNot DEF SelectFails, LeaseRefused, leaseVars
  <2> QED
    BY <1>1, <1>2, <2>1, <2>2, SpentArithmetic
<1>8. ASSUME NEW r \in Requests, Reply(r) PROVE Spent(a)' /\ inFlight'[a] <= inFlight[a]
  <2> DEFINE b == account[r]
  <2>1. b \in Accounts /\ pc[r] = "post"
    BY <1>1, <1>8, HeldAccount DEF Reply
  <2>2. PICK o \in Answers :
          /\ answer' = [answer EXCEPT ![r] = o]
          /\ CASE o = "ok"        -> ReportSuccess(b)
               [] o = "quota"     -> ReportQuotaExceeded(b)
               [] o = "throttle"  -> ReportThrottle(b)
               [] o = "transient" -> ReportError(b)
               [] o = "other"     -> UNCHANGED schedVars
    BY <1>8 DEF Reply
  <2>3. o \in {"ok", "quota", "throttle", "transient", "other"}
    BY RelayAssumption
  <2>4. inFlight' = inFlight
    BY <2>2, <2>3 DEF ReportSuccess, ReportQuotaExceeded, ReportThrottle, ReportError,
                      schedVars, leaseVars
  <2>5. CASE QuotaAnswer(a)
    <3>1. o = "quota" /\ b = a
      <4>1. PICK q \in Requests : /\ pc[q] = "post" /\ account[q] = a
                                 /\ pc'[q] = "release" /\ answer'[q] = "quota"
        BY <2>5 DEF QuotaAnswer
      <4>2. q = r
        BY <1>1, <1>8, <4>1 DEF TypeOK, Reply
      <4> QED
        BY <1>1, <2>2, <4>1, <4>2 DEF TypeOK
    <3>2. ReportQuotaExceeded(a)
      BY <2>2, <3>1
    <3>3. callsToday'[a] = DailyQuota[a]
      BY <1>1, <3>2 DEF ReportQuotaExceeded, SchedulerTypeOK
    <3> QED
      BY <1>1, <1>2, <2>4, <3>3, SpentArithmetic
  <2>6. CASE Spent(a)
    <3>1. \/ callsToday'[a] \in {callsToday[a], callsToday[a] + 1}
          \/ callsToday'[a] = DailyQuota[a]
      <4>1. CASE o = "ok"
        BY <1>1, <2>2, <4>1 DEF ReportSuccess, SchedulerTypeOK
      <4>2. CASE o = "quota"
        BY <1>1, <2>2, <4>2 DEF ReportQuotaExceeded, SchedulerTypeOK
      <4>3. CASE o \in {"throttle", "transient", "other"}
        BY <2>2, <4>3 DEF ReportThrottle, ReportError, schedVars, windowVars
      <4> QED
        BY <2>3, <4>1, <4>2, <4>3
    <3> QED
      BY <1>1, <1>2, <2>4, <2>6, <3>1, SpentArithmetic
  <2> QED
    BY <2>5, <2>6
<1>9. ASSUME NEW r \in Requests, Release(r) PROVE Spent(a)' /\ inFlight'[a] <= inFlight[a]
  <2>1. Spent(a)
    BY <1>1, <1>4, <1>9 DEF TypeOK, Release, Return
  <2>2. callsToday'[a] = callsToday[a]
    BY <1>9 DEF Release, ReleaseLease, windowVars
  <2>3. inFlight'[a] <= inFlight[a]
    BY <1>1, <1>2, <1>9 DEF Release, ReleaseLease, SchedulerTypeOK
  <2> QED
    BY <1>1, <2>1, <2>2, <2>3, SpentArithmetic
<1>10. ASSUME Environment PROVE Spent(a)' /\ inFlight'[a] <= inFlight[a]
  <2>1. Spent(a)
    BY <1>4, <1>10 DEF Environment, requestVars
  <2>2. callsToday'[a] = callsToday[a] /\ inFlight' = inFlight
    <3>1. CASE PollStats
      BY <1>1, <3>1, RollOrNot DEF PollStats, leaseVars
    <3>2. CASE Tick
      BY <3>2 DEF Tick, windowVars, leaseVars
    <3>3. CASE \E b \in Toggled, on \in BOOLEAN : SetAccountEnabled(b, on)
      BY <3>3 DEF SetAccountEnabled, leaseVars
    <3> QED
      BY <1>10, <3>1, <3>2, <3>3 DEF Environment
  <2> QED
    BY <1>1, <1>2, <2>1, <2>2, SpentArithmetic
<1>11. ASSUME UNCHANGED vars PROVE Spent(a)' /\ inFlight'[a] <= inFlight[a]
  <2>1. UNCHANGED <<pc, callsToday, inFlight>>
    BY <1>11 DEF vars, schedVars, requestVars, windowVars, leaseVars
  <2>2. Spent(a)
    BY <1>4, <2>1
  <2> QED
    BY <1>3, <2>1, <2>2
<1> QED
  BY <1>5, <1>6, <1>7, <1>8, <1>9, <1>10, <1>11 DEF Next, Serve

(* An account that used up its share of the daily quota, or has just       *)
(* answered "quota", gets no new lease and stays spent until its window    *)
(* rolls, whatever late replies and switch flips come in between.          *)
THEOREM SpentStaysOutHolds == Spec => SpentStaysOut
<1>1. IInv /\ [Next]_vars =>
        [\A a \in Accounts : (Spent(a) \/ QuotaAnswer(a)) /\ ~Rolled(a) =>
           Spent(a)' /\ inFlight'[a] <= inFlight[a]]_vars
  BY SpentStep
<1> QED
  BY Invariance, <1>1, PTL DEF Spec, SpentStaysOut
-----------------------------------------------------------------------------
(* CooloffNotEndedByReplies for one step.                                  *)
LEMMA CooloffStep ==
  ASSUME IInv, [Next]_vars, NEW a \in Accounts
  PROVE  \/ cooloffUntil'[a] >= cooloffUntil[a]
         \/ cooloffUntil'[a] >= now + ShortestPause
         \/ Rolled(a)
         \/ SetAccountEnabled(a, TRUE)
<1> DEFINE Goal == \/ cooloffUntil'[a] >= cooloffUntil[a]
                   \/ cooloffUntil'[a] >= now + ShortestPause
                   \/ Rolled(a)
                   \/ SetAccountEnabled(a, TRUE)
<1>1. TypeOK /\ LocalsMatchPlace /\ SchedulerTypeOK
  BY DEF IInv, TypeOK
<1>2. /\ cooloffUntil[a] \in Nat /\ now \in Nat
      /\ Cooloff \in Nat /\ ThrottleBackoff \in Nat
  BY <1>1, SchedulerConfigAssumption DEF SchedulerTypeOK
<1>3. ASSUME cooloffUntil'[a] = cooloffUntil[a] PROVE Goal
  <2>1. cooloffUntil'[a] >= cooloffUntil[a]
    <3> DEFINE c == cooloffUntil[a]
    <3>1. c \in Nat /\ cooloffUntil'[a] = c
      BY <1>2, <1>3
    <3> HIDE DEF c
    <3>2. c >= c
      BY <3>1
    <3> QED
      BY <3>1, <3>2, Zenon DEF c
  <2> QED
    BY <2>1, Zenon
<1>4. ASSUME RollWindows PROVE Goal
  BY <1>1, <1>3, <1>4, RollOrNot
<1>5. ASSUME NEW r \in Requests, Reply(r) PROVE Goal
  <2> DEFINE b == account[r]
  <2>1. b \in Accounts
    BY <1>1, <1>5, HeldAccount DEF Reply
  <2>2. \/ ReportSuccess(b) \/ ReportQuotaExceeded(b)
        \/ ReportThrottle(b) \/ ReportError(b) \/ UNCHANGED schedVars
    BY <1>5, RelayAssumption DEF Reply
  <2>3. \/ cooloffUntil'[a] = cooloffUntil[a]
        \/ cooloffUntil'[a] \in {now + Cooloff, now + ThrottleBackoff}
    <3>1. CASE ReportSuccess(b) \/ UNCHANGED schedVars
      BY <3>1 DEF ReportSuccess, schedVars, windowVars
    <3>2. CASE ReportQuotaExceeded(b)
      BY <1>1, <3>2 DEF ReportQuotaExceeded, SchedulerTypeOK
    <3>3. CASE ReportThrottle(b)
      BY <1>1, <3>3, Zenon DEF ReportThrottle, SchedulerTypeOK
    <3>4. CASE ReportError(b)
      <4> DEFINE errors == consecutiveErrors[b] + 1
                 until == CASE errors >= ErrorsToCooloff -> now + Cooloff
                            [] errors < ErrorsToCooloff /\ errors >= ErrorsToBackoff
                                 -> now + ThrottleBackoff
                            [] OTHER -> cooloffUntil[b]
      <4>1. cooloffUntil' = [cooloffUntil EXCEPT ![b] = until]
        BY <3>4, Zenon DEF ReportError
      <4>2. until \in {now + Cooloff, now + ThrottleBackoff, cooloffUntil[b]}
        OBVIOUS
      <4> HIDE DEF until
      <4> QED
        BY <1>1, <4>1, <4>2 DEF SchedulerTypeOK
    <3> QED
      BY <2>2, <3>1, <3>2, <3>3, <3>4
  <2>4. CASE cooloffUntil'[a] \in {now + Cooloff, now + ThrottleBackoff}
    <3>1. ShortestPause <= Cooloff /\ ShortestPause <= ThrottleBackoff
          /\ ShortestPause \in Nat
      BY <1>2 DEF ShortestPause
    <3>2. /\ now + ShortestPause <= now + Cooloff
          /\ now + ShortestPause <= now + ThrottleBackoff
      BY <1>2, <3>1
    <3>3. /\ now + Cooloff >= now + ShortestPause
          /\ now + ThrottleBackoff >= now + ShortestPause
      BY <1>2, <3>1
    <3>4. cooloffUntil'[a] >= now + ShortestPause
      BY <2>4, <3>3, Zenon
    <3> QED
      BY <3>4, Zenon
  <2> QED
    BY <1>3, <2>3, <2>4
<1>6. ASSUME NEW b \in Toggled, NEW on \in BOOLEAN, SetAccountEnabled(b, on)
      PROVE  Goal
  <2>1. CASE b = a /\ on
    BY <1>6, <2>1
  <2>2. CASE b # a \/ ~on
    <3>1. cooloffUntil'[a] = cooloffUntil[a]
      BY <1>1, <1>6, <2>2, RelayAssumption DEF SetAccountEnabled, SchedulerTypeOK
    <3> QED
      BY <1>3, <3>1
  <2> QED
    BY <2>1, <2>2
<1>7. ASSUME Environment PROVE Goal
  <2>1. CASE Tick
    BY <1>3, <2>1 DEF Tick, windowVars
  <2> QED
    BY <1>4, <1>6, <1>7, <2>1 DEF Environment, PollStats
<1>8. ASSUME NEW r \in Requests, Begin(r) \/ Serve(r) PROVE Goal
  <2>1. CASE Begin(r) \/ Release(r)
    BY <1>3, <2>1 DEF Begin, Release, ReleaseLease, schedVars, windowVars
  <2>2. CASE Select(r) \/ SelectFails(r)
    BY <1>4, <2>2 DEF Select, Lease, SelectFails, LeaseRefused
  <2> QED
    BY <1>5, <1>8, <2>1, <2>2 DEF Serve
<1>9. ASSUME UNCHANGED vars PROVE Goal
  BY <1>3, <1>9 DEF vars, schedVars, windowVars
<1> QED
  BY <1>7, <1>8, <1>9 DEF Next

(* Replies may shorten a cool-off, and never below the shortest pause.     *)
THEOREM CooloffKept == Spec => CooloffNotEndedByReplies
<1>1. IInv /\ [Next]_vars =>
        [\A a \in Accounts :
           \/ cooloffUntil'[a] >= cooloffUntil[a]
           \/ cooloffUntil'[a] >= now + ShortestPause
           \/ Rolled(a)
           \/ SetAccountEnabled(a, TRUE)]_vars
  BY CooloffStep
<1> QED
  BY Invariance, <1>1, PTL DEF Spec, CooloffNotEndedByReplies
=============================================================================
