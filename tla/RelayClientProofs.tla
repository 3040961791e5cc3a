-------------------------- MODULE RelayClientProofs --------------------------
(***************************************************************************)
(* What holds of the relay client and its scheduler for every number of    *)
(* accounts and requests and every configuration: the in-flight counter is *)
(* exactly the slots held, the cap and the quota bound hold, and a request *)
(* meets each account at most once.                                        *)
(***************************************************************************)
EXTENDS RelayClient, FiniteSetTheorems, SequenceTheorems, TLAPS

(* What is left of a sequence after dropping its first k elements.         *)
LEMMA SuffixType ==
  ASSUME NEW S, NEW ts \in Seq(S), NEW k \in Nat, k <= Len(ts)
  PROVE  SubSeq(ts, k + 1, Len(ts)) \in Seq(S)
<1>1. \A i \in (k + 1)..Len(ts) : ts[i] \in S
  OBVIOUS
<1>2. k + 1 \in Int /\ Len(ts) \in Int
  OBVIOUS
<1> QED
  BY <1>1, <1>2, SubSeqProperties, Zenon

(* How many positions of a sequence satisfy a condition.                   *)
LEMMA PositionsCount ==
  ASSUME NEW S, NEW ts \in Seq(S), NEW T \in SUBSET DOMAIN ts
  PROVE  Cardinality(T) \in Nat /\ Cardinality(T) <= Len(ts)
<1>1. DOMAIN ts = 1..Len(ts) /\ Len(ts) \in Nat
  OBVIOUS
<1>2. IsFiniteSet(1..Len(ts)) /\ Cardinality(1..Len(ts)) = Len(ts)
  <2> DEFINE n == Len(ts)
  <2>1. 1 \in Int /\ n \in Int
    BY <1>1
  <2> HIDE DEF n
  <2>2. /\ IsFiniteSet(1..n)
        /\ Cardinality(1..n) = IF 1 > n THEN 0 ELSE n - 1 + 1
    BY <2>1, FS_Interval
  <2>3. n \in Nat
    BY <1>1 DEF n
  <2>4. Cardinality(1..n) = n
    BY <2>2, <2>3
  <2> QED
    BY <2>2, <2>4 DEF n
<1>3. IsFiniteSet(T) /\ Cardinality(T) <= Cardinality(1..Len(ts))
  BY <1>1, <1>2, FS_Subset
<1> QED
  BY <1>2, <1>3, FS_CardinalityType

(* The throttle history stays a sequence of times.                         *)
LEMMA RecentThrottlesType ==
  ASSUME SchedulerTypeOK, NEW a \in Accounts
  PROVE  RecentThrottles(a) \in Seq(0..MaxTime)
<1> DEFINE ts == throttleTimestamps[a]
           T == {i \in DOMAIN ts : ts[i] <= now - ThrottleWindow}
<1>1. ts \in Seq(0..MaxTime) /\ now \in 0..MaxTime
  BY DEF SchedulerTypeOK
<1>2. T \in SUBSET DOMAIN ts
  OBVIOUS
<1> HIDE DEF T, ts
<1>3. Cardinality(T) \in Nat /\ Cardinality(T) <= Len(ts)
  BY <1>1, <1>2, PositionsCount
<1>4. SubSeq(ts, Cardinality(T) + 1, Len(ts)) \in Seq(0..MaxTime)
  BY <1>1, <1>3, SuffixType
<1>5. Append(SubSeq(ts, Cardinality(T) + 1, Len(ts)), now) \in Seq(0..MaxTime)
  BY <1>1, <1>4
<1> QED
  BY <1>5 DEF RecentThrottles, T, ts

(* Rolling the windows keeps their types.                                  *)
LEMMA RollWindowsType ==
  ASSUME SchedulerTypeOK, RollWindows
  PROVE  /\ callsToday' \in [Accounts -> Nat]
         /\ cooloffUntil' \in [Accounts -> Nat]
         /\ quotaWindowStart' \in [Accounts -> 0..MaxTime]
BY DEF SchedulerTypeOK, RollWindows, CallsNow, CooloffNow

(* A lease keeps the scheduler's types: its indices stay in range.         *)
LEMMA LeaseType ==
  ASSUME SchedulerTypeOK, NEW excl, NEW a \in Accounts, Lease(excl, a)
  PROVE  SchedulerTypeOK'
<1>1. sidIndex' \in [Accounts -> Nat]
  <2>1. Arms(a) \in Nat /\ ScriptCount[a] \in Nat \ {0}
    BY AccountsAssumption, SchedulerConfigAssumption DEF Arms
  <2>2. sidIndex[a] + Arms(a) \in Nat
    BY <2>1 DEF SchedulerTypeOK
  <2>3. (sidIndex[a] + Arms(a)) % ScriptCount[a] \in Nat
    BY <2>1, <2>2
  <2> QED
    BY <2>3 DEF SchedulerTypeOK, Lease
<1>2. roundRobinIndex' \in 0..(IndexPeriod - 1)
  <2>1. IndexPeriod \in Nat \ {0}
    BY SchedulerConfigAssumption
  <2>2. roundRobinIndex + 1 \in Nat
    BY <2>1 DEF SchedulerTypeOK
  <2>3. (roundRobinIndex + 1) % IndexPeriod \in 0..(IndexPeriod - 1)
    BY <2>1, <2>2
  <2> QED
    BY <2>3 DEF SchedulerTypeOK, Lease
<1>3. inFlight' \in [Accounts -> Int]
  BY DEF SchedulerTypeOK, Lease
<1>4. RollWindows /\ UNCHANGED <<now, enabled, consecutiveErrors, throttleTimestamps>>
  BY DEF Lease, errorVars
<1> QED
  BY <1>1, <1>2, <1>3, <1>4, RollWindowsType DEF SchedulerTypeOK

(* Each report keeps the scheduler's types.                                *)
LEMMA ReportType ==
  ASSUME SchedulerTypeOK, NEW a \in Accounts,
         \/ ReportSuccess(a) \/ ReportQuotaExceeded(a)
         \/ ReportThrottle(a) \/ ReportError(a)
  PROVE  SchedulerTypeOK'
<1>0. /\ Cooloff \in Nat /\ ThrottleBackoff \in Nat
      /\ ErrorsToCooloff \in Nat \ {0} /\ DailyQuota[a] \in Nat
      /\ now \in Nat
  BY AccountsAssumption, SchedulerConfigAssumption DEF SchedulerTypeOK
<1>1. CASE ReportSuccess(a)
  BY <1>0, <1>1 DEF ReportSuccess, SchedulerTypeOK, leaseVars
<1>2. CASE ReportQuotaExceeded(a)
  BY <1>0, <1>2 DEF ReportQuotaExceeded, SchedulerTypeOK, leaseVars, errorVars
<1>3. CASE ReportThrottle(a)
  <2> DEFINE escalate == Len(RecentThrottles(a)) > ThrottleLimit
             pause == IF escalate THEN Cooloff ELSE ThrottleBackoff
             kept == IF escalate THEN <<>> ELSE RecentThrottles(a)
  <2>1. <<>> \in Seq(0..MaxTime) /\ RecentThrottles(a) \in Seq(0..MaxTime)
    BY RecentThrottlesType
  <2>2. kept \in Seq(0..MaxTime)
    BY <2>1, Zenon
  <2>3. now + pause \in Nat
    BY <1>0
  <2>4. /\ cooloffUntil' = [cooloffUntil EXCEPT ![a] = now + pause]
        /\ throttleTimestamps' = [throttleTimestamps EXCEPT ![a] = kept]
        /\ UNCHANGED <<now, enabled, callsToday, quotaWindowStart, inFlight,
                       sidIndex, roundRobinIndex, consecutiveErrors>>
    BY <1>3 DEF ReportThrottle, leaseVars
  <2> HIDE DEF pause, kept
  <2>5. cooloffUntil' \in [Accounts -> Nat]
    BY <2>3, <2>4 DEF SchedulerTypeOK
  <2>6. throttleTimestamps' \in [Accounts -> Seq(0..MaxTime)]
    BY <2>2, <2>4, Zenon DEF SchedulerTypeOK
  <2> QED
    BY <2>4, <2>5, <2>6 DEF SchedulerTypeOK
<1>4. CASE ReportError(a)
  <2> DEFINE errors == consecutiveErrors[a] + 1
             until == CASE errors >= ErrorsToCooloff -> now + Cooloff
                        [] errors < ErrorsToCooloff /\ errors >= ErrorsToBackoff
                             -> now + ThrottleBackoff
                        [] OTHER -> cooloffUntil[a]
             count == IF errors > ErrorsToCooloff THEN ErrorsToCooloff ELSE errors
  <2>1. consecutiveErrors[a] \in 0..ErrorsToCooloff /\ cooloffUntil[a] \in Nat
    BY DEF SchedulerTypeOK
  <2>2. count \in 0..ErrorsToCooloff
    BY <1>0, <2>1
  <2>3. until \in Nat
    BY <1>0, <2>1
  <2>4. /\ cooloffUntil' = [cooloffUntil EXCEPT ![a] = until]
        /\ consecutiveErrors' = [consecutiveErrors EXCEPT ![a] = count]
        /\ UNCHANGED <<now, enabled, callsToday, quotaWindowStart, inFlight,
                       sidIndex, roundRobinIndex, throttleTimestamps>>
    BY <1>4, Zenon DEF ReportError, leaseVars
  <2> HIDE DEF until, count
  <2> QED
    BY <2>2, <2>3, <2>4 DEF SchedulerTypeOK
<1> QED
  BY <1>1, <1>2, <1>3, <1>4
-----------------------------------------------------------------------------
(* How each step moves the sets of requests that hold an account, or have  *)
(* a call on the wire.                                                     *)

LEMMA HoldersFinite ==
  ASSUME NEW a
  PROVE  /\ IsFiniteSet(Holders(a)) /\ Cardinality(Holders(a)) \in Nat
         /\ IsFiniteSet(OnTheWire(a)) /\ Cardinality(OnTheWire(a)) \in Nat
         /\ Cardinality(OnTheWire(a)) <= Cardinality(Holders(a))
<1>1. Holders(a) \in SUBSET Requests /\ OnTheWire(a) \in SUBSET Holders(a)
  BY DEF Holders, OnTheWire
<1>2. IsFiniteSet(Holders(a))
  BY <1>1, RelayAssumption, FS_Subset
<1>3. IsFiniteSet(OnTheWire(a)) /\ Cardinality(OnTheWire(a)) <= Cardinality(Holders(a))
  BY <1>1, <1>2, FS_Subset
<1> QED
  BY <1>2, <1>3, FS_CardinalityType

(* A request that selects an account joins both of its sets.               *)
LEMMA SelectSets ==
  ASSUME TypeOK, LocalsMatchPlace, NEW r \in Requests, NEW a \in Accounts,
         pc[r] = "select",
         pc' = [pc EXCEPT ![r] = "post"], account' = [account EXCEPT ![r] = a],
         NEW b \in Accounts
  PROVE  /\ r \notin Holders(b) /\ r \notin OnTheWire(b)
         /\ Holders(b)' = IF b = a THEN Holders(b) \cup {r} ELSE Holders(b)
         /\ OnTheWire(b)' = IF b = a THEN OnTheWire(b) \cup {r} ELSE OnTheWire(b)
<1>1. r \notin Holders(b) /\ r \notin OnTheWire(b)
  BY DEF Holders, OnTheWire
<1>2. Holders(b)' = IF b = a THEN Holders(b) \cup {r} ELSE Holders(b)
  BY <1>1 DEF TypeOK, Holders
<1>3. OnTheWire(b)' = IF b = a THEN OnTheWire(b) \cup {r} ELSE OnTheWire(b)
  BY <1>1 DEF TypeOK, OnTheWire
<1> QED
  BY <1>1, <1>2, <1>3

(* A reply takes the request off the wire; it still holds its slot.        *)
LEMMA ReplySets ==
  ASSUME TypeOK, NEW r \in Requests, pc[r] = "post",
         pc' = [pc EXCEPT ![r] = "release"], account' = account,
         NEW b \in Accounts
  PROVE  Holders(b)' = Holders(b) /\ OnTheWire(b)' = OnTheWire(b) \ {r}
<1>1. Holders(b)' = Holders(b)
  BY DEF TypeOK, Holders
<1>2. OnTheWire(b)' = OnTheWire(b) \ {r}
  BY DEF TypeOK, OnTheWire
<1> QED
  BY <1>1, <1>2

(* A release takes the request out of its account's holders.               *)
LEMMA ReleaseSets ==
  ASSUME TypeOK, LocalsMatchPlace, NEW r \in Requests, pc[r] = "release",
         NEW p \in {"select", "idle"}, pc' = [pc EXCEPT ![r] = p],
         account' = [account EXCEPT ![r] = None],
         NEW b \in Accounts
  PROVE  /\ Holders(b)' = Holders(b) \ {r} /\ OnTheWire(b)' = OnTheWire(b)
         /\ r \in Holders(b) <=> b = account[r]
<1>1. Holders(b)' = Holders(b) \ {r}
  BY DEF TypeOK, Holders
<1>2. OnTheWire(b)' = OnTheWire(b)
  BY DEF TypeOK, OnTheWire
<1>3. r \in Holders(b) <=> b = account[r]
  BY DEF Holders
<1> QED
  BY <1>1, <1>2, <1>3

(* A request that holds nothing moves no set.                              *)
LEMMA IdleSets ==
  ASSUME TypeOK, NEW r \in Requests, pc[r] \in {"idle", "select"},
         NEW p \in {"select", "idle"}, pc' = [pc EXCEPT ![r] = p],
         account' = account,
         NEW b \in Accounts
  PROVE  Holders(b)' = Holders(b) /\ OnTheWire(b)' = OnTheWire(b)
<1>1. Holders(b)' = Holders(b)
  BY DEF TypeOK, Holders
<1>2. OnTheWire(b)' = OnTheWire(b)
  BY DEF TypeOK, OnTheWire
<1> QED
  BY <1>1, <1>2
-----------------------------------------------------------------------------
(* The steps one at a time.                                                *)

LEMMA NoneIsNoAccount == None \notin Accounts
BY AccountsAssumption DEF None, Accounts

(* A request on the wire, or about to release, holds a real account.       *)
LEMMA HeldAccount ==
  ASSUME TypeOK, LocalsMatchPlace, NEW r \in Requests, pc[r] \in {"post", "release"}
  PROVE  account[r] \in Accounts
BY DEF TypeOK, LocalsMatchPlace

(* A step that only rolls the windows keeps the scheduler's types.         *)
LEMMA RollType ==
  ASSUME SchedulerTypeOK, RollWindows,
         UNCHANGED <<now, enabled, leaseVars, errorVars>>
  PROVE  SchedulerTypeOK'
BY RollWindowsType DEF SchedulerTypeOK, leaseVars, errorVars

(* Begin keeps the invariant.                                              *)
LEMMA BeginStep ==
  ASSUME IInv, NEW r \in Requests, Begin(r)
  PROVE  IInv'
<1>1. TypeOK /\ LocalsMatchPlace
  BY DEF IInv
<1>2. TypeOK'
  BY <1>1 DEF Begin, TypeOK, SchedulerTypeOK, schedVars, windowVars, leaseVars, errorVars
<1>3. LocalsMatchPlace'
  BY <1>1 DEF Begin, TypeOK, LocalsMatchPlace
<1>4. ASSUME NEW b \in Accounts
      PROVE  Holders(b)' = Holders(b) /\ OnTheWire(b)' = OnTheWire(b)
  BY <1>1, IdleSets DEF Begin
<1>5. inFlight' = inFlight /\ callsToday' = callsToday
  BY DEF Begin, schedVars, leaseVars, windowVars
<1>6. LeaseConservation' /\ InFlightCapped' /\ QuotaOvershootBounded'
  BY <1>4, <1>5 DEF IInv, LeaseConservation, InFlightCapped, QuotaOvershootBounded
<1>7. RetryDiscipline'
  BY DEF IInv, Begin, RetryDiscipline
<1> QED
  BY <1>2, <1>3, <1>6, <1>7 DEF IInv

(* A roll keeps the quota bound: a window that starts over counts nothing  *)
(* yet, and the calls on the wire are within the cap.                      *)
LEMMA RollKeepsQuotaBound ==
  ASSUME IInv, RollWindows, NEW b \in Accounts
  PROVE  callsToday'[b] + Cardinality(OnTheWire(b)) <= DailyQuota[b] + MaxInFlight - 1
<1>1. callsToday'[b] = callsToday[b] \/ callsToday'[b] = 0
  BY DEF RollWindows, CallsNow
<1>2. Cardinality(OnTheWire(b)) <= MaxInFlight
  BY HoldersFinite, SchedulerConfigAssumption
  DEF IInv, LeaseConservation, InFlightCapped, TypeOK, SchedulerTypeOK
<1>3. DailyQuota[b] \in Nat \ {0} /\ MaxInFlight \in Nat
  BY AccountsAssumption, SchedulerConfigAssumption
<1>4. Cardinality(OnTheWire(b)) \in Nat
  BY HoldersFinite
<1>5. callsToday[b] + Cardinality(OnTheWire(b)) <= DailyQuota[b] + MaxInFlight - 1
  BY DEF IInv, QuotaOvershootBounded
<1> QED
  BY <1>1, <1>2, <1>3, <1>4, <1>5

(* The filter of Select leaves at least one call of the daily quota.       *)
LEMMA EligibleBelowQuota ==
  ASSUME SchedulerTypeOK, NEW a \in Accounts, Eligible(a)
  PROVE  CallsNow(a) \in Nat /\ CallsNow(a) <= DailyQuota[a] - 1
<1>1. CallsNow(a) \in Nat
  BY DEF SchedulerTypeOK, CallsNow
<1>2. DailyQuota[a] \in Nat /\ SafetyMargin \in 1..100
  BY AccountsAssumption, SchedulerConfigAssumption
<1>3. CallsNow(a) * 100 < DailyQuota[a] * SafetyMargin
  BY DEF Eligible
<1>4. DailyQuota[a] * SafetyMargin <= DailyQuota[a] * 100
  <2> DEFINE q == DailyQuota[a]
             m == SafetyMargin
  <2>1. q \in Nat /\ m \in Nat /\ 100 - m \in Nat
    BY <1>2
  <2> HIDE DEF q, m
  <2>2. q * (100 - m) >= 0
    BY <2>1
  <2>3. q * (100 - m) = q * 100 - q * m
    BY <2>1
  <2>4. q * m \in Nat
    BY <2>1
  <2>5. q * m <= q * 100
    BY <2>1, <2>2, <2>3, <2>4
  <2> QED
    BY <2>5 DEF q, m
<1>5. DailyQuota[a] * SafetyMargin \in Nat
  BY <1>2
<1> QED
  BY <1>1, <1>2, <1>3, <1>4, <1>5

(* Select keeps it: the account it takes had a slot and a call left.       *)
LEMMA SelectStep ==
  ASSUME IInv, NEW r \in Requests, Select(r)
  PROVE  IInv'
<1>1. TypeOK /\ LocalsMatchPlace /\ SchedulerTypeOK
  BY DEF IInv, TypeOK
<1>2. PICK a \in Accounts : /\ Lease(excluded[r], a)
                           /\ account' = [account EXCEPT ![r] = a]
  BY DEF Select
<1>3. a \in Accounts \ excluded[r] /\ Eligible(a)
  <2>1. a \in Picks(Candidates(excluded[r]))
    BY <1>2 DEF Lease
  <2>2. Picks(Candidates(excluded[r])) \subseteq Candidates(excluded[r])
    BY SchedulerConfigAssumption DEF Picks, RoundRobinPicks, LeastLoadedPicks
  <2> QED
    BY <2>1, <2>2 DEF Candidates
<1>4. TypeOK'
  <2>1. SchedulerTypeOK'
    BY <1>1, <1>2, LeaseType
  <2> QED
    BY <1>1, <1>2, <2>1 DEF Select, TypeOK
<1>5. LocalsMatchPlace'
  BY <1>1, <1>2, NoneIsNoAccount DEF Select, TypeOK, LocalsMatchPlace
<1>6. ASSUME NEW b \in Accounts
      PROVE  /\ r \notin Holders(b) /\ r \notin OnTheWire(b)
             /\ Holders(b)' = IF b = a THEN Holders(b) \cup {r} ELSE Holders(b)
             /\ OnTheWire(b)' = IF b = a THEN OnTheWire(b) \cup {r} ELSE OnTheWire(b)
  BY <1>1, <1>2, SelectSets DEF Select
<1>7. inFlight' = [inFlight EXCEPT ![a] = @ + 1]
  BY <1>2 DEF Lease
<1>8. LeaseConservation'
  <2> SUFFICES ASSUME NEW b \in Accounts PROVE inFlight'[b] = Cardinality(Holders(b)')
    BY DEF LeaseConservation
  <2>1. inFlight[b] = Cardinality(Holders(b)) /\ inFlight[b] \in Int
    BY <1>1 DEF IInv, LeaseConservation, SchedulerTypeOK
  <2>2. Cardinality(Holders(b) \cup {r}) = Cardinality(Holders(b)) + 1
    BY <1>6, HoldersFinite, FS_AddElement
  <2> QED
    BY <1>1, <1>6, <1>7, <2>1, <2>2 DEF SchedulerTypeOK
<1>9. InFlightCapped'
  <2>1. inFlight[a] + 1 <= MaxInFlight
    BY <1>1, <1>3, SchedulerConfigAssumption DEF Eligible, SchedulerTypeOK
  <2> QED
    BY <1>1, <1>7, <2>1 DEF IInv, InFlightCapped, SchedulerTypeOK
<1>10. RetryDiscipline'
  BY <1>1, <1>2, <1>3 DEF IInv, Select, TypeOK, RetryDiscipline
<1>11. QuotaOvershootBounded'
  <2> SUFFICES ASSUME NEW b \in Accounts
               PROVE  callsToday'[b] + Cardinality(OnTheWire(b)')
                        <= DailyQuota[b] + MaxInFlight - 1
    BY DEF QuotaOvershootBounded
  <2>1. RollWindows
    BY <1>2 DEF Lease
  <2>2. CASE b # a
    BY <1>6, <2>1, <2>2, RollKeepsQuotaBound
  <2>3. CASE b = a
    <3>1. callsToday'[a] = CallsNow(a)
      BY <2>1 DEF RollWindows
    <3>2. CallsNow(a) \in Nat /\ CallsNow(a) <= DailyQuota[a] - 1
      BY <1>1, <1>3, EligibleBelowQuota
    <3>3. Cardinality(OnTheWire(a)') = Cardinality(OnTheWire(a)) + 1
      BY <1>6, HoldersFinite, FS_AddElement
    <3>4. Cardinality(OnTheWire(a)) + 1 <= MaxInFlight
      <4>1. inFlight[a] = Cardinality(Holders(a))
        BY DEF IInv, LeaseConservation
      <4>2. inFlight[a] < MaxInFlight /\ MaxInFlight \in Nat
        BY <1>3, SchedulerConfigAssumption DEF Eligible
      <4>3. /\ Cardinality(Holders(a)) \in Nat /\ Cardinality(OnTheWire(a)) \in Nat
            /\ Cardinality(OnTheWire(a)) <= Cardinality(Holders(a))
        BY HoldersFinite
      <4> QED
        BY <4>1, <4>2, <4>3
    <3>5. DailyQuota[a] \in Nat /\ MaxInFlight \in Nat
      BY AccountsAssumption, SchedulerConfigAssumption
    <3> QED
      BY <2>3, <3>1, <3>2, <3>3, <3>4, <3>5, HoldersFinite
  <2> QED
    BY <2>2, <2>3
<1> QED
  BY <1>4, <1>5, <1>8, <1>9, <1>10, <1>11 DEF IInv

(* SelectFails keeps it: the windows may roll, no slot moves.              *)
LEMMA SelectFailsStep ==
  ASSUME IInv, NEW r \in Requests, SelectFails(r)
  PROVE  IInv'
<1>1. TypeOK /\ LocalsMatchPlace /\ SchedulerTypeOK
  BY DEF IInv, TypeOK
<1>2. RollWindows /\ UNCHANGED <<now, enabled, leaseVars, errorVars>>
  BY DEF SelectFails, LeaseRefused
<1>3. TypeOK'
  <2>1. SchedulerTypeOK'
    BY <1>1, <1>2, RollType
  <2> QED
    BY <1>1, <2>1 DEF SelectFails, Return, TypeOK
<1>4. LocalsMatchPlace'
  BY <1>1 DEF SelectFails, Return, TypeOK, LocalsMatchPlace
<1>5. ASSUME NEW b \in Accounts
      PROVE  Holders(b)' = Holders(b) /\ OnTheWire(b)' = OnTheWire(b)
  BY <1>1, IdleSets DEF SelectFails, Return
<1>6. LeaseConservation' /\ InFlightCapped'
  BY <1>2, <1>5 DEF IInv, LeaseConservation, InFlightCapped, leaseVars
<1>7. QuotaOvershootBounded'
  BY <1>2, <1>5, RollKeepsQuotaBound DEF QuotaOvershootBounded
<1>8. RetryDiscipline'
  BY <1>1, FS_EmptySet, RelayAssumption
  DEF IInv, SelectFails, Return, TypeOK, RetryDiscipline
<1> QED
  BY <1>3, <1>4, <1>6, <1>7, <1>8 DEF IInv

(* Reply keeps it: a call that is counted leaves the wire in the same step. *)
LEMMA ReplyStep ==
  ASSUME IInv, NEW r \in Requests, Reply(r)
  PROVE  IInv'
<1>1. TypeOK /\ LocalsMatchPlace /\ SchedulerTypeOK
  BY DEF IInv, TypeOK
<1> DEFINE a == account[r]
<1>2. a \in Accounts
  BY <1>1, HeldAccount DEF Reply
<1>3. PICK o \in Answers :
        /\ answer' = [answer EXCEPT ![r] = o]
        /\ CASE o = "ok"        -> ReportSuccess(a)
             [] o = "quota"     -> ReportQuotaExceeded(a)
             [] o = "throttle"  -> ReportThrottle(a)
             [] o = "transient" -> ReportError(a)
             [] o = "other"     -> UNCHANGED schedVars
  BY DEF Reply
<1>4. \/ ReportSuccess(a) \/ ReportQuotaExceeded(a)
      \/ ReportThrottle(a) \/ ReportError(a) \/ UNCHANGED schedVars
  BY <1>3, RelayAssumption
<1>5. TypeOK'
  <2>1. SchedulerTypeOK'
    <3>1. CASE UNCHANGED schedVars
      BY <1>1, <3>1 DEF SchedulerTypeOK, schedVars, windowVars, leaseVars, errorVars
    <3> QED
      BY <1>1, <1>2, <1>4, <3>1, ReportType
  <2> QED
    BY <1>1, <1>3, <2>1 DEF Reply, TypeOK
<1>6. LocalsMatchPlace'
  BY <1>1 DEF Reply, TypeOK, LocalsMatchPlace
<1>7. ASSUME NEW b \in Accounts
      PROVE  Holders(b)' = Holders(b) /\ OnTheWire(b)' = OnTheWire(b) \ {r}
  BY <1>1, ReplySets DEF Reply
<1>8. inFlight' = inFlight
  BY <1>4 DEF ReportSuccess, ReportQuotaExceeded, ReportThrottle, ReportError,
              schedVars, leaseVars
<1>9. LeaseConservation' /\ InFlightCapped'
  BY <1>7, <1>8 DEF IInv, LeaseConservation, InFlightCapped
<1>10. RetryDiscipline'
  BY DEF IInv, Reply, RetryDiscipline
<1>11. QuotaOvershootBounded'
  <2> SUFFICES ASSUME NEW b \in Accounts
               PROVE  callsToday'[b] + Cardinality(OnTheWire(b)')
                        <= DailyQuota[b] + MaxInFlight - 1
    BY DEF QuotaOvershootBounded
  <2>0. /\ callsToday[b] \in Nat /\ DailyQuota[b] \in Nat /\ MaxInFlight \in Nat
        /\ Cardinality(OnTheWire(b)) \in Nat
        /\ Cardinality(OnTheWire(b)) <= MaxInFlight
        /\ callsToday[b] + Cardinality(OnTheWire(b)) <= DailyQuota[b] + MaxInFlight - 1
    BY <1>1, HoldersFinite, AccountsAssumption, SchedulerConfigAssumption
    DEF IInv, LeaseConservation, InFlightCapped, QuotaOvershootBounded, SchedulerTypeOK
  <2>1. Cardinality(OnTheWire(b)') = IF r \in OnTheWire(b)
                                     THEN Cardinality(OnTheWire(b)) - 1
                                     ELSE Cardinality(OnTheWire(b))
    BY <1>7, HoldersFinite, FS_RemoveElement
  <2>2. r \in OnTheWire(b) <=> b = a
    BY DEF Reply, OnTheWire
  <2>3. \/ callsToday'[b] = callsToday[b]
        \/ b = a /\ callsToday'[b] = callsToday[b] + 1
        \/ b = a /\ callsToday'[b] = DailyQuota[b]
    <3>1. CASE ReportSuccess(a)
      BY <1>1, <3>1 DEF ReportSuccess, SchedulerTypeOK
    <3>2. CASE ReportQuotaExceeded(a)
      BY <1>1, <3>2 DEF ReportQuotaExceeded, SchedulerTypeOK
    <3>3. CASE ReportThrottle(a) \/ ReportError(a) \/ UNCHANGED schedVars
      BY <3>3 DEF ReportThrottle, ReportError, schedVars, windowVars
    <3> QED
      BY <1>4, <3>1, <3>2, <3>3
  <2> QED
    BY <2>0, <2>1, <2>2, <2>3
<1> QED
  BY <1>5, <1>6, <1>9, <1>10, <1>11 DEF IInv

(* Release keeps it: one holder less, or one account excluded more.        *)
LEMMA ReleaseStep ==
  ASSUME IInv, NEW r \in Requests, Release(r)
  PROVE  IInv'
<1>1. TypeOK /\ LocalsMatchPlace /\ SchedulerTypeOK /\ pc[r] = "release"
  BY DEF IInv, TypeOK, Release
<1> DEFINE a == account[r]
<1>2. a \in Accounts
  BY <1>1, HeldAccount
<1>3. /\ inFlight' = [inFlight EXCEPT ![a] = @ - 1]
      /\ UNCHANGED <<now, enabled, callsToday, quotaWindowStart, cooloffUntil,
                     sidIndex, roundRobinIndex, consecutiveErrors,
                     throttleTimestamps>>
  BY DEF Release, ReleaseLease, windowVars, errorVars
<1>4. /\ account' = [account EXCEPT ![r] = None] /\ answer' = answer
      /\ \/ /\ attempt[r] + 1 < MaxAttempts
            /\ pc' = [pc EXCEPT ![r] = "select"]
            /\ excluded' = [excluded EXCEPT ![r] = @ \cup {a}]
            /\ attempt' = [attempt EXCEPT ![r] = @ + 1]
         \/ /\ pc' = [pc EXCEPT ![r] = "idle"]
            /\ excluded' = [excluded EXCEPT ![r] = {}]
            /\ attempt' = [attempt EXCEPT ![r] = 0]
  BY DEF Release, Return
<1>5. TypeOK'
  <2>1. SchedulerTypeOK'
    BY <1>1, <1>2, <1>3 DEF SchedulerTypeOK
  <2> QED
    BY <1>1, <1>2, <1>4, <2>1 DEF TypeOK
<1>6. LocalsMatchPlace'
  BY <1>1, <1>4 DEF TypeOK, LocalsMatchPlace
<1>7. ASSUME NEW b \in Accounts
      PROVE  /\ Holders(b)' = Holders(b) \ {r} /\ OnTheWire(b)' = OnTheWire(b)
             /\ r \in Holders(b) <=> b = a
  BY <1>1, <1>4, ReleaseSets
<1>8. LeaseConservation'
  <2> SUFFICES ASSUME NEW b \in Accounts PROVE inFlight'[b] = Cardinality(Holders(b)')
    BY DEF LeaseConservation
  <2>1. inFlight[b] = Cardinality(Holders(b)) /\ inFlight[b] \in Int
    BY <1>1 DEF IInv, LeaseConservation, SchedulerTypeOK
  <2>2. Cardinality(Holders(b) \ {r}) = IF r \in Holders(b)
                                        THEN Cardinality(Holders(b)) - 1
                                        ELSE Cardinality(Holders(b))
    BY HoldersFinite, FS_RemoveElement
  <2>3. inFlight'[b] = IF b = a THEN inFlight[b] - 1 ELSE inFlight[b]
    BY <1>1, <1>3 DEF SchedulerTypeOK
  <2> QED
    BY <1>7, <2>1, <2>2, <2>3
<1>9. InFlightCapped'
  <2> SUFFICES ASSUME NEW b \in Accounts PROVE inFlight'[b] <= MaxInFlight
    BY DEF InFlightCapped
  <2>1. inFlight[b] <= MaxInFlight /\ inFlight[b] \in Int /\ MaxInFlight \in Nat
    BY <1>1, SchedulerConfigAssumption DEF IInv, InFlightCapped, SchedulerTypeOK
  <2>2. inFlight'[b] = IF b = a THEN inFlight[b] - 1 ELSE inFlight[b]
    BY <1>1, <1>3 DEF SchedulerTypeOK
  <2> QED
    BY <2>1, <2>2
<1>10. RetryDiscipline'
  <2> SUFFICES ASSUME NEW q \in Requests
               PROVE  /\ Cardinality(excluded'[q]) = attempt'[q]
                      /\ attempt'[q] < MaxAttempts
                      /\ account'[q] \notin excluded'[q]
    BY DEF RetryDiscipline
  <2>1. /\ Cardinality(excluded[q]) = attempt[q] /\ attempt[q] < MaxAttempts
        /\ account[q] \notin excluded[q]
    BY DEF IInv, RetryDiscipline
  <2>2. CASE q # r
    BY <1>1, <1>4, <2>1, <2>2 DEF TypeOK
  <2>3. CASE q = r
    <3>1. excluded[r] \in SUBSET Accounts /\ attempt[r] \in Nat
      BY <1>1 DEF TypeOK
    <3>2. IsFiniteSet(excluded[r])
      <4>1. IsFiniteSet(Accounts)
        BY AccountsAssumption, FS_Interval DEF Accounts
      <4> QED
        BY <3>1, <4>1, FS_Subset
    <3>3. Cardinality(excluded[r] \cup {a}) = Cardinality(excluded[r]) + 1
      BY <2>1, <2>3, <3>2, FS_AddElement
    <3>4. account'[r] = None /\ None \notin Accounts
      BY <1>1, <1>4, NoneIsNoAccount DEF TypeOK
    <3>5. CASE /\ attempt[r] + 1 < MaxAttempts
               /\ excluded' = [excluded EXCEPT ![r] = @ \cup {a}]
               /\ attempt' = [attempt EXCEPT ![r] = @ + 1]
      <4>1. excluded'[r] = excluded[r] \cup {a} /\ attempt'[r] = attempt[r] + 1
        BY <1>1, <3>5 DEF TypeOK
      <4>2. None \notin excluded[r] \cup {a}
        BY <1>2, <3>1, <3>4
      <4>3. Cardinality(excluded'[r]) = attempt'[r] /\ attempt'[r] < MaxAttempts
        BY <2>1, <2>3, <3>3, <3>5, <4>1
      <4> QED
        BY <2>3, <3>4, <4>1, <4>2, <4>3
    <3>6. CASE /\ excluded' = [excluded EXCEPT ![r] = {}]
               /\ attempt' = [attempt EXCEPT ![r] = 0]
      <4>1. excluded'[r] = {} /\ attempt'[r] = 0
        BY <1>1, <3>6 DEF TypeOK
      <4>2. Cardinality({}) = 0 /\ 0 < MaxAttempts
        BY FS_EmptySet, RelayAssumption
      <4> QED
        BY <2>3, <4>1, <4>2
    <3> QED
      BY <1>4, <3>5, <3>6
  <2> QED
    BY <2>2, <2>3
<1>11. QuotaOvershootBounded'
  BY <1>3, <1>7 DEF IInv, QuotaOvershootBounded
<1> QED
  BY <1>5, <1>6, <1>8, <1>9, <1>10, <1>11 DEF IInv

(* The user's switch, the Stats poll and the clock keep it.                *)
LEMMA EnvironmentStep ==
  ASSUME IInv, Environment
  PROVE  IInv'
<1>1. TypeOK /\ LocalsMatchPlace /\ SchedulerTypeOK
  BY DEF IInv, TypeOK
<1>2. UNCHANGED <<pc, account, excluded, attempt, answer>>
  BY DEF Environment, requestVars
<1>3. \A b : Holders(b)' = Holders(b) /\ OnTheWire(b)' = OnTheWire(b)
  BY <1>2 DEF Holders, OnTheWire
<1>4. LocalsMatchPlace' /\ RetryDiscipline'
  BY <1>2 DEF IInv, LocalsMatchPlace, RetryDiscipline
<1>5. ASSUME SchedulerTypeOK', inFlight' = inFlight,
             \A b \in Accounts : callsToday'[b] + Cardinality(OnTheWire(b))
                                  <= DailyQuota[b] + MaxInFlight - 1
      PROVE  IInv'
  <2>1. TypeOK'
    BY <1>1, <1>2, <1>5 DEF TypeOK
  <2>2. LeaseConservation' /\ InFlightCapped'
    BY <1>3, <1>5 DEF IInv, LeaseConservation, InFlightCapped
  <2>3. QuotaOvershootBounded'
    BY <1>3, <1>5 DEF QuotaOvershootBounded
  <2> QED
    BY <1>4, <2>1, <2>2, <2>3 DEF IInv
<1>6. CASE \E a \in Toggled, on \in BOOLEAN : SetAccountEnabled(a, on)
  <2>1. PICK a \in Toggled, on \in BOOLEAN : SetAccountEnabled(a, on)
    BY <1>6
  <2>2. a \in Accounts /\ ErrorsToCooloff \in Nat
    BY RelayAssumption, SchedulerConfigAssumption
  <2>3. SchedulerTypeOK'
    BY <1>1, <2>1, <2>2 DEF SchedulerTypeOK, SetAccountEnabled, leaseVars
  <2>4. inFlight' = inFlight /\ callsToday' = callsToday
    BY <2>1 DEF SetAccountEnabled, leaseVars
  <2> QED
    BY <1>5, <2>3, <2>4 DEF IInv, QuotaOvershootBounded
<1>7. CASE PollStats
  <2>1. RollWindows /\ UNCHANGED <<now, enabled, leaseVars, errorVars>>
    BY <1>7 DEF PollStats
  <2>2. SchedulerTypeOK' /\ inFlight' = inFlight
    BY <1>1, <2>1, RollType DEF leaseVars
  <2> QED
    BY <1>5, <2>1, <2>2, RollKeepsQuotaBound
<1>8. CASE Tick
  <2>1. SchedulerTypeOK'
    BY <1>1, <1>8, SchedulerConfigAssumption
    DEF Tick, SchedulerTypeOK, windowVars, leaseVars, errorVars
  <2>2. inFlight' = inFlight /\ callsToday' = callsToday
    BY <1>8 DEF Tick, windowVars, leaseVars
  <2> QED
    BY <1>5, <2>1, <2>2 DEF IInv, QuotaOvershootBounded
<1> QED
  BY <1>6, <1>7, <1>8 DEF Environment

(* The invariant holds at process start.                                   *)
LEMMA InitInv == Init => IInv
<1> SUFFICES ASSUME Init PROVE IInv
  OBVIOUS
<1>1. SchedulerTypeOK
  BY AccountsAssumption, SchedulerConfigAssumption
  DEF Init, SchedulerInit, SchedulerTypeOK
<1>2. TypeOK
  BY <1>1 DEF Init, TypeOK
<1>3. LocalsMatchPlace
  BY DEF Init, LocalsMatchPlace
<1>4. \A b : Holders(b) = {} /\ OnTheWire(b) = {}
  BY DEF Init, Holders, OnTheWire
<1>5. Cardinality({}) = 0
  BY FS_EmptySet
<1>6. ASSUME NEW b \in Accounts
      PROVE  /\ inFlight[b] = 0 /\ callsToday[b] = 0
             /\ Cardinality(Holders(b)) = 0 /\ Cardinality(OnTheWire(b)) = 0
             /\ DailyQuota[b] \in Nat /\ MaxInFlight \in Nat \ {0}
  <2>1. inFlight[b] = 0 /\ callsToday[b] = 0
    BY DEF Init, SchedulerInit
  <2>2. Cardinality(Holders(b)) = 0 /\ Cardinality(OnTheWire(b)) = 0
    BY <1>4, <1>5, Zenon
  <2> QED
    BY <2>1, <2>2, AccountsAssumption, SchedulerConfigAssumption
<1>7. LeaseConservation /\ InFlightCapped /\ QuotaOvershootBounded
  BY <1>6 DEF LeaseConservation, InFlightCapped, QuotaOvershootBounded
<1>8. RetryDiscipline
  BY <1>5, RelayAssumption, NoneIsNoAccount DEF Init, RetryDiscipline
<1> QED
  BY <1>2, <1>3, <1>7, <1>8 DEF IInv

(* And it is about the variables alone.                                    *)
LEMMA StutterStep ==
  ASSUME IInv, UNCHANGED vars
  PROVE  IInv'
<1>1. UNCHANGED <<now, enabled, callsToday, quotaWindowStart, cooloffUntil,
                  inFlight, sidIndex, roundRobinIndex, consecutiveErrors,
                  throttleTimestamps, pc, account, excluded, attempt, answer>>
  BY DEF vars, schedVars, requestVars, windowVars, leaseVars, errorVars
<1>2. TypeOK'
  BY <1>1 DEF IInv, TypeOK, SchedulerTypeOK
<1>3. \A b : Holders(b)' = Holders(b) /\ OnTheWire(b)' = OnTheWire(b)
  BY <1>1 DEF Holders, OnTheWire
<1> QED
  BY <1>1, <1>2, <1>3
  DEF IInv, LocalsMatchPlace, LeaseConservation, InFlightCapped, RetryDiscipline,
      QuotaOvershootBounded
-----------------------------------------------------------------------------
(* IInv is an invariant of the relay client, for every number of accounts, *)
(* requests and retries, every strategy and every quota.                   *)
THEOREM Invariance == Spec => []IInv
<1>1. IInv /\ [Next]_vars => IInv'
  <2> SUFFICES ASSUME IInv, [Next]_vars PROVE IInv'
    OBVIOUS
  <2>1. ASSUME NEW r \in Requests, Begin(r) \/ Serve(r) PROVE IInv'
    BY <2>1, BeginStep, SelectStep, SelectFailsStep, ReplyStep, ReleaseStep DEF Serve
  <2> QED
    BY <2>1, EnvironmentStep, StutterStep DEF Next
<1> QED
  BY InitInv, <1>1, PTL DEF Spec

(* Every variable of the client and the scheduler keeps its type.          *)
THEOREM TypeCorrect == Spec => []TypeOK
<1>1. IInv => TypeOK
  BY DEF IInv
<1> QED
  BY Invariance, <1>1, PTL

(* The in-flight counters are exactly the leases held, on every path of    *)
(* Do and DoBatch: no slot is ever leaked or given back twice.             *)
THEOREM LeasesConserved == Spec => []LeaseConservation
<1>1. IInv => LeaseConservation
  BY DEF IInv
<1> QED
  BY Invariance, <1>1, PTL

(* A request makes at most MaxAttempts calls, each to another account.     *)
THEOREM RetriesDisciplined == Spec => []RetryDiscipline
<1>1. IInv => RetryDiscipline
  BY DEF IInv
<1> QED
  BY Invariance, <1>1, PTL

(* An account's count never passes its daily quota by more than the calls  *)
(* it may have in flight, less one.                                        *)
THEOREM OvershootBounded == Spec => []QuotaOvershootBounded
<1>1. IInv => QuotaOvershootBounded
  BY DEF IInv
<1> QED
  BY Invariance, <1>1, PTL
-----------------------------------------------------------------------------
(* The requests that hold a lease are a LeasePool: the scheduler's counter *)
(* lets an account in exactly when the pool has a slot free, Release gives *)
(* one back, and no other step of any request or of the user touches one.  *)
THEOREM PoolRefinement == Spec => LeasesFormPool
<1> DEFINE held == [r \in Requests |->
                      IF pc[r] \in {"post", "release"} THEN account[r] ELSE None]
<1>1. Init => Pool!Init
  BY DEF Init, Pool!Init
<1>2. ASSUME IInv, NEW b \in Accounts
      PROVE  Pool!HoldersOf(b) = Holders(b)
  BY <1>2, NoneIsNoAccount DEF Pool!HoldersOf, Holders
<1>3. ASSUME IInv, [Next]_vars PROVE [Pool!Next]_held
  <2>1. TypeOK /\ LocalsMatchPlace
    BY <1>3 DEF IInv
  <2>2. ASSUME NEW r \in Requests, Begin(r) PROVE held' = held
    BY <2>1, <2>2 DEF TypeOK, Begin
  <2>3. ASSUME NEW r \in Requests, Select(r) PROVE Pool!Next
    <3>1. PICK a \in Accounts : /\ Lease(excluded[r], a)
                               /\ account' = [account EXCEPT ![r] = a]
      BY <2>3 DEF Select
    <3>2. held[r] = None
      BY <2>3 DEF Select
    <3>3. held' = [held EXCEPT ![r] = a]
      BY <2>1, <2>3, <3>1 DEF TypeOK, Select
    <3>4. Cardinality(Pool!HoldersOf(a)) < MaxInFlight
      <4>1. inFlight[a] < MaxInFlight
        <5>1. a \in Picks(Candidates(excluded[r]))
          BY <3>1 DEF Lease
        <5>2. Picks(Candidates(excluded[r])) \subseteq Candidates(excluded[r])
          BY SchedulerConfigAssumption DEF Picks, RoundRobinPicks, LeastLoadedPicks
        <5> QED
          BY <5>1, <5>2 DEF Candidates, Eligible
      <4>2. inFlight[a] = Cardinality(Pool!HoldersOf(a))
        BY <1>2, <1>3 DEF IInv, LeaseConservation
      <4> QED
        BY <4>1, <4>2
    <3>5. Pool!Acquire(r, a)
      <4>1. Pool!Cardinality(Pool!HoldersOf(a)) < MaxInFlight
        BY <3>4 DEF Cardinality, Pool!Cardinality
      <4> QED
        BY <3>2, <3>3, <4>1 DEF Pool!Acquire
    <3> QED
      BY <3>5 DEF Pool!Next
  <2>4. ASSUME NEW r \in Requests, SelectFails(r) PROVE held' = held
    BY <2>1, <2>4 DEF TypeOK, SelectFails, Return
  <2>5. ASSUME NEW r \in Requests, Reply(r) PROVE held' = held
    BY <2>1, <2>5 DEF TypeOK, Reply
  <2>6. ASSUME NEW r \in Requests, Release(r) PROVE Pool!Next
    <3>1. pc[r] = "release"
      BY <2>6 DEF Release
    <3>2. held[r] # None
      BY <2>1, <3>1, HeldAccount, NoneIsNoAccount
    <3>3. PICK p \in {"select", "idle"} : pc' = [pc EXCEPT ![r] = p]
      BY <2>6 DEF Release, Return
    <3>4. held' = [held EXCEPT ![r] = None]
      BY <2>1, <2>6, <3>3 DEF TypeOK, Release
    <3>5. Pool!GiveBack(r)
      BY <3>2, <3>4 DEF Pool!GiveBack
    <3> QED
      BY <3>5 DEF Pool!Next
  <2>7. ASSUME Environment PROVE held' = held
    BY <2>7 DEF Environment, requestVars
  <2>8. ASSUME UNCHANGED vars PROVE held' = held
    BY <2>8 DEF vars, requestVars
  <2> QED
    BY <1>3, <2>2, <2>3, <2>4, <2>5, <2>6, <2>7, <2>8 DEF Next, Serve
<1> QED
  BY <1>1, <1>3, Invariance, PTL DEF Spec, LeasesFormPool, Pool!Spec
=============================================================================
