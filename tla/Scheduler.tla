------------------------------ MODULE Scheduler ------------------------------
(***************************************************************************)
(* The multi-account scheduler, internal/scheduler/scheduler.go: which     *)
(* upstream account a relay request is leased, how replies move an account *)
(* through its cool-offs, and how the daily quota window rolls.            *)
(*                                                                         *)
(* Every method of the Go type holds Scheduler.mu for its whole effect, so *)
(* each is one action.  The module declares no next-state relation of its  *)
(* own: RelayClient drives it with concurrent requests.                    *)
(*                                                                         *)
(* Accounts are their positions in s.accounts (config.Validate keeps the   *)
(* labels unique, so a label is a position).  The figures only the Stats   *)
(* screen shows (TotalCalls, TotalErrors, IsWarm, LastSuccessAt) are left  *)
(* out; LastSuccessAt's one other use, the last tie-break of least_loaded, *)
(* becomes a free choice among the tied accounts.                          *)
(***************************************************************************)
EXTENDS Integers, FiniteSets, Sequences

CONSTANTS
  NumAccounts,      \* len(s.accounts)
  DailyQuota,       \* Account.DailyQuota, per account
  Weight,           \* Account.Weight, per account
  ScriptCount,      \* len(Account.ScriptIDs), per account (1 for a Vercel one)
  SafetyMargin,     \* quota_safety_margin, in percent
  MaxInFlight,      \* account_max_in_flight
  FanoutMax,        \* fanout_max
  Strategy,         \* scheduler.strategy
  Cooloff,          \* cooloff_seconds, in ticks
  ThrottleBackoff,  \* throttle_backoff_seconds, in ticks
  Day,              \* the 24 h quota window, in ticks
  ThrottleWindow,   \* the 10 min throttle window, in ticks
  ThrottleLimit,    \* throttles tolerated inside that window (5)
  ErrorsToBackoff,  \* consecutive errors that earn a backoff (20)
  ErrorsToCooloff,  \* consecutive errors that earn a cool-off (50)
  IndexPeriod,      \* a common multiple of 1..NumAccounts, see roundRobinIndex
  MaxTime           \* bound on the clock

Accounts == 1..NumAccounts

ASSUME AccountsAssumption ==
  /\ NumAccounts \in Nat \ {0}
  /\ DailyQuota \in [Accounts -> Nat \ {0}]
  /\ Weight \in [Accounts -> Nat \ {0}]
  /\ ScriptCount \in [Accounts -> Nat \ {0}]

ASSUME SchedulerConfigAssumption ==
  /\ SafetyMargin \in 1..100
  /\ MaxInFlight \in Nat \ {0}
  /\ FanoutMax \in Nat \ {0}
  /\ Strategy \in {"least_loaded", "round_robin", "weighted_random"}
  /\ Cooloff \in Nat \ {0} /\ ThrottleBackoff \in Nat \ {0}
  /\ Day \in Nat \ {0} /\ ThrottleWindow \in Nat \ {0}
  /\ ThrottleLimit \in Nat \ {0}
  /\ ErrorsToBackoff \in Nat \ {0} /\ ErrorsToCooloff \in Nat \ {0}
  /\ IndexPeriod \in Nat \ {0}
  /\ \A n \in Accounts : IndexPeriod % n = 0
  /\ MaxTime \in Nat

VARIABLES
  now,                 \* time.Now()
  enabled,             \* Account.Enabled
  cooloffUntil,        \* Account.CooloffUntil; 0 is the zero time
  callsToday,          \* Account.CallsToday
  quotaWindowStart,    \* Account.QuotaWindowStart
  consecutiveErrors,   \* Account.ConsecutiveErrors, saturated at ErrorsToCooloff
  throttleTimestamps,  \* Account.throttleTimestamps, oldest first
  inFlight,            \* Account.inFlight
  sidIndex,            \* Account.sidIndex, modulo ScriptCount
  roundRobinIndex      \* Scheduler.roundRobinIndex, modulo IndexPeriod

windowVars == <<callsToday, quotaWindowStart, cooloffUntil>>
leaseVars == <<inFlight, sidIndex, roundRobinIndex>>
errorVars == <<consecutiveErrors, throttleTimestamps>>
schedVars == <<now, enabled, windowVars, leaseVars, errorVars>>

SchedulerTypeOK ==
  /\ now \in 0..MaxTime
  /\ enabled \in [Accounts -> BOOLEAN]
  /\ cooloffUntil \in [Accounts -> Nat]
  /\ callsToday \in [Accounts -> Nat]
  /\ quotaWindowStart \in [Accounts -> 0..MaxTime]
  /\ consecutiveErrors \in [Accounts -> 0..ErrorsToCooloff]
  /\ throttleTimestamps \in [Accounts -> Seq(0..MaxTime)]
  /\ inFlight \in [Accounts -> Int]
  /\ sidIndex \in [Accounts -> Nat]
  /\ roundRobinIndex \in 0..(IndexPeriod - 1)

(* New: every window opens at process start.                               *)
SchedulerInit ==
  /\ now = 0
  /\ enabled = [a \in Accounts |-> TRUE]
  /\ cooloffUntil = [a \in Accounts |-> 0]
  /\ callsToday = [a \in Accounts |-> 0]
  /\ quotaWindowStart = [a \in Accounts |-> 0]
  /\ consecutiveErrors = [a \in Accounts |-> 0]
  /\ throttleTimestamps = [a \in Accounts |-> <<>>]
  /\ inFlight = [a \in Accounts |-> 0]
  /\ sidIndex = [a \in Accounts |-> 0]
  /\ roundRobinIndex = 0

-----------------------------------------------------------------------------
(* rollWindowsLocked, the first thing Select and Stats do: a window a day  *)
(* old starts over, which also ends the account's cool-off.                *)

WindowOver(a) == now - quotaWindowStart[a] >= Day
CallsNow(a) == IF WindowOver(a) THEN 0 ELSE callsToday[a]
CooloffNow(a) == IF WindowOver(a) THEN 0 ELSE cooloffUntil[a]

RollWindows ==
  /\ callsToday' = [a \in Accounts |-> CallsNow(a)]
  /\ cooloffUntil' = [a \in Accounts |-> CooloffNow(a)]
  /\ quotaWindowStart' =
       [a \in Accounts |-> IF WindowOver(a) THEN now ELSE quotaWindowStart[a]]

(* The account has used up the share of its quota the margin lets it use.  *)
Spent(a) == callsToday[a] * 100 >= DailyQuota[a] * SafetyMargin

\* Mutants of Eligible: the quota, or the cap, compared with <= for <.
EligibleAtQuota(a) ==
  /\ enabled[a] /\ CooloffNow(a) <= now /\ inFlight[a] < MaxInFlight
  /\ CallsNow(a) * 100 <= DailyQuota[a] * SafetyMargin
EligibleAtCap(a) ==
  /\ enabled[a] /\ CooloffNow(a) <= now /\ inFlight[a] <= MaxInFlight
  /\ CallsNow(a) * 100 < DailyQuota[a] * SafetyMargin

Eligible(a) ==
  /\ enabled[a]
  /\ CooloffNow(a) <= now
  /\ CallsNow(a) * 100 < DailyQuota[a] * SafetyMargin
  /\ inFlight[a] < MaxInFlight

Candidates(excluded) == {a \in Accounts : Eligible(a)} \ excluded

(* The three strategies: the accounts each may return for the candidates.  *)
RoundRobinPicks(cands) ==
  {a \in cands : Cardinality({b \in cands : b < a})
                   = roundRobinIndex % Cardinality(cands)}

\* CallsToday/DailyQuota + inFlight/maxInFlight, over MaxInFlight * DailyQuota
Load(a) == CallsNow(a) * MaxInFlight + inFlight[a] * DailyQuota[a]
LessLoaded(a, b) == Load(a) * DailyQuota[b] < Load(b) * DailyQuota[a]
Beats(a, b) == \/ LessLoaded(a, b)
               \/ ~LessLoaded(b, a) /\ Weight[a] > Weight[b]
LeastLoadedPicks(cands) == {a \in cands : \A b \in cands : ~Beats(b, a)}

Picks(cands) ==
  CASE Strategy = "round_robin"     -> RoundRobinPicks(cands)
    [] Strategy = "weighted_random" -> cands
    [] Strategy = "least_loaded"    -> LeastLoadedPicks(cands)

(* cloneLeasedAccountFanout: how many deployments one lease carries.       *)
Arms(a) == IF FanoutMax < ScriptCount[a] THEN FanoutMax ELSE ScriptCount[a]

(* SelectExcluding returns account a and takes one of its slots.           *)
Lease(excluded, a) ==
  /\ a \in Picks(Candidates(excluded))
  /\ RollWindows
  /\ inFlight' = [inFlight EXCEPT ![a] = @ + 1]
  /\ sidIndex' = [sidIndex EXCEPT ![a] = (@ + Arms(a)) % ScriptCount[a]]
  /\ roundRobinIndex' = IF Strategy = "round_robin"
                        THEN (roundRobinIndex + 1) % IndexPeriod
                        ELSE roundRobinIndex
  /\ UNCHANGED <<now, enabled, errorVars>>

(* SelectExcluding returns ErrNoAccountAvailable.                          *)
LeaseRefused(excluded) ==
  /\ Candidates(excluded) = {}
  /\ RollWindows
  /\ UNCHANGED <<now, enabled, leaseVars, errorVars>>

\* Mutant: an account switched off meanwhile is not found, its slot is lost.
ReleaseEnabledOnly(a) ==
  /\ inFlight' = [inFlight EXCEPT ![a] = IF enabled[a] THEN @ - 1 ELSE @]
  /\ UNCHANGED <<now, enabled, windowVars, sidIndex, roundRobinIndex, errorVars>>

ReleaseLease(a) ==
  /\ inFlight' = [inFlight EXCEPT ![a] = @ - 1]
  /\ UNCHANGED <<now, enabled, windowVars, sidIndex, roundRobinIndex, errorVars>>

-----------------------------------------------------------------------------
(* What a reply does to the account that carried the request.              *)

\* Mutant: a success ends the account's cool-off as it does its error streak.
SuccessEndsCooloff(a) ==
  /\ callsToday' = [callsToday EXCEPT ![a] = @ + 1]
  /\ consecutiveErrors' = [consecutiveErrors EXCEPT ![a] = 0]
  /\ cooloffUntil' = [cooloffUntil EXCEPT ![a] = 0]
  /\ UNCHANGED <<now, enabled, quotaWindowStart, leaseVars, throttleTimestamps>>

ReportSuccess(a) ==
  /\ callsToday' = [callsToday EXCEPT ![a] = @ + 1]
  /\ consecutiveErrors' = [consecutiveErrors EXCEPT ![a] = 0]
  /\ UNCHANGED <<now, enabled, quotaWindowStart, cooloffUntil, leaseVars,
                 throttleTimestamps>>

\* Mutant: a quota answer only cools the account off.
QuotaOnlyCoolsOff(a) ==
  /\ cooloffUntil' = [cooloffUntil EXCEPT ![a] = now + Cooloff]
  /\ UNCHANGED <<now, enabled, callsToday, quotaWindowStart, leaseVars, errorVars>>

ReportQuotaExceeded(a) ==
  /\ callsToday' = [callsToday EXCEPT ![a] = DailyQuota[a]]
  /\ cooloffUntil' = [cooloffUntil EXCEPT ![a] = now + Cooloff]
  /\ UNCHANGED <<now, enabled, quotaWindowStart, leaseVars, errorVars>>

(* The timestamps younger than the window, with this throttle's own.  They *)
(* are in order of time, so the ones dropped are a prefix.                 *)
RecentThrottles(a) ==
  LET ts == throttleTimestamps[a]
      old == Cardinality({i \in DOMAIN ts : ts[i] <= now - ThrottleWindow})
  IN  Append(SubSeq(ts, old + 1, Len(ts)), now)

ReportThrottle(a) ==
  LET escalate == Len(RecentThrottles(a)) > ThrottleLimit
  IN  /\ cooloffUntil' = [cooloffUntil EXCEPT
            ![a] = now + (IF escalate THEN Cooloff ELSE ThrottleBackoff)]
      /\ throttleTimestamps' = [throttleTimestamps EXCEPT
            ![a] = IF escalate THEN <<>> ELSE RecentThrottles(a)]
      /\ UNCHANGED <<now, enabled, callsToday, quotaWindowStart, leaseVars,
                     consecutiveErrors>>

ReportError(a) ==
  LET errors == consecutiveErrors[a] + 1
  IN  /\ consecutiveErrors' = [consecutiveErrors EXCEPT
            ![a] = IF errors > ErrorsToCooloff THEN ErrorsToCooloff ELSE errors]
      /\ cooloffUntil' = [cooloffUntil EXCEPT
            ![a] = CASE errors >= ErrorsToCooloff -> now + Cooloff
                     [] errors < ErrorsToCooloff /\ errors >= ErrorsToBackoff
                          -> now + ThrottleBackoff
                     [] OTHER -> @]
      /\ UNCHANGED <<now, enabled, callsToday, quotaWindowStart, leaseVars,
                     throttleTimestamps>>

-----------------------------------------------------------------------------
(* The environment: the user's toggle, the Stats poll and the clock.       *)

SetAccountEnabled(a, on) ==
  /\ enabled' = [enabled EXCEPT ![a] = on]
  /\ cooloffUntil' = [cooloffUntil EXCEPT ![a] = IF on THEN 0 ELSE @]
  /\ consecutiveErrors' = [consecutiveErrors EXCEPT ![a] = IF on THEN 0 ELSE @]
  /\ UNCHANGED <<now, callsToday, quotaWindowStart, leaseVars, throttleTimestamps>>

PollStats ==
  /\ RollWindows
  /\ UNCHANGED <<now, enabled, leaseVars, errorVars>>

Tick ==
  /\ now < MaxTime
  /\ now' = now + 1
  /\ UNCHANGED <<enabled, windowVars, leaseVars, errorVars>>
=============================================================================
