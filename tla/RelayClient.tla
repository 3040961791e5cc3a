----------------------------- MODULE RelayClient -----------------------------
(***************************************************************************)
(* Concurrent relay requests over one scheduler: Client.Do and             *)
(* Client.DoBatch of internal/relay/client.go.  A request leases an        *)
(* account, posts to it, reports what came back, gives the lease up and,   *)
(* after a quota or throttle answer only, tries another account.           *)
(*                                                                         *)
(* Each request is a goroutine; it meets the others only in the scheduler, *)
(* so a step ends where it next enters or leaves the scheduler's lock, and *)
(* anything may happen to the account while the request is on the wire.    *)
(* Metrics and the request's and reply's contents are left out.  An answer *)
(* is "ok" or the class ClassifyError gives the error, where "other" also  *)
(* stands for auth errors and for replies ResponseFromReply rejects: none  *)
(* of the three is reported to the scheduler or retried.                   *)
(***************************************************************************)
EXTENDS Scheduler

CONSTANTS
  Requests,     \* the request goroutines; each may serve any number of requests
  Batches,      \* the ones that call DoBatch
  MaxAttempts,  \* retry_max_attempts
  Answers,      \* the classes of answer upstream may give
  Toggled       \* the accounts whose switch the user may flip

ASSUME RelayAssumption ==
  /\ IsFiniteSet(Requests)
  /\ Batches \subseteq Requests
  /\ MaxAttempts \in Nat \ {0}
  /\ Answers \subseteq {"ok", "quota", "throttle", "transient", "other"}
  /\ Toggled \subseteq Accounts

None == 0    \* no account: accounts are 1..NumAccounts

VARIABLES
  pc,         \* where each request is
  account,    \* the account it has leased, or None
  excluded,   \* the accounts this request has been turned away by
  attempt,    \* the loop variable of Do
  answer      \* the latest answer; once idle, what the caller was told

requestVars == <<pc, account, excluded, attempt, answer>>
vars == <<schedVars, requestVars>>

TypeOK ==
  /\ SchedulerTypeOK
  /\ pc \in [Requests -> {"idle", "select", "post", "release"}]
  /\ account \in [Requests -> Accounts \cup {None}]
  /\ excluded \in [Requests -> SUBSET Accounts]
  /\ attempt \in [Requests -> Nat]
  /\ answer \in [Requests -> Answers \cup {"none", "no_account"}]

Init ==
  /\ SchedulerInit
  /\ pc = [r \in Requests |-> "idle"]
  /\ account = [r \in Requests |-> None]
  /\ excluded = [r \in Requests |-> {}]
  /\ attempt = [r \in Requests |-> 0]
  /\ answer = [r \in Requests |-> "none"]

-----------------------------------------------------------------------------
(* A new request whose envelope BuildEnvelope accepts; one it rejects      *)
(* fails before anything is touched, which is no step at all.              *)
Begin(r) ==
  /\ pc[r] = "idle"
  /\ pc' = [pc EXCEPT ![r] = "select"]
  /\ answer' = [answer EXCEPT ![r] = "none"]
  /\ UNCHANGED <<schedVars, account, excluded, attempt>>

(* The locals of a request that returns are gone.                          *)
Return(r) ==
  /\ pc' = [pc EXCEPT ![r] = "idle"]
  /\ excluded' = [excluded EXCEPT ![r] = {}]
  /\ attempt' = [attempt EXCEPT ![r] = 0]

Select(r) ==
  /\ pc[r] = "select"
  /\ \E a \in Accounts :
       /\ Lease(excluded[r], a)
       /\ account' = [account EXCEPT ![r] = a]
  /\ pc' = [pc EXCEPT ![r] = "post"]
  /\ UNCHANGED <<excluded, attempt, answer>>

\* Mutant: a request with no account waits for one.
SelectWaits(r) ==
  /\ pc[r] = "select" /\ answer[r] # "none"
  /\ LeaseRefused(excluded[r])
  /\ Return(r)
  /\ UNCHANGED <<account, answer>>

(* The pool is exhausted: the caller gets the previous attempt's error if  *)
(* there was one, and ErrNoAccountAvailable otherwise.                     *)
SelectFails(r) ==
  /\ pc[r] = "select"
  /\ LeaseRefused(excluded[r])
  /\ Return(r)
  /\ answer' = [answer EXCEPT ![r] = IF @ = "none" THEN "no_account" ELSE @]
  /\ UNCHANGED account

(* PostSingle or PostBatch returns (the client's timeout bounds the wait)  *)
(* and the switch on the class reports it.  A batch whose envelope is      *)
(* rejected after the lease is an "other" too.                             *)
Reply(r) ==
  /\ pc[r] = "post"
  /\ \E o \in Answers :
       /\ answer' = [answer EXCEPT ![r] = o]
       /\ CASE o = "ok"        -> ReportSuccess(account[r])
            [] o = "quota"     -> ReportQuotaExceeded(account[r])
            [] o = "throttle"  -> ReportThrottle(account[r])
            [] o = "transient" -> ReportError(account[r])
            [] o = "other"     -> UNCHANGED schedVars
  /\ pc' = [pc EXCEPT ![r] = "release"]
  /\ UNCHANGED <<account, excluded, attempt>>

(* Only these two classes move Do on to another account.                   *)
Retries(r) == r \notin Batches /\ answer[r] \in {"quota", "throttle"}

\* Mutant: the account is excluded after the request has let go of it.
ReleaseThenExclude(r) ==
  /\ pc[r] = "release"
  /\ ReleaseLease(account[r])
  /\ account' = [account EXCEPT ![r] = None]
  /\ \/ /\ Retries(r) /\ attempt[r] + 1 < MaxAttempts
        /\ excluded' = [excluded EXCEPT ![r] = @ \cup {account'[r]}]
        /\ attempt' = [attempt EXCEPT ![r] = @ + 1]
        /\ pc' = [pc EXCEPT ![r] = "select"]
     \/ /\ ~(Retries(r) /\ attempt[r] + 1 < MaxAttempts)
        /\ Return(r)
  /\ UNCHANGED answer

\* Mutant: the account that turned the request away stays a candidate.
ReleaseWithoutExcluding(r) ==
  /\ pc[r] = "release"
  /\ ReleaseLease(account[r])
  /\ account' = [account EXCEPT ![r] = None]
  /\ \/ /\ Retries(r) /\ attempt[r] + 1 < MaxAttempts
        /\ attempt' = [attempt EXCEPT ![r] = @ + 1]
        /\ pc' = [pc EXCEPT ![r] = "select"]
        /\ UNCHANGED excluded
     \/ /\ ~(Retries(r) /\ attempt[r] + 1 < MaxAttempts)
        /\ Return(r)
  /\ UNCHANGED answer

(* Release, then the retry policy at the foot of Do's loop.                *)
Release(r) ==
  /\ pc[r] = "release"
  /\ ReleaseLease(account[r])
  /\ account' = [account EXCEPT ![r] = None]
  /\ \/ /\ Retries(r) /\ attempt[r] + 1 < MaxAttempts
        /\ excluded' = [excluded EXCEPT ![r] = @ \cup {account[r]}]
        /\ attempt' = [attempt EXCEPT ![r] = @ + 1]
        /\ pc' = [pc EXCEPT ![r] = "select"]
     \/ /\ ~(Retries(r) /\ attempt[r] + 1 < MaxAttempts)
        /\ Return(r)
  /\ UNCHANGED answer

Serve(r) == Select(r) \/ SelectFails(r) \/ Reply(r) \/ Release(r)

(* The user's switch meets requests of this scheduler when no restart of   *)
(* its own has replaced it: a start was in progress, or another switch's.  *)
Environment ==
  /\ \/ \E a \in Toggled, on \in BOOLEAN : SetAccountEnabled(a, on)
     \/ PollStats
     \/ Tick
  /\ UNCHANGED requestVars

Next ==
  \/ \E r \in Requests : Begin(r) \/ Serve(r)
  \/ Environment

Spec == Init /\ [][Next]_vars

(* A started request is a runnable goroutine and its post times out.  No   *)
(* fairness on Begin, on the user or on the clock.                         *)
FairSpec == Spec /\ \A r \in Requests : WF_vars(Serve(r))

(* Callers that always have another request.                               *)
BusySpec == FairSpec /\ \A r \in Requests : WF_vars(Begin(r))
-----------------------------------------------------------------------------
(* Properties.                                                             *)

Holders(a) == {r \in Requests : pc[r] \in {"post", "release"} /\ account[r] = a}
OnTheWire(a) == {r \in Requests : pc[r] = "post" /\ account[r] = a}

(* The locals of a request agree with its place in the code.               *)
LocalsMatchPlace ==
  \A r \in Requests :
    /\ pc[r] \in {"post", "release"} <=> account[r] # None
    /\ pc[r] = "idle" => excluded[r] = {} /\ attempt[r] = 0

(* Conservation: the counter Select bumps and Release drops always equals  *)
(* the number of requests that hold the account, on every path through Do  *)
(* and DoBatch, whatever the user switches meanwhile.  A leaked slot would *)
(* slowly saturate the account's cap (TestRetryFailsOverToHealthyAccount). *)
LeaseConservation == \A a \in Accounts : inFlight[a] = Cardinality(Holders(a))

(* The requests that hold a slot, seen from outside, are a LeasePool: no   *)
(* account ever serves more than MaxInFlight of them, though Do only ever  *)
(* looks at a counter that Release changes outside the scheduler's lock.   *)
Pool == INSTANCE LeasePool WITH
  holding <- [r \in Requests |->
               IF pc[r] \in {"post", "release"} THEN account[r] ELSE None]

LeasesFormPool == Pool!Spec

(* Quota overshoot: Select's quota filter cannot see the calls in flight,  *)
(* which count only when they succeed, so the daily quota is exceeded; but *)
(* never by more than the calls one account may have in flight, even with  *)
(* successes that arrive after a quota answer or after the window rolled.  *)
QuotaOvershootBounded ==
  \A a \in Accounts :
    callsToday[a] + Cardinality(OnTheWire(a)) <= DailyQuota[a] + MaxInFlight - 1

Rolled(a) == quotaWindowStart'[a] # quotaWindowStart[a]
QuotaAnswer(a) ==
  \E r \in Requests : /\ pc[r] = "post" /\ account[r] = a
                      /\ pc'[r] = "release" /\ answer'[r] = "quota"

(* An account that answered "quota" or used up its share stays out for the *)
(* rest of its window: no late success or throttle of a request still in   *)
(* flight, no shorter cool-off written over the quota's, and no flip of    *)
(* the user's switch gives it another lease before the window rolls.       *)
SpentStaysOut ==
  [][\A a \in Accounts : (Spent(a) \/ QuotaAnswer(a)) /\ ~Rolled(a) =>
       Spent(a)' /\ inFlight'[a] <= inFlight[a]]_vars

ShortestPause == IF Cooloff < ThrottleBackoff THEN Cooloff ELSE ThrottleBackoff

(* Reports overwrite the cool-off of one another, in the order the replies *)
(* come, and may shorten it; but none ends it, and one that moves it       *)
(* leaves at least the shortest pause.  Only the window's roll or the      *)
(* user's switch brings an account back sooner.                            *)
CooloffNotEndedByReplies ==
  [][\A a \in Accounts :
       \/ cooloffUntil'[a] >= cooloffUntil[a]
       \/ cooloffUntil'[a] >= now + ShortestPause
       \/ Rolled(a)
       \/ SetAccountEnabled(a, TRUE)]_vars

(* A request meets each account at most once and makes at most MaxAttempts *)
(* calls: every call so far was turned away by an account of its own.      *)
RetryDiscipline ==
  \A r \in Requests :
    /\ Cardinality(excluded[r]) = attempt[r]
    /\ attempt[r] < MaxAttempts
    /\ account[r] \notin excluded[r]

(* The in-flight cap on the counter itself.                                *)
InFlightCapped == \A a \in Accounts : inFlight[a] <= MaxInFlight

(* The inductive invariant.  The cap and the quota bound need conservation *)
(* (Select looks at the counter, the bounds are about requests), and       *)
(* conservation needs a request to know whether it holds an account.       *)
IInv ==
  /\ TypeOK
  /\ LocalsMatchPlace
  /\ LeaseConservation
  /\ InFlightCapped
  /\ RetryDiscipline
  /\ QuotaOvershootBounded

(* Every request returns to its caller: it never waits for a slot, and its *)
(* retries run out.                                                        *)
EveryRequestReturns == \A r \in Requests : pc[r] # "idle" ~> pc[r] = "idle"

(* "Classic round-robin over healthy accounts" (README.md:405): while      *)
(* requests keep coming, an account that stays healthy gets its turn.      *)
EveryHealthyAccountServes ==
  \A a \in Accounts : []<>(inFlight[a] > 0 \/ ~Eligible(a))

(* A saturated account frees a slot again, however busy the callers are.   *)
SlotsComeBack ==
  \A a \in Accounts : inFlight[a] = MaxInFlight ~> inFlight[a] < MaxInFlight
=============================================================================
