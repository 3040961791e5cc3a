----------------------------- MODULE HedgedRace -----------------------------
(***************************************************************************)
(* One post of an envelope through an Apps Script account: raceJSON of     *)
(* internal/relay/appscript.go sends it to several deployments of the      *)
(* account, each later than the one before, and takes the first reply.     *)
(* This is what happens inside RelayClient!Reply, between lease and report.*)
(*                                                                         *)
(* The arms and the caller are goroutines; they meet in a buffered channel *)
(* and in the race's context.  Of a result only its class matters: "reply" *)
(* for a 2xx JSON body (which may still carry an error inside), else the   *)
(* class ClassifyError gives the error.  With one deployment the code      *)
(* posts without a goroutine, which is the same race of one arm.           *)
(***************************************************************************)
EXTENDS Integers, Sequences

CONSTANTS
  NumArms,   \* len(account.ScriptIDs) of the leased clone
  Hedged,    \* fanout_hedge_delay_ms > 0
  Failures   \* the classes of error a post may end with

Classes == {"quota", "auth", "throttle", "transient", "other"}

RaceAssumption ==
  /\ NumArms \in Nat \ {0}
  /\ Hedged \in BOOLEAN
  /\ Failures \subseteq Classes

Arms == 1..NumArms

VARIABLES
  pc,         \* the caller: "collect" or "returned"
  arm,        \* each arm: "timer", "post" or "ended"
  results,    \* the channel: results sent and not yet received
  errs,       \* the errors received
  callerCtx,  \* the request's context: "live", "canceled" or "expired"
  raceCtx,    \* the race's own, a child of it
  answer      \* what raceJSON returned, or "none"

vars == <<pc, arm, results, errs, callerCtx, raceCtx, answer>>

Init ==
  /\ pc = "collect"
  /\ arm = [i \in Arms |-> IF i > 1 /\ Hedged THEN "timer" ELSE "post"]
  /\ results = <<>> /\ errs = <<>>
  /\ callerCtx = "live" /\ raceCtx = "live"
  /\ answer = "none"
-----------------------------------------------------------------------------
(* ClassifyError of the race's context error.                              *)
ContextClass == IF raceCtx = "expired" THEN "transient" ELSE "other"

(* classPriority and worstError.                                           *)
Priority(class) ==
  CASE class = "quota"     -> 4
    [] class = "auth"      -> 3
    [] class = "throttle"  -> 2
    [] class = "transient" -> 1
    [] class = "other"     -> 0

\* Mutant: the last error instead of the worst.
LastError(es) == es[Len(es)]

WorstError(es) ==
  LET worst == CHOOSE k \in 1..Len(es) :
                 \A j \in 1..Len(es) : Priority(es[j]) <= Priority(es[k])
  IN  es[worst]

(* An arm ends by sending its result: the channel has room for every arm.  *)
Send(i, result) ==
  /\ arm' = [arm EXCEPT ![i] = "ended"]
  /\ results' = Append(results, result)

(* The timers' order is left open: each is only due some time.  With the   *)
(* race cancelled a select may still choose the timer, but then the post   *)
(* fails at once with the context's error, as below.                       *)
TimerFires(i) ==
  /\ arm[i] = "timer" /\ raceCtx = "live"
  /\ arm' = [arm EXCEPT ![i] = "post"]
  /\ UNCHANGED <<pc, results, errs, callerCtx, raceCtx, answer>>

\* Mutant: a cancelled timer's arm ends without a word.
TimerEndsSilently(i) ==
  /\ arm[i] = "timer" /\ raceCtx # "live"
  /\ arm' = [arm EXCEPT ![i] = "ended"]
  /\ UNCHANGED <<pc, results, errs, callerCtx, raceCtx, answer>>

TimerCancelled(i) ==
  /\ arm[i] = "timer" /\ raceCtx # "live"
  /\ Send(i, ContextClass)
  /\ UNCHANGED <<pc, errs, callerCtx, raceCtx, answer>>

(* postJSONScript returns; a cancelled post may still have been answered.  *)
PostReturns(i) ==
  /\ arm[i] = "post"
  /\ \/ \E result \in Failures \cup {"reply"} : Send(i, result)
     \/ raceCtx # "live" /\ Send(i, ContextClass)
  /\ UNCHANGED <<pc, errs, callerCtx, raceCtx, answer>>

(* raceJSON returns, and its deferred cancel ends the race.                *)
Return(result) ==
  /\ pc' = "returned" /\ answer' = result
  /\ raceCtx' = IF raceCtx = "live" THEN "canceled" ELSE raceCtx

\* Mutant: the first error ends the race for the other arms too.
CollectCancelling ==
  /\ pc = "collect" /\ results # <<>>
  /\ results' = Tail(results)
  /\ \/ Head(results) = "reply" /\ Return("reply") /\ UNCHANGED errs
     \/ /\ Head(results) # "reply"
        /\ errs' = Append(errs, Head(results))
        /\ IF Len(errs') = NumArms
           THEN Return(WorstError(errs'))
           ELSE /\ raceCtx' = IF raceCtx = "live" THEN "canceled" ELSE raceCtx
                /\ UNCHANGED <<pc, answer>>
  /\ UNCHANGED <<arm, callerCtx>>

Collect ==
  /\ pc = "collect" /\ results # <<>>
  /\ results' = Tail(results)
  /\ \/ Head(results) = "reply" /\ Return("reply") /\ UNCHANGED errs
     \/ /\ Head(results) # "reply"
        /\ errs' = Append(errs, Head(results))
        /\ IF Len(errs') = NumArms
           THEN Return(WorstError(errs'))
           ELSE UNCHANGED <<pc, answer, raceCtx>>
  /\ UNCHANGED <<arm, callerCtx>>

(* The caller's request is cancelled or runs out of time.                  *)
CallerLeaves ==
  /\ callerCtx = "live"
  /\ callerCtx' \in {"canceled", "expired"}
  /\ raceCtx' = IF raceCtx = "live" THEN callerCtx' ELSE raceCtx
  /\ UNCHANGED <<pc, arm, results, errs, answer>>

RunArm(i) == TimerFires(i) \/ TimerCancelled(i) \/ PostReturns(i)

Next == (\E i \in Arms : RunArm(i)) \/ Collect \/ CallerLeaves

Spec == Init /\ [][Next]_vars

(* The goroutines run, the timers elapse, and every post is bounded by the *)
(* client's timeout.                                                       *)
FairSpec == Spec /\ WF_vars(Collect) /\ \A i \in Arms : WF_vars(RunArm(i))
-----------------------------------------------------------------------------
(* Properties.                                                             *)

TypeOK ==
  /\ pc \in {"collect", "returned"}
  /\ arm \in [Arms -> {"timer", "post", "ended"}]
  /\ results \in Seq(Classes \cup {"reply"})
  /\ errs \in Seq(Classes)
  /\ {callerCtx, raceCtx} \subseteq {"live", "canceled", "expired"}
  /\ answer \in Classes \cup {"none", "reply"}

Received(class) == \E k \in DOMAIN errs : errs[k] = class

(* "The first 2xx wins ... On full failure all errors are collected and    *)
(* the most consequential one (worstError) is returned" (appscript.go:70): *)
(* the caller is told of a failure only when no arm has a reply for it,    *)
(* received or still in the channel, and then of the worst one, so that    *)
(* one arm's quota answer is not hidden behind another arm's timeout.      *)
FailureIsTheWorst ==
  answer \in Classes =>
    /\ \A i \in Arms : arm[i] = "ended"
    /\ results = <<>>
    /\ Received(answer)
    /\ \A class \in Classes : Received(class) => Priority(class) <= Priority(answer)

(* An arm's failure does not take the other arms with it: until the race   *)
(* is decided only the caller can cut an arm short.                        *)
NoArmCutShort == pc = "collect" /\ callerCtx = "live" => raceCtx = "live"

(* The caller gets an answer, and no arm is left behind, waiting for its   *)
(* timer or for room in the channel, after the race is decided or the      *)
(* caller has left.                                                        *)
EveryArmEnds == <>[](pc = "returned" /\ \A i \in Arms : arm[i] = "ended")
=============================================================================
