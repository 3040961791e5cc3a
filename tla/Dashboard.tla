------------------------------ MODULE Dashboard ------------------------------
(***************************************************************************)
(* The two connect buttons, the home page's (routes/home) and the top      *)
(* bar's (components/layout), over the status query they share and their   *)
(* own start and stop mutations (lib/queries.ts).                          *)
(*                                                                         *)
(* The status is polled, and read anew by a mutation before it ends.  Each *)
(* button is disabled by its own mutation only, and shows what the cached  *)
(* status says, which the relay behind it may contradict.                  *)
(***************************************************************************)
EXTENDS Integers, FiniteSets

CONSTANTS
  Views,    \* {"home", "top"}
  Calls,    \* bound: the clicks of a run
  MaxFlips  \* bound: how often the relay goes on or off by itself

DashboardAssumption == MaxFlips \in Nat

VARIABLES
  running,  \* is the relay up?
  flips,    \* times it changed without a button (a save's restart)
  status,   \* the cached status' running: "unknown", "on" or "off"
  poll,     \* the status fetch: "none", "asked", or what it has read
  call      \* the clicks: Unused, Over, or a mutation under way

vars == <<running, flips, status, poll, call>>

Unused == [at |-> "unused"]
Over == [at |-> "over"]

UnderWay(c) == call[c].at \in {"calling", "performed", "refetch"}
Pending(v) == \E c \in Calls : UnderWay(c) /\ call[c].view = v

Init ==
  /\ running \in BOOLEAN /\ flips = 0
  /\ status = "unknown" /\ poll = "none"
  /\ call = [c \in Calls |-> Unused]
-----------------------------------------------------------------------------
(* What the hero shows, and the pill with the button of the top bar.       *)
Shown(v) == IF Pending(v) THEN "connecting"
            ELSE IF status = "on" THEN "on" ELSE "off"

Operation == IF status = "on" THEN "stop" ELSE "start"

Wanted(op) == op = "start"

(* toggle(): the operation is the one of the render that was clicked.      *)
Toggle(v) ==
  /\ Shown(v) # "connecting"
  /\ \E c \in Calls :
       /\ call[c] = Unused
       /\ call' = [call EXCEPT ![c] =
            [view |-> v, op |-> Operation, at |-> "calling", undone |-> FALSE]]
  /\ UNCHANGED <<running, flips, status, poll>>

(* The home page is left, and opened again with new mutations.             *)
Reopen ==
  /\ \E c \in Calls : UnderWay(c) /\ call[c].view = "home"
  /\ call' = [c \in Calls |->
       IF UnderWay(c) /\ call[c].view = "home"
         THEN [call[c] EXCEPT !.view = "left"] ELSE call[c]]
  /\ UNCHANGED <<running, flips, status, poll>>

(* History: the mutations whose effect another one has undone since.       *)
Undoing(up) ==
  [c \in Calls |->
     IF call[c].at \in {"performed", "refetch"} /\ Wanted(call[c].op) # up
       THEN [call[c] EXCEPT !.undone = TRUE] ELSE call[c]]

(* startRelay or stopRelay has its effect; or fails, which ends the        *)
(* mutation without a refetch.                                             *)
Performed(c) ==
  /\ call[c].at = "calling"
  /\ \/ /\ running' = Wanted(call[c].op)
        /\ call' = [Undoing(running') EXCEPT ![c].at = "performed"]
     \/ call' = [call EXCEPT ![c] = Over] /\ UNCHANGED running
  /\ UNCHANGED <<flips, status, poll>>

\* Mutant: a fetch under way is always waited for.
JoinFetch == IF poll = "none" THEN "asked" ELSE poll

(* refetchQueries: a fetch under way is dropped for a new one, but for the *)
(* first, which is waited for.                                             *)
Refetch == IF poll = "none" \/ status # "unknown" THEN "asked" ELSE poll

Returned(c) ==
  /\ call[c].at = "performed"
  /\ call' = [call EXCEPT ![c].at = "refetch"]
  /\ poll' = Refetch
  /\ UNCHANGED <<running, flips, status>>

(* The relay goes down or comes up without these buttons.                  *)
Flip ==
  /\ flips < MaxFlips /\ flips' = flips + 1
  /\ running' = ~running
  /\ call' = Undoing(running')
  /\ UNCHANGED <<status, poll>>
-----------------------------------------------------------------------------
\* Mutant: the status is fetched when there is none, and then no more.
PollOnce == status = "unknown"

(* refetchInterval: due whenever the window shows the page.                *)
PollDue == TRUE

(* A poll that finds a fetch under way joins it.                           *)
Poll ==
  /\ PollDue
  /\ poll = "none"
  /\ poll' = "asked"
  /\ UNCHANGED <<running, flips, status, call>>

PollReads ==
  /\ poll = "asked"
  /\ poll' = IF running THEN "on" ELSE "off"
  /\ UNCHANGED <<running, flips, status, call>>

(* The answer is cached and ends every mutation that waits for a fetch: one*)
(* whose own was dropped waits for the one that replaced it.               *)
PollAnswers ==
  /\ poll \in {"on", "off"}
  /\ status' = poll /\ poll' = "none"
  /\ call' = [c \in Calls |->
       IF call[c].at = "refetch" THEN Over ELSE call[c]]
  /\ UNCHANGED <<running, flips>>
-----------------------------------------------------------------------------
Next ==
  \/ \E v \in Views : Toggle(v)
  \/ Reopen \/ Flip
  \/ \E c \in Calls : Performed(c) \/ Returned(c)
  \/ Poll \/ PollReads \/ PollAnswers

(* The timer fires and calls of the service return.                        *)
Fairness ==
  /\ WF_vars(Poll) /\ WF_vars(PollReads) /\ WF_vars(PollAnswers)
  /\ \A c \in Calls : WF_vars(Performed(c)) /\ WF_vars(Returned(c))

Spec == Init /\ [][Next]_vars /\ Fairness
-----------------------------------------------------------------------------
(* What a mutation has done is on show when it ends: the button never goes *)
(* from connecting back to what it was, unless someone else has undone it  *)
(* or the program was still waiting for its first status.  This is what    *)
(* lib/queries.ts:53-56 has the refetch inside the mutation for.           *)
NoFlash ==
  [][\A c \in Calls :
       call[c].at = "refetch" /\ call'[c] = Over =>
         \/ status' = (IF Wanted(call[c].op) THEN "on" ELSE "off")
         \/ call[c].undone
         \/ status = "unknown"]_vars

(* Both buttons come to show the truth, and stop waiting, however starts,  *)
(* stops, failures and polls overtook each other.                          *)
ShowsTheTruth ==
  <>[](\A v \in Views : Shown(v) = IF running THEN "on" ELSE "off")
=============================================================================
