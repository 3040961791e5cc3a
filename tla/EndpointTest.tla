---------------------------- MODULE EndpointTest ----------------------------
(***************************************************************************)
(* The wizard's Vercel step (routes/wizard/steps/VercelAccount.tsx): the   *)
(* test of the address typed so far, whose answer arrives when it will,    *)
(* while the user goes on typing or leaves the step.                       *)
(***************************************************************************)
EXTENDS Naturals

CONSTANTS
  Addresses,  \* what may be typed
  MaxVisits   \* bound: how often the step is opened

EndpointTestAssumption == MaxVisits \in Nat

VARIABLES
  up,       \* the addresses that would pass the test now
  visit,    \* the component on the screen; each opening is a new one
  url,      \* the address typed; the wizard keeps it
  testing,  \* what the component shows
  testOk,   \* "null", "true" or "false"
  test,     \* the test under way: of which visit and address, its answer
  passed,   \* history: the address of the last test shown as passed
  edited    \* history: was the address edited while its test was under way?

vars == <<up, visit, url, testing, testOk, test, passed, edited>>

NoTest == [at |-> "none"]

Init ==
  /\ up \in SUBSET Addresses
  /\ visit = 1 /\ url = ""
  /\ testing = FALSE /\ testOk = "null"
  /\ test = [v \in 1..MaxVisits |-> NoTest]
  /\ passed = "" /\ edited = FALSE

\* Mutant: the verdict stays while the address is edited.
KeepVerdict == UNCHANGED testOk

(* What onChange does to the verdict on show.                              *)
ResetVerdict == testOk' = "null"

Edit ==
  /\ url' \in (Addresses \cup {""}) \ {url}
  /\ ResetVerdict
  /\ edited' = (edited \/ testing)
  /\ UNCHANGED <<up, visit, testing, test, passed>>

(* The button is disabled while a test runs and without an address.        *)
RunTest ==
  /\ ~testing /\ url # ""
  /\ testing' = TRUE /\ testOk' = "null"
  /\ test' = [test EXCEPT ![visit] = [at |-> "asked", url |-> url]]
  /\ edited' = FALSE
  /\ UNCHANGED <<up, visit, url, passed>>

(* TestVercelEndpoint passes when the deployment replies with a status and *)
(* no error; a timeout, a refusal and any other answer are failures alike. *)
Passes(u) == u \in up

Answers(v) ==
  /\ test[v].at = "asked"
  /\ test' = [test EXCEPT ![v] = NoTest]
  /\ IF v = visit
       THEN /\ testing' = FALSE
            /\ testOk' = IF Passes(test[v].url) THEN "true" ELSE "false"
            /\ passed' = IF Passes(test[v].url) THEN test[v].url ELSE passed
       ELSE UNCHANGED <<testing, testOk, passed>>
  /\ UNCHANGED <<up, visit, url, edited>>

(* Back or Next, and the step again: the verdict is gone, the test is not. *)
Reopen ==
  /\ visit < MaxVisits /\ visit' = visit + 1
  /\ testing' = FALSE /\ testOk' = "null" /\ edited' = FALSE
  /\ UNCHANGED <<up, url, test, passed>>

(* The endpoint is deployed, or goes.                                      *)
Redeploy ==
  /\ \E a \in Addresses : up' = (up \ {a}) \cup ({a} \ up)
  /\ UNCHANGED <<visit, url, testing, testOk, test, passed, edited>>

Next ==
  \/ Edit \/ RunTest \/ Reopen \/ Redeploy
  \/ \E v \in 1..MaxVisits : Answers(v)

Spec == Init /\ [][Next]_vars
-----------------------------------------------------------------------------
(* A green mark under an address says that this address passed a test, and *)
(* while a test runs no mark is shown at all; a test during which the      *)
(* address was edited is the exception, its answer is taken as the new     *)
(* address' own.                                                           *)
GreenIsItsOwn ==
  /\ testOk = "true" => url = passed \/ edited
  /\ testing => testOk = "null"
=============================================================================
