------------------------------ MODULE CertStep ------------------------------
(***************************************************************************)
(* The wizard's certificate step (routes/wizard/steps/Cert.tsx): an install*)
(* starts an interval that asks every 1.5 s whether the user has confirmed,*)
(* until he has or 30 s are over.  A step that is opened again is another  *)
(* component, with a pollRef of its own, so one opening is modelled.       *)
(***************************************************************************)
EXTENDS Integers

CONSTANT Installs  \* bound: the clicks on the install button, 1..n

Trust(b) == IF b THEN "yes" ELSE "no"
Answers == {"yes", "no"}

VARIABLES
  store,       \* does the system trust the certificate?
  open,        \* is the step on the screen?
  trusted,     \* what it shows
  installing,
  first,       \* the check made when it opens: "asked", answered, "over"
  pollRef,     \* the install whose interval is in pollRef, 0 for null
  install,     \* "unused", "calling", "polling" (an interval runs) or "over"
  overdue,     \* the installs that returned 30 s ago
  checks,      \* of every interval, the answers on their way
  missed       \* history: the last the step heard was a no or a failure

vars == <<store, open, trusted, installing, first, pollRef, install, overdue,
          checks, missed>>

Init ==
  /\ store \in BOOLEAN /\ open = TRUE
  /\ trusted = FALSE /\ installing = FALSE /\ first = "asked" /\ pollRef = 0
  /\ install = [i \in Installs |-> "unused"] /\ overdue = {}
  /\ checks = [i \in Installs |-> {}]
  /\ missed = FALSE

FirstReads ==
  /\ first = "asked"
  /\ first' = Trust(store)
  /\ UNCHANGED <<store, open, trusted, installing, pollRef, install, overdue,
                 checks, missed>>

(* A step that has gone takes nothing in (cancelled).                      *)
FirstAnswers ==
  /\ first \in Answers
  /\ IF open THEN trusted' = (first = "yes") /\ missed' = (first = "no")
             ELSE UNCHANGED <<trusted, missed>>
  /\ first' = "over"
  /\ UNCHANGED <<store, open, installing, pollRef, install, overdue, checks>>

(* clearInterval: no further tick; the checks under way answer all the same*)
Cleared(i) == IF i = 0 THEN install ELSE [install EXCEPT ![i] = "over"]

(* Leaving clears the interval pollRef holds.  An install still under way  *)
(* will start one all the same.                                            *)
Leave ==
  /\ open /\ open' = FALSE
  /\ install' = IF pollRef # 0 /\ install[pollRef] = "polling"
                  THEN Cleared(pollRef) ELSE install
  /\ UNCHANGED <<store, trusted, installing, first, pollRef, overdue, checks,
                 missed>>

(* The next click is the next install.                                     *)
Click(i) ==
  /\ open /\ ~trusted /\ ~installing
  /\ install[i] = "unused" /\ \A j \in Installs : j < i => install[j] # "unused"
  /\ install' = [install EXCEPT ![i] = "calling"]
  /\ installing' = TRUE /\ missed' = FALSE
  /\ UNCHANGED <<store, open, trusted, first, pollRef, overdue, checks>>

(* installCA returns, with the trust in place or still to be confirmed.    *)
Returns(i) ==
  /\ install[i] = "calling"
  /\ store' \in {store, TRUE}
  /\ install' = [install EXCEPT ![i] = "polling"] /\ pollRef' = i
  /\ UNCHANGED <<open, trusted, installing, first, overdue, checks, missed>>

Fails(i) ==
  /\ install[i] = "calling"
  /\ install' = Cleared(i)
  /\ installing' = FALSE /\ missed' = TRUE
  /\ UNCHANGED <<store, open, trusted, first, pollRef, overdue, checks>>

(* The user confirms in the system's own dialog; once the step has gone the*)
(* Certificate page may install and remove the certificate.                *)
Outside ==
  /\ \/ ~store /\ \E i \in Installs : install[i] \in {"polling", "over"}
     \/ ~open
  /\ store' = ~store
  /\ UNCHANGED <<open, trusted, installing, first, pollRef, install, overdue,
                 checks, missed>>

(* The interval fires without waiting for the check before it.             *)
Tick(i) ==
  /\ install[i] = "polling"
  /\ checks' = [checks EXCEPT ![i] = @ \cup {Trust(store)}]
  /\ UNCHANGED <<store, open, trusted, installing, first, pollRef, install,
                 overdue, missed>>

Overdue(i) ==
  /\ install[i] = "polling" /\ i \notin overdue
  /\ overdue' = overdue \cup {i}
  /\ UNCHANGED <<store, open, trusted, installing, first, pollRef, install,
                 checks, missed>>

\* Mutant: without trust the poll goes on.
UntilTrusted(i, v) == v = "yes"

(* The answers a check ends the polling with.                              *)
Final(i, v) == v = "yes" \/ i \in overdue

(* What it clears is the interval pollRef holds by now, which may be that  *)
(* of a later install.                                                     *)
CheckAnswers(i) ==
  \E v \in checks[i] :
    /\ checks' = [checks EXCEPT ![i] = @ \ {v}]
    /\ missed' = (v = "no" /\ ~trusted)
    /\ IF Final(i, v)
         THEN /\ install' = Cleared(pollRef)
              /\ trusted' = (trusted \/ v = "yes") /\ installing' = FALSE
         ELSE UNCHANGED <<install, trusted, installing>>
    /\ UNCHANGED <<store, open, first, pollRef, overdue>>
-----------------------------------------------------------------------------
Next ==
  \/ FirstReads \/ FirstAnswers \/ Leave \/ Outside
  \/ \E i \in Installs : \/ Click(i) \/ Returns(i) \/ Fails(i)
                         \/ Tick(i) \/ Overdue(i) \/ CheckAnswers(i)

(* The timers fire and the service's calls return.                         *)
Fairness ==
  /\ WF_vars(FirstReads) /\ WF_vars(FirstAnswers)
  /\ \A i \in Installs :
       /\ WF_vars(Returns(i) \/ Fails(i)) /\ WF_vars(Tick(i))
       /\ WF_vars(Overdue(i)) /\ WF_vars(CheckAnswers(i))

Spec == Init /\ [][Next]_vars /\ Fairness
-----------------------------------------------------------------------------
(* Two installs run at once after a late answer has freed the button: the  *)
(* second takes pollRef and nothing clears the first one's interval.       *)
Overtaken(i) == install[i] = "polling" /\ pollRef # i

Shown == IF installing THEN "installing"
         ELSE IF trusted THEN "trusted" ELSE "not trusted"

(* Every poll ends, also that of a step left before its install returned   *)
(* and the one another's late answer cuts, unless it was overtaken; and a  *)
(* step left alone then shows the trust there is, unless a no or a failure *)
(* was the last it heard.                                                  *)
InstallSettles ==
  <>[](/\ \A i \in Installs :
            install[i] \in {"calling", "polling"} => Overtaken(i)
       /\ open => /\ Shown # "installing"
                  /\ store => Shown = "trusted" \/ missed)
=============================================================================
