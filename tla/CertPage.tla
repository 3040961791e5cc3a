------------------------------ MODULE CertPage ------------------------------
(***************************************************************************)
(* The Certificate page (routes/certificate) over its cached query and the *)
(* two mutations that invalidate it (lib/queries.ts).                      *)
(***************************************************************************)

VARIABLES
  store,       \* does the system trust the certificate?
  open,        \* is the page on the screen?
  info,        \* the cached trust: "none" or an answer
  fetch,       \* its fetch: "none", "asked" or answered
  invalid,
  mutation,    \* of the install and the uninstall: "idle", "calling", "done"
  elsewhere    \* history: the cache lags for a reason that is not the page's

vars == <<store, open, info, fetch, invalid, mutation, elsewhere>>

Trust(b) == IF b THEN "yes" ELSE "no"
Answers == {"yes", "no"}
Operations == {"install", "uninstall"}

Init ==
  /\ store \in BOOLEAN /\ open = FALSE
  /\ info = "none" /\ fetch = "none" /\ invalid = FALSE
  /\ mutation = [o \in Operations |-> "idle"]
  /\ elsewhere = FALSE

(* Cached data younger than 30 s is not fetched anew.                      *)
Open ==
  /\ ~open /\ open' = TRUE
  /\ \/ fetch' = IF fetch = "none" THEN "asked" ELSE fetch
     \/ info # "none" /\ ~invalid /\ UNCHANGED fetch
  /\ UNCHANGED <<store, info, invalid, mutation, elsewhere>>

Leave ==
  /\ open /\ open' = FALSE
  /\ UNCHANGED <<store, info, fetch, invalid, mutation, elsewhere>>

(* The wizard, or the user with the system's own tools.                    *)
Elsewhere ==
  /\ ~open
  /\ store' = ~store /\ elsewhere' = TRUE
  /\ UNCHANGED <<open, info, fetch, invalid, mutation>>

FetchReads ==
  /\ fetch = "asked"
  /\ fetch' = Trust(store)
  /\ UNCHANGED <<store, open, info, invalid, mutation, elsewhere>>

FetchAnswers ==
  /\ fetch \in Answers
  /\ info' = fetch /\ fetch' = "none" /\ invalid' = FALSE
  /\ elsewhere' = (fetch # Trust(store))
  /\ UNCHANGED <<store, open, mutation>>

(* Install while the page shows no trust, uninstall while it does.         *)
Offered == IF info = "yes" THEN "uninstall" ELSE "install"

Click(o) ==
  /\ open /\ mutation[o] = "idle"
  /\ o = Offered
  /\ mutation' = [mutation EXCEPT ![o] = "calling"]
  /\ UNCHANGED <<store, open, info, fetch, invalid, elsewhere>>

Performed(o) ==
  /\ mutation[o] = "calling"
  /\ store' = (o = "install")
  /\ mutation' = [mutation EXCEPT ![o] = "done"]
  /\ UNCHANGED <<open, info, fetch, invalid, elsewhere>>

(* An error invalidates nothing.                                           *)
Failed(o) ==
  /\ mutation[o] = "calling"
  /\ mutation' = [mutation EXCEPT ![o] = "idle"]
  /\ UNCHANGED <<store, open, info, fetch, invalid, elsewhere>>

\* Mutant: what is cached is left to age.
LeaveCached == UNCHANGED <<fetch, invalid>>

(* invalidateQueries, as in ConfigCache: a fetch under way starts anew,    *)
(* unless it is the first.                                                 *)
Invalidate ==
  /\ invalid' = TRUE
  /\ fetch' = IF open /\ (info # "none" \/ fetch = "none") THEN "asked" ELSE fetch

Succeeded(o) ==
  /\ mutation[o] = "done"
  /\ mutation' = [mutation EXCEPT ![o] = "idle"]
  /\ Invalidate
  /\ UNCHANGED <<store, open, info, elsewhere>>

Next ==
  \/ Open \/ Leave \/ Elsewhere \/ FetchReads \/ FetchAnswers
  \/ \E o \in Operations : \/ Click(o) \/ Performed(o) \/ Failed(o)
                           \/ Succeeded(o)

Spec == Init /\ [][Next]_vars
-----------------------------------------------------------------------------
(* With nothing under way the page shows the trust there is, unless its    *)
(* last answer was read before a change or the change came from elsewhere. *)
PageFollowsTrust ==
  /\ open /\ fetch = "none" /\ info # "none"
  /\ \A o \in Operations : mutation[o] = "idle"
  => info = Trust(store) \/ elsewhere
=============================================================================
