------------------------------- MODULE Wizard -------------------------------
(***************************************************************************)
(* The setup wizard (frontend/src/routes/wizard) and the gate that sends a *)
(* user there (app/router.tsx), over the calls of the service they make    *)
(* (pkg/relayvpn/api.go) and the configuration file under those.           *)
(*                                                                         *)
(* Every handler is an async function: it captures the render it was made  *)
(* in, the user goes on clicking while it waits, and nothing disables Next *)
(* while an earlier Next is waiting.  A handler under way is a job.        *)
(*                                                                         *)
(* Of a configuration is kept what decides whether it is valid and whether *)
(* setup is done: a key that is no placeholder, and the account's endpoint *)
(* for the chosen mode, which is a script ID (entered, or still being      *)
(* typed: effectiveScriptIDs) or a Vercel URL.  The window takes some that *)
(* the service refuses: a placeholder for an ID, a scheme in capitals.     *)
(***************************************************************************)
EXTENDS Integers, FiniteSets, SequencesExt

CONSTANTS
  Jobs,          \* bound: the handlers under way at a time
  MaxTurns,      \* bound: the turns a user takes off the straight way
  InitialFiles,  \* the files the program may find
  DiskFails      \* BOOLEAN: may a write of the file fail?

Endpoints == {"none", "refused", "good"}
Config == [key : BOOLEAN, endpoint : Endpoints, done : BOOLEAN]
None == [none |-> TRUE]

WizardAssumption ==
  /\ MaxTurns \in Nat
  /\ InitialFiles \subseteq Config \cup {None} /\ DiskFails \in BOOLEAN

ORDER == <<"welcome", "mode", "auth", "account", "cert", "done">>
Steps == 1..Len(ORDER)

VARIABLES
  file,      \* the stored configuration, None when there is no file
  route,     \* "gate" while setup is asked for, "wizard", or "shell"
  step,      \* the wizard's step, by its number in ORDER
  furthest,
  draft,     \* what the form holds of a configuration
  hydrate,   \* the effect that fills the form: "get", "gen" (a key), "done"
  job,       \* the handlers under way
  passed,    \* history: auth and account, once a Next's checks held
  turns      \* bound: turns taken (back, a jump, an edit that spoils)

vars == <<file, route, step, furthest, draft, hydrate, job, passed, turns>>

form == <<step, furthest, draft, hydrate, passed>>

Idle == [kind |-> "idle"]
-----------------------------------------------------------------------------
(* The service.  GetConfig gives the defaults when there is no file and    *)
(* refuses a file that does not validate.                                  *)
Valid(c) == c.key /\ c.endpoint = "good"

Defaults == [key |-> FALSE, endpoint |-> "none", done |-> FALSE]

Readable == file = None \/ Valid(file)
GetConfig == IF file = None THEN Defaults ELSE file

IsSetupCompleted == file # None /\ Valid(file) /\ file.done

(* SaveDraft writes whatever it is given; the caller is told of a failure. *)
Write(c, ok) ==
  /\ ok \/ DiskFails
  /\ file' = IF ok THEN c ELSE file

MarkSetupCompleted(ok) ==
  IF Readable
    THEN Write([GetConfig EXCEPT !.done = TRUE], ok)
    ELSE ~ok /\ UNCHANGED file
-----------------------------------------------------------------------------
BlankDraft == [key |-> FALSE, endpoint |-> "none"]

Init ==
  /\ file \in InitialFiles
  /\ route = "gate"
  /\ step = 1 /\ furthest = 1
  /\ draft = BlankDraft
  /\ hydrate = "done"
  /\ job = [j \in Jobs |-> Idle]
  /\ passed = {}
  /\ turns = 0

Turn == turns < MaxTurns /\ turns' = turns + 1

(* A fresh wizard.  The handlers of the one before run on without a form.  *)
Mount ==
  /\ route' = "wizard"
  /\ step' = 1 /\ furthest' = 1
  /\ draft' = BlankDraft
  /\ hydrate' = "get"
  /\ passed' = {}
  /\ job' = [j \in Jobs |-> IF job[j] = Idle THEN Idle
                                             ELSE [job[j] EXCEPT !.live = FALSE]]

(* FirstRunGate; a call that fails lets the user through, but              *)
(* IsSetupCompleted answers FALSE instead of failing.                      *)
FirstRunGate ==
  /\ route = "gate"
  /\ IF IsSetupCompleted
       THEN route' = "shell" /\ UNCHANGED <<form, job, turns>>
       ELSE Mount /\ UNCHANGED turns
  /\ UNCHANGED file

(* The link in the sidebar.                                                *)
OpenWizard == route = "shell" /\ Turn /\ Mount /\ UNCHANGED file

(* The shell keeps its gate mounted, so going home from there asks nothing.*)
GoHome == IF route = "wizard" THEN "gate" ELSE route
-----------------------------------------------------------------------------
(* The effect that fills the form on mount: what the file holds, and a new *)
(* key where it holds none; when it cannot be read, only a new key.        *)
HydrateReads ==
  /\ route = "wizard" /\ hydrate = "get"
  /\ IF Readable /\ GetConfig.key
       THEN /\ draft' = [key |-> TRUE, endpoint |-> file.endpoint]
            /\ hydrate' = "done"
       ELSE UNCHANGED draft /\ hydrate' = "gen"
  /\ UNCHANGED <<file, route, step, furthest, job, passed, turns>>

HydrateKey ==
  /\ route = "wizard" /\ hydrate = "gen"
  /\ draft' = [draft EXCEPT !.key = TRUE]
  /\ hydrate' = "done"
  /\ UNCHANGED <<file, route, step, furthest, job, passed, turns>>

Showing(s) == route = "wizard" /\ ORDER[step] = s

(* The fields of the form.  An edit that spoils one counts as a turn.      *)
Enter(field, value, good) ==
  /\ IF good THEN UNCHANGED turns ELSE Turn
  /\ draft' = [draft EXCEPT ![field] = value]
  /\ UNCHANGED <<file, route, step, furthest, hydrate, job, passed>>

(* Another mode asks for another endpoint, which may be there already.     *)
ChooseMode ==
  Showing("mode") /\ \E e \in Endpoints : Enter("endpoint", e, e = "good")

EditKey == Showing("auth") /\ \E good \in BOOLEAN : Enter("key", good, good)

EditAccount ==
  Showing("account") /\ \E e \in Endpoints : Enter("endpoint", e, e = "good")

(* A key asked for on the auth step may come on any later one.             *)
KeyArrives ==
  /\ route = "wizard" /\ furthest >= 3
  /\ draft' = [draft EXCEPT !.key = TRUE]
  /\ UNCHANGED <<file, route, step, furthest, hydrate, job, passed, turns>>
-----------------------------------------------------------------------------
(* go(next), called from a render in which furthest was seen.              *)
Go(i, seen) ==
  /\ step' = i
  /\ furthest' = IF i > seen THEN i ELSE furthest

Welcome ==
  /\ Showing("welcome")
  /\ Go(2, furthest)
  /\ UNCHANGED <<file, route, draft, hydrate, job, passed, turns>>

Back ==
  /\ route = "wizard" /\ ORDER[step] \notin {"welcome", "done"}
  /\ Turn
  /\ Go(step - 1, furthest)
  /\ UNCHANGED <<file, route, draft, hydrate, job, passed>>

\* Mutant: the step after the furthest one can be jumped to.
VisitedAndNext == {i \in Steps : i <= furthest + 1}

(* StepRail: the steps that may be jumped to.                              *)
Visited == {i \in Steps : i <= furthest}

Jump ==
  /\ route = "wizard"
  /\ Turn
  /\ \E i \in Visited : Go(i, furthest)
  /\ UNCHANGED <<file, route, draft, hydrate, job, passed>>

(* The checks at the head of next(), which know less than Validate.  Left  *)
(* out is the one for a front domain, which Apps Script mode makes on the  *)
(* auth step: an empty one has a default and invalidates nothing.          *)
Checks ==
  CASE ORDER[step] = "auth"    -> draft.key
    [] ORDER[step] = "account" -> draft.endpoint # "none"
    [] OTHER -> TRUE

(* A job as its click makes it, with what it uses of the render it captures*)
(* (saves: the form, then the configuration it saves; complete: history).  *)
Started(kind) ==
  [kind |-> kind, live |-> TRUE, at |-> IF kind = "skip" THEN "mark" ELSE "get",
   step |-> IF kind = "next" THEN step ELSE 0,
   furthest |-> IF kind = "next" THEN furthest ELSE 0,
   complete |-> kind = "finish" /\ Valid(draft),
   saves |-> IF kind = "skip" THEN None ELSE draft, saw |-> FALSE]

(* A new job takes the first free place.                                   *)
Spawn(kind) ==
  \E j \in Jobs :
    /\ job[j] = Idle
    /\ \A i \in Jobs : job[i] = Idle => j <= i
    /\ job' = [job EXCEPT ![j] = Started(kind)]

ClickNext ==
  /\ route = "wizard" /\ ORDER[step] \notin {"welcome", "done"}
  /\ Checks
  /\ Spawn("next")
  /\ passed' = passed \cup ({ORDER[step]} \cap {"auth", "account"})
  /\ UNCHANGED <<file, route, step, furthest, draft, hydrate, turns>>

(* Start is disabled while its handler runs, but only until the user has   *)
(* been on another step.                                                   *)
ClickStart ==
  /\ Showing("done")
  /\ Spawn("finish")
  /\ UNCHANGED <<file, route, form, turns>>

ClickSkip ==
  /\ route = "wizard"
  /\ \A j \in Jobs : job[j] # Idle /\ job[j].live => job[j].kind # "skip"
  /\ Spawn("skip")
  /\ UNCHANGED <<file, route, form, turns>>
-----------------------------------------------------------------------------
\* Mutant: the file as read is left out of what is saved.
MergedOverBlank(c, d, done) ==
  [key |-> d.key, endpoint |-> d.endpoint, done |-> done]

(* persistDraft: what is saved is the file as it was read with the form of *)
(* the click over it.                                                      *)
Merged(c, d, done) ==
  [c EXCEPT !.key = d.key, !.endpoint = d.endpoint, !.done = c.done \/ done]

(* Where a job goes when its persistDraft is over, well or not.            *)
AfterPersist(k) ==
  [k EXCEPT !.at = IF k.kind = "finish" THEN "mark" ELSE "go",
            !.saves = None, !.saw = FALSE]

PersistReads(j) ==
  /\ job[j] # Idle /\ job[j].at = "get"
  /\ LET k == job[j]
         c == Merged(GetConfig, k.saves, k.kind = "finish")
     IN job' = [job EXCEPT ![j] =
          IF Readable
            THEN [k EXCEPT !.at = "save", !.saves = c, !.saw = GetConfig.done]
            ELSE AfterPersist(k)]
  /\ UNCHANGED <<file, route, form, turns>>

PersistSaves(j) ==
  /\ job[j] # Idle /\ job[j].at = "save"
  /\ \E ok \in BOOLEAN : Write(job[j].saves, ok)
  /\ job' = [job EXCEPT ![j] = AfterPersist(@)]
  /\ UNCHANGED <<route, form, turns>>

(* The rest of next(): on to the step after the one it was clicked on,     *)
(* whether or not anything was saved and wherever the user is by now.      *)
NextGoes(j) ==
  /\ job[j] # Idle /\ job[j].at = "go"
  /\ job' = [job EXCEPT ![j] = Idle]
  /\ IF job[j].live /\ route = "wizard"
       THEN Go(job[j].step + 1, job[j].furthest)
       ELSE UNCHANGED <<step, furthest>>
  /\ UNCHANGED <<file, route, draft, hydrate, passed, turns>>

(* The rest of finish(): mark and start, whose failures are swallowed, and *)
(* home.  Skip goes home only when the mark was stored.                    *)
Marks(j) ==
  /\ job[j] # Idle /\ job[j].at = "mark"
  /\ \E ok \in BOOLEAN :
       /\ MarkSetupCompleted(ok)
       /\ job' = [job EXCEPT ![j] =
            IF @.kind = "skip" /\ ~ok THEN Idle ELSE [@ EXCEPT !.at = "home"]]
  /\ UNCHANGED <<route, form, turns>>

Leaves(j) ==
  /\ job[j] # Idle /\ job[j].at = "home"
  /\ route' = GoHome
  /\ job' = [job EXCEPT ![j] = Idle]
  /\ UNCHANGED <<file, form, turns>>
-----------------------------------------------------------------------------
Next ==
  \/ FirstRunGate \/ OpenWizard
  \/ HydrateReads \/ HydrateKey
  \/ ChooseMode \/ EditKey \/ EditAccount \/ KeyArrives
  \/ Welcome \/ Back \/ Jump
  \/ ClickNext \/ ClickStart \/ ClickSkip
  \/ \E j \in Jobs : \/ PersistReads(j) \/ PersistSaves(j) \/ NextGoes(j)
                     \/ Marks(j) \/ Leaves(j)

Spec == Init /\ [][Next]_vars
-----------------------------------------------------------------------------
(* No click, jump or late answer takes the user past a step whose checks   *)
(* have not held on a Next of this visit.                                  *)
NoStepSkipped ==
  route = "wizard" =>
    /\ step > 3 => "auth" \in passed
    /\ step > 4 => "account" \in passed

(* Once setup is stored as done, only a save that had read the file before *)
(* takes it back.                                                          *)
OnlyAStaleSaveForgetsSetup ==
  [][file # None /\ file.done /\ ~file'.done =>
       \E j \in Jobs : /\ job[j] # Idle /\ job[j].at = "save"
                       /\ ~job[j].saw]_vars

(* Start, clicked on a complete form, leaves the program set up: partial   *)
(* saves on the way are harmless (pkg/relayvpn/api.go:274-275).            *)
FinishedIsSetUp ==
  \A j \in Jobs :
    job[j] # Idle /\ job[j].kind = "finish" /\ job[j].at = "home" =>
      (job[j].complete => IsSetupCompleted)
=============================================================================
