----------------------------- MODULE ConfigCache -----------------------------
(***************************************************************************)
(* The configuration as the desktop front end holds it: the file, the      *)
(* query cache over it (lib/queries.ts: fetched once, never stale by       *)
(* itself), and the form of the Accounts or Settings page over the cache.  *)
(* Four handlers write the file, each by several calls of the service that *)
(* answer when they are done (a save first restarts a running relay), and  *)
(* the user goes on working meanwhile.                                     *)
(*                                                                         *)
(* Of a configuration is kept an account's switch, whether setup is done,  *)
(* and the rest, as one value.  Both a save and a read rewrite the rest    *)
(* (defaults for what is empty, trimmed and lower-cased names, the address *)
(* of a shared listener), and the window caches what it sent.  The file is *)
(* readable and a form that does not validate is never sent (Wizard.tla    *)
(* has the unreadable file).                                               *)
(***************************************************************************)
EXTENDS Integers, FiniteSets

CONSTANTS
  Calls,     \* bound: the calls under way at a time
  MaxCalls,  \* bound: the calls of a run
  Values,    \* what the rest of a configuration may be
  Normal     \* what SetDefaults and Normalize make of each of them; not
             \* always in one go: of a trailing dot before a blank, the first
             \* call removes the blank and the second the dot

ConfigCacheAssumption ==
  MaxCalls \in Nat /\ Values # {} /\ Normal \in [Values -> Values]

Config == [rest : Values, on : BOOLEAN, done : BOOLEAN]
None == [none |-> TRUE]
Asked == [asked |-> TRUE]

Forms == {"accounts", "settings"}       \* the pages with a form
Pages == Forms \cup {"other", "wizard"}

VARIABLES
  file,     \* the configuration on disk
  cache,    \* the cached query's data, None before the first answer
  invalid,  \* its isInvalidated
  fetch,    \* its fetch: None, Asked, or the configuration read
  page,     \* the page that is open
  form,     \* what its form holds, None while that is BLANK_CONFIG
  call,     \* the handlers under way
  made,     \* how many there were
  stale,    \* history: why the cache may lag: "no", "late", "unannounced"
  overlap   \* history: has a call or a fetch begun during another?

vars ==
  <<file, cache, invalid, fetch, page, form, call, made, stale, overlap>>

(* A configuration as a save stores it, and the file as GetConfig reads it.*)
Normalised(c) == [c EXCEPT !.rest = Normal[@]]
Read == Normalised(file)

(* A configuration is the file's when it is what is read of it, or what    *)
(* was sent to be stored as it is.                                         *)
Agrees(c) == c = Read \/ file = Normalised(c)

Idle == [kind |-> "idle"]
Busy == fetch # None \/ \E k \in Calls : call[k] # Idle

Init ==
  /\ file \in [rest : Values, on : {TRUE}, done : BOOLEAN]
  /\ cache = None /\ invalid = FALSE /\ fetch = None
  /\ page = "other" /\ form = None
  /\ call = [k \in Calls |-> Idle] /\ made = 0
  /\ stale = "no" /\ overlap = FALSE
-----------------------------------------------------------------------------
(* The query.  New data resets the form of the page over it, edited or not.*)
SetData(c) ==
  /\ cache' = c
  /\ form' = IF page \in Forms /\ c # cache THEN c ELSE form
  /\ stale' = IF Agrees(c) THEN "no" ELSE "late"

(* invalidateQueries: a query that is on show is fetched anew, which       *)
(* cancels a fetch under way unless that is the first.                     *)
Invalidate ==
  /\ invalid' = TRUE
  /\ fetch' = IF page \in Forms /\ (cache # None \/ fetch = None)
                THEN Asked ELSE fetch

(* A page opens with the data there is, and fetches when there is none or  *)
(* it is invalidated.  The handlers of the page before run on without it.  *)
Open ==
  \E p \in Pages \ {page} :
    /\ page' = p
    /\ form' = IF p \in Forms THEN cache ELSE None
    /\ fetch' = IF p \in Forms /\ fetch = None /\ (cache = None \/ invalid)
                  THEN Asked ELSE fetch
    /\ overlap' = (overlap \/ (fetch' # fetch /\ Busy))
    /\ call' = [k \in Calls |-> IF call[k] = Idle THEN Idle
                                ELSE [call[k] EXCEPT !.live = FALSE]]
    /\ UNCHANGED <<file, cache, invalid, made, stale>>

FetchReads ==
  /\ fetch = Asked
  /\ fetch' = Read
  /\ UNCHANGED <<file, cache, invalid, page, form, call, made, stale, overlap>>

FetchAnswers ==
  /\ fetch \notin {None, Asked}
  /\ SetData(fetch)
  /\ invalid' = FALSE /\ fetch' = None
  /\ UNCHANGED <<file, page, call, made, overlap>>
-----------------------------------------------------------------------------
(* The fields of the two forms, the account's switch excepted.             *)
SetForm ==
  /\ form # None
  /\ \E v \in Values : form' = [form EXCEPT !.rest = v]
  /\ UNCHANGED
       <<file, cache, invalid, fetch, page, call, made, stale, overlap>>

EditAccounts == page = "accounts" /\ SetForm
EditSettings == page = "settings" /\ SetForm

(* A handler begins: where it is, what it writes, the form it captured.    *)
Click(kind, at, cfg) ==
  /\ made < MaxCalls /\ made' = made + 1
  /\ \E k \in Calls :
       /\ call[k] = Idle
       /\ call' = [call EXCEPT ![k] =
            [kind |-> kind, at |-> at, cfg |-> cfg, shown |-> form,
             live |-> TRUE]]
  /\ overlap' = (overlap \/ Busy)
  /\ UNCHANGED <<file, cache, invalid, fetch, page, form, stale>>

Pending(kind) ==
  \E k \in Calls : call[k] # Idle /\ call[k].kind = kind /\ call[k].live

(* The save button is enabled while the form differs from the cache and no *)
(* save of this page is under way; the switch of an account always is.     *)
ClickSave ==
  /\ page \in Forms /\ form # None
  /\ form # cache /\ ~Pending("save")
  /\ Click("save", "write", form)

ClickToggle ==
  /\ page = "accounts" /\ form # None
  /\ Click("toggle", "read", form)

(* Another key is asked for, to go into the form when it comes.            *)
ClickRegenerate ==
  /\ page = "settings" /\ form # None /\ ~Pending("regenerate")
  /\ Click("regenerate", "answer", form)

(* The wizard's Next, Start and Skip, with a form of its own.              *)
ClickWizard ==
  /\ page = "wizard"
  /\ \/ \E v \in Values : \/ Click("next", "read", [Read EXCEPT !.rest = v])
                          \/ Click("finish", "read", [Read EXCEPT !.rest = v])
     \/ ~Pending("skip") /\ Click("skip", "mark", Read)
-----------------------------------------------------------------------------
(* What a handler makes of the file it has read.                           *)
Merged(k) ==
  IF k.at = "mark" THEN [Read EXCEPT !.done = TRUE]
  ELSE CASE k.kind = "toggle" -> [Read EXCEPT !.on = ~k.shown.on]
         [] k.kind = "next"   -> [Read EXCEPT !.rest = k.cfg.rest]
         [] k.kind = "finish" -> [Read EXCEPT !.rest = k.cfg.rest, !.done = TRUE]

Reads(k) ==
  /\ call[k] # Idle /\ call[k].at \in {"read", "mark"}
  /\ call' = [call EXCEPT ![k].cfg = Merged(call[k]),
                          ![k].at = IF @ = "read" THEN "write" ELSE "markwrite"]
  /\ UNCHANGED
       <<file, cache, invalid, fetch, page, form, made, stale, overlap>>

(* A write that fails ends its handler with a message, but for the wizard's*)
(* finish, which goes on to mark setup as completed.                       *)
Writes(k) ==
  /\ call[k] # Idle /\ call[k].at = "write"
  /\ \/ /\ file' = Normalised(call[k].cfg)
        /\ call' = [call EXCEPT ![k].at = "answer"]
     \/ /\ UNCHANGED file
        /\ call' = [call EXCEPT ![k] =
             IF @.kind = "finish" THEN [@ EXCEPT !.at = "mark"] ELSE Idle]
  /\ UNCHANGED <<cache, invalid, fetch, page, form, made, stale, overlap>>

(* Finish tells the cache nothing of its mark, skip does.                  *)
MarkWrites(k) ==
  /\ call[k] # Idle /\ call[k].at = "markwrite"
  /\ \/ /\ file' = Normalised(call[k].cfg)
        /\ call' = [call EXCEPT ![k] =
             IF @.kind = "skip" THEN [@ EXCEPT !.at = "answer"] ELSE Idle]
        /\ stale' = IF call[k].kind = "finish" /\ file' # file
                      THEN "unannounced" ELSE stale
     \/ UNCHANGED <<file, stale>> /\ call' = [call EXCEPT ![k] = Idle]
  /\ UNCHANGED <<cache, invalid, fetch, page, form, made, overlap>>

(* The success handlers.  A save caches what it sent and leaves a fetch    *)
(* under way alone.                                                        *)
OnSaved(c) == SetData(c) /\ invalid' = FALSE /\ UNCHANGED fetch

\* Mutant: the switch is patched in the form only.
PatchOnly(k) ==
  /\ form' = IF k.live THEN [k.shown EXCEPT !.on = ~@] ELSE form
  /\ UNCHANGED <<cache, stale, invalid, fetch>>

(* A toggle has the query fetched anew and patches the form it captured.   *)
OnToggled(k) ==
  /\ Invalidate
  /\ form' = IF k.live THEN [k.shown EXCEPT !.on = ~@] ELSE form
  /\ UNCHANGED <<cache, stale>>

(* The key goes into the form as it was when it was asked for, whatever was*)
(* typed since; or the call fails.                                         *)
OnRegenerated(k) ==
  /\ \/ \E v \in Values :
            form' = IF k.live THEN [k.shown EXCEPT !.rest = v] ELSE form
     \/ UNCHANGED form
  /\ UNCHANGED <<cache, stale, invalid, fetch>>

\* Mutant: the cache is not told of what the wizard saved.
KeepToItself(c) == UNCHANGED <<cache, form, stale, invalid, fetch>>

(* persistDraft.                                                           *)
OnPersisted(c) ==
  /\ SetData(c)
  /\ invalid' = TRUE
  /\ fetch' = IF page \in Forms THEN Asked ELSE fetch

Answered(k) ==
  /\ call[k] # Idle /\ call[k].at = "answer"
  /\ CASE call[k].kind = "save"   -> OnSaved(call[k].cfg)
       [] call[k].kind = "toggle" -> OnToggled(call[k])
       [] call[k].kind = "regenerate" -> OnRegenerated(call[k])
       [] call[k].kind = "skip"   -> Invalidate /\ UNCHANGED <<cache, form, stale>>
       [] OTHER -> OnPersisted(call[k].cfg)
  /\ call' = [call EXCEPT ![k] =
       IF @.kind = "finish" THEN [@ EXCEPT !.at = "mark"] ELSE Idle]
  /\ UNCHANGED <<file, page, made, overlap>>
-----------------------------------------------------------------------------
Next ==
  \/ Open \/ FetchReads \/ FetchAnswers
  \/ EditAccounts \/ EditSettings \/ ClickRegenerate
  \/ ClickSave \/ ClickToggle \/ ClickWizard
  \/ \E k \in Calls : Reads(k) \/ Writes(k) \/ MarkWrites(k) \/ Answered(k)

Spec == Init /\ [][Next]_vars
-----------------------------------------------------------------------------
(* When nothing is under way, the cache holds the file's configuration, as *)
(* reading it would answer or as it was sent to be stored, and differs by  *)
(* no more than that rewriting; unless the answer cached last was of before*)
(* another writer's write (a fetch cannot be outrun by a toggle, but a     *)
(* save's own answer can), or finish marked setup as completed after its   *)
(* save had failed.                                                        *)
StaleOnlyBehindALateAnswer ==
  ~Busy /\ cache # None /\ ~invalid => Agrees(cache) \/ stale # "no"

(* A user who waits for each answer loses nothing: a save of the form never*)
(* takes back a switch or the completed setup stored since, with the same  *)
(* exception.                                                              *)
SaveTakesBackNothing ==
  [][\A k \in Calls :
       /\ call[k] # Idle /\ call[k].kind = "save" /\ call[k].at = "write"
       /\ ~overlap /\ stale # "unannounced"
       => file'.on = file.on /\ file'.done = file.done]_vars
=============================================================================
