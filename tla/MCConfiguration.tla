--------------------------- MODULE MCConfiguration ---------------------------
(***************************************************************************)
(* The front end's ways of changing the configuration, one in each         *)
(* behaviour: the wizard, the pages over the cached configuration, and a   *)
(* list typed into one of their fields.                                    *)
(***************************************************************************)
EXTENDS Integers, Sequences, TLC

CONSTANTS
  Jobs, MaxTurns, InitialFiles, DiskFails,  \* Wizard
  Calls, MaxCalls, Values, Normal,          \* ConfigCache
  Letters, MaxText                          \* ListField

VARIABLES
  part,
  file, route, step, furthest, draft, hydrate, job, passed, turns,
  stored, cache, invalid, fetch, page, form, call, made, stale, overlap,
  kind, value

Setup == INSTANCE Wizard
Pages == INSTANCE ConfigCache WITH file <- stored
Field == INSTANCE ListField

setup == <<file, route, step, furthest, draft, hydrate, job, passed, turns>>
pages == <<stored, cache, invalid, fetch, page, form, call, made, stale, overlap>>
field == <<kind, value>>
vars == <<part, setup, pages, field>>

(* No file, and one that is complete.                                      *)
Found == {[none |-> TRUE], [key |-> TRUE, endpoint |-> "good", done |-> TRUE]}

(* A name with a dot and a blank behind it is stored without the blank, and*)
(* read without the dot.                                                   *)
Cleaned == [v \in {"dotblank", "dot", "name"} |->
              IF v = "dotblank" THEN "dot" ELSE "name"]

MCSymmetry == Permutations(Calls)

ASSUME ConfigurationAssumption ==
  Setup!WizardAssumption /\ Pages!ConfigCacheAssumption

Init ==
  /\ part \in {"setup", "pages", "field"}
  /\ Setup!Init /\ (part # "setup" => file = [none |-> TRUE])
  /\ Pages!Init
  /\ part # "pages" => stored = [rest |-> CHOOSE v \in Values : TRUE, on |-> TRUE, done |-> TRUE]
  /\ IF part = "field" THEN Field!Init ELSE kind = "hosts" /\ value = <<>>

Next ==
  /\ UNCHANGED part
  /\ \/ part = "setup" /\ Setup!Next /\ UNCHANGED <<pages, field>>
     \/ part = "pages" /\ Pages!Next /\ UNCHANGED <<setup, field>>
     \/ part = "field" /\ Field!Next /\ UNCHANGED <<setup, pages>>

Spec == Init /\ [][Next]_vars
-----------------------------------------------------------------------------
(* The parts' own properties, where they are explained.                    *)
NoStepSkipped == Setup!NoStepSkipped
OnlyAStaleSaveForgetsSetup == Setup!OnlyAStaleSaveForgetsSetup
StaleOnlyBehindALateAnswer == Pages!StaleOnlyBehindALateAnswer
SaveTakesBackNothing == Pages!SaveTakesBackNothing
KeystrokeIsLocal == Field!KeystrokeIsLocal
=============================================================================
