------------------------- MODULE ConfigurationProofs -------------------------
(***************************************************************************)
(* What the front end's ways of changing the configuration guarantee for   *)
(* any number of handlers under way: the wizard, and the pages over the    *)
(* cached configuration.  One of them runs in each behaviour.              *)
(***************************************************************************)
EXTENDS MCConfiguration, SequenceTheorems, WellFoundedInduction, TLAPS

(* A step is one of a part or leaves it alone.                             *)
LEMMA OnePart ==
  ASSUME [Next]_vars
  PROVE  /\ Setup!Next \/ UNCHANGED setup
         /\ Pages!Next \/ UNCHANGED pages
         /\ Field!Next \/ UNCHANGED field
BY DEF Next, vars
-----------------------------------------------------------------------------
(* The wizard.                                                             *)

SetupConfig == [key : BOOLEAN, endpoint : Setup!Endpoints, done : BOOLEAN]
Draft == [key : BOOLEAN, endpoint : Setup!Endpoints]
NoConfig == [none |-> TRUE]

(* A handler under way: what it saves is the form, then the configuration, *)
(* and then nothing.                                                       *)
Handlers(kinds, at, saves) ==
  [kind : kinds, live : BOOLEAN, at : at, step : 0..6, furthest : 0..6,
   complete : BOOLEAN, saves : saves, saw : BOOLEAN]

Reading == Handlers({"next", "finish"}, {"get"}, Draft)
Saving == Handlers({"next", "finish"}, {"save"}, SetupConfig)
Going == Handlers({"next"}, {"go"}, {NoConfig})
Marking == Handlers({"finish", "skip"}, {"mark", "home"}, {NoConfig})

Handler == Reading \cup Saving \cup Going \cup Marking

(* What was checked before the user, or a handler on its way to the step   *)
(* after its own, is past a step.                                          *)
Past(i) == (i > 3 => "auth" \in passed) /\ (i > 4 => "account" \in passed)

Covered(k) ==
  k \in Handler /\ k.kind = "next" =>
    k.step \in 2..5 /\ (k.live => Past(k.step + 1))

(* A save that saw setup done saves it as done.                            *)
KeepsDone(k) == k \in Saving /\ k.saw => k.saves.done

SetupInv ==
  /\ file \in SetupConfig \cup {NoConfig}
  /\ draft \in Draft
  /\ step \in 1..6 /\ furthest \in 1..6 /\ Past(step) /\ Past(furthest)
  /\ job \in [Jobs -> {Setup!Idle} \cup Handler]
  /\ \A j \in Jobs : Covered(job[j]) /\ KeepsDone(job[j])

(* The steps by their numbers.                                             *)
LEMMA Steps ==
  /\ Setup!Steps = 1..6
  /\ Setup!ORDER[1] = "welcome" /\ Setup!ORDER[2] = "mode" /\ Setup!ORDER[3] = "auth"
  /\ Setup!ORDER[4] = "account" /\ Setup!ORDER[5] = "cert" /\ Setup!ORDER[6] = "done"
BY DEF Setup!Steps, Setup!ORDER

LEMMA HandlerIsNotIdle ==
  /\ Setup!Idle \notin Handler
  /\ \A k \in Handler : k # Setup!Idle
BY DEF Setup!Idle, Handler, Reading, Saving, Going, Marking, Handlers

(* What becomes of a handler on its way.                                   *)
Same(k, h) == h.kind = k.kind /\ h.step = k.step /\ h.live = k.live

LEMMA HandlerPersisted ==
  ASSUME NEW k \in Reading \cup Saving
  PROVE  /\ Setup!AfterPersist(k) \in Going \cup Marking
         /\ Same(k, Setup!AfterPersist(k))
<1>1. k.kind \in {"next", "finish"}
  BY DEF Reading, Saving, Handlers
<1>2. Setup!AfterPersist(k)
        = [k EXCEPT !.at = IF k.kind = "finish" THEN "mark" ELSE "go",
                    !.saves = NoConfig, !.saw = FALSE]
  BY DEF Setup!AfterPersist, Setup!None, NoConfig
<1>3. ASSUME NEW at \in {"go", "mark"}, k.kind = IF at = "go" THEN "next" ELSE "finish"
      PROVE  LET h == [k EXCEPT !.at = at, !.saves = NoConfig, !.saw = FALSE]
             IN h \in Going \cup Marking /\ Same(k, h)
  <2> DEFINE h == [k EXCEPT !.at = at, !.saves = NoConfig, !.saw = FALSE]
  <2>1. /\ h \in Handlers({k.kind}, {at}, {NoConfig}) /\ Same(k, h)
    BY DEF Reading, Saving, Handlers, Same
  <2> HIDE DEF h
  <2>2. h \in Going \cup Marking
    BY <1>3, <2>1 DEF Going, Marking, Handlers
  <2> QED
    BY <2>1, <2>2 DEF h
<1>4. CASE k.kind = "next"
  BY <1>2, <1>3, <1>4
<1>5. CASE k.kind = "finish"
  BY <1>2, <1>3, <1>5
<1> QED
  BY <1>1, <1>4, <1>5

LEMMA HandlerMarked ==
  ASSUME NEW k \in Marking
  PROVE  [k EXCEPT !.at = "home"] \in Marking /\ Same(k, [k EXCEPT !.at = "home"])
BY DEF Marking, Handlers, Same

LEMMA HandlerLeft ==
  ASSUME NEW k \in Handler
  PROVE  LET h == [k EXCEPT !.live = FALSE]
         IN /\ h \in Handler /\ h.kind = k.kind /\ h.step = k.step /\ ~h.live
            /\ KeepsDone(k) => KeepsDone(h)
BY DEF Handler, Reading, Saving, Going, Marking, Handlers, KeepsDone

LEMMA HandlerStarts ==
  ASSUME SetupInv, NEW what \in {"next", "finish", "skip"}
  PROVE  LET h == Setup!Started(what)
         IN /\ h \in Handler /\ h.kind = what /\ h.live /\ ~h.saw
            /\ what = "next" => h.step = step
BY DEF SetupInv, Setup!Started, Setup!Valid, Setup!None, Handler, Reading, Marking,
       Handlers, NoConfig, Draft

JobsInv ==
  /\ job \in [Jobs -> {Setup!Idle} \cup Handler]
  /\ \A j \in Jobs : Covered(job[j]) /\ KeepsDone(job[j])

LEMMA JobMoves ==
  ASSUME SetupInv, passed' = passed,
         NEW j \in Jobs, NEW h \in {Setup!Idle} \cup Handler,
         job' = [job EXCEPT ![j] = h],
         h \in Handler => job[j] \in Handler /\ Same(job[j], h) /\ KeepsDone(h)
  PROVE  JobsInv'
<1>1. /\ job' \in [Jobs -> {Setup!Idle} \cup Handler]
      /\ \A i \in Jobs : job'[i] = IF i = j THEN h ELSE job[i]
  BY DEF SetupInv
<1>2. ASSUME NEW k, Covered(k) PROVE Covered(k)'
  BY <1>2 DEF Covered, Past
<1>3. \A i \in Jobs : Covered(job[i]) /\ KeepsDone(job[i])
  BY DEF SetupInv
<1>4. Covered(h) /\ KeepsDone(h)
  <2>1. CASE h \in Handler
    BY <1>3, <2>1 DEF Covered, Same
  <2>2. CASE h = Setup!Idle
    <3>1. h \notin Handler
      BY <2>2, HandlerIsNotIdle
    <3>2. h \notin Saving
      BY <3>1 DEF Handler
    <3> QED
      BY <3>1, <3>2 DEF Covered, KeepsDone
  <2> QED
    BY <2>1, <2>2
<1>5. \A i \in Jobs : Covered(job'[i]) /\ KeepsDone(job'[i])
  BY <1>1, <1>3, <1>4
<1>6. \A i \in Jobs : Covered(job[i])' /\ KeepsDone(job[i])'
  BY <1>5 DEF Covered, KeepsDone, Past
<1> QED
  BY <1>1, <1>6 DEF JobsInv

LEMMA JobStarts ==
  ASSUME SetupInv, NEW what \in {"next", "finish", "skip"}, Setup!Spawn(what),
         passed \subseteq passed',
         what = "next" => step \in 2..5 /\ step' = step /\ Past(step + 1)'
  PROVE  JobsInv'
<1>0. PICK h : h = Setup!Started(what)
  OBVIOUS
<1>1. PICK j \in Jobs : job' = [job EXCEPT ![j] = h]
  BY <1>0 DEF Setup!Spawn
<1>2. /\ h \in Handler /\ h.kind = what /\ h.live /\ ~h.saw
      /\ what = "next" => h.step = step
  BY <1>0, HandlerStarts
<1>3. /\ job' \in [Jobs -> {Setup!Idle} \cup Handler]
      /\ \A i \in Jobs : job'[i] = IF i = j THEN h ELSE job[i]
  BY <1>1, <1>2 DEF SetupInv
<1>4. /\ h.kind = "next" => h.step \in 2..5 /\ Past(h.step + 1)'
      /\ KeepsDone(h)
  BY <1>2 DEF KeepsDone, Past
<1>5. ASSUME NEW i \in Jobs PROVE Covered(job[i])' /\ KeepsDone(job[i])'
  <2>1. CASE i = j
    <3>1. job'[i] = h
      BY <1>3, <2>1
    <3>2. h.kind = "next" => h.step \in 2..5 /\ Past(h.step + 1)'
      BY <1>4
    <3> QED
      BY <1>4, <3>1, <3>2 DEF Covered, KeepsDone, Past
  <2>2. CASE i # j
    <3>1. job'[i] = job[i] /\ Covered(job[i]) /\ KeepsDone(job[i])
      BY <1>3, <2>2 DEF SetupInv
    <3> QED
      BY <3>1 DEF Covered, KeepsDone, Past
  <2> QED
    BY <2>1, <2>2
<1> QED
  BY <1>3, <1>5 DEF JobsInv

(* A fresh wizard: nothing has been checked, and nobody is past anything.  *)
LEMMA Mounted ==
  ASSUME SetupInv, Setup!Mount, file' = file
  PROVE  SetupInv'
<1>1. /\ step' = 1 /\ furthest' = 1 /\ draft' = [key |-> FALSE, endpoint |-> "none"]
      /\ job' = [j \in Jobs |-> IF job[j] = Setup!Idle THEN Setup!Idle
                                ELSE [job[j] EXCEPT !.live = FALSE]]
  BY DEF Setup!Mount, Setup!BlankDraft
<1>2. ASSUME NEW j \in Jobs
      PROVE  /\ job'[j] \in {Setup!Idle} \cup Handler
             /\ Covered(job[j])' /\ KeepsDone(job[j])'
  <2>1. CASE job[j] = Setup!Idle
    <3>1. job'[j] = Setup!Idle /\ job'[j] \notin Handler
      BY <1>1, <2>1, HandlerIsNotIdle
    <3>2. job'[j] \notin Saving
      BY <3>1 DEF Handler
    <3> QED
      BY <3>1, <3>2 DEF Covered, KeepsDone
  <2>2. CASE job[j] # Setup!Idle
    <3>1. job[j] \in Handler /\ Covered(job[j]) /\ KeepsDone(job[j])
      BY <2>2 DEF SetupInv
    <3> DEFINE h == [job[j] EXCEPT !.live = FALSE]
    <3>2. /\ h \in Handler /\ h.kind = job[j].kind /\ h.step = job[j].step /\ ~h.live
          /\ KeepsDone(h)
      BY <3>1, HandlerLeft
    <3>3. job'[j] = h
      BY <1>1, <2>2
    <3> HIDE DEF h
    <3>4. KeepsDone(job[j])'
      BY <3>2, <3>3 DEF KeepsDone
    <3>5. Covered(job[j])'
      BY <3>1, <3>2, <3>3 DEF Covered
    <3> QED
      BY <3>2, <3>3, <3>4, <3>5
  <2> QED
    BY <2>1, <2>2
<1>3. job' = [j \in Jobs |-> job'[j]]
  BY <1>1
<1>4. Past(step)' /\ Past(furthest)'
  BY <1>1 DEF Past
<1>5. draft' \in Draft /\ file' \in SetupConfig \cup {NoConfig}
  BY <1>1 DEF Setup!Endpoints, Draft, SetupInv
<1> QED
  BY <1>1, <1>2, <1>3, <1>4, <1>5 DEF SetupInv

LEMMA GoodConfigs ==
  ASSUME SetupInv
  PROVE  /\ Setup!GetConfig \in SetupConfig
         /\ Setup!Readable /\ Setup!GetConfig.key => file \in SetupConfig
         /\ \A d \in Draft, done \in BOOLEAN :
              /\ Setup!Merged(Setup!GetConfig, d, done) \in SetupConfig
              /\ Setup!GetConfig.done => Setup!Merged(Setup!GetConfig, d, done).done
         /\ \A ok \in BOOLEAN : Setup!MarkSetupCompleted(ok) =>
              \/ file' = file
              \/ file' \in SetupConfig /\ file'.done
<1>1. Setup!GetConfig \in SetupConfig
  BY DEF Setup!Endpoints, SetupInv, Setup!GetConfig, Setup!Defaults, Setup!None, SetupConfig, NoConfig
<1>2. Setup!Readable /\ Setup!GetConfig.key => file \in SetupConfig
  BY DEF SetupInv, Setup!GetConfig, Setup!Defaults, Setup!None, NoConfig
<1>3. ASSUME NEW c \in SetupConfig, NEW d \in Draft, NEW done \in BOOLEAN
      PROVE  /\ Setup!Merged(c, d, done) \in SetupConfig
             /\ c.done => Setup!Merged(c, d, done).done
  BY DEF Setup!Merged, SetupConfig, Draft
<1>4. ASSUME NEW ok \in BOOLEAN, Setup!MarkSetupCompleted(ok), file' # file
      PROVE  file' \in SetupConfig /\ file'.done
  <2>1. file' = [Setup!GetConfig EXCEPT !.done = TRUE]
    BY <1>4 DEF Setup!MarkSetupCompleted, Setup!Write
  <2> QED
    BY <1>1, <2>1 DEF SetupConfig
<1> QED
  BY <1>1, <1>2, <1>3, <1>4

LEMMA SetupStep ==
  ASSUME SetupInv, Setup!Next
  PROVE  SetupInv'
<1>1. /\ file \in SetupConfig \cup {NoConfig} /\ draft \in Draft
      /\ step \in 1..6 /\ furthest \in 1..6 /\ Past(step) /\ Past(furthest) /\ JobsInv
  BY DEF SetupInv, JobsInv
<1>2. ASSUME /\ file' \in SetupConfig \cup {NoConfig} /\ draft' \in Draft
             /\ step' \in 1..6 /\ furthest' \in 1..6
             /\ Past(step)' /\ Past(furthest)' /\ JobsInv'
      PROVE  SetupInv'
  BY <1>2 DEF SetupInv, JobsInv
<1>3. UNCHANGED <<job, passed>> => JobsInv'
  BY <1>1 DEF JobsInv, Covered, KeepsDone, Past
<1>4. UNCHANGED <<step, furthest, passed>> =>
        step' \in 1..6 /\ furthest' \in 1..6 /\ Past(step)' /\ Past(furthest)'
  BY <1>1 DEF Past
(* The gate, the link, and the form.                                       *)
<1>5. CASE Setup!FirstRunGate
  BY <1>1, <1>2, <1>3, <1>4, <1>5, Mounted DEF Setup!FirstRunGate, Setup!form
<1>6. CASE Setup!OpenWizard
  BY <1>6, Mounted DEF Setup!OpenWizard
<1>7. CASE Setup!HydrateReads
  <2>1. draft' \in Draft
    <3>1. CASE Setup!Readable /\ Setup!GetConfig.key
      <4>1. draft' = [key |-> TRUE, endpoint |-> file.endpoint] /\ file \in SetupConfig
        BY <1>7, <3>1, GoodConfigs DEF Setup!HydrateReads
      <4> QED
        BY <4>1 DEF SetupConfig, Draft
    <3> QED
      BY <1>1, <1>7, <3>1 DEF Setup!HydrateReads
  <2> QED
    BY <1>1, <1>2, <1>3, <1>4, <1>7, <2>1 DEF Setup!HydrateReads
<1>8. CASE Setup!HydrateKey \/ Setup!KeyArrives
  <2>1. draft' = [draft EXCEPT !.key = TRUE]
    BY <1>8 DEF Setup!HydrateKey, Setup!KeyArrives
  <2>2. draft' \in Draft
    BY <1>1, <2>1 DEF Draft
  <2> QED
    BY <1>1, <1>2, <1>3, <1>4, <1>8, <2>2 DEF Setup!HydrateKey, Setup!KeyArrives
<1>9. ASSUME NEW name \in {"key", "endpoint"}, NEW entry, NEW good \in BOOLEAN,
             Setup!Enter(name, entry, good),
             name = "key" => entry \in BOOLEAN,
             name = "endpoint" => entry \in Setup!Endpoints
      PROVE  SetupInv'
  <2>1. draft' = [draft EXCEPT ![name] = entry]
    BY <1>9 DEF Setup!Enter
  <2>2. draft' \in Draft
    BY <1>1, <1>9, <2>1 DEF Draft
  <2> QED
    BY <1>1, <1>2, <1>3, <1>4, <1>9, <2>2 DEF Setup!Enter
<1>10. CASE Setup!ChooseMode \/ Setup!EditKey \/ Setup!EditAccount
  BY <1>9, <1>10 DEF Setup!ChooseMode, Setup!EditKey, Setup!EditAccount
(* The ways from step to step.                                             *)
<1>11. ASSUME NEW i \in 1..6, NEW seen, Setup!Go(i, seen), Past(i), UNCHANGED passed
       PROVE  step' \in 1..6 /\ furthest' \in 1..6 /\ Past(step)' /\ Past(furthest)'
  BY <1>1, <1>11 DEF Setup!Go, Past
<1>12. CASE Setup!Welcome
  <2>1. Past(2) /\ 2 \in 1..6
    BY DEF Past
  <2>2. Setup!Go(2, furthest) /\ UNCHANGED <<file, draft, job, passed>>
    BY <1>12 DEF Setup!Welcome
  <2> QED
    BY <1>1, <1>2, <1>3, <1>11, <2>1, <2>2
<1>13. CASE Setup!Back
  <2>1. Setup!Go(step - 1, furthest) /\ UNCHANGED <<file, draft, job, passed>>
    BY <1>13 DEF Setup!Back
  <2>2. step # 1
    BY <1>13, Steps DEF Setup!Back
  <2>3. step - 1 \in 1..6 /\ Past(step - 1)
    BY <1>1, <2>2 DEF Past
  <2> QED
    BY <1>1, <1>2, <1>3, <1>11, <2>1, <2>3
<1>14. CASE Setup!Jump
  <2>1. PICK i \in Setup!Visited : Setup!Go(i, furthest)
    BY <1>14 DEF Setup!Jump
  <2>2. UNCHANGED <<file, draft, job, passed>>
    BY <1>14 DEF Setup!Jump
  <2>3. i \in 1..6 /\ i <= furthest
    BY Steps DEF Setup!Visited
  <2>4. Past(i)
    BY <1>1, <2>3 DEF Past
  <2> QED
    BY <1>1, <1>2, <1>3, <1>11, <2>1, <2>2, <2>3, <2>4
<1>15. CASE Setup!ClickNext
  <2>1. /\ Setup!Spawn("next")
        /\ passed' = passed \cup ({Setup!ORDER[step]} \cap {"auth", "account"})
        /\ UNCHANGED <<file, step, furthest, draft>>
    BY <1>15 DEF Setup!ClickNext
  <2>2. Setup!ORDER[step] \notin {"welcome", "done"}
    BY <1>15 DEF Setup!ClickNext
  <2>3. step \in 2..5
    <3>1. step # 1 /\ step # 6
      BY <2>2, Steps
    <3> QED
      BY <1>1, <3>1
  <2>4. Past(step + 1)'
    <3>1. step = 3 => "auth" \in passed'
      BY <2>1, Steps
    <3>2. step = 4 => "account" \in passed'
      BY <2>1, Steps
    <3> QED
      BY <1>1, <2>1, <2>3, <3>1, <3>2 DEF Past
  <2>5. JobsInv'
    BY <2>1, <2>3, <2>4, JobStarts
  <2>6. Past(step)' /\ Past(furthest)'
    BY <1>1, <2>1 DEF Past
  <2> QED
    BY <1>1, <1>2, <2>1, <2>5, <2>6
<1>16. CASE Setup!ClickStart \/ Setup!ClickSkip
  <2>1. PICK what \in {"finish", "skip"} : Setup!Spawn(what)
    BY <1>16 DEF Setup!ClickStart, Setup!ClickSkip
  <2>2. UNCHANGED <<file, step, furthest, draft, passed>>
    BY <1>16 DEF Setup!ClickStart, Setup!ClickSkip, Setup!form
  <2>3. JobsInv'
    BY <2>1, <2>2, JobStarts
  <2> QED
    BY <1>1, <1>2, <1>4, <2>2, <2>3
(* The handlers.                                                           *)
<1>17. ASSUME NEW j \in Jobs, job[j] # Setup!Idle
       PROVE  job[j] \in Handler
  BY <1>17 DEF SetupInv
<1>18. ASSUME NEW j \in Jobs, Setup!PersistReads(j) PROVE SetupInv'
  <2>1. /\ job[j] # Setup!Idle /\ job[j].at = "get"
        /\ UNCHANGED <<file, step, furthest, draft, passed>>
    BY <1>18 DEF Setup!PersistReads, Setup!form
  <2>2. job[j] \in Reading /\ job[j].saves \in Draft
    BY <1>17, <2>1 DEF Handler, Reading, Saving, Going, Marking, Handlers
  <2> DEFINE c == Setup!Merged(Setup!GetConfig, job[j].saves, job[j].kind = "finish")
             saw == Setup!GetConfig.done
             h == IF Setup!Readable
                    THEN [job[j] EXCEPT !.at = "save", !.saves = c, !.saw = saw]
                    ELSE Setup!AfterPersist(job[j])
  <2>3. job' = [job EXCEPT ![j] = h]
    BY <1>18 DEF Setup!PersistReads
  <2>4. c \in SetupConfig /\ (saw => c.done) /\ saw \in BOOLEAN
    <3>1. Setup!GetConfig \in SetupConfig
      BY GoodConfigs
    <3>2. (job[j].kind = "finish") \in BOOLEAN
      OBVIOUS
    <3>3. c \in SetupConfig /\ (saw => c.done)
      BY <2>2, <3>2, GoodConfigs
    <3> QED
      BY <3>1, <3>3 DEF SetupConfig
  <2>5. h \in Handler /\ Same(job[j], h) /\ KeepsDone(h)
    <3>1. CASE Setup!Readable
      <4> HIDE DEF c, saw
      <4> DEFINE s == [job[j] EXCEPT !.at = "save", !.saves = c, !.saw = saw]
      <4>1. /\ s \in Saving /\ Same(job[j], s)
            /\ s.saw = saw /\ s.saves = c
        BY <2>2, <2>4 DEF Reading, Saving, Handlers, Same
      <4>2. h = s
        BY <3>1
      <4> HIDE DEF s, h
      <4> QED
        BY <2>4, <4>1, <4>2 DEF Handler, KeepsDone
    <3>2. CASE ~Setup!Readable
      <4> DEFINE p == Setup!AfterPersist(job[j])
      <4>1. p \in Going \cup Marking /\ Same(job[j], p)
        BY <2>2, HandlerPersisted
      <4>2. h = p
        BY <3>2
      <4> HIDE DEF p, h
      <4>3. h \notin Saving
        BY <4>1, <4>2 DEF Saving, Going, Marking, Handlers
      <4> QED
        BY <4>1, <4>2, <4>3 DEF Handler, KeepsDone
    <3> QED
      BY <3>1, <3>2
  <2> HIDE DEF h
  <2>6. JobsInv'
    BY <1>17, <2>1, <2>3, <2>5, JobMoves
  <2> QED
    BY <1>1, <1>2, <1>4, <2>1, <2>6
<1>19. ASSUME NEW k \in Going \cup Marking
       PROVE  k \in Handler /\ KeepsDone(k)
  <2>1. k \notin Saving
    BY DEF Saving, Going, Marking, Handlers
  <2> QED
    BY <2>1 DEF Handler, KeepsDone
<1>20. ASSUME NEW j \in Jobs, Setup!PersistSaves(j) PROVE SetupInv'
  <2>1. /\ job[j] # Setup!Idle /\ job[j].at = "save"
        /\ UNCHANGED <<step, furthest, draft, passed>>
        /\ job' = [job EXCEPT ![j] = Setup!AfterPersist(job[j])]
    BY <1>20 DEF Setup!PersistSaves, Setup!form
  <2>2. job[j] \in Saving /\ job[j].saves \in SetupConfig
    BY <1>17, <2>1 DEF Handler, Reading, Saving, Going, Marking, Handlers
  <2>3. file' \in SetupConfig \cup {NoConfig}
    BY <1>1, <1>20, <2>2 DEF Setup!PersistSaves, Setup!Write
  <2> DEFINE p == Setup!AfterPersist(job[j])
  <2>4. p \in Handler /\ Same(job[j], p) /\ KeepsDone(p)
    BY <1>19, <2>2, HandlerPersisted
  <2> HIDE DEF p
  <2>5. JobsInv'
    BY <1>17, <2>1, <2>4, JobMoves DEF p
  <2> QED
    BY <1>1, <1>2, <1>4, <2>1, <2>3, <2>5
<1>21. ASSUME NEW j \in Jobs, job[j] # Setup!Idle, job' = [job EXCEPT ![j] = Setup!Idle],
              UNCHANGED passed
       PROVE  JobsInv'
  BY <1>21, JobMoves, HandlerIsNotIdle
<1>22. ASSUME NEW j \in Jobs, Setup!NextGoes(j) PROVE SetupInv'
  <2>1. /\ job[j] # Setup!Idle /\ job[j].at = "go"
        /\ job' = [job EXCEPT ![j] = Setup!Idle]
        /\ UNCHANGED <<file, draft, passed>>
    BY <1>22 DEF Setup!NextGoes
  <2>2. JobsInv'
    BY <1>21, <2>1
  <2>3. CASE job[j].live /\ route = "wizard"
    <3>1. Setup!Go(job[j].step + 1, job[j].furthest)
      BY <1>22, <2>3 DEF Setup!NextGoes
    <3>2. job[j] \in Handler /\ Covered(job[j])
      BY <1>17, <2>1 DEF SetupInv
    <3>3. job[j].kind = "next"
      BY <2>1, <3>2 DEF Handler, Reading, Saving, Going, Marking, Handlers
    <3>4. job[j].step + 1 \in 1..6 /\ Past(job[j].step + 1)
      BY <2>3, <3>2, <3>3 DEF Covered
    <3> QED
      BY <1>1, <1>2, <1>11, <2>1, <2>2, <3>1, <3>4
  <2>4. CASE ~(job[j].live /\ route = "wizard")
    BY <1>1, <1>2, <1>4, <1>22, <2>1, <2>2, <2>4 DEF Setup!NextGoes
  <2> QED
    BY <2>3, <2>4
<1>23. ASSUME NEW j \in Jobs, Setup!Marks(j) PROVE SetupInv'
  <2>1. /\ job[j] # Setup!Idle /\ job[j].at = "mark"
        /\ UNCHANGED <<step, furthest, draft, passed>>
    BY <1>23 DEF Setup!Marks, Setup!form
  <2>2. PICK ok \in BOOLEAN :
          /\ Setup!MarkSetupCompleted(ok)
          /\ job' = [job EXCEPT ![j] =
               IF @.kind = "skip" /\ ~ok THEN Setup!Idle ELSE [@ EXCEPT !.at = "home"]]
    BY <1>23 DEF Setup!Marks
  <2>3. file' \in SetupConfig \cup {NoConfig}
    BY <1>1, <2>2, GoodConfigs
  <2>4. job[j] \in Marking
    BY <1>17, <2>1 DEF Handler, Reading, Saving, Going, Marking, Handlers
  <2> DEFINE h == [job[j] EXCEPT !.at = "home"]
  <2>5. h \in Handler /\ Same(job[j], h) /\ KeepsDone(h)
    BY <1>19, <2>4, HandlerMarked
  <2>6. job' \in {[job EXCEPT ![j] = Setup!Idle], [job EXCEPT ![j] = h]}
    BY <2>2
  <2> HIDE DEF h
  <2>7. JobsInv'
    BY <1>17, <1>21, <2>1, <2>5, <2>6, JobMoves
  <2> QED
    BY <1>1, <1>2, <1>4, <2>1, <2>3, <2>7
<1>24. ASSUME NEW j \in Jobs, Setup!Leaves(j) PROVE SetupInv'
  BY <1>1, <1>2, <1>4, <1>21, <1>24 DEF Setup!Leaves, Setup!form
<1> QED
  BY <1>5, <1>6, <1>7, <1>8, <1>10, <1>12, <1>13, <1>14, <1>15, <1>16, <1>18, <1>20,
     <1>22, <1>23, <1>24
  DEF Setup!Next

LEMMA SetupInvariance == Spec => []SetupInv
<1>1. Init => SetupInv
  <2> SUFFICES ASSUME Init PROVE SetupInv
    OBVIOUS
  <2>1. /\ file \in InitialFiles /\ step = 1 /\ furthest = 1
        /\ draft = [key |-> FALSE, endpoint |-> "none"]
        /\ job = [j \in Jobs |-> Setup!Idle]
    BY DEF Init, Setup!Init, Setup!BlankDraft
  <2>2. file \in SetupConfig \cup {NoConfig}
    BY <2>1, ConfigurationAssumption
    DEF Setup!WizardAssumption, Setup!Config, Setup!None, SetupConfig, NoConfig
  <2>3. draft \in Draft /\ Past(step) /\ Past(furthest)
    BY <2>1 DEF Setup!Endpoints, Draft, Past
  <2>4. \A j \in Jobs : job[j] \notin Handler
    BY <2>1, HandlerIsNotIdle
  <2> QED
    BY <2>1, <2>2, <2>3, <2>4 DEF SetupInv, Covered, KeepsDone, Handler
<1>2. SetupInv /\ [Next]_vars => SetupInv'
  <2>1. ASSUME SetupInv, UNCHANGED setup PROVE SetupInv'
    BY <2>1 DEF SetupInv, setup, Covered, KeepsDone, Past
  <2> QED
    BY <2>1, OnePart, SetupStep
<1> QED
  BY <1>1, <1>2, PTL DEF Spec

(* No click, jump or late answer takes the user past a step whose checks   *)
(* did not hold: next(), go() and the step rail, with any number of Nexts  *)
(* waiting for their saves.                                                *)
THEOREM NobodySkipsAStep == Spec => []NoStepSkipped
<1>1. SetupInv => NoStepSkipped
  BY DEF SetupInv, Past, NoStepSkipped, Setup!NoStepSkipped
<1> QED
  BY <1>1, SetupInvariance, PTL

(* Setup that is stored as done is taken back by a save only that had read *)
(* the file before: persistDraft, MarkSetupCompleted and SaveDraft, with   *)
(* any number of handlers under way and writes that fail.                  *)
THEOREM OnlyStaleSavesForgetSetup == Spec => OnlyAStaleSaveForgetsSetup
<1>1. SetupInv /\ [Next]_vars =>
        [file # Setup!None /\ file.done /\ ~file'.done =>
           \E j \in Jobs : /\ job[j] # Setup!Idle /\ job[j].at = "save"
                           /\ ~job[j].saw]_(Setup!vars)
  <2> SUFFICES ASSUME SetupInv, [Next]_vars, file.done, ~file'.done
               PROVE  \E j \in Jobs : /\ job[j] # Setup!Idle /\ job[j].at = "save"
                                      /\ ~job[j].saw
    OBVIOUS
  <2>1. file' # file /\ Setup!Next
    BY OnePart DEF setup
  <2>2. \A ok \in BOOLEAN : ~Setup!MarkSetupCompleted(ok)
    BY <2>1, GoodConfigs
  <2>3. PICK j \in Jobs : Setup!PersistSaves(j)
    BY <2>1, <2>2
    DEF Setup!Next, Setup!FirstRunGate, Setup!OpenWizard, Setup!HydrateReads,
        Setup!HydrateKey, Setup!ChooseMode, Setup!EditKey, Setup!EditAccount, Setup!Enter,
        Setup!KeyArrives, Setup!Welcome, Setup!Back, Setup!Jump, Setup!ClickNext,
        Setup!ClickStart, Setup!ClickSkip, Setup!PersistReads, Setup!NextGoes, Setup!Marks,
        Setup!Leaves
  <2>4. job[j] # Setup!Idle /\ job[j].at = "save" /\ file' = job[j].saves
    BY <2>1, <2>3 DEF Setup!PersistSaves, Setup!Write
  <2>5. job[j] \in Saving /\ KeepsDone(job[j])
    BY <2>4 DEF SetupInv, Handler, Reading, Saving, Going, Marking, Handlers
  <2> QED
    BY <2>4, <2>5 DEF KeepsDone
<1> QED
  BY <1>1, SetupInvariance, PTL
  DEF Spec, OnlyAStaleSaveForgetsSetup, Setup!OnlyAStaleSaveForgetsSetup
-----------------------------------------------------------------------------
(* The pages over the cached configuration.                                *)

PageConfig == [rest : Values, on : BOOLEAN, done : BOOLEAN]
AskedFor == [asked |-> TRUE]

Underway ==
  [kind : {"save", "toggle", "regenerate", "next", "finish", "skip"},
   at : {"read", "write", "answer", "mark", "markwrite"},
   cfg : PageConfig, shown : PageConfig \cup {NoConfig}, live : BOOLEAN]

(* The stages of each kind of handler, and which captured a form.          *)
Staged(k) ==
  /\ k.kind = "save" => k.at \in {"write", "answer"}
  /\ k.kind \in {"toggle", "next"} => k.at \in {"read", "write", "answer"}
  /\ k.kind = "regenerate" => k.at = "answer"
  /\ k.kind = "skip" => k.at \in {"mark", "markwrite", "answer"}
  /\ k.kind \in {"save", "toggle", "regenerate"} => k.shown \in PageConfig

Handling == {k \in Underway : Staged(k)}

DataType ==
  /\ stored \in PageConfig
  /\ cache \in PageConfig \cup {NoConfig} /\ form \in PageConfig \cup {NoConfig}
  /\ fetch \in PageConfig \cup {NoConfig, AskedFor}
  /\ invalid \in BOOLEAN /\ overlap \in BOOLEAN
  /\ stale \in {"no", "late", "unannounced"}
  /\ page \in {"accounts", "settings", "other", "wizard"}

PagesType == DataType /\ call \in [Calls -> {Pages!Idle} \cup Handling]

(* A cache that has fallen behind will hear of it: the handler that wrote  *)
(* is on its way to say so.                                                *)
Announced ==
  cache # NoConfig /\ ~Pages!Agrees(cache) /\ ~invalid /\ stale = "no" =>
    \E k \in Calls : /\ call[k] \in Handling /\ call[k].at = "answer"
                     /\ call[k].kind # "regenerate"

Active(k) == call[k] # Pages!Idle
Showing == page \in {"accounts", "settings"}
FormMatches == form.on = cache.on /\ form.done = cache.done

(* After a switch, until the fetch it asked for has answered, the form is  *)
(* ahead of the cache.                                                     *)
Toggled ==
  invalid /\ fetch # NoConfig /\ cache.on # stored.on /\ \A k \in Calls : ~Active(k)

(* What a handler relies on while nothing else is under way.  Only finish, *)
(* which has cached what it saved and goes on to its mark, has company.    *)
Alone(k) ==
  /\ fetch # NoConfig =>
       k.kind = "finish" /\ k.at \in {"mark", "markwrite"} /\ stored.done
  /\ fetch \in PageConfig => fetch = Pages!Read
  /\ k.at = "markwrite" => k.cfg = [Pages!Read EXCEPT !.done = TRUE]
  /\ k.at = "answer" /\ k.kind \in {"save", "next", "finish"} =>
       stored = Pages!Normalised(k.cfg)
  /\ k.kind = "finish" /\ k.at \in {"write", "answer"} => k.cfg.done
  /\ k.kind = "toggle" /\ k.at = "write" => k.cfg.on = ~k.shown.on
  /\ k.kind = "toggle" /\ k.at = "answer" => stored.on = ~k.shown.on
  /\ k.kind \in {"toggle", "regenerate"} /\ k.live =>
       /\ Showing /\ cache # NoConfig
       /\ k.shown.on = cache.on /\ k.shown.done = cache.done
  /\ k.kind = "save" /\ k.at = "write" /\ stale # "unannounced" =>
       k.cfg.on = stored.on /\ k.cfg.done = stored.done

(* While the user waits for each answer.                                   *)
OneAtATime == \A j, k \in Calls : Active(j) /\ Active(k) => j = k
FormFollows == form # NoConfig => Showing /\ cache # NoConfig /\ (FormMatches \/ Toggled)
FetchIsFresh ==
  /\ stale # "late"
  /\ fetch \in PageConfig => Pages!Agrees(fetch)
  /\ invalid /\ Showing => fetch # NoConfig

AloneInv ==
  /\ OneAtATime /\ FormFollows /\ FetchIsFresh
  /\ \A k \in Calls : Active(k) => Alone(call[k])

PagesInv == PagesType /\ Announced /\ (~overlap => AloneInv)

LEMMA Distinct ==
  /\ NoConfig \notin PageConfig /\ AskedFor \notin PageConfig /\ AskedFor # NoConfig
  /\ Pages!None = NoConfig /\ Pages!Asked = AskedFor
  /\ Pages!Idle \notin Handling
  /\ Pages!Forms = {"accounts", "settings"}
  /\ Pages!Pages = {"accounts", "settings", "other", "wizard"}
<1>1. NoConfig \notin PageConfig /\ AskedFor \notin PageConfig
  BY DEF NoConfig, AskedFor, PageConfig
<1>2. AskedFor # NoConfig
  BY DEF NoConfig, AskedFor
<1>3. Pages!Idle \notin Handling
  BY DEF Pages!Idle, Handling, Underway
<1> QED
  BY <1>1, <1>2, <1>3
  DEF Pages!None, Pages!Asked, NoConfig, AskedFor, Pages!Forms, Pages!Pages

(* Saving and reading rewrite neither a switch nor the mark.               *)
LEMMA Rewritten ==
  ASSUME NEW c \in PageConfig
  PROVE  /\ Pages!Normalised(c) \in PageConfig
         /\ Pages!Normalised(c).on = c.on /\ Pages!Normalised(c).done = c.done
BY ConfigurationAssumption
DEF Pages!ConfigCacheAssumption, Pages!Normalised, PageConfig

LEMMA ReadOf ==
  ASSUME stored \in PageConfig
  PROVE  /\ Pages!Read \in PageConfig /\ Pages!Agrees(Pages!Read)
         /\ Pages!Read.on = stored.on /\ Pages!Read.done = stored.done
BY Rewritten DEF Pages!Read, Pages!Agrees

LEMMA Agreed ==
  ASSUME stored \in PageConfig, NEW c \in PageConfig, Pages!Agrees(c)
  PROVE  c.on = stored.on /\ c.done = stored.done
BY Rewritten DEF Pages!Read, Pages!Agrees

LEMMA CallChanges ==
  ASSUME PagesType, NEW i \in Calls, NEW h \in {Pages!Idle} \cup Handling,
         call' = [call EXCEPT ![i] = h]
  PROVE  /\ call' \in [Calls -> {Pages!Idle} \cup Handling]
         /\ \A k \in Calls : call'[k] = IF k = i THEN h ELSE call[k]
BY DEF PagesType, DataType

(* A stage of a handler on.                                                *)
LEMMA CallMoves ==
  ASSUME NEW k \in Handling, NEW at \in {"read", "write", "answer", "mark", "markwrite"}
  PROVE  LET h == [k EXCEPT !.at = at]
         IN /\ h \in Underway /\ (Staged(h) => h \in Handling)
            /\ h.at = at /\ h.kind = k.kind /\ h.cfg = k.cfg /\ h.shown = k.shown
            /\ h.live = k.live
BY DEF Handling, Underway

LEMMA CallLeft ==
  ASSUME NEW k \in Handling
  PROVE  LET h == [k EXCEPT !.live = FALSE]
         IN /\ h \in Handling /\ ~h.live
            /\ h.at = k.at /\ h.kind = k.kind /\ h.cfg = k.cfg /\ h.shown = k.shown
<1> DEFINE h == [k EXCEPT !.live = FALSE]
<1>1. /\ h \in Underway /\ ~h.live
      /\ h.at = k.at /\ h.kind = k.kind /\ h.cfg = k.cfg /\ h.shown = k.shown
  BY DEF Handling, Underway
<1>2. Staged(k)
  BY DEF Handling
<1> HIDE DEF h
<1>3. Staged(h)
  BY <1>1, <1>2 DEF Staged
<1>4. h \in Handling
  BY <1>1, <1>3 DEF Handling
<1> QED
  BY <1>1, <1>4 DEF h

(* A handler that begins, with what its page gives it.                     *)
Begins(k) ==
  /\ k.live /\ k.shown = form
  /\ k.kind \in {"save", "toggle", "regenerate"} => Showing /\ form # NoConfig
  /\ k.kind = "save" => k.at = "write" /\ k.cfg = form
  /\ k.kind = "regenerate" => k.at = "answer"
  /\ k.kind \notin {"save", "regenerate"} => k.at \in {"read", "mark"}

LEMMA Clicks ==
  ASSUME PagesType,
         Pages!ClickSave \/ Pages!ClickToggle \/ Pages!ClickRegenerate \/ Pages!ClickWizard
  PROVE  /\ \E k \in Calls, h \in Handling :
              call[k] = Pages!Idle /\ call' = [call EXCEPT ![k] = h] /\ Begins(h)
         /\ overlap' = (overlap \/ Pages!Busy)
         /\ UNCHANGED <<stored, cache, invalid, fetch, page, form, stale>>
<1> DEFINE New(what, at, c) ==
      [kind |-> what, at |-> at, cfg |-> c, shown |-> form, live |-> TRUE]
<1>1. ASSUME NEW what, NEW at, NEW c, Pages!Click(what, at, c),
             New(what, at, c) \in Handling, Begins(New(what, at, c))
      PROVE  /\ \E k \in Calls, h \in Handling :
                  call[k] = Pages!Idle /\ call' = [call EXCEPT ![k] = h] /\ Begins(h)
             /\ overlap' = (overlap \/ Pages!Busy)
             /\ UNCHANGED <<stored, cache, invalid, fetch, page, form, stale>>
  BY <1>1 DEF Pages!Click
<1>2. CASE Pages!ClickSave
  <2>1. Pages!Click("save", "write", form) /\ Showing /\ form \in PageConfig
    BY <1>2, Distinct DEF Pages!ClickSave, PagesType, DataType, Showing
  <2>2. New("save", "write", form) \in Handling /\ Begins(New("save", "write", form))
    BY <2>1, Distinct DEF Handling, Underway, Staged, Begins
  <2> QED
    BY <1>1, <2>1, <2>2
<1>3. CASE Pages!ClickToggle
  <2>1. Pages!Click("toggle", "read", form) /\ Showing /\ form \in PageConfig
    BY <1>3, Distinct DEF Pages!ClickToggle, PagesType, DataType, Showing
  <2>2. New("toggle", "read", form) \in Handling /\ Begins(New("toggle", "read", form))
    BY <2>1, Distinct DEF Handling, Underway, Staged, Begins
  <2> QED
    BY <1>1, <2>1, <2>2
<1>4. CASE Pages!ClickRegenerate
  <2>1. Pages!Click("regenerate", "answer", form) /\ Showing /\ form \in PageConfig
    BY <1>4, Distinct DEF Pages!ClickRegenerate, PagesType, DataType, Showing
  <2>2. /\ New("regenerate", "answer", form) \in Handling
        /\ Begins(New("regenerate", "answer", form))
    BY <2>1, Distinct DEF Handling, Underway, Staged, Begins
  <2> QED
    BY <1>1, <2>1, <2>2
<1>5. CASE Pages!ClickWizard
  <2>1. ASSUME NEW what \in {"next", "finish", "skip"}, NEW at \in {"read", "mark"},
               NEW c \in PageConfig, what = "skip" <=> at = "mark"
        PROVE  New(what, at, c) \in Handling /\ Begins(New(what, at, c))
    BY <2>1, Distinct DEF Handling, Underway, Staged, Begins, PagesType, DataType, DataType
  <2>2. CASE Pages!Click("skip", "mark", Pages!Read)
    BY <1>1, <2>1, <2>2, ReadOf DEF PagesType, DataType
  <2>3. ASSUME NEW v \in Values, NEW what \in {"next", "finish"},
               Pages!Click(what, "read", [Pages!Read EXCEPT !.rest = v])
        PROVE  /\ \E k \in Calls, h \in Handling :
                    call[k] = Pages!Idle /\ call' = [call EXCEPT ![k] = h] /\ Begins(h)
               /\ overlap' = (overlap \/ Pages!Busy)
               /\ UNCHANGED <<stored, cache, invalid, fetch, page, form, stale>>
    <3>1. [Pages!Read EXCEPT !.rest = v] \in PageConfig
      BY ReadOf DEF PagesType, DataType, PageConfig
    <3> QED
      BY <1>1, <2>1, <2>3, <3>1
  <2> QED
    BY <1>5, <2>2, <2>3 DEF Pages!ClickWizard
<1> QED
  BY <1>2, <1>3, <1>4, <1>5

(* What a handler that has read the file means to write.                   *)
LEMMA Merges ==
  ASSUME PagesType, NEW k \in Handling, k.at \in {"read", "mark"}
  PROVE  /\ Pages!Merged(k) \in PageConfig
         /\ k.at = "mark" => Pages!Merged(k) = [Pages!Read EXCEPT !.done = TRUE]
         /\ k.at = "read" =>
              /\ k.kind \in {"toggle", "next", "finish"}
              /\ k.kind = "toggle" => Pages!Merged(k).on = ~k.shown.on
              /\ k.kind = "finish" => Pages!Merged(k).done
<1>1. /\ k.at = "read" => k.kind \in {"toggle", "next", "finish"}
      /\ k.kind = "toggle" => k.shown \in PageConfig
      /\ k.cfg \in PageConfig /\ Pages!Read \in PageConfig
  BY ReadOf DEF Handling, Underway, Staged, PagesType, DataType, DataType
<1>2. CASE k.at = "mark"
  BY <1>1, <1>2 DEF Pages!Merged, PageConfig
<1>3. CASE k.at = "read" /\ k.kind = "toggle"
  BY <1>1, <1>3 DEF Pages!Merged, PageConfig
<1>4. CASE k.at = "read" /\ k.kind = "next"
  BY <1>1, <1>4 DEF Pages!Merged, PageConfig
<1>5. CASE k.at = "read" /\ k.kind = "finish"
  BY <1>1, <1>5 DEF Pages!Merged, PageConfig
<1> QED
  BY <1>1, <1>2, <1>3, <1>4, <1>5

(* A step of the handler in place i: what it was and what it is now.       *)
Moves(i, k, h) == call[i] = k /\ k \in Handling /\ call' = [call EXCEPT ![i] = h]
Carries(k, h) == h \in Handling /\ h.kind = k.kind /\ h.shown = k.shown /\ h.live = k.live

LEMMA ReadsMoves ==
  ASSUME PagesType, NEW i \in Calls, Pages!Reads(i)
  PROVE  /\ \E k, h : /\ Moves(i, k, h) /\ Carries(k, h) /\ k.at \in {"read", "mark"}
                      /\ h.at = IF k.at = "read" THEN "write" ELSE "markwrite"
                      /\ h.cfg = Pages!Merged(k)
         /\ UNCHANGED <<stored, cache, invalid, fetch, page, form, stale, overlap>>
<1> DEFINE k == call[i]
           c == Pages!Merged(k)
           at == IF k.at = "read" THEN "write" ELSE "markwrite"
           h == [k EXCEPT !.cfg = c, !.at = at]
<1>1. k \in Handling /\ k.at \in {"read", "mark"}
  BY DEF Pages!Reads, PagesType, DataType, DataType
<1>2. call' = [call EXCEPT ![i] = h]
  BY DEF Pages!Reads
<1>3. c \in PageConfig
  BY <1>1, Merges
<1>4. at \in {"write", "markwrite"}
  OBVIOUS
<1>5. Staged(k)
  BY <1>1 DEF Handling
<1> HIDE DEF c, at
<1>6. /\ h \in Underway /\ (Staged(h) => h \in Handling)
      /\ h.at = at /\ h.kind = k.kind /\ h.cfg = c /\ h.shown = k.shown
      /\ h.live = k.live
  BY <1>1, <1>3, <1>4 DEF Handling, Underway
<1> HIDE DEF h
<1>7. Staged(h)
  BY <1>1, <1>5, <1>6 DEF Staged, at
<1>8. UNCHANGED <<stored, cache, invalid, fetch, page, form, stale, overlap>>
  BY DEF Pages!Reads
<1> QED
  BY <1>1, <1>2, <1>6, <1>7, <1>8 DEF Moves, Carries, at, c

LEMMA WritesMoves ==
  ASSUME PagesType, NEW i \in Calls, Pages!Writes(i)
  PROVE  /\ \E k, h :
              /\ Moves(i, k, h) /\ k.at = "write"
              /\ \/ stored' = Pages!Normalised(k.cfg) /\ Carries(k, h) /\ h.at = "answer" /\ h.cfg = k.cfg
                 \/ /\ stored' = stored /\ k.kind = "finish"
                    /\ Carries(k, h) /\ h.at = "mark"
                 \/ stored' = stored /\ h = Pages!Idle
         /\ UNCHANGED <<cache, invalid, fetch, page, form, stale, overlap>>
<1> DEFINE k == call[i]
           h(at) == [k EXCEPT !.at = at]
<1>1. k \in Handling /\ k.at = "write"
  BY DEF Pages!Writes, PagesType, DataType, DataType
<1>2. \/ stored' = Pages!Normalised(k.cfg) /\ call' = [call EXCEPT ![i] = h("answer")]
      \/ stored' = stored /\ k.kind = "finish" /\ call' = [call EXCEPT ![i] = h("mark")]
      \/ stored' = stored /\ call' = [call EXCEPT ![i] = Pages!Idle]
  BY DEF Pages!Writes
<1>3. ASSUME NEW at \in {"answer", "mark"}, at = "mark" => k.kind = "finish"
      PROVE  Carries(k, h(at)) /\ h(at).at = at /\ h(at).cfg = k.cfg
  <2>1. /\ h(at) \in Underway /\ (Staged(h(at)) => h(at) \in Handling)
        /\ h(at).at = at /\ h(at).kind = k.kind /\ h(at).cfg = k.cfg
        /\ h(at).shown = k.shown /\ h(at).live = k.live
    BY <1>1, <1>3 DEF Handling, Underway
  <2>2. Staged(k)
    BY <1>1 DEF Handling
  <2> HIDE DEF h
  <2>3. Staged(h(at))
    BY <1>1, <1>3, <2>1, <2>2 DEF Staged
  <2> QED
    BY <2>1, <2>3 DEF Carries
<1>4. Carries(k, h("answer")) /\ h("answer").at = "answer" /\ h("answer").cfg = k.cfg
  BY <1>3
<1>5. k.kind = "finish" => Carries(k, h("mark")) /\ h("mark").at = "mark"
  BY <1>3
<1>6. UNCHANGED <<cache, invalid, fetch, page, form, stale, overlap>>
  BY DEF Pages!Writes
<1> HIDE DEF h
<1> QED
  BY <1>1, <1>2, <1>4, <1>5, <1>6 DEF Moves

LEMMA MarkWritesMoves ==
  ASSUME PagesType, NEW i \in Calls, Pages!MarkWrites(i)
  PROVE  /\ \E k, h :
              /\ Moves(i, k, h) /\ k.at = "markwrite" /\ k.kind \in {"finish", "skip"}
              /\ \/ /\ stored' = Pages!Normalised(k.cfg) /\ k.kind = "skip" /\ stale' = stale
                    /\ Carries(k, h) /\ h.at = "answer"
                 \/ /\ stored' = Pages!Normalised(k.cfg) /\ k.kind = "finish" /\ h = Pages!Idle
                    /\ stale' = IF stored' # stored THEN "unannounced" ELSE stale
                 \/ stored' = stored /\ stale' = stale /\ h = Pages!Idle
         /\ UNCHANGED <<cache, invalid, fetch, page, form, overlap>>
<1> DEFINE k == call[i]
           h == [k EXCEPT !.at = "answer"]
<1>1. k \in Handling /\ k.at = "markwrite"
  BY DEF Pages!MarkWrites, PagesType, DataType, DataType
<1>2. k.kind \in {"finish", "skip"}
  BY <1>1 DEF Handling, Underway, Staged
<1>3. k.kind = "skip" => Carries(k, h) /\ h.at = "answer"
  <2>1. /\ h \in Underway /\ (Staged(h) => h \in Handling)
        /\ h.at = "answer" /\ h.kind = k.kind /\ h.shown = k.shown /\ h.live = k.live
    BY <1>1, CallMoves
  <2> HIDE DEF h
  <2>2. k.kind = "skip" => Staged(h)
    BY <2>1 DEF Staged
  <2> QED
    BY <2>1, <2>2 DEF Carries
<1>4. \/ /\ stored' = Pages!Normalised(k.cfg) /\ k.kind = "skip" /\ stale' = stale
         /\ call' = [call EXCEPT ![i] = h]
      \/ /\ stored' = Pages!Normalised(k.cfg) /\ k.kind = "finish" /\ call' = [call EXCEPT ![i] = Pages!Idle]
         /\ stale' = IF stored' # stored THEN "unannounced" ELSE stale
      \/ stored' = stored /\ stale' = stale /\ call' = [call EXCEPT ![i] = Pages!Idle]
  BY <1>2 DEF Pages!MarkWrites
<1>5. UNCHANGED <<cache, invalid, fetch, page, form, overlap>>
  BY DEF Pages!MarkWrites
<1> HIDE DEF h
<1> QED
  BY <1>1, <1>2, <1>3, <1>4, <1>5 DEF Moves

LEMMA AnsweredMoves ==
  ASSUME PagesType, NEW i \in Calls, Pages!Answered(i)
  PROVE  /\ \E k, h :
              /\ Moves(i, k, h) /\ k.at = "answer"
              /\ \/ k.kind = "save" /\ Pages!OnSaved(k.cfg) /\ h = Pages!Idle
                 \/ k.kind = "toggle" /\ Pages!OnToggled(k) /\ h = Pages!Idle
                 \/ k.kind = "regenerate" /\ Pages!OnRegenerated(k) /\ h = Pages!Idle
                 \/ /\ k.kind = "skip" /\ Pages!Invalidate /\ h = Pages!Idle
                    /\ UNCHANGED <<cache, form, stale>>
                 \/ k.kind = "next" /\ Pages!OnPersisted(k.cfg) /\ h = Pages!Idle
                 \/ /\ k.kind = "finish" /\ Pages!OnPersisted(k.cfg)
                    /\ Carries(k, h) /\ h.at = "mark"
         /\ UNCHANGED <<stored, page, overlap>>
<1> DEFINE k == call[i]
           h == [k EXCEPT !.at = "mark"]
<1>1. k \in Handling /\ k.at = "answer"
  BY DEF Pages!Answered, PagesType, DataType, DataType
<1>2. k.kind = "finish" => Carries(k, h) /\ h.at = "mark"
  <2>1. /\ h \in Underway /\ (Staged(h) => h \in Handling)
        /\ h.at = "mark" /\ h.kind = k.kind /\ h.shown = k.shown /\ h.live = k.live
    BY <1>1, CallMoves
  <2> HIDE DEF h
  <2>2. k.kind = "finish" => Staged(h)
    BY <2>1 DEF Staged
  <2> QED
    BY <2>1, <2>2 DEF Carries
<1>3. k.kind \in {"save", "toggle", "regenerate", "next", "finish", "skip"}
  BY <1>1 DEF Handling, Underway
<1>4. call' = [call EXCEPT ![i] = IF k.kind = "finish" THEN h ELSE Pages!Idle]
  BY DEF Pages!Answered
<1>5. /\ CASE k.kind = "save"   -> Pages!OnSaved(k.cfg)
           [] k.kind = "toggle" -> Pages!OnToggled(k)
           [] k.kind = "regenerate" -> Pages!OnRegenerated(k)
           [] k.kind = "skip"   -> Pages!Invalidate /\ UNCHANGED <<cache, form, stale>>
           [] OTHER -> Pages!OnPersisted(k.cfg)
      /\ UNCHANGED <<stored, page, overlap>>
  BY DEF Pages!Answered
<1> HIDE DEF h
<1>6. \/ k.kind = "save" /\ Pages!OnSaved(k.cfg)
      \/ k.kind = "toggle" /\ Pages!OnToggled(k)
      \/ k.kind = "regenerate" /\ Pages!OnRegenerated(k)
      \/ k.kind = "skip" /\ Pages!Invalidate /\ UNCHANGED <<cache, form, stale>>
      \/ k.kind \in {"next", "finish"} /\ Pages!OnPersisted(k.cfg)
  BY <1>3, <1>5
<1> QED
  BY <1>1, <1>2, <1>3, <1>4, <1>5, <1>6 DEF Moves

LEMMA PagesTypeStep ==
  ASSUME PagesType, Pages!Next
  PROVE  PagesType'
<1>1. DataType /\ call \in [Calls -> {Pages!Idle} \cup Handling]
  BY DEF PagesType
<1>2. ASSUME DataType', call' = call PROVE PagesType'
  BY <1>1, <1>2 DEF PagesType
<1>3. ASSUME NEW i \in Calls, NEW k, NEW h, Moves(i, k, h), DataType',
             h = Pages!Idle \/ h \in Handling
      PROVE  PagesType'
  BY <1>3, CallChanges DEF Moves, PagesType
<1>4. CASE Pages!Open
  <2>1. PICK p \in Pages!Pages \ {page} :
          /\ page' = p
          /\ form' = IF p \in Pages!Forms THEN cache ELSE NoConfig
          /\ fetch' = IF /\ p \in Pages!Forms /\ fetch = NoConfig
                         /\ cache = NoConfig \/ invalid
                        THEN AskedFor ELSE fetch
          /\ overlap' = (overlap \/ (fetch' # fetch /\ Pages!Busy))
    BY <1>4, Distinct DEF Pages!Open
  <2>2. /\ call' = [k \in Calls |-> IF call[k] = Pages!Idle THEN Pages!Idle
                                    ELSE [call[k] EXCEPT !.live = FALSE]]
        /\ UNCHANGED <<stored, cache, invalid, stale>>
    BY <1>4 DEF Pages!Open
  <2>3. DataType'
    BY <1>1, <2>1, <2>2, Distinct DEF DataType
  <2>4. ASSUME NEW k \in Calls, call[k] # Pages!Idle
        PROVE  [call[k] EXCEPT !.live = FALSE] \in Handling
    <3>1. call[k] \in Handling
      BY <1>1, <2>4
    <3> QED
      BY <3>1, CallLeft
  <2>5. call' \in [Calls -> {Pages!Idle} \cup Handling]
    BY <2>2, <2>4
  <2> QED
    BY <2>3, <2>5 DEF PagesType
<1>5. CASE Pages!FetchReads \/ Pages!FetchAnswers
  BY <1>1, <1>2, <1>5, ReadOf, Distinct
  DEF Pages!FetchReads, Pages!FetchAnswers, Pages!SetData, DataType
<1>6. CASE Pages!EditAccounts \/ Pages!EditSettings
  <2>1. /\ form # NoConfig /\ \E v \in Values : form' = [form EXCEPT !.rest = v]
        /\ UNCHANGED <<stored, cache, invalid, fetch, page, call, stale, overlap>>
    BY <1>6, Distinct DEF Pages!EditAccounts, Pages!EditSettings, Pages!SetForm
  <2>2. form' \in PageConfig
    BY <1>1, <2>1 DEF DataType, PageConfig
  <2> QED
    BY <1>1, <1>2, <2>1, <2>2 DEF DataType
<1>7. CASE Pages!ClickSave \/ Pages!ClickToggle \/ Pages!ClickRegenerate \/ Pages!ClickWizard
  <2>1. PICK k \in Calls, h \in Handling : call' = [call EXCEPT ![k] = h]
    BY <1>7, Clicks
  <2>2. DataType'
    BY <1>1, <1>7, Clicks DEF DataType
  <2> QED
    BY <2>1, <2>2, CallChanges DEF PagesType
<1>8. ASSUME NEW i \in Calls, Pages!Reads(i) PROVE PagesType'
  <2>1. PICK k, h : Moves(i, k, h) /\ Carries(k, h)
    BY <1>8, ReadsMoves
  <2>2. DataType'
    BY <1>1, <1>8, ReadsMoves DEF DataType
  <2> QED
    BY <1>3, <2>1, <2>2 DEF Carries
<1>9. ASSUME NEW i \in Calls, Pages!Writes(i) PROVE PagesType'
  <2>1. PICK k, h : /\ Moves(i, k, h) /\ (h = Pages!Idle \/ Carries(k, h))
                    /\ stored' \in {stored, Pages!Normalised(k.cfg)}
    BY <1>9, WritesMoves
  <2>2. stored' \in PageConfig
    BY <1>1, <2>1, Rewritten DEF DataType, Moves, Handling, Underway
  <2>3. DataType'
    BY <1>1, <1>9, <2>2, WritesMoves DEF DataType
  <2> QED
    BY <1>3, <2>1, <2>3 DEF Carries
<1>10. ASSUME NEW i \in Calls, Pages!MarkWrites(i) PROVE PagesType'
  <2>1. PICK k, h : /\ Moves(i, k, h) /\ (h = Pages!Idle \/ Carries(k, h))
                    /\ stored' \in {stored, Pages!Normalised(k.cfg)}
                    /\ stale' \in {stale, "unannounced"}
    BY <1>10, MarkWritesMoves
  <2>2. stored' \in PageConfig
    BY <1>1, <2>1, Rewritten DEF DataType, Moves, Handling, Underway
  <2>3. DataType'
    BY <1>1, <1>10, <2>1, <2>2, MarkWritesMoves DEF DataType
  <2> QED
    BY <1>3, <2>1, <2>3 DEF Carries
<1>11. ASSUME NEW i \in Calls, Pages!Answered(i) PROVE PagesType'
  <2>1. PICK k, h :
          /\ Moves(i, k, h) /\ (h = Pages!Idle \/ Carries(k, h))
          /\ \/ Pages!OnSaved(k.cfg)
             \/ k.kind = "toggle" /\ Pages!OnToggled(k)
             \/ k.kind = "regenerate" /\ Pages!OnRegenerated(k)
             \/ Pages!Invalidate /\ UNCHANGED <<cache, form, stale>>
             \/ Pages!OnPersisted(k.cfg)
    BY <1>11, AnsweredMoves
  <2>2. /\ k \in Handling /\ k.cfg \in PageConfig
        /\ k.kind \in {"toggle", "regenerate"} => k.shown \in PageConfig
    BY <2>1 DEF Moves, Handling, Underway, Staged
  <2>3. UNCHANGED <<stored, page, overlap>>
    BY <1>11, AnsweredMoves
  <2>4. Pages!SetData(k.cfg) =>
          /\ cache' \in PageConfig /\ form' \in PageConfig \cup {NoConfig}
          /\ stale' \in {"no", "late"}
    BY <1>1, <2>2 DEF Pages!SetData, DataType
  <2>5. Pages!Invalidate => invalid' = TRUE /\ fetch' \in {fetch, AskedFor}
    BY Distinct DEF Pages!Invalidate
  <2>6. CASE Pages!OnSaved(k.cfg)
    BY <1>1, <1>3, <2>1, <2>3, <2>4, <2>6 DEF Pages!OnSaved, DataType, Carries
  <2>7. CASE k.kind = "toggle" /\ Pages!OnToggled(k)
    <3>1. [k.shown EXCEPT !.on = ~@] \in PageConfig
      BY <2>2, <2>7 DEF PageConfig
    <3>2. form' \in PageConfig \cup {NoConfig}
      BY <1>1, <2>7, <3>1 DEF Pages!OnToggled, DataType
    <3> QED
      BY <1>1, <1>3, <2>1, <2>3, <2>5, <2>7, <3>2 DEF Pages!OnToggled, DataType, Carries
  <2>8. CASE k.kind = "regenerate" /\ Pages!OnRegenerated(k)
    <3>1. \A v \in Values : [k.shown EXCEPT !.rest = v] \in PageConfig
      BY <2>2, <2>8 DEF PageConfig
    <3>2. form' \in PageConfig \cup {NoConfig}
      BY <1>1, <2>8, <3>1 DEF Pages!OnRegenerated, DataType
    <3> QED
      BY <1>1, <1>3, <2>1, <2>3, <2>8, <3>2 DEF Pages!OnRegenerated, DataType, Carries
  <2>9. CASE Pages!Invalidate /\ UNCHANGED <<cache, form, stale>>
    BY <1>1, <1>3, <2>1, <2>3, <2>5, <2>9 DEF DataType, Carries
  <2>10. CASE Pages!OnPersisted(k.cfg)
    <3>1. invalid' = TRUE /\ fetch' \in {fetch, AskedFor}
      BY <2>10, Distinct DEF Pages!OnPersisted
    <3> QED
      BY <1>1, <1>3, <2>1, <2>3, <2>4, <2>10, <3>1 DEF Pages!OnPersisted, DataType, Carries
  <2> QED
    BY <2>1, <2>6, <2>7, <2>8, <2>9, <2>10
<1> QED
  BY <1>4, <1>5, <1>6, <1>7, <1>8, <1>9, <1>10, <1>11 DEF Pages!Next

LEMMA AnnouncedStep ==
  ASSUME PagesType, Announced, Pages!Next
  PROVE  Announced'
<1> DEFINE Says(k) == k \in Handling /\ k.at = "answer" /\ k.kind # "regenerate"
<1>1. /\ Announced <=> (cache # NoConfig /\ ~Pages!Agrees(cache) /\ ~invalid /\ stale = "no" =>
                          \E k \in Calls : Says(call[k]))
      /\ Announced' <=> (cache' # NoConfig /\ ~Pages!Agrees(cache)' /\ ~invalid' /\ stale' = "no" =>
                          \E k \in Calls : Says(call'[k]))
  BY DEF Announced
<1> HIDE DEF Says
<1>2. ASSUME UNCHANGED <<stored, cache, invalid, stale>>,
             \A k \in Calls : Says(call[k]) => Says(call'[k])
      PROVE  Announced'
  <2>1. Pages!Agrees(cache)' <=> Pages!Agrees(cache)
    BY <1>2 DEF Pages!Agrees, Pages!Read, Pages!Normalised
  <2> QED
    BY <1>1, <1>2, <2>1
<1>3. ASSUME NEW i \in Calls, NEW k, NEW h, Moves(i, k, h),
             h = Pages!Idle \/ h \in Handling, ~Says(k),
             UNCHANGED <<stored, cache, invalid, stale>>
      PROVE  Announced'
  <2>1. \A j \in Calls : j # i => call'[j] = call[j]
    BY <1>3, CallChanges DEF Moves
  <2>2. \A j \in Calls : Says(call[j]) => j # i
    BY <1>3 DEF Moves
  <2> QED
    BY <1>2, <1>3, <2>1, <2>2
<1>4. ASSUME NEW i \in Calls, NEW k, NEW h, Moves(i, k, h), h \in Handling, Says(h)
      PROVE  Announced'
  <2>1. call'[i] = h
    BY <1>4, CallChanges DEF Moves
  <2> QED
    BY <1>1, <1>4, <2>1
<1>5. Pages!Idle \notin Handling /\ ~Says(Pages!Idle)
  BY Distinct DEF Says
<1>6. CASE Pages!Open
  <2>1. /\ UNCHANGED <<stored, cache, invalid, stale>>
        /\ \A k \in Calls : call'[k] = IF call[k] = Pages!Idle THEN Pages!Idle
                                       ELSE [call[k] EXCEPT !.live = FALSE]
    BY <1>6 DEF Pages!Open
  <2>2. ASSUME NEW k \in Calls, Says(call[k]) PROVE Says(call'[k])
    <3>1. call[k] \in Handling /\ call[k] # Pages!Idle
      BY <1>5, <2>2 DEF Says
    <3>2. LET h == [call[k] EXCEPT !.live = FALSE]
          IN h \in Handling /\ h.at = call[k].at /\ h.kind = call[k].kind
      BY <3>1, CallLeft
    <3>3. call'[k] = [call[k] EXCEPT !.live = FALSE]
      BY <2>1, <3>1
    <3> QED
      BY <2>2, <3>2, <3>3 DEF Says
  <2> QED
    BY <1>2, <2>1, <2>2
<1>7. CASE Pages!FetchReads \/ Pages!EditAccounts \/ Pages!EditSettings
  BY <1>2, <1>7 DEF Pages!FetchReads, Pages!EditAccounts, Pages!EditSettings, Pages!SetForm
<1>8. ASSUME NEW c, Pages!SetData(c), stored' = stored PROVE Announced'
  <2>1. cache' = c /\ (stale' = "no" => Pages!Agrees(c))
    BY <1>8 DEF Pages!SetData
  <2>2. Pages!Agrees(cache)' <=> Pages!Agrees(c)
    BY <1>8, <2>1 DEF Pages!Agrees, Pages!Read, Pages!Normalised
  <2> QED
    BY <1>1, <2>1, <2>2
<1>9. CASE Pages!FetchAnswers
  BY <1>8, <1>9 DEF Pages!FetchAnswers
<1>10. CASE Pages!ClickSave \/ Pages!ClickToggle \/ Pages!ClickRegenerate \/ Pages!ClickWizard
  <2>1. PICK k \in Calls, h \in Handling :
          call[k] = Pages!Idle /\ call' = [call EXCEPT ![k] = h]
    BY <1>10, Clicks
  <2>2. \A j \in Calls : j # k => call'[j] = call[j]
    BY <2>1, CallChanges
  <2>3. \A j \in Calls : Says(call[j]) => Says(call'[j])
    BY <1>5, <2>1, <2>2
  <2>4. UNCHANGED <<stored, cache, invalid, stale>>
    BY <1>10, Clicks
  <2> QED
    BY <1>2, <2>3, <2>4
<1>11. ASSUME NEW i \in Calls, Pages!Reads(i) PROVE Announced'
  <2>1. PICK k, h : Moves(i, k, h) /\ Carries(k, h) /\ k.at \in {"read", "mark"}
    BY <1>11, ReadsMoves
  <2>2. UNCHANGED <<stored, cache, invalid, stale>>
    BY <1>11, ReadsMoves
  <2>3. ~Says(k)
    BY <2>1 DEF Says
  <2> QED
    BY <1>3, <2>1, <2>2, <2>3 DEF Carries
<1>12. ASSUME NEW i \in Calls, Pages!Writes(i) PROVE Announced'
  <2>1. PICK k, h :
          /\ Moves(i, k, h) /\ k.at = "write"
          /\ \/ Carries(k, h) /\ h.at = "answer"
             \/ stored' = stored /\ (h = Pages!Idle \/ Carries(k, h))
    BY <1>12, WritesMoves
  <2>2. UNCHANGED <<cache, invalid, stale>>
    BY <1>12, WritesMoves
  <2>3. CASE Carries(k, h) /\ h.at = "answer"
    <3>1. k.kind # "regenerate"
      BY <2>1 DEF Moves, Handling, Staged
    <3> QED
      BY <1>4, <2>1, <2>3, <3>1 DEF Carries, Says
  <2>4. CASE stored' = stored /\ (h = Pages!Idle \/ Carries(k, h))
    <3>1. ~Says(k)
      BY <2>1 DEF Says
    <3> QED
      BY <1>3, <2>1, <2>2, <2>4, <3>1 DEF Carries
  <2> QED
    BY <2>1, <2>3, <2>4
<1>13. ASSUME NEW i \in Calls, Pages!MarkWrites(i) PROVE Announced'
  <2>1. PICK k, h :
          /\ Moves(i, k, h) /\ k.at = "markwrite"
          /\ \/ Carries(k, h) /\ h.at = "answer" /\ k.kind = "skip"
             \/ h = Pages!Idle /\ stale' = (IF stored' # stored THEN "unannounced" ELSE stale)
             \/ h = Pages!Idle /\ stored' = stored /\ stale' = stale
    BY <1>13, MarkWritesMoves
  <2>2. UNCHANGED <<cache, invalid>>
    BY <1>13, MarkWritesMoves
  <2>3. CASE Carries(k, h) /\ h.at = "answer" /\ k.kind = "skip"
    BY <1>4, <2>1, <2>3 DEF Carries, Says
  <2>4. CASE h = Pages!Idle /\ stored' = stored /\ stale' = stale
    <3>1. ~Says(k)
      BY <2>1 DEF Says
    <3> QED
      BY <1>3, <2>1, <2>2, <2>4, <3>1
  <2>5. CASE stale' = "unannounced"
    BY <1>1, <2>5
  <2> QED
    BY <2>1, <2>3, <2>4, <2>5
<1>14. ASSUME NEW i \in Calls, Pages!Answered(i) PROVE Announced'
  <2>1. PICK k, h :
          /\ Moves(i, k, h) /\ (h = Pages!Idle \/ Carries(k, h))
          /\ \/ Pages!OnSaved(k.cfg)
             \/ Pages!OnToggled(k)
             \/ k.kind = "regenerate" /\ Pages!OnRegenerated(k)
             \/ Pages!Invalidate
             \/ Pages!OnPersisted(k.cfg)
    BY <1>14, AnsweredMoves
  <2>2. stored' = stored
    BY <1>14, AnsweredMoves
  <2>3. CASE Pages!OnSaved(k.cfg) \/ Pages!OnPersisted(k.cfg)
    BY <1>8, <2>2, <2>3 DEF Pages!OnSaved, Pages!OnPersisted
  <2>4. CASE Pages!OnToggled(k) \/ Pages!Invalidate
    BY <1>1, <2>4 DEF Pages!OnToggled, Pages!Invalidate
  <2>5. CASE k.kind = "regenerate" /\ Pages!OnRegenerated(k)
    <3>1. ~Says(k)
      BY <2>5 DEF Says
    <3> QED
      BY <1>3, <2>1, <2>2, <2>5, <3>1 DEF Carries, Pages!OnRegenerated
  <2> QED
    BY <2>1, <2>3, <2>4, <2>5
<1> QED
  BY <1>6, <1>7, <1>9, <1>10, <1>11, <1>12, <1>13, <1>14 DEF Pages!Next

(* The handler that moves is the only one.                                 *)
LEMMA Sole ==
  ASSUME PagesType, AloneInv, NEW i \in Calls, NEW k, NEW h, Moves(i, k, h),
         h = Pages!Idle \/ h \in Handling
  PROVE  /\ Alone(k) /\ ~Toggled
         /\ h = Pages!Idle => \A j \in Calls : ~Active(j)'
         /\ (h \in Handling => Alone(h)') =>
              OneAtATime' /\ \A j \in Calls : Active(j)' => Alone(call[j])'
<1>1. Active(i) /\ call[i] = k
  BY Distinct DEF Moves, Active
<1>2. Alone(k) /\ ~Toggled
  BY <1>1 DEF AloneInv, Toggled
<1>3. \A j \in Calls : j # i => call[j] = Pages!Idle
  BY <1>1 DEF AloneInv, OneAtATime, Active
<1>4. \A j \in Calls : call'[j] = IF j = i THEN h ELSE call[j]
  BY CallChanges DEF Moves
<1>5. \A j \in Calls : Active(j)' => j = i /\ h \in Handling
  BY <1>3, <1>4 DEF Active
<1>6. OneAtATime'
  BY <1>5 DEF OneAtATime
<1>7. ASSUME h \in Handling => Alone(h)', NEW j \in Calls, Active(j)'
      PROVE  Alone(call[j])'
  <2>1. j = i /\ h \in Handling
    BY <1>5, <1>7
  <2>2. call'[j] = h
    BY <1>4, <2>1
  <2>3. Alone(h)'
    BY <1>7, <2>1
  <2> QED
    BY <2>2, <2>3 DEF Alone, Showing
<1>8. h = Pages!Idle => \A j \in Calls : ~Active(j)'
  BY <1>5, Distinct
<1> QED
  BY <1>2, <1>6, <1>7, <1>8

(* New data that agrees with the file leaves the form on show over it.     *)
LEMMA DataIsShown ==
  ASSUME PagesType, FormFollows, NEW c \in PageConfig, Pages!Agrees(c),
         Pages!SetData(c), page' = page, stored' = stored
  PROVE  FormFollows' /\ stale' = "no"
<1>1. /\ cache' = c /\ stale' = "no"
      /\ form' = IF Showing /\ c # cache THEN c ELSE form
  BY Distinct DEF Pages!SetData, Showing
<1>2. c # NoConfig /\ c.on = stored.on
  BY Agreed, Distinct DEF PagesType, DataType
<1>3. CASE Showing /\ c # cache
  <2>1. FormMatches'
    BY <1>1, <1>3 DEF FormMatches
  <2> QED
    BY <1>1, <1>2, <1>3, <2>1 DEF FormFollows, Showing
<1>4. CASE ~(Showing /\ c # cache)
  BY <1>1, <1>2, <1>4 DEF FormFollows, FormMatches, Toggled, Showing
<1> QED
  BY <1>1, <1>3, <1>4

(* What was read of the file agrees with it still when it was stored as it *)
(* was read.                                                               *)
LEMMA StoredAsRead ==
  ASSUME NEW c, fetch = c, fetch' = fetch, stored' = Pages!Normalised(c)
  PROVE  Pages!Agrees(fetch)'
BY DEF Pages!Agrees, Pages!Normalised

(* What the file is read as is what it was while it is left alone.         *)
LEMMA ReadKept ==
  ASSUME stored' = stored
  PROVE  Pages!Read' = Pages!Read
BY DEF Pages!Read, Pages!Normalised

LEMMA FetchKept ==
  ASSUME stored' = stored, fetch' = fetch
  PROVE  Pages!Agrees(fetch)' <=> Pages!Agrees(fetch)
BY DEF Pages!Agrees, Pages!Read, Pages!Normalised

LEMMA AloneStep ==
  ASSUME PagesType, PagesType', Announced, AloneInv, Pages!Next, ~overlap, ~overlap'
  PROVE  AloneInv'
<1>1. /\ stored \in PageConfig /\ stored # NoConfig /\ AskedFor \notin PageConfig
      /\ fetch \in PageConfig \cup {NoConfig, AskedFor} /\ AskedFor # NoConfig
      /\ NoConfig \notin PageConfig
  BY Distinct DEF PagesType, DataType
<1>2. OneAtATime /\ FormFollows /\ FetchIsFresh /\ \A k \in Calls : Active(k) => Alone(call[k])
  BY DEF AloneInv
<1>3. ASSUME FormFollows', FetchIsFresh', OneAtATime',
             \A k \in Calls : Active(k)' => Alone(call[k])'
      PROVE  AloneInv'
  BY <1>3 DEF AloneInv
(* A page is opened: what it shows is the cache.                           *)
<1>4. CASE Pages!Open
  <2>1. PICK p \in Pages!Pages \ {page} :
          /\ page' = p
          /\ form' = IF p \in Pages!Forms THEN cache ELSE NoConfig
          /\ fetch' = IF /\ p \in Pages!Forms /\ fetch = NoConfig
                         /\ cache = NoConfig \/ invalid
                        THEN AskedFor ELSE fetch
          /\ overlap' = (overlap \/ (fetch' # fetch /\ Pages!Busy))
          /\ call' = [k \in Calls |-> IF call[k] = Pages!Idle THEN Pages!Idle
                                      ELSE [call[k] EXCEPT !.live = FALSE]]
    BY <1>4, Distinct DEF Pages!Open
  <2>2. UNCHANGED <<stored, cache, invalid, stale>>
    BY <1>4 DEF Pages!Open
  <2>3. fetch' = fetch \/ (\A k \in Calls : ~Active(k))
    BY <2>1 DEF Pages!Busy, Active
  <2>4. FormFollows'
    <3>1. form' # NoConfig => Showing' /\ cache' # NoConfig /\ form' = cache'
      BY <2>1, <2>2, Distinct DEF Showing
    <3> QED
      BY <3>1 DEF FormFollows, FormMatches
  <2>5. FetchIsFresh'
    <3>1. fetch' \in PageConfig => fetch' = fetch
      BY <1>1, <2>1
    <3> QED
      BY <1>1, <1>2, <2>1, <2>2, <3>1, FetchKept, Distinct DEF FetchIsFresh, Showing
  <2>6. ASSUME NEW k \in Calls, Active(k)'
        PROVE  Active(k) /\ Alone(call[k])'
    <3>1. call[k] # Pages!Idle
      BY <2>1, <2>6 DEF Active
    <3>2. Active(k) /\ Alone(call[k]) /\ call[k] \in Handling /\ fetch' = fetch
      BY <1>2, <2>3, <3>1 DEF Active, PagesType
    <3> DEFINE h == [call[k] EXCEPT !.live = FALSE]
    <3>3. /\ h \in Handling /\ ~h.live /\ h.at = call[k].at /\ h.kind = call[k].kind
          /\ h.cfg = call[k].cfg /\ h.shown = call[k].shown
      BY <3>2, CallLeft
    <3>4. call'[k] = h
      BY <2>1, <3>1
    <3> HIDE DEF h
    <3>5. Alone(call[k])'
      BY <2>2, <3>2, <3>3, <3>4, ReadKept DEF Alone, Pages!Normalised
    <3> QED
      BY <3>2, <3>5
  <2>7. OneAtATime'
    BY <1>2, <2>6 DEF OneAtATime
  <2> QED
    BY <1>3, <2>4, <2>5, <2>6, <2>7
(* The fetch reads the file as it is, and answers before it changes.       *)
<1>5. CASE Pages!FetchReads
  <2>1. /\ fetch = AskedFor /\ fetch' = Pages!Read
        /\ UNCHANGED <<stored, cache, invalid, page, form, call, stale>>
    BY <1>5, Distinct DEF Pages!FetchReads
  <2>2. Pages!Read \in PageConfig /\ Pages!Agrees(Pages!Read) /\ Pages!Read' = Pages!Read
    BY <1>1, <2>1, ReadOf, ReadKept
  <2>3. Pages!Agrees(fetch)'
    BY <2>1, <2>2 DEF Pages!Agrees
  <2>4. FormFollows' /\ FetchIsFresh'
    <3>1. fetch' # NoConfig
      BY <1>1, <2>1, <2>2
    <3>2. FetchIsFresh'
      BY <1>2, <2>1, <2>3, <3>1 DEF FetchIsFresh, Showing
    <3>3. FormFollows'
      BY <1>1, <1>2, <2>1, <3>1 DEF FormFollows, FormMatches, Toggled, Showing, Active
    <3> QED
      BY <3>2, <3>3
  <2>5. OneAtATime' /\ \A k \in Calls : Active(k)' => Alone(call[k])'
    BY <1>1, <1>2, <2>1, <2>2 DEF OneAtATime, Active, Alone, Showing, Pages!Normalised
  <2> QED
    BY <1>3, <2>4, <2>5
<1>6. CASE Pages!FetchAnswers
  <2>1. /\ fetch # NoConfig /\ fetch \in PageConfig /\ Pages!Agrees(fetch)
        /\ Pages!SetData(fetch) /\ invalid' = FALSE /\ fetch' = NoConfig
        /\ UNCHANGED <<stored, page, call>>
    BY <1>1, <1>2, <1>6, Distinct DEF Pages!FetchAnswers, FetchIsFresh
  <2>2. FormFollows' /\ stale' = "no"
    BY <1>2, <2>1, DataIsShown
  <2>3. FetchIsFresh'
    BY <1>1, <2>1, <2>2 DEF FetchIsFresh
  <2>4. ASSUME NEW k \in Calls, Active(k)' PROVE Alone(call[k])'
    <3>1. Active(k) /\ Alone(call[k]) /\ call'[k] = call[k]
      BY <1>2, <2>1, <2>4 DEF Active
    <3>2. call[k].kind = "finish" /\ call[k].at \in {"mark", "markwrite"}
      BY <2>1, <3>1 DEF Alone
    <3> QED
      BY <1>1, <2>1, <3>1, <3>2, ReadKept DEF Alone
  <2>5. OneAtATime'
    BY <1>2, <2>1 DEF OneAtATime, Active
  <2> QED
    BY <1>3, <2>2, <2>3, <2>4, <2>5
<1>7. CASE Pages!EditAccounts \/ Pages!EditSettings
  <2>1. /\ form # NoConfig /\ \E v \in Values : form' = [form EXCEPT !.rest = v]
        /\ UNCHANGED <<stored, cache, invalid, fetch, page, call, stale>>
    BY <1>7, Distinct DEF Pages!EditAccounts, Pages!EditSettings, Pages!SetForm
  <2>2. form'.on = form.on /\ form'.done = form.done
    BY <2>1 DEF PagesType, DataType, PageConfig
  <2>3. FormFollows' /\ FetchIsFresh'
    BY <1>2, <2>1, <2>2, FetchKept
    DEF FormFollows, FormMatches, Toggled, FetchIsFresh, Showing, Active
  <2>4. OneAtATime'
    BY <1>2, <2>1 DEF OneAtATime, Active
  <2>5. ASSUME NEW k \in Calls, Active(k)' PROVE Alone(call[k])'
    <3>1. Alone(call[k]) /\ Pages!Read' = Pages!Read
      BY <1>2, <2>1, <2>5, ReadKept DEF Active
    <3> QED
      BY <2>1, <3>1 DEF Alone, Showing, Pages!Normalised
  <2> QED
    BY <1>3, <2>3, <2>4, <2>5
(* A handler begins while nothing is under way, so that its form is of the *)
(* file as it is.                                                          *)
<1>8. CASE Pages!ClickSave \/ Pages!ClickToggle \/ Pages!ClickRegenerate \/ Pages!ClickWizard
  <2>1. PICK i \in Calls, h \in Handling : call' = [call EXCEPT ![i] = h] /\ Begins(h)
    BY <1>8, Clicks
  <2>2. /\ UNCHANGED <<stored, cache, invalid, fetch, page, form, stale>>
        /\ ~Pages!Busy
    BY <1>8, Clicks
  <2>3. fetch = NoConfig /\ \A k \in Calls : call[k] = Pages!Idle
    BY <2>2, Distinct DEF Pages!Busy
  <2>4. \A k \in Calls : call'[k] = IF k = i THEN h ELSE Pages!Idle
    BY <2>1, <2>3, CallChanges
  <2>5. ~Toggled /\ ~Toggled' /\ (form # NoConfig => Showing /\ cache # NoConfig /\ FormMatches)
    BY <1>2, <2>2, <2>3 DEF FormFollows, Toggled
  <2>6. Showing => ~invalid
    BY <1>2, <2>3 DEF FetchIsFresh
  <2>7. ~\E k \in Calls : call[k] \in Handling
    BY <2>3, Distinct
  <2>8. Showing /\ cache # NoConfig /\ stale # "unannounced" =>
          cache.on = stored.on /\ cache.done = stored.done
    <3>1. stale # "unannounced" => stale = "no"
      BY <1>2 DEF FetchIsFresh, PagesType, DataType
    <3> QED
      BY <2>6, <2>7, <3>1, Agreed DEF Announced, PagesType, DataType
  <2>9. Alone(h)'
    <3>1. h.at \notin {"answer", "write", "markwrite"} \/ h.kind \in {"save", "regenerate"}
      BY <2>1 DEF Begins
    <3>2. h.kind = "save" => h.at = "write" /\ h.cfg = form /\ Showing /\ form # NoConfig
      BY <2>1 DEF Begins
    <3>3. h.kind \in {"toggle", "regenerate"} => h.shown = form /\ Showing /\ form # NoConfig
      BY <2>1 DEF Begins
    <3>4. h.kind = "regenerate" => h.at = "answer"
      BY <2>1 DEF Begins
    <3> QED
      BY <1>1, <2>2, <2>3, <2>5, <2>8, <3>1, <3>2, <3>3, <3>4
      DEF Alone, FormMatches, Showing
  <2>10. FormFollows' /\ FetchIsFresh'
    <3>1. FetchIsFresh'
      BY <1>2, <2>2, FetchKept DEF FetchIsFresh, Showing
    <3>2. FormFollows'
      BY <2>2, <2>5 DEF FormFollows, FormMatches, Showing
    <3> QED
      BY <3>1, <3>2
  <2>11. OneAtATime' /\ \A k \in Calls : Active(k)' => Alone(call[k])'
    <3>1. OneAtATime'
      BY <2>4 DEF OneAtATime, Active
    <3>2. ASSUME NEW k \in Calls, Active(k)' PROVE Alone(call[k])'
      <4>1. call'[k] = h
        BY <2>4, <3>2 DEF Active
      <4> QED
        BY <2>9, <4>1 DEF Alone, Showing
    <3> QED
      BY <3>1, <3>2
  <2> QED
    BY <1>3, <2>10, <2>11
(* A handler on its way leaves the cache and the form as they are.         *)
<1>9. ASSUME ~Toggled, UNCHANGED <<cache, form, page>> PROVE FormFollows'
  BY <1>2, <1>9 DEF FormFollows, FormMatches, Showing
<1>10. ASSUME NEW i \in Calls, Pages!Reads(i) PROVE AloneInv'
  <2>1. PICK k, h : /\ Moves(i, k, h) /\ Carries(k, h) /\ k.at \in {"read", "mark"}
                    /\ h.at = IF k.at = "read" THEN "write" ELSE "markwrite"
                    /\ h.cfg = Pages!Merged(k)
    BY <1>10, ReadsMoves
  <2>2. UNCHANGED <<stored, cache, invalid, fetch, page, form, stale>>
    BY <1>10, ReadsMoves
  <2>3. /\ Alone(k) /\ ~Toggled
        /\ Alone(h)' => OneAtATime' /\ \A j \in Calls : Active(j)' => Alone(call[j])'
    BY <2>1, Sole DEF Carries
  <2>4. k \in Handling /\ k.kind # "save"
    BY <2>1 DEF Moves, Handling, Staged
  <2>5. /\ k.at = "mark" => Pages!Merged(k) = [Pages!Read EXCEPT !.done = TRUE]
        /\ k.at = "read" /\ k.kind = "toggle" => Pages!Merged(k).on = ~k.shown.on
        /\ k.at = "read" /\ k.kind = "finish" => Pages!Merged(k).done
    BY <2>1, <2>4, Merges
  <2>6. h.kind = k.kind /\ h.shown = k.shown /\ h.live = k.live
    BY <2>1 DEF Carries
  <2>7. Alone(h)'
    BY <2>1, <2>2, <2>3, <2>4, <2>5, <2>6, ReadKept DEF Alone, Showing
  <2>8. FormFollows' /\ FetchIsFresh'
    BY <1>2, <1>9, <2>2, <2>3, FetchKept DEF FetchIsFresh, Showing
  <2> QED
    BY <1>3, <2>3, <2>7, <2>8
<1>11. ASSUME NEW i \in Calls, Pages!Writes(i) PROVE AloneInv'
  <2>1. PICK k, h :
          /\ Moves(i, k, h) /\ k.at = "write"
          /\ \/ stored' = Pages!Normalised(k.cfg) /\ Carries(k, h) /\ h.at = "answer" /\ h.cfg = k.cfg
             \/ /\ stored' = stored /\ k.kind = "finish"
                /\ Carries(k, h) /\ h.at = "mark"
             \/ stored' = stored /\ h = Pages!Idle
    BY <1>11, WritesMoves
  <2>2. UNCHANGED <<cache, invalid, fetch, page, form, stale>>
    BY <1>11, WritesMoves
  <2>3. /\ Alone(k) /\ ~Toggled
        /\ (h \in Handling => Alone(h)') =>
             OneAtATime' /\ \A j \in Calls : Active(j)' => Alone(call[j])'
    BY <2>1, Sole DEF Carries
  <2>4. fetch = NoConfig
    BY <2>1, <2>3 DEF Alone
  <2>5. ASSUME h \in Handling PROVE Alone(h)'
    <3>1. Carries(k, h)
      BY <2>1, <2>5, Distinct
    <3>2. h.kind = k.kind /\ h.shown = k.shown /\ h.live = k.live
      BY <3>1 DEF Carries
    <3>3. h # Pages!Idle
      BY <2>5, Distinct
    <3>4. CASE stored' = Pages!Normalised(k.cfg) /\ h.at = "answer" /\ h.cfg = k.cfg
      <4>1. k.cfg \in PageConfig
        BY <2>1 DEF Moves, Handling, Underway
      <4>2. stored'.on = k.cfg.on /\ stored' = Pages!Normalised(h.cfg)'
        BY <3>4, <4>1, Rewritten DEF Pages!Normalised
      <4> QED
        BY <1>1, <2>1, <2>2, <2>3, <2>4, <3>2, <3>4, <4>2 DEF Alone, Showing
    <3>5. CASE k.kind = "finish" /\ h.at = "mark"
      BY <1>1, <2>2, <2>4, <3>2, <3>5 DEF Alone
    <3> QED
      BY <2>1, <3>3, <3>4, <3>5
  <2>6. FormFollows' /\ FetchIsFresh'
    BY <1>1, <1>2, <1>9, <2>2, <2>3, <2>4 DEF FetchIsFresh, Showing
  <2> QED
    BY <1>3, <2>3, <2>5, <2>6
(* The mark changes nothing that a fetch could have missed.                *)
<1>12. ASSUME NEW i \in Calls, Pages!MarkWrites(i) PROVE AloneInv'
  <2>1. PICK k, h :
          /\ Moves(i, k, h) /\ k.at = "markwrite" /\ k.kind \in {"finish", "skip"}
          /\ \/ /\ stored' = Pages!Normalised(k.cfg) /\ k.kind = "skip" /\ stale' = stale
                /\ Carries(k, h) /\ h.at = "answer"
             \/ /\ stored' = Pages!Normalised(k.cfg) /\ k.kind = "finish" /\ h = Pages!Idle
                /\ stale' = IF stored' # stored THEN "unannounced" ELSE stale
             \/ stored' = stored /\ stale' = stale /\ h = Pages!Idle
    BY <1>12, MarkWritesMoves
  <2>2. UNCHANGED <<cache, invalid, fetch, page, form>>
    BY <1>12, MarkWritesMoves
  <2>3. /\ Alone(k) /\ ~Toggled
        /\ (h \in Handling => Alone(h)') =>
             OneAtATime' /\ \A j \in Calls : Active(j)' => Alone(call[j])'
    BY <2>1, Sole DEF Carries
  <2>4. /\ k.cfg = [Pages!Read EXCEPT !.done = TRUE]
        /\ fetch # NoConfig => k.kind = "finish" /\ stored.done
        /\ fetch \in PageConfig => fetch = Pages!Read
    BY <2>1, <2>3 DEF Alone
  <2>5. fetch \in PageConfig => Pages!Agrees(fetch)'
    <3> SUFFICES ASSUME fetch \in PageConfig PROVE Pages!Agrees(fetch)'
      OBVIOUS
    <3>1. Pages!Read \in PageConfig /\ Pages!Read.done
      BY <1>1, <2>4, ReadOf
    <3>2. k.cfg = fetch
      BY <2>4, <3>1 DEF PageConfig
    <3>3. CASE stored' = Pages!Normalised(k.cfg)
      BY <2>2, <3>2, <3>3, StoredAsRead
    <3>4. CASE stored' = stored
      BY <1>2, <2>2, <3>4, FetchKept DEF FetchIsFresh
    <3> QED
      BY <2>1, <3>3, <3>4
  <2>6. ASSUME h \in Handling PROVE Alone(h)'
    <3>1. h.kind = "skip" /\ h.at = "answer" /\ fetch = NoConfig
      BY <2>1, <2>4, <2>6, Distinct DEF Carries
    <3> QED
      BY <1>1, <2>2, <3>1 DEF Alone
  <2>7. FormFollows' /\ FetchIsFresh'
    <3>1. stale' # "late"
      BY <1>2, <2>1 DEF FetchIsFresh
    <3>2. FetchIsFresh'
      BY <1>1, <1>2, <2>2, <2>5, <3>1 DEF FetchIsFresh, Showing
    <3> QED
      BY <1>9, <2>2, <2>3, <3>2
  <2> QED
    BY <1>3, <2>3, <2>6, <2>7
(* The answers: what they tell the cache is what the file holds.           *)
<1>13. ASSUME NEW i \in Calls, Pages!Answered(i) PROVE AloneInv'
  <2>1. PICK k, h :
          /\ Moves(i, k, h) /\ k.at = "answer"
          /\ \/ k.kind = "save" /\ Pages!OnSaved(k.cfg) /\ h = Pages!Idle
             \/ k.kind = "toggle" /\ Pages!OnToggled(k) /\ h = Pages!Idle
             \/ k.kind = "regenerate" /\ Pages!OnRegenerated(k) /\ h = Pages!Idle
             \/ /\ k.kind = "skip" /\ Pages!Invalidate /\ h = Pages!Idle
                /\ UNCHANGED <<cache, form, stale>>
             \/ k.kind = "next" /\ Pages!OnPersisted(k.cfg) /\ h = Pages!Idle
             \/ /\ k.kind = "finish" /\ Pages!OnPersisted(k.cfg)
                /\ Carries(k, h) /\ h.at = "mark"
    BY <1>13, AnsweredMoves
  <2>2. stored' = stored /\ page' = page /\ (Showing <=> page \in Pages!Forms)
    BY <1>13, AnsweredMoves, Distinct DEF Showing
  <2>3. /\ Alone(k) /\ ~Toggled
        /\ h = Pages!Idle => \A j \in Calls : ~Active(j)'
        /\ (h \in Handling => Alone(h)') =>
             OneAtATime' /\ \A j \in Calls : Active(j)' => Alone(call[j])'
    BY <2>1, Sole DEF Carries
  <2>4. fetch = NoConfig
    BY <2>1, <2>3 DEF Alone
  <2>5. ASSUME FormFollows', FetchIsFresh', h = Pages!Idle PROVE AloneInv'
    BY <1>3, <2>3, <2>5, Distinct
  <2>12. k.kind \in {"save", "next", "finish"} =>
           /\ k.cfg \in PageConfig /\ Pages!Agrees(k.cfg)
           /\ stored.done = k.cfg.done
    <3>1. k.cfg \in PageConfig
      BY <2>1 DEF Moves, Handling, Underway
    <3>2. k.kind \in {"save", "next", "finish"} => Pages!Agrees(k.cfg)
      BY <2>1, <2>3 DEF Alone, Pages!Agrees
    <3> QED
      BY <1>1, <3>1, <3>2, Agreed
  <2>6. CASE k.kind = "save" /\ Pages!OnSaved(k.cfg) /\ h = Pages!Idle
    <3>1. Pages!SetData(k.cfg) /\ invalid' = FALSE /\ fetch' = fetch
      BY <2>6 DEF Pages!OnSaved
    <3>2. FormFollows' /\ stale' = "no"
      BY <1>2, <2>2, <2>6, <2>12, <3>1, DataIsShown
    <3>3. FetchIsFresh'
      BY <1>1, <2>4, <3>1, <3>2 DEF FetchIsFresh
    <3> QED
      BY <2>5, <2>6, <3>2, <3>3
  <2>7. CASE k.kind \in {"next", "finish"} /\ Pages!OnPersisted(k.cfg)
    <3>1. /\ Pages!SetData(k.cfg) /\ invalid' = TRUE
          /\ fetch' = IF Showing THEN AskedFor ELSE NoConfig
      BY <2>2, <2>4, <2>7, Distinct DEF Pages!OnPersisted
    <3>2. FormFollows' /\ stale' = "no"
      BY <1>2, <2>2, <2>7, <2>12, <3>1, DataIsShown
    <3>3. FetchIsFresh'
      BY <1>1, <2>2, <3>1, <3>2 DEF FetchIsFresh, Showing
    <3>4. CASE k.kind = "next"
      BY <2>1, <2>5, <3>2, <3>3, <3>4
    <3>5. CASE k.kind = "finish"
      <4>1. h.kind = "finish" /\ h.at = "mark" /\ stored'.done
        BY <2>1, <2>2, <2>3, <2>12, <3>5 DEF Carries, Alone
      <4>2. fetch' \notin PageConfig
        BY <1>1, <3>1
      <4>3. Alone(h)'
        BY <4>1, <4>2 DEF Alone
      <4> QED
        BY <1>3, <2>3, <3>2, <3>3, <4>3
    <3> QED
      BY <2>7, <3>4, <3>5
  <2>8. ASSUME Pages!Invalidate, UNCHANGED <<cache, stale>>
        PROVE  /\ FetchIsFresh' /\ invalid'
               /\ Showing => fetch' # NoConfig
    <3>1. invalid' = TRUE /\ fetch' = IF Showing THEN AskedFor ELSE NoConfig
      BY <2>2, <2>4, <2>8, Distinct DEF Pages!Invalidate
    <3> QED
      BY <1>1, <1>2, <2>2, <2>8, <3>1 DEF FetchIsFresh, Showing
  <2>9. CASE k.kind = "toggle" /\ Pages!OnToggled(k) /\ h = Pages!Idle
    <3>1. /\ Pages!Invalidate /\ UNCHANGED <<cache, stale>>
          /\ form' = IF k.live THEN [k.shown EXCEPT !.on = ~@] ELSE form
      BY <2>9 DEF Pages!OnToggled
    <3>2. CASE k.live
      <4>1. /\ Showing /\ cache # NoConfig /\ k.shown.on = cache.on
            /\ stored.on = ~k.shown.on
        BY <2>1, <2>3, <2>9, <3>2 DEF Alone
      <4>2. cache.on # stored.on
        BY <4>1
      <4>3. Toggled'
        BY <2>2, <2>3, <2>8, <2>9, <3>1, <4>1, <4>2 DEF Toggled
      <4>4. FormFollows'
        BY <2>2, <3>1, <4>1, <4>3 DEF FormFollows, Showing
      <4> QED
        BY <2>5, <2>8, <2>9, <3>1, <4>4
    <3>3. CASE ~k.live
      BY <1>9, <2>2, <2>3, <2>5, <2>8, <2>9, <3>1, <3>3
    <3> QED
      BY <3>2, <3>3
  <2>10. CASE /\ k.kind = "skip" /\ Pages!Invalidate /\ h = Pages!Idle
              /\ UNCHANGED <<cache, form, stale>>
    BY <1>9, <2>2, <2>3, <2>5, <2>8, <2>10
  <2>11. CASE k.kind = "regenerate" /\ Pages!OnRegenerated(k) /\ h = Pages!Idle
    <3>1. /\ UNCHANGED <<cache, stale, invalid, fetch>>
          /\ \/ form' = form
             \/ k.live /\ \E v \in Values : form' = [k.shown EXCEPT !.rest = v]
      BY <2>11 DEF Pages!OnRegenerated
    <3>2. FetchIsFresh'
      BY <1>2, <2>2, <3>1, FetchKept DEF FetchIsFresh, Showing
    <3>3. CASE form' = form
      BY <1>9, <2>2, <2>3, <2>5, <2>11, <3>1, <3>2, <3>3
    <3>4. CASE k.live /\ \E v \in Values : form' = [k.shown EXCEPT !.rest = v]
      <4>1. /\ Showing /\ cache # NoConfig
            /\ k.shown.on = cache.on /\ k.shown.done = cache.done
        BY <2>3, <2>11, <3>4 DEF Alone
      <4>2. k.shown \in PageConfig
        BY <2>1, <2>11 DEF Moves, Handling, Staged
      <4>3. form'.on = k.shown.on /\ form'.done = k.shown.done
        BY <3>4, <4>2 DEF PageConfig
      <4>4. FormFollows'
        BY <2>2, <3>1, <4>1, <4>3 DEF FormFollows, FormMatches, Showing
      <4> QED
        BY <2>5, <2>11, <3>2, <4>4
    <3> QED
      BY <3>1, <3>3, <3>4
  <2> QED
    BY <2>1, <2>6, <2>7, <2>9, <2>10, <2>11
<1> QED
  BY <1>4, <1>5, <1>6, <1>7, <1>8, <1>10, <1>11, <1>12, <1>13 DEF Pages!Next

(* A step without an overlap comes after none.                             *)
LEMMA OverlapIsKept ==
  ASSUME Pages!Next, overlap
  PROVE  overlap'
BY DEF Pages!Next, Pages!Open, Pages!FetchReads, Pages!FetchAnswers,
       Pages!EditAccounts, Pages!EditSettings, Pages!SetForm, Pages!ClickRegenerate,
       Pages!ClickSave, Pages!ClickToggle, Pages!ClickWizard, Pages!Click,
       Pages!Reads, Pages!Writes, Pages!MarkWrites, Pages!Answered

LEMMA PagesInvariance == Spec => []PagesInv
<1>1. Init => PagesInv
  <2> SUFFICES ASSUME Init PROVE PagesInv
    OBVIOUS
  <2>1. /\ stored \in PageConfig
        /\ cache = NoConfig /\ invalid = FALSE /\ fetch = NoConfig
        /\ page = "other" /\ form = NoConfig
        /\ call = [k \in Calls |-> Pages!Idle]
        /\ stale = "no" /\ overlap = FALSE
    BY Distinct DEF Init, Pages!Init, PageConfig
  <2>2. PagesType /\ Announced
    BY <2>1 DEF PagesType, DataType, Announced
  <2>3. AloneInv
    BY <2>1, Distinct
    DEF AloneInv, OneAtATime, FormFollows, FetchIsFresh, Active
  <2> QED
    BY <2>2, <2>3 DEF PagesInv
<1>2. PagesInv /\ [Next]_vars => PagesInv'
  <2> SUFFICES ASSUME PagesInv, [Next]_vars PROVE PagesInv'
    OBVIOUS
  <2>1. CASE Pages!Next
    <3>1. PagesType' /\ Announced'
      BY <2>1, PagesTypeStep, AnnouncedStep DEF PagesInv
    <3>2. ~overlap' => AloneInv'
      BY <2>1, <3>1, AloneStep, OverlapIsKept DEF PagesInv
    <3> QED
      BY <3>1, <3>2 DEF PagesInv
  <2>2. CASE UNCHANGED pages
    BY <2>2
    DEF pages, PagesInv, PagesType, DataType, Announced, AloneInv, OneAtATime,
        FormFollows, FormMatches, Toggled, FetchIsFresh, Active, Alone, Showing,
        Pages!Agrees, Pages!Read, Pages!Normalised
  <2> QED
    BY <2>1, <2>2, OnePart
<1> QED
  BY <1>1, <1>2, PTL DEF Spec

(* When nothing is under way, the cached configuration is what reading the *)
(* file answers, or what was sent to be stored as it is, for whatever the  *)
(* rewriting on a save and on a read may be; unless what was cached last   *)
(* was of before another's write, or the wizard marked setup as completed  *)
(* after its save had failed (lib/queries.ts, useSaveConfig, useWizard;    *)
(* SaveDraft, Load).                                                       *)
THEOREM QuietCacheIsTheFile == Spec => []StaleOnlyBehindALateAnswer
<1>1. PagesInv => StaleOnlyBehindALateAnswer
  <2> SUFFICES ASSUME PagesInv, ~Pages!Busy, cache # Pages!None, ~invalid
               PROVE  Pages!Agrees(cache) \/ stale # "no"
    BY DEF StaleOnlyBehindALateAnswer, Pages!StaleOnlyBehindALateAnswer
  <2>1. ~\E k \in Calls : call[k] \in Handling
    BY Distinct DEF Pages!Busy
  <2> QED
    BY <2>1, Distinct DEF PagesInv, Announced
<1> QED
  BY <1>1, PagesInvariance, PTL

(* A user who waits for each answer never saves a form that takes back a   *)
(* switch or the completed setup stored since (the Accounts and Settings   *)
(* pages' onSave over onToggle and the wizard's own saves).                *)
THEOREM WaitingUserLosesNothing == Spec => SaveTakesBackNothing
<1> DEFINE Keeps ==
      \A k \in Calls :
        /\ call[k] # Pages!Idle /\ call[k].kind = "save" /\ call[k].at = "write"
        /\ ~overlap /\ stale # "unannounced"
        => stored'.on = stored.on /\ stored'.done = stored.done
<1>1. PagesInv /\ [Next]_vars => [Keeps]_(Pages!vars)
  <2> SUFFICES ASSUME PagesInv, Pages!Next, NEW k \in Calls,
                      call[k] # Pages!Idle, call[k].kind = "save", call[k].at = "write",
                      ~overlap, stale # "unannounced"
               PROVE  stored'.on = stored.on /\ stored'.done = stored.done
    BY OnePart DEF pages, Pages!vars
  <2>1. /\ PagesType /\ OneAtATime /\ Active(k) /\ Alone(call[k])
    BY DEF PagesInv, AloneInv, Active
  <2>2. /\ call[k].cfg.on = stored.on /\ call[k].cfg.done = stored.done
        /\ call[k].cfg \in PageConfig
    BY <2>1, Distinct DEF Alone, Active, PagesType, Handling, Underway
  <2>3. ASSUME NEW i \in Calls, NEW j, NEW h, Moves(i, j, h) PROVE i = k
    BY <2>1, <2>3, Distinct DEF OneAtATime, Active, Moves
  <2>4. CASE UNCHANGED stored
    BY <2>4
  <2>5. CASE Pages!Open \/ Pages!FetchReads \/ Pages!FetchAnswers
             \/ Pages!EditAccounts \/ Pages!EditSettings
    BY <2>5 DEF Pages!Open, Pages!FetchReads, Pages!FetchAnswers, Pages!EditAccounts,
                Pages!EditSettings, Pages!SetForm
  <2>6. CASE Pages!ClickSave \/ Pages!ClickToggle \/ Pages!ClickRegenerate \/ Pages!ClickWizard
    BY <2>1, <2>6, Clicks
  <2>7. ASSUME NEW i \in Calls, Pages!Reads(i) \/ Pages!Answered(i) PROVE stored' = stored
    BY <2>7 DEF Pages!Reads, Pages!Answered
  <2>8. ASSUME NEW i \in Calls, Pages!Writes(i)
        PROVE  stored' = stored \/ stored' = Pages!Normalised(call[k].cfg)
    <3>1. PICK j, h : Moves(i, j, h) /\ (stored' = Pages!Normalised(j.cfg) \/ stored' = stored)
      BY <2>1, <2>8, WritesMoves
    <3> QED
      BY <2>3, <3>1 DEF Moves
  <2>9. ASSUME NEW i \in Calls, Pages!MarkWrites(i) PROVE FALSE
    <3>1. PICK j, h : Moves(i, j, h) /\ j.at = "markwrite"
      BY <2>1, <2>9, MarkWritesMoves
    <3> QED
      BY <2>3, <3>1 DEF Moves
  <2> QED
    BY <2>2, <2>5, <2>6, <2>7, <2>8, <2>9, Rewritten DEF Pages!Next
<1>2. Spec => [][Keeps]_(Pages!vars)
  BY <1>1, PagesInvariance, PTL DEF Spec
<1> QED
  BY <1>2 DEF SaveTakesBackNothing, Pages!SaveTakesBackNothing
-----------------------------------------------------------------------------
(* A list typed into a field.                                              *)

(* A reader of a text, before its first character.                         *)
Start == [list |-> <<>>, piece |-> <<>>]

(* A set of numbers that is not empty has a least one.                     *)
LEMMA Least ==
  ASSUME NEW T \in SUBSET Nat, T # {}
  PROVE  \E x \in T : \A y \in T : x <= y
<1> DEFINE R == {p \in Nat \X Nat : p[1] < p[2]}
<1>1. OpToRel(<, Nat) = R
  BY DEF OpToRel
<1>2. IsWellFoundedOn(R, Nat)
  BY <1>1, NatLessThanWellFounded
<1> HIDE DEF R
<1>3. PICK x \in T : \A y \in T : ~ (<<y, x>> \in R)
  BY <1>2, WFMin
<1>4. ASSUME NEW y \in T PROVE x <= y
  <2>1. x \in Nat /\ y \in Nat
    OBVIOUS
  <2>2. ~(y < x)
    <3>1. <<y, x>> \notin R
      BY <1>3, <1>4
    <3>2. <<y, x>> \in Nat \X Nat
      BY <2>1
    <3>3. <<y, x>>[1] = y /\ <<y, x>>[2] = x
      OBVIOUS
    <3> QED
      BY <3>1, <3>2, <3>3 DEF R
  <2> QED
    BY <2>1, <2>2
<1> QED
  BY <1>3, <1>4

(* Induction over the numbers.                                             *)
LEMMA Induct ==
  ASSUME NEW S, 0 \in S, \A n \in Nat : n \in S => n + 1 \in S
  PROVE  Nat \subseteq S
<1> SUFFICES ASSUME Nat \ S # {} PROVE FALSE
  OBVIOUS
<1>1. PICK x \in Nat \ S : \A y \in Nat \ S : x <= y
  BY Least
<1>2. x # 0 /\ x - 1 \in Nat
  BY <1>1
<1>3. x - 1 \in S
  BY <1>1, <1>2
<1> QED
  BY <1>1, <1>2, <1>3

(* The largest number of a set.                                            *)
LEMMA Largest ==
  ASSUME NEW m \in Nat, NEW s \in SUBSET (1..m), s # {}
  PROVE  /\ Field!Max(s) \in s /\ \A y \in s : y <= Field!Max(s)
         /\ \A x \in s : (\A y \in s : y <= x) => Field!Max(s) = x
<1> DEFINE D == {m - y : y \in s}
<1>1. D \in SUBSET Nat /\ D # {}
  <2>1. \A y \in s : m - y \in Nat
    OBVIOUS
  <2> QED
    BY <2>1
<1> HIDE DEF D
<1>2. PICK d \in D : \A e \in D : d <= e
  BY <1>1, Least
<1>3. PICK x \in s : d = m - x
  BY <1>2 DEF D
<1>4. \A y \in s : m - x <= m - y
  BY <1>2, <1>3 DEF D
<1>5. \A y \in s : x >= y
  BY <1>4
<1>6. Field!Max(s) \in s /\ \A y \in s : Field!Max(s) >= y
  BY <1>5 DEF Field!Max
<1>7. PICK k : k = Field!Max(s)
  OBVIOUS
<1>8. \A y \in s : y \in Int
  OBVIOUS
<1>9. k \in s /\ \A y \in s : y <= k
  BY <1>6, <1>7, <1>8
<1>10. \A y \in s : (\A z \in s : z <= y) => k = y
  BY <1>8, <1>9
<1> QED
  BY <1>7, <1>9, <1>10

(* What the fold of Read has come to after each character.                 *)
ReadSteps(f, t, n) ==
  /\ f[0] = Start
  /\ \A k \in 1..n : f[k] = Field!Taken(f[k - 1], t[k])

LEMMA ReadStepsFold ==
  ASSUME NEW t, NEW n \in Nat, DOMAIN t = 1..n
  PROVE  /\ \E f : ReadSteps(f, t, n) /\ Field!Read(t) = f[n]
         /\ \A g : ReadSteps(g, t, n) => Field!Read(t) = g[n]
<1> DEFINE Rule(g, s) ==
             g[s] = IF s = {} THEN Start
                    ELSE Field!Taken(g[s \ {Field!Max(s)}], t[Field!Max(s)])
           Good(m) == \E g : \A s \in SUBSET (1..m) : Rule(g, s)
           I == CHOOSE g : g = [s \in SUBSET (1..n) |->
                  IF s = {} THEN Start
                  ELSE Field!Taken(g[s \ {Field!Max(s)}], t[Field!Max(s)])]
           Sizes == {m \in Nat : Good(m)}
<1>1. 0 \in Sizes
  <2> DEFINE g == [s \in SUBSET (1..0) |-> Start]
  <2>1. \A s \in SUBSET (1..0) : Rule(g, s)
    <3>1. \A s \in SUBSET (1..0) : s = {} /\ g[s] = Start
      OBVIOUS
    <3> HIDE DEF g
    <3> QED
      BY <3>1
  <2> HIDE DEF g, Rule
  <2>2. Good(0)
    BY <2>1
  <2> HIDE DEF Good
  <2> QED
    BY <2>2
<1>2. ASSUME NEW m \in Nat, m \in Sizes PROVE m + 1 \in Sizes
  <2>1. PICK g : \A s \in SUBSET (1..m) : Rule(g, s)
    BY <1>2
  <2> DEFINE h == [s \in SUBSET (1..(m + 1)) |->
                     IF m + 1 \in s THEN Field!Taken(g[s \ {m + 1}], t[m + 1]) ELSE g[s]]
  <2>2. ASSUME NEW s \in SUBSET (1..(m + 1)) PROVE Rule(h, s)
    <3>1. CASE m + 1 \in s
      <4>1. Field!Max(s) = m + 1
        <5>1. m + 1 \in Nat /\ \A y \in s : y <= m + 1
          OBVIOUS
        <5> QED
          BY <3>1, <5>1, Largest
      <4>2. s \ {m + 1} \in SUBSET (1..m) /\ m + 1 \notin s \ {m + 1}
        OBVIOUS
      <4>3. s \ {m + 1} \in SUBSET (1..(m + 1))
        OBVIOUS
      <4>4. h[s \ {m + 1}] = g[s \ {m + 1}] /\ h[s] = Field!Taken(g[s \ {m + 1}], t[m + 1])
        BY <3>1, <4>2, <4>3
      <4> HIDE DEF h
      <4> QED
        BY <3>1, <4>1, <4>4
    <3>2. CASE m + 1 \notin s
      <4>1. s \in SUBSET (1..m) /\ h[s] = g[s]
        BY <3>2
      <4>2. s # {} => s \ {Field!Max(s)} \in SUBSET (1..m)
        BY <4>1
      <4>3. s # {} => h[s \ {Field!Max(s)}] = g[s \ {Field!Max(s)}]
        <5>1. \A u \in SUBSET (1..m) : u \in SUBSET (1..(m + 1)) /\ m + 1 \notin u
          OBVIOUS
        <5>2. \A u \in SUBSET (1..m) : h[u] = g[u]
          BY <5>1
        <5> HIDE DEF h
        <5> QED
          BY <4>2, <5>2
      <4>4. Rule(g, s)
        BY <2>1, <4>1
      <4> HIDE DEF h
      <4> QED
        BY <4>1, <4>3, <4>4
    <3> QED
      BY <3>1, <3>2
  <2> HIDE DEF h, Rule
  <2>3. Good(m + 1)
    BY <2>2
  <2>4. m + 1 \in Nat
    OBVIOUS
  <2> HIDE DEF Good
  <2> QED
    BY <2>3, <2>4
<1>3. Good(n)
  <2> HIDE DEF Sizes
  <2>1. n \in Sizes
    BY <1>1, <1>2, Induct
  <2> QED
    BY <2>1 DEF Sizes
<1>4. \E g : g = [s \in SUBSET (1..n) |->
                  IF s = {} THEN Start
                  ELSE Field!Taken(g[s \ {Field!Max(s)}], t[Field!Max(s)])]
  <2>1. PICK g : \A s \in SUBSET (1..n) : Rule(g, s)
    BY <1>3
  <2> DEFINE h == [s \in SUBSET (1..n) |-> g[s]]
  <2>2. ASSUME NEW s \in SUBSET (1..n)
        PROVE  h[s] = IF s = {} THEN Start
                      ELSE Field!Taken(h[s \ {Field!Max(s)}], t[Field!Max(s)])
    <3>1. h[s] = g[s] /\ h[s \ {Field!Max(s)}] = g[s \ {Field!Max(s)}]
      OBVIOUS
    <3>2. Rule(g, s)
      BY <2>1
    <3> HIDE DEF h
    <3> QED
      BY <3>1, <3>2
  <2>3. h = [s \in SUBSET (1..n) |-> h[s]]
    OBVIOUS
  <2> HIDE DEF h
  <2>4. h = [s \in SUBSET (1..n) |->
               IF s = {} THEN Start
               ELSE Field!Taken(h[s \ {Field!Max(s)}], t[Field!Max(s)])]
    BY <2>2, <2>3
  <2> QED
    BY <2>4
<1>5. I = [s \in SUBSET (1..n) |->
             IF s = {} THEN Start
             ELSE Field!Taken(I[s \ {Field!Max(s)}], t[Field!Max(s)])]
  BY <1>4
<1>6. Field!Read(t) = I[1..n]
  BY DEF Start, Field!Read, Field!FoldLeft, Field!MapThenFoldSet
<1> HIDE DEF I, Rule, Sizes, Good
<1>7. I[1..0] = Start
  <2>1. 1..0 = {} /\ 1..0 \in SUBSET (1..n)
    OBVIOUS
  <2> QED
    BY <1>5, <2>1
<1>8. ASSUME NEW k \in 1..n PROVE I[1..k] = Field!Taken(I[1..(k - 1)], t[k])
  <2>1. 1..k \in SUBSET (1..n) /\ 1..k # {} /\ k \in 1..k /\ \A y \in 1..k : y <= k
    OBVIOUS
  <2>2. Field!Max(1..k) = k
    BY <2>1, Largest
  <2>3. (1..k) \ {k} = 1..(k - 1)
    OBVIOUS
  <2> QED
    BY <1>5, <2>1, <2>2, <2>3
<1> DEFINE f == [k \in 0..n |-> I[1..k]]
<1>9. /\ DOMAIN f = 0..n /\ f[0] = Start /\ f[n] = Field!Read(t)
      /\ \A k \in 1..n : f[k] = Field!Taken(f[k - 1], t[k])
  <2>1. \A k \in 1..n : k \in 0..n /\ k - 1 \in 0..n
    OBVIOUS
  <2>2. 0 \in 0..n /\ n \in 0..n
    OBVIOUS
  <2>3. \A k \in 0..n : f[k] = I[1..k]
    OBVIOUS
  <2>4. DOMAIN f = 0..n
    OBVIOUS
  <2> HIDE DEF f
  <2> QED
    BY <1>6, <1>7, <1>8, <2>1, <2>2, <2>3, <2>4
<1> HIDE DEF f
<1>10. ASSUME NEW g, ReadSteps(g, t, n)
       PROVE  Field!Read(t) = g[n]
  <2>0. g[0] = Start /\ \A k \in 1..n : g[k] = Field!Taken(g[k - 1], t[k])
    BY <1>10 DEF ReadSteps
  <2> DEFINE Agree == {k \in Nat : k <= n => f[k] = g[k]}
  <2>1. 0 \in Agree
    BY <1>9, <2>0
  <2>2. ASSUME NEW k \in Nat, k \in Agree PROVE k + 1 \in Agree
    <3>1. k + 1 <= n => k + 1 \in 1..n /\ (k + 1) - 1 = k /\ k <= n
      OBVIOUS
    <3> QED
      BY <1>9, <2>0, <2>2, <3>1
  <2> HIDE DEF Agree
  <2>3. n \in Agree
    BY <2>1, <2>2, Induct
  <2> QED
    BY <1>9, <2>3 DEF Agree
<1>11. ReadSteps(f, t, n)
  BY <1>9 DEF ReadSteps
<1> QED
  BY <1>9, <1>10, <1>11

(* The same of Display, after each entry.                                  *)
DisplaySteps(f, t, n) ==
  /\ f[0] = <<>>
  /\ \A k \in 1..n : f[k] = Field!Joined(f[k - 1], t[k])

LEMMA DisplayStepsFold ==
  ASSUME NEW t, NEW n \in Nat, DOMAIN t = 1..n
  PROVE  /\ \E f : DisplaySteps(f, t, n) /\ Field!Display(t) = f[n]
         /\ \A g : DisplaySteps(g, t, n) => Field!Display(t) = g[n]
<1> DEFINE Rule(g, s) ==
             g[s] = IF s = {} THEN <<>>
                    ELSE Field!Joined(g[s \ {Field!Max(s)}], t[Field!Max(s)])
           Good(m) == \E g : \A s \in SUBSET (1..m) : Rule(g, s)
           I == CHOOSE g : g = [s \in SUBSET (1..n) |->
                  IF s = {} THEN <<>>
                  ELSE Field!Joined(g[s \ {Field!Max(s)}], t[Field!Max(s)])]
           Sizes == {m \in Nat : Good(m)}
<1>1. 0 \in Sizes
  <2> DEFINE g == [s \in SUBSET (1..0) |-> <<>>]
  <2>1. \A s \in SUBSET (1..0) : Rule(g, s)
    <3>1. \A s \in SUBSET (1..0) : s = {} /\ g[s] = <<>>
      OBVIOUS
    <3> HIDE DEF g
    <3> QED
      BY <3>1
  <2> HIDE DEF g, Rule
  <2>2. Good(0)
    BY <2>1
  <2> HIDE DEF Good
  <2> QED
    BY <2>2
<1>2. ASSUME NEW m \in Nat, m \in Sizes PROVE m + 1 \in Sizes
  <2>1. PICK g : \A s \in SUBSET (1..m) : Rule(g, s)
    BY <1>2
  <2> DEFINE h == [s \in SUBSET (1..(m + 1)) |->
                     IF m + 1 \in s THEN Field!Joined(g[s \ {m + 1}], t[m + 1]) ELSE g[s]]
  <2>2. ASSUME NEW s \in SUBSET (1..(m + 1)) PROVE Rule(h, s)
    <3>1. CASE m + 1 \in s
      <4>1. Field!Max(s) = m + 1
        <5>1. m + 1 \in Nat /\ \A y \in s : y <= m + 1
          OBVIOUS
        <5> QED
          BY <3>1, <5>1, Largest
      <4>2. s \ {m + 1} \in SUBSET (1..m) /\ m + 1 \notin s \ {m + 1}
        OBVIOUS
      <4>3. s \ {m + 1} \in SUBSET (1..(m + 1))
        OBVIOUS
      <4>4. h[s \ {m + 1}] = g[s \ {m + 1}] /\ h[s] = Field!Joined(g[s \ {m + 1}], t[m + 1])
        BY <3>1, <4>2, <4>3
      <4> HIDE DEF h
      <4> QED
        BY <3>1, <4>1, <4>4
    <3>2. CASE m + 1 \notin s
      <4>1. s \in SUBSET (1..m) /\ h[s] = g[s]
        BY <3>2
      <4>2. s # {} => s \ {Field!Max(s)} \in SUBSET (1..m)
        BY <4>1
      <4>3. s # {} => h[s \ {Field!Max(s)}] = g[s \ {Field!Max(s)}]
        <5>1. \A u \in SUBSET (1..m) : u \in SUBSET (1..(m + 1)) /\ m + 1 \notin u
          OBVIOUS
        <5>2. \A u \in SUBSET (1..m) : h[u] = g[u]
          BY <5>1
        <5> HIDE DEF h
        <5> QED
          BY <4>2, <5>2
      <4>4. Rule(g, s)
        BY <2>1, <4>1
      <4> HIDE DEF h
      <4> QED
        BY <4>1, <4>3, <4>4
    <3> QED
      BY <3>1, <3>2
  <2> HIDE DEF h, Rule
  <2>3. Good(m + 1)
    BY <2>2
  <2>4. m + 1 \in Nat
    OBVIOUS
  <2> HIDE DEF Good
  <2> QED
    BY <2>3, <2>4
<1>3. Good(n)
  <2> HIDE DEF Sizes
  <2>1. n \in Sizes
    BY <1>1, <1>2, Induct
  <2> QED
    BY <2>1 DEF Sizes
<1>4. \E g : g = [s \in SUBSET (1..n) |->
                  IF s = {} THEN <<>>
                  ELSE Field!Joined(g[s \ {Field!Max(s)}], t[Field!Max(s)])]
  <2>1. PICK g : \A s \in SUBSET (1..n) : Rule(g, s)
    BY <1>3
  <2> DEFINE h == [s \in SUBSET (1..n) |-> g[s]]
  <2>2. ASSUME NEW s \in SUBSET (1..n)
        PROVE  h[s] = IF s = {} THEN <<>>
                      ELSE Field!Joined(h[s \ {Field!Max(s)}], t[Field!Max(s)])
    <3>1. h[s] = g[s] /\ h[s \ {Field!Max(s)}] = g[s \ {Field!Max(s)}]
      OBVIOUS
    <3>2. Rule(g, s)
      BY <2>1
    <3> HIDE DEF h
    <3> QED
      BY <3>1, <3>2
  <2>3. h = [s \in SUBSET (1..n) |-> h[s]]
    OBVIOUS
  <2> HIDE DEF h
  <2>4. h = [s \in SUBSET (1..n) |->
               IF s = {} THEN <<>>
               ELSE Field!Joined(h[s \ {Field!Max(s)}], t[Field!Max(s)])]
    BY <2>2, <2>3
  <2> QED
    BY <2>4
<1>5. I = [s \in SUBSET (1..n) |->
             IF s = {} THEN <<>>
             ELSE Field!Joined(I[s \ {Field!Max(s)}], t[Field!Max(s)])]
  BY <1>4
<1>6. Field!Display(t) = I[1..n]
  BY DEF Field!Display, Field!FoldLeft, Field!MapThenFoldSet
<1> HIDE DEF I, Rule, Sizes, Good
<1>7. I[1..0] = <<>>
  <2>1. 1..0 = {} /\ 1..0 \in SUBSET (1..n)
    OBVIOUS
  <2> QED
    BY <1>5, <2>1
<1>8. ASSUME NEW k \in 1..n PROVE I[1..k] = Field!Joined(I[1..(k - 1)], t[k])
  <2>1. 1..k \in SUBSET (1..n) /\ 1..k # {} /\ k \in 1..k /\ \A y \in 1..k : y <= k
    OBVIOUS
  <2>2. Field!Max(1..k) = k
    BY <2>1, Largest
  <2>3. (1..k) \ {k} = 1..(k - 1)
    OBVIOUS
  <2> QED
    BY <1>5, <2>1, <2>2, <2>3
<1> DEFINE f == [k \in 0..n |-> I[1..k]]
<1>9. /\ DOMAIN f = 0..n /\ f[0] = <<>> /\ f[n] = Field!Display(t)
      /\ \A k \in 1..n : f[k] = Field!Joined(f[k - 1], t[k])
  <2>1. \A k \in 1..n : k \in 0..n /\ k - 1 \in 0..n
    OBVIOUS
  <2>2. 0 \in 0..n /\ n \in 0..n
    OBVIOUS
  <2>3. \A k \in 0..n : f[k] = I[1..k]
    OBVIOUS
  <2>4. DOMAIN f = 0..n
    OBVIOUS
  <2> HIDE DEF f
  <2> QED
    BY <1>6, <1>7, <1>8, <2>1, <2>2, <2>3, <2>4
<1> HIDE DEF f
<1>10. ASSUME NEW g, DisplaySteps(g, t, n)
       PROVE  Field!Display(t) = g[n]
  <2>0. g[0] = <<>> /\ \A k \in 1..n : g[k] = Field!Joined(g[k - 1], t[k])
    BY <1>10 DEF DisplaySteps
  <2> DEFINE Agree == {k \in Nat : k <= n => f[k] = g[k]}
  <2>1. 0 \in Agree
    BY <1>9, <2>0
  <2>2. ASSUME NEW k \in Nat, k \in Agree PROVE k + 1 \in Agree
    <3>1. k + 1 <= n => k + 1 \in 1..n /\ (k + 1) - 1 = k /\ k <= n
      OBVIOUS
    <3> QED
      BY <1>9, <2>0, <2>2, <3>1
  <2> HIDE DEF Agree
  <2>3. n \in Agree
    BY <2>1, <2>2, Induct
  <2> QED
    BY <1>9, <2>3 DEF Agree
<1>11. DisplaySteps(f, t, n)
  BY <1>9 DEF DisplaySteps
<1> QED
  BY <1>9, <1>10, <1>11

(* Induction over the sequences.                                           *)
LEMMA EverySequence ==
  ASSUME NEW X, NEW S, <<>> \in S,
         \A t \in Seq(X), c \in X : t \in S => Append(t, c) \in S
  PROVE  Seq(X) \subseteq S
<1> DEFINE Sizes == {n \in Nat : \A t \in Seq(X) : Len(t) = n => t \in S}
<1>1. 0 \in Sizes
  <2>1. \A t \in Seq(X) : Len(t) = 0 => t = <<>>
    BY EmptySeq
  <2> QED
    BY <2>1
<1>2. ASSUME NEW n \in Nat, n \in Sizes PROVE n + 1 \in Sizes
  <2>1. ASSUME NEW t \in Seq(X), Len(t) = n + 1 PROVE t \in S
    <3>1. t # <<>>
      BY <2>1, EmptySeq
    <3>2. PICK u \in Seq(X), c \in X : t = Append(u, c)
      BY <3>1, SequenceEmptyOrAppend
    <3>3. Len(u) = n
      BY <2>1, <3>2, AppendProperties, LenProperties
    <3> QED
      BY <1>2, <3>2, <3>3
  <2> QED
    BY <2>1
<1> HIDE DEF Sizes
<1>3. Nat \subseteq Sizes
  BY <1>1, <1>2, Induct
<1> QED
  BY <1>3, LenProperties DEF Sizes

(* One sequence, of n entries, with one more behind it is another, of m.   *)
OneMore(t, n, u, m, c) ==
  /\ m = n + 1 /\ DOMAIN t = 1..n
  /\ DOMAIN u = 1..m /\ u[m] = c /\ \A k \in 1..n : u[k] = t[k]

LEMMA Appended ==
  ASSUME NEW X, NEW t \in Seq(X), NEW c \in X
  PROVE  \E n, m \in Nat : OneMore(t, n, Append(t, c), m, c)
<1>1. PICK n \in Nat : n = Len(t) /\ DOMAIN t = 1..n
  BY LenProperties
<1>2. PICK u \in Seq(X) : u = Append(t, c)
  BY AppendProperties
<1>3. Len(u) = n + 1 /\ u[n + 1] = c /\ \A k \in 1..n : u[k] = t[k]
  BY <1>1, <1>2, AppendProperties
<1>4. DOMAIN u = 1..(n + 1)
  BY <1>3, LenProperties
<1>5. PICK m \in Nat : m = n + 1
  OBVIOUS
<1>6. OneMore(t, n, u, m, c)
  BY <1>1, <1>3, <1>4, <1>5 DEF OneMore
<1> QED
  BY <1>2, <1>6

(* A sequence of one.                                                      *)
LEMMA Single ==
  ASSUME NEW X, NEW c \in X
  PROVE  <<c>> \in Seq(X) /\ Len(<<c>>) = 1 /\ <<c>>[1] = c
OBVIOUS

(* The two sequences that another is put together of.                      *)
LEMMA Ends ==
  ASSUME NEW X, NEW a \in Seq(X), NEW b \in Seq(X)
  PROVE  /\ SubSeq(a \o b, 1, Len(a)) = a
         /\ SubSeq(a \o b, Len(a) + 1, Len(a) + Len(b)) = b
<1>1. /\ Len(a) \in Nat /\ Len(b) \in Nat
      /\ Len(a \o b) = Len(a) + Len(b)
      /\ \A i \in 1..(Len(a) + Len(b)) :
           (a \o b)[i] = IF i <= Len(a) THEN a[i] ELSE b[i - Len(a)]
      /\ \A i \in 1..(Len(a) + Len(b)) : (a \o b)[i] \in X
  <2>1. a \o b \in Seq(X) /\ Len(a \o b) = Len(a) + Len(b)
    BY ConcatProperties
  <2> QED
    BY <2>1, LenProperties, ConcatProperties, ElementOfSeq
<1>2. ASSUME NEW m \in Nat, NEW n \in Nat, m <= n, n <= Len(a) + Len(b)
      PROVE  /\ SubSeq(a \o b, m + 1, n) \in Seq(X)
             /\ Len(SubSeq(a \o b, m + 1, n)) = n - m
             /\ \A i \in 1..(n - m) : SubSeq(a \o b, m + 1, n)[i] = (a \o b)[m + i]
  <2>1. \A i \in (m + 1)..n : (a \o b)[i] \in X
    BY <1>1, <1>2
  <2>0. PICK k \in Int : k = m + 1 /\ n - k + 1 = n - m /\ n \in Int
    BY <1>2
  <2>2. /\ SubSeq(a \o b, k, n) \in Seq(X)
        /\ Len(SubSeq(a \o b, k, n)) = IF k <= n THEN n - k + 1 ELSE 0
        /\ \A i \in 1..(n - k + 1) : SubSeq(a \o b, k, n)[i] = (a \o b)[k + i - 1]
    <3>1. PICK u : u = a \o b
      OBVIOUS
    <3>2. \A i \in k..n : u[i] \in X
      BY <2>0, <2>1, <3>1
    <3>3. /\ SubSeq(u, k, n) \in Seq(X)
          /\ Len(SubSeq(u, k, n)) = IF k <= n THEN n - k + 1 ELSE 0
          /\ \A i \in 1..(n - k + 1) : SubSeq(u, k, n)[i] = u[k + i - 1]
      BY <2>0, <3>2, SubSeqProperties
    <3> QED
      BY <3>1, <3>3
  <2>3. \A i \in 1..(n - m) : k + i - 1 = m + i
    BY <2>0
  <2>4. (IF k <= n THEN n - k + 1 ELSE 0) = n - m
    BY <1>2, <2>0
  <2> QED
    BY <2>0, <2>2, <2>3, <2>4
<1>3. SubSeq(a \o b, 1, Len(a)) = a
  <2>1. /\ SubSeq(a \o b, 1, Len(a)) \in Seq(X)
        /\ Len(SubSeq(a \o b, 1, Len(a))) = Len(a)
        /\ \A i \in 1..Len(a) : SubSeq(a \o b, 1, Len(a))[i] = (a \o b)[i]
    BY <1>1, <1>2
  <2>2. \A i \in 1..Len(a) : (a \o b)[i] = a[i]
    BY <1>1
  <2> QED
    BY <2>1, <2>2, SeqEqual
<1>4. SubSeq(a \o b, Len(a) + 1, Len(a) + Len(b)) = b
  <2> DEFINE s == SubSeq(a \o b, Len(a) + 1, Len(a) + Len(b))
  <2>1. /\ s \in Seq(X) /\ Len(s) = Len(b)
        /\ \A i \in 1..Len(b) : s[i] = (a \o b)[Len(a) + i]
    BY <1>1, <1>2
  <2>2. \A i \in 1..Len(b) : (a \o b)[Len(a) + i] = b[i]
    BY <1>1
  <2> HIDE DEF s
  <2>3. s = b
    BY <2>1, <2>2, SeqEqual
  <2> QED
    BY <2>3 DEF s
<1> QED
  BY <1>3, <1>4

(* The smallest.                                                           *)
LEMMA Smallest ==
  ASSUME NEW T \in SUBSET Nat, T # {}
  PROVE  /\ Field!Min(T) \in T /\ \A y \in T : Field!Min(T) <= y
         /\ \A x \in T : (\A y \in T : x <= y) => Field!Min(T) = x
<1>1. PICK x \in T : \A y \in T : x <= y
  BY Least
<1>2. Field!Min(T) \in T /\ \A y \in T : Field!Min(T) <= y
  BY <1>1 DEF Field!Min
<1>3. PICK k : k = Field!Min(T)
  OBVIOUS
<1>4. \A y \in T : y \in Int
  OBVIOUS
<1>5. k \in T /\ \A y \in T : k <= y
  BY <1>2, <1>3
<1>6. \A y \in T : (\A z \in T : y <= z) => k = y
  BY <1>4, <1>5
<1> QED
  BY <1>3, <1>5, <1>6

(* A blank and a comma, by names that every prover takes.                  *)
Blank == " "
Comma == ","

(* They are characters, and not the same.                                  *)
LEMMA Signs ==
  /\ Blank \in Field!Chars /\ Comma \in Field!Chars /\ "." \in Field!Chars
  /\ Blank # Comma /\ Blank # "." /\ Comma # "."
<1>1. " " # "," /\ " " # "." /\ "," # "."
  OBVIOUS
<1> QED
  BY <1>1, Zenon DEF Field!Chars, Blank, Comma

(* Texts, and those without a comma.                                       *)
Texts == Seq(Field!Chars)
Commaless == Seq(Field!Chars \ {Comma})

(* An entry as the form holds it.                                          *)
Canon ==
  {e \in Commaless : /\ e # <<>> /\ e[1] # Blank /\ e[Len(e)] # Blank
                     /\ kind = "extensions" => e[1] = "."}

(* What trimming is, by these names.                                       *)
LEMMA Trims ==
  ASSUME NEW s
  PROVE  LET solid == {k \in DOMAIN s : s[k] # Blank}
         IN Field!Trim(s) = IF solid = {} THEN <<>>
                            ELSE SubSeq(s, Field!Min(solid), Field!Max(solid))
BY Zenon DEF Field!Trim, Blank

(* A sequence is trimmed to what lies between its first and last sign.     *)
LEMMA Solid ==
  ASSUME NEW X, NEW s \in Seq(X), NEW i \in Nat, NEW j \in Nat,
         1 <= i, i <= j, j <= Len(s), s[i] # Blank, s[j] # Blank,
         \A k \in 1..Len(s) : s[k] # Blank => i <= k /\ k <= j
  PROVE  Field!Trim(s) = SubSeq(s, i, j)
<1> DEFINE solid == {k \in DOMAIN s : s[k] # Blank}
<1>0. PICK n \in Nat : n = Len(s) /\ DOMAIN s = 1..n
  BY LenProperties
<1>1. i \in 1..n /\ j \in 1..n
  BY <1>0
<1>2. /\ solid \in SUBSET (1..n) /\ i \in solid /\ j \in solid
      /\ \A k \in solid : i <= k /\ k <= j
  BY <1>0, <1>1
<1>3. Field!Trim(s) = IF solid = {} THEN <<>> ELSE SubSeq(s, Field!Min(solid), Field!Max(solid))
  BY Trims
<1> HIDE DEF solid
<1>4. Field!Min(solid) = i
  <2>1. solid \in SUBSET Nat
    BY <1>2
  <2> QED
    BY <1>2, <2>1, Smallest
<1>5. Field!Max(solid) = j
  BY <1>2, Largest
<1> QED
  BY <1>2, <1>3, <1>4, <1>5

(* What is left of a trimmed sequence begins and ends with no blank.       *)
LEMMA Trimmed ==
  ASSUME NEW X, NEW s \in Seq(X)
  PROVE  \/ Field!Trim(s) = <<>>
         \/ /\ Field!Trim(s) \in Seq(X) /\ Field!Trim(s) # <<>>
            /\ Field!Trim(s)[1] # Blank /\ Field!Trim(s)[Len(Field!Trim(s))] # Blank
<1> DEFINE solid == {k \in DOMAIN s : s[k] # Blank}
<1>0. PICK n \in Nat : n = Len(s) /\ DOMAIN s = 1..n
  BY LenProperties
<1>1. /\ solid \in SUBSET (1..n)
      /\ \A k \in solid : s[k] # Blank /\ k \in 1..n
      /\ \A k \in 1..n : s[k] # Blank => k \in solid
  BY <1>0
<1>2. CASE solid = {}
  BY <1>2, Trims
<1> HIDE DEF solid
<1>3. CASE solid # {}
  <2>1. solid \in SUBSET Nat
    BY <1>1
  <2>2. PICK i \in solid : \A k \in solid : i <= k
    BY <1>3, <2>1, Smallest
  <2>3. PICK j \in solid : \A k \in solid : k <= j
    BY <1>1, <1>3, Largest
  <2>4. i \in Nat /\ j \in Nat /\ 1 <= i /\ i <= j /\ j <= n
    BY <1>1, <2>2, <2>3
  <2>5. Field!Trim(s) = SubSeq(s, i, j)
    BY <1>0, <1>1, <2>2, <2>3, <2>4, Solid
  <2>6. \A k \in i..j : s[k] \in X
    <3>1. \A k \in i..j : k \in 1..n
      BY <2>4
    <3> QED
      BY <1>0, <3>1, ElementOfSeq
  <2>7. PICK e : e = SubSeq(s, i, j)
    OBVIOUS
  <2>8. /\ e \in Seq(X) /\ Len(e) = IF i <= j THEN j - i + 1 ELSE 0
        /\ \A k \in 1..(j - i + 1) : e[k] = s[i + k - 1]
    <3>1. i \in Int /\ j \in Int
      BY <2>4
    <3> QED
      BY <2>6, <2>7, <3>1, SubSeqProperties
  <2>9. Len(e) = j - i + 1 /\ e[1] = s[i] /\ e[Len(e)] = s[j]
    <3>1. 1 \in 1..(j - i + 1) /\ j - i + 1 \in 1..(j - i + 1)
      BY <2>4
    <3>2. i + 1 - 1 = i /\ i + (j - i + 1) - 1 = j
      BY <2>4
    <3> QED
      BY <2>4, <2>8, <3>1, <3>2
  <2>10. e # <<>>
    <3>1. Len(e) # 0
      BY <2>4, <2>9
    <3> QED
      BY <3>1, EmptySeq
  <2> QED
    BY <1>1, <2>2, <2>3, <2>5, <2>7, <2>8, <2>9, <2>10
<1> QED
  BY <1>2, <1>3

(* What a piece of the text is kept as.                                    *)
LEMMA KeptEntries ==
  ASSUME NEW s \in Commaless
  PROVE  Field!Kept(s) \in Seq(Canon) /\ Len(Field!Kept(s)) <= 1
<1>1. Field!Entry(s) = <<>> \/ Field!Entry(s) \in Canon
  <2> DEFINE e == Field!Trim(s)
  <2>1. Field!Entry(s) = IF kind = "extensions" /\ e # <<>> /\ e[1] # "." THEN <<".">> \o e ELSE e
    BY DEF Field!Entry
  <2>2. \/ e = <<>>
        \/ e \in Commaless /\ e # <<>> /\ e[1] # Blank /\ e[Len(e)] # Blank
    BY Trimmed DEF Commaless
  <2> HIDE DEF e
  <2>3. CASE kind = "extensions" /\ e # <<>> /\ e[1] # "."
    <3>1. <<".">> \in Commaless /\ Len(<<".">>) = 1 /\ <<".">>[1] = "."
      <4>1. "." \in Field!Chars \ {Comma}
        BY Signs
      <4> QED
        BY <4>1, Single DEF Commaless
    <3>2. /\ <<".">> \o e \in Commaless /\ Len(<<".">> \o e) = 1 + Len(e)
          /\ \A i \in 1..(1 + Len(e)) :
               (<<".">> \o e)[i] = IF i <= 1 THEN <<".">>[i] ELSE e[i - 1]
      BY <2>2, <2>3, <3>1, ConcatProperties DEF Commaless
    <3>3. Len(e) \in Nat \ {0}
      BY <2>2, <2>3, EmptySeq DEF Commaless
    <3>4. (<<".">> \o e)[1] = "." /\ (<<".">> \o e)[1 + Len(e)] = e[Len(e)]
      BY <3>1, <3>2, <3>3
    <3>5. <<".">> \o e # <<>>
      BY <3>2, <3>3, EmptySeq
    <3>6. PICK f : f = <<".">> \o e
      OBVIOUS
    <3>7. f \in Commaless /\ f # <<>> /\ f[1] = "." /\ f[Len(f)] # Blank
      BY <2>2, <2>3, <3>2, <3>4, <3>5, <3>6
    <3>8. f[1] # Blank
      BY <3>7, Signs
    <3>9. f \in Canon
      BY <3>7, <3>8 DEF Canon
    <3> QED
      BY <2>1, <2>3, <3>6, <3>9
  <2>4. CASE ~(kind = "extensions" /\ e # <<>> /\ e[1] # ".")
    BY <2>1, <2>2, <2>4 DEF Canon
  <2> QED
    BY <2>3, <2>4
<1>2. CASE Field!Entry(s) = <<>>
  BY <1>2, EmptySeq DEF Field!Kept
<1>3. CASE Field!Entry(s) # <<>>
  BY <1>1, <1>3 DEF Field!Kept
<1> QED
  BY <1>2, <1>3

(* An entry is kept as it is, and so it is behind a blank.                 *)
LEMMA EntryIsKept ==
  ASSUME NEW e \in Canon
  PROVE  /\ Field!Kept(e) = <<e>> /\ e \in Commaless
         /\ Field!Kept(<<Blank>> \o e) = <<e>> /\ <<Blank>> \o e \in Commaless
<1> DEFINE X == Field!Chars \ {Comma}
           b == <<Blank>>
<1>1. /\ e \in Seq(X) /\ e # <<>> /\ e[1] # Blank /\ e[Len(e)] # Blank
      /\ kind = "extensions" => e[1] = "."
  BY DEF Canon, Commaless
<1>2. Blank \in X
  BY Signs
<1> HIDE DEF X
<1>3. PICK n \in Nat : n = Len(e) /\ n # 0
  BY <1>1, EmptySeq
<1>4. ASSUME NEW s, Field!Trim(s) = e PROVE Field!Kept(s) = <<e>>
  BY <1>1, <1>4 DEF Field!Kept, Field!Entry
<1>5. Field!Trim(e) = e
  <2>1. 1 <= n /\ n <= n /\ \A k \in 1..n : 1 <= k /\ k <= n
    BY <1>3
  <2>2. Field!Trim(e) = SubSeq(e, 1, n)
    <3>1. e[1] # Blank /\ e[n] # Blank /\ n <= Len(e) /\ 1 \in Nat
      BY <1>1, <1>3
    <3>2. \A k \in 1..Len(e) : e[k] # Blank => 1 <= k /\ k <= n
      BY <1>3
    <3> QED
      BY <1>1, <2>1, <3>1, <3>2, Solid
  <2> QED
    BY <1>1, <1>3, <2>2, SubSeqFull
<1>6. b \in Seq(X) /\ Len(b) = 1 /\ b[1] = Blank
  BY <1>2, Single
<1> HIDE DEF b
<1>7. PICK s : s = b \o e
  OBVIOUS
<1>8. /\ s \in Seq(X) /\ Len(s) = n + 1
      /\ s[1] = Blank /\ s[2] = e[1] /\ s[n + 1] = e[n]
  <2>1. /\ s \in Seq(X) /\ Len(s) = Len(b) + Len(e)
        /\ \A i \in 1..(Len(b) + Len(e)) :
             s[i] = IF i <= Len(b) THEN b[i] ELSE e[i - Len(b)]
    BY <1>1, <1>6, <1>7, ConcatProperties
  <2>2. /\ s \in Seq(X) /\ Len(s) = n + 1
        /\ \A i \in 1..(n + 1) : s[i] = IF i <= 1 THEN b[i] ELSE e[i - 1]
    BY <1>3, <1>6, <2>1
  <2>3. 1 \in 1..(n + 1) /\ 2 \in 1..(n + 1) /\ n + 1 \in 1..(n + 1) /\ ~(n + 1 <= 1)
    BY <1>3
  <2>4. 2 - 1 = 1 /\ (n + 1) - 1 = n /\ ~(2 <= 1)
    BY <1>3
  <2> QED
    BY <1>6, <2>2, <2>3, <2>4
<1>9. Field!Trim(s) = SubSeq(s, 2, n + 1)
  <2>1. s[2] # Blank /\ s[n + 1] # Blank /\ s[1] = Blank
    BY <1>1, <1>3, <1>8
  <2>2. \A k \in 1..(n + 1) : s[k] # Blank => 2 <= k /\ k <= n + 1
    <3>1. \A k \in 1..(n + 1) : k # 1 => 2 <= k /\ k <= n + 1
      OBVIOUS
    <3> QED
      BY <2>1, <3>1
  <2>3. 2 \in Nat /\ n + 1 \in Nat /\ 1 <= 2 /\ 2 <= n + 1 /\ n + 1 <= n + 1
    BY <1>3
  <2> QED
    BY <1>8, <2>1, <2>2, <2>3, Solid
<1>10. SubSeq(s, 2, n + 1) = e
  <2>1. SubSeq(b \o e, Len(b) + 1, Len(b) + Len(e)) = e
    BY <1>1, <1>6, Ends
  <2>2. 1 + 1 = 2 /\ 1 + n = n + 1
    OBVIOUS
  <2> QED
    BY <1>3, <1>6, <1>7, <2>1, <2>2
<1> QED
  BY <1>1, <1>4, <1>5, <1>7, <1>8, <1>9, <1>10 DEF b, X, Commaless

(* A reader: the entries so far, and the piece that it is at.               *)
Reader == [list : Seq(Canon), piece : Commaless]
(* Reading goes on from what was read before.                              *)
LEMMA ReadAppends ==
  /\ Field!Read(<<>>) = Start
  /\ \A t \in Texts, c \in Field!Chars :
       Field!Read(Append(t, c)) = Field!Taken(Field!Read(t), c)
<1>1. Field!Read(<<>>) = Start
  <2>1. DOMAIN <<>> = 1..0
    OBVIOUS
  <2>2. PICK f : ReadSteps(f, <<>>, 0) /\ Field!Read(<<>>) = f[0]
    BY <2>1, ReadStepsFold
  <2> QED
    BY <2>2 DEF ReadSteps
<1>2. ASSUME NEW t \in Texts, NEW c \in Field!Chars
      PROVE  Field!Read(Append(t, c)) = Field!Taken(Field!Read(t), c)
  <2>0. PICK n, m \in Nat : OneMore(t, n, Append(t, c), m, c)
    BY Appended, SMTT(60) DEF Texts
  <2>1. PICK u : u = Append(t, c) /\ OneMore(t, n, u, m, c)
    BY <2>0
  <2>2. PICK f : ReadSteps(f, u, m) /\ Field!Read(u) = f[m]
    BY <2>1, ReadStepsFold DEF OneMore
  <2>3. ReadSteps(f, t, n) /\ f[m] = Field!Taken(f[n], c)
    <3>1. \A k \in 1..n : k \in 1..m
      BY <2>1 DEF OneMore
    <3>2. m \in 1..m /\ m - 1 = n
      BY <2>1 DEF OneMore
    <3> QED
      BY <2>1, <2>2, <3>1, <3>2 DEF ReadSteps, OneMore
  <2>4. Field!Read(t) = f[n]
    BY <2>1, <2>3, ReadStepsFold DEF OneMore
  <2> QED
    BY <2>1, <2>2, <2>3, <2>4
<1> QED
  BY <1>1, <1>2

(* What reading one more character does.                                   *)
LEMMA Takes ==
  ASSUME NEW r \in Reader, NEW c \in Field!Chars
  PROVE  /\ c = Comma =>
              Field!Taken(r, c) = [list |-> r.list \o Field!Kept(r.piece), piece |-> <<>>]
         /\ c # Comma =>
              Field!Taken(r, c) = [list |-> r.list, piece |-> Append(r.piece, c)]
         /\ Field!Taken(r, c) \in Reader
<1>1. Field!Taken(r, c)
        = IF c = Comma THEN [list |-> r.list \o Field!Kept(r.piece), piece |-> <<>>]
                       ELSE [r EXCEPT !.piece = Append(@, c)]
  BY Zenon DEF Field!Taken, Comma
<1>2. /\ r.list \in Seq(Canon) /\ r.piece \in Commaless
      /\ [r EXCEPT !.piece = Append(@, c)] = [list |-> r.list, piece |-> Append(r.piece, c)]
  <2>1. \A p : [r EXCEPT !.piece = p] = [list |-> r.list, piece |-> p]
    BY DEF Reader
  <2> QED
    BY <2>1 DEF Reader
<1>3. Field!Kept(r.piece) \in Seq(Canon)
  BY <1>2, KeptEntries
<1>4. r.list \o Field!Kept(r.piece) \in Seq(Canon)
  BY <1>2, <1>3, ConcatProperties
<1>5. c # Comma => Append(r.piece, c) \in Commaless
  BY <1>2, AppendProperties DEF Commaless
<1>6. <<>> \in Commaless
  BY EmptySeq DEF Commaless
<1>7. CASE c = Comma
  BY <1>1, <1>4, <1>6, <1>7 DEF Reader
<1>8. CASE c # Comma
  BY <1>1, <1>2, <1>5, <1>8 DEF Reader
<1> QED
  BY <1>7, <1>8

(* A reader has entries and a piece without a comma.                       *)
LEMMA Reads ==
  ASSUME NEW t \in Texts
  PROVE  Field!Read(t) \in Reader
<1> DEFINE S == {u \in Texts : Field!Read(u) \in Reader}
<1>1. <<>> \in S
  <2>1. <<>> \in Texts /\ <<>> \in Commaless /\ <<>> \in Seq(Canon)
    BY EmptySeq DEF Texts, Commaless
  <2>2. Start \in Reader
    BY <2>1 DEF Start, Reader
  <2> QED
    BY <2>1, <2>2, ReadAppends
<1>2. ASSUME NEW u \in Texts, NEW c \in Field!Chars, u \in S PROVE Append(u, c) \in S
  <2>1. Append(u, c) \in Texts
    BY AppendProperties DEF Texts
  <2>2. Field!Read(Append(u, c)) \in Reader
    BY <1>2, ReadAppends, Takes
  <2> QED
    BY <2>1, <2>2
<1> HIDE DEF S
<1>3. Texts \subseteq S
  BY <1>1, <1>2, EverySequence DEF Texts
<1> QED
  BY <1>3 DEF S

(* Texts put together of texts.                                            *)
LEMMA CommalessTexts ==
  /\ \A b \in Commaless : b \in Texts
  /\ <<>> \in Commaless /\ <<Comma>> \in Texts
  /\ \A c \in Field!Chars \ {Comma} : <<c>> \in Commaless
  /\ \A a, b \in Texts : a \o b \in Texts
  /\ \A a, b \in Commaless : a \o b \in Commaless
<1>1. \A b \in Commaless : b \in Texts
  BY SeqMonotonic DEF Commaless, Texts
<1>2. <<>> \in Commaless
  BY EmptySeq DEF Commaless
<1>3. <<Comma>> \in Texts
  BY Single, Signs DEF Texts
<1>4. \A c \in Field!Chars \ {Comma} : <<c>> \in Commaless
  BY Single DEF Commaless
<1>5. \A a, b \in Texts : a \o b \in Texts
  BY ConcatProperties DEF Texts
<1>6. \A a, b \in Commaless : a \o b \in Commaless
  BY ConcatProperties DEF Commaless
<1> QED
  BY <1>1, <1>2, <1>3, <1>4, <1>5, <1>6

(* To append behind two sequences is to append to the second.              *)
LEMMA AppendBehind ==
  ASSUME NEW X, NEW a \in Seq(X), NEW b \in Seq(X), NEW c \in X
  PROVE  a \o Append(b, c) = Append(a \o b, c)
<1>1. <<c>> \in Seq(X)
  BY Single
<1>2. a \o b \in Seq(X)
  BY ConcatProperties
<1>3. Append(b, c) = b \o <<c>> /\ Append(a \o b, c) = (a \o b) \o <<c>>
  BY <1>2, AppendIsConcat
<1> QED
  BY <1>1, <1>3, ConcatAssociative, SMTT(60)

(* A text without a comma goes on the piece.                               *)
LEMMA ReadsOn ==
  ASSUME NEW a \in Texts, NEW b \in Commaless
  PROVE  Field!Read(a \o b) = [list |-> Field!Read(a).list, piece |-> Field!Read(a).piece \o b]
<1> DEFINE On(u) == [list |-> Field!Read(a).list, piece |-> Field!Read(a).piece \o u]
           S == {u \in Commaless : Field!Read(a \o u) = On(u)}
<1>0. Field!Read(a) \in Reader /\ Field!Read(a).piece \in Commaless
  BY Reads DEF Reader
<1>1. <<>> \in S
  <2>1. a \o <<>> = a /\ Field!Read(a).piece \o <<>> = Field!Read(a).piece
    BY <1>0, ConcatEmptySeq DEF Texts, Commaless
  <2>2. On(<<>>) = Field!Read(a)
    BY <1>0, <2>1 DEF Reader
  <2> HIDE DEF On
  <2> QED
    BY <2>1, <2>2, CommalessTexts
<1>2. ASSUME NEW u \in Commaless, NEW c \in Field!Chars \ {Comma}, u \in S
      PROVE  Append(u, c) \in S
  <2>1. Append(u, c) \in Commaless
    BY AppendProperties DEF Commaless
  <2>2. a \o Append(u, c) = Append(a \o u, c)
    BY AppendBehind, CommalessTexts, SMTT(60) DEF Texts
  <2>3. Field!Read(a \o Append(u, c)) = Field!Taken(Field!Read(a \o u), c)
    BY <2>2, ReadAppends, CommalessTexts
  <2>4. a \o u \in Texts
    BY CommalessTexts
  <2>5. Field!Read(a \o u) \in Reader /\ Field!Read(a \o u) = On(u)
    BY <1>2, <2>4, Reads
  <2>6. Field!Taken(Field!Read(a \o u), c)
          = [list |-> On(u).list, piece |-> Append(On(u).piece, c)]
    BY <2>5, Takes
  <2>7. Append(Field!Read(a).piece \o u, c) = Field!Read(a).piece \o Append(u, c)
    <3>1. PICK q : q = Field!Read(a).piece
      OBVIOUS
    <3>2. PICK X : X = Field!Chars \ {Comma} /\ Commaless = Seq(X)
      BY DEF Commaless
    <3>3. q \in Seq(X) /\ u \in Seq(X) /\ c \in X
      BY <1>0, <3>1, <3>2
    <3>4. q \o Append(u, c) = Append(q \o u, c)
      BY <3>3, AppendBehind, SMTT(60)
    <3> QED
      BY <3>1, <3>4
  <2>8. [list |-> On(u).list, piece |-> Append(On(u).piece, c)] = On(Append(u, c))
    BY <2>7
  <2> HIDE DEF On
  <2> QED
    BY <2>1, <2>3, <2>6, <2>8
<1> HIDE DEF S
<1>3. Commaless \subseteq S
  BY <1>1, <1>2, EverySequence DEF Commaless
<1> QED
  BY <1>3 DEF S

(* A comma ends an entry: what is read behind it is read on its own.       *)
LEMMA CommaParts ==
  ASSUME NEW a \in Texts, NEW b \in Texts
  PROVE  Field!Read((a \o <<Comma>>) \o b)
           = [list |-> Field!Parse(a) \o Field!Read(b).list, piece |-> Field!Read(b).piece]
<1> DEFINE l == Field!Parse(a)
           After(u) == [list |-> l \o Field!Read(u).list, piece |-> Field!Read(u).piece]
           S == {u \in Texts : Field!Read((a \o <<Comma>>) \o u) = After(u)}
<1>1. /\ l = Field!Read(a).list \o Field!Kept(Field!Read(a).piece) /\ l \in Seq(Canon)
      /\ a \o <<Comma>> \in Texts
  <2>1. Field!Read(a).list \in Seq(Canon) /\ Field!Read(a).piece \in Commaless
    BY Reads DEF Reader
  <2>2. l \in Seq(Canon)
    BY <2>1, KeptEntries, ConcatProperties DEF Field!Parse
  <2> QED
    BY <2>2, CommalessTexts DEF Field!Parse
<1> HIDE DEF l
<1>2. <<>> \in S
  <2>1. Field!Read(<<>>) = Start
    BY ReadAppends
  <2>2. After(<<>>) = [list |-> l, piece |-> <<>>]
    <3>1. l \o <<>> = l
      BY <1>1, ConcatEmptySeq
    <3>2. Start.list = <<>> /\ Start.piece = <<>>
      BY DEF Start
    <3>3. After(<<>>) = [list |-> l \o Start.list, piece |-> Start.piece]
      BY <2>1
    <3> HIDE DEF After
    <3> QED
      BY <3>1, <3>2, <3>3, Zenon
  <2>3. (a \o <<Comma>>) \o <<>> = a \o <<Comma>>
    BY <1>1, ConcatEmptySeq DEF Texts
  <2>4. a \o <<Comma>> = Append(a, Comma)
    BY AppendIsConcat, Signs DEF Texts
  <2>5. Field!Read(Append(a, Comma)) = Field!Taken(Field!Read(a), Comma)
    BY ReadAppends, Signs
  <2>6. Field!Taken(Field!Read(a), Comma) = [list |-> l, piece |-> <<>>]
    BY <1>1, Reads, Takes, Signs
  <2> HIDE DEF After
  <2>7. <<>> \in Texts
    BY CommalessTexts
  <2> QED
    BY <2>2, <2>3, <2>4, <2>5, <2>6, <2>7
<1>3. ASSUME NEW u \in Texts, NEW c \in Field!Chars, u \in S PROVE Append(u, c) \in S
  <2>1. Append(u, c) \in Texts
    BY AppendProperties DEF Texts
  <2>2. PICK w \in Texts : w = a \o <<Comma>>
    BY <1>1
  <2>3. w \o Append(u, c) = Append(w \o u, c) /\ w \o u \in Texts
    <3>1. PICK X : X = Field!Chars /\ Texts = Seq(X)
      BY DEF Texts
    <3>2. w \in Seq(X) /\ u \in Seq(X) /\ c \in X
      BY <3>1
    <3>3. w \o Append(u, c) = Append(w \o u, c)
      BY <3>2, AppendBehind, SMTT(60)
    <3> QED
      BY <3>3, CommalessTexts
  <2>4. Field!Read(w \o u) = After(u) /\ Field!Read(w \o u) \in Reader
    BY <1>3, <2>2, <2>3, Reads
  <2>5. Field!Read(w \o Append(u, c)) = Field!Taken(After(u), c)
    BY <2>3, <2>4, ReadAppends
  <2>6. PICK r \in Reader : r = Field!Read(u)
    BY Reads
  <2>7. Field!Read(Append(u, c)) = Field!Taken(r, c)
    BY <2>6, ReadAppends
  <2>8. After(u) = [list |-> l \o r.list, piece |-> r.piece] /\ After(u) \in Reader
    BY <2>4, <2>6
  <2>9. r.list \in Seq(Canon) /\ r.piece \in Commaless
    BY DEF Reader
  <2>10. CASE c = Comma
    <3>1. Field!Taken(r, c) = [list |-> r.list \o Field!Kept(r.piece), piece |-> <<>>]
      BY <2>10, Takes
    <3>2. Field!Taken(After(u), c)
            = [list |-> (l \o r.list) \o Field!Kept(r.piece), piece |-> <<>>]
      BY <2>8, <2>10, Takes
    <3>3. (l \o r.list) \o Field!Kept(r.piece) = l \o (r.list \o Field!Kept(r.piece))
      <4>1. PICK k \in Seq(Canon) : k = Field!Kept(r.piece)
        BY <2>9, KeptEntries
      <4>2. PICK m \in Seq(Canon) : m = r.list
        BY <2>9
      <4>3. PICK f \in Seq(Canon) : f = l
        BY <1>1
      <4>4. (f \o m) \o k = f \o (m \o k)
        BY ConcatAssociative, SMTT(60)
      <4> QED
        BY <4>1, <4>2, <4>3, <4>4
    <3>4. After(Append(u, c)) = [list |-> l \o (r.list \o Field!Kept(r.piece)), piece |-> <<>>]
      BY <2>7, <3>1
    <3> HIDE DEF After
    <3> QED
      BY <2>1, <2>2, <2>5, <3>2, <3>3, <3>4
  <2>11. CASE c # Comma
    <3>1. Field!Taken(r, c) = [list |-> r.list, piece |-> Append(r.piece, c)]
      BY <2>11, Takes
    <3>2. Field!Taken(After(u), c) = [list |-> l \o r.list, piece |-> Append(r.piece, c)]
      BY <2>8, <2>11, Takes
    <3>3. After(Append(u, c)) = [list |-> l \o r.list, piece |-> Append(r.piece, c)]
      BY <2>7, <3>1
    <3> HIDE DEF After
    <3> QED
      BY <2>1, <2>2, <2>5, <3>2, <3>3
  <2> QED
    BY <2>10, <2>11
<1> HIDE DEF S
<1>4. Texts \subseteq S
  BY <1>2, <1>3, EverySequence DEF Texts
<1> QED
  BY <1>4 DEF S, l

(* The list of a text: an entry of a text without a comma, and the lists   *)
(* of the two sides of a comma, one behind the other.                      *)
LEMMA ParseParts ==
  /\ \A t \in Texts : Field!Parse(t) \in Seq(Canon)
  /\ \A b \in Commaless : Field!Parse(b) = Field!Kept(b)
  /\ \A a, b \in Texts : Field!Parse((a \o <<Comma>>) \o b) = Field!Parse(a) \o Field!Parse(b)
<1>1. ASSUME NEW t \in Texts
      PROVE  /\ Field!Read(t).list \in Seq(Canon) /\ Field!Kept(Field!Read(t).piece) \in Seq(Canon)
             /\ Field!Parse(t) = Field!Read(t).list \o Field!Kept(Field!Read(t).piece)
             /\ Field!Parse(t) \in Seq(Canon)
  <2>1. Field!Read(t).list \in Seq(Canon) /\ Field!Kept(Field!Read(t).piece) \in Seq(Canon)
    BY Reads, KeptEntries DEF Reader
  <2> QED
    BY <2>1, ConcatProperties DEF Field!Parse
<1>2. ASSUME NEW b \in Commaless PROVE Field!Parse(b) = Field!Kept(b)
  <2>1. <<>> \in Texts /\ <<>> \o b = b
    BY CommalessTexts, ConcatEmptySeq DEF Commaless
  <2>2. Field!Read(b) = [list |-> <<>>, piece |-> <<>> \o b]
    <3>1. PICK e \in Texts : e = <<>>
      BY <2>1
    <3>2. Field!Read(e \o b) = [list |-> Field!Read(e).list, piece |-> Field!Read(e).piece \o b]
      BY ReadsOn
    <3>3. Field!Read(e).list = <<>> /\ Field!Read(e).piece = <<>>
      BY <3>1, ReadAppends DEF Start
    <3> QED
      BY <2>1, <3>1, <3>2, <3>3
  <2>3. Field!Parse(b) = <<>> \o Field!Kept(b)
    BY <2>1, <2>2 DEF Field!Parse
  <2> QED
    BY <2>3, KeptEntries, ConcatEmptySeq
<1>3. ASSUME NEW a \in Texts, NEW b \in Texts
      PROVE  Field!Parse((a \o <<Comma>>) \o b) = Field!Parse(a) \o Field!Parse(b)
  <2>1. PICK l \in Seq(Canon), m \in Seq(Canon), k \in Seq(Canon) :
          /\ l = Field!Parse(a)
          /\ m = Field!Read(b).list /\ k = Field!Kept(Field!Read(b).piece)
    BY <1>1
  <2>2. PICK t : t = (a \o <<Comma>>) \o b
    OBVIOUS
  <2>3. Field!Read(t) = [list |-> l \o m, piece |-> Field!Read(b).piece]
    BY <2>1, <2>2, CommaParts
  <2>4. Field!Read(t).list = l \o m /\ Field!Read(t).piece = Field!Read(b).piece
    BY <2>3
  <2>5. Field!Parse(t) = (l \o m) \o k
    BY <2>1, <2>4 DEF Field!Parse
  <2>6. Field!Parse(b) = m \o k
    BY <1>1, <2>1
  <2>7. (l \o m) \o k = l \o (m \o k)
    BY ConcatAssociative, SMTT(60)
  <2> QED
    BY <2>1, <2>2, <2>5, <2>6, <2>7
<1> QED
  BY <1>1, <1>2, <1>3

(* Three texts one behind the other.                                       *)
LEMMA TextsAssociate ==
  \A a, b, c \in Texts : (a \o b) \o c = a \o (b \o c)
BY ConcatAssociative, SMTT(60) DEF Texts

(* What stands before a place: entries that stay, and the piece there.     *)
LEMMA Before ==
  ASSUME NEW x \in Texts
  PROVE  \E l \in Seq(Canon), q \in Commaless :
           \A w \in Texts : Field!Parse(x \o w) = l \o Field!Parse(q \o w)
<1> DEFINE Splits(u, l, q) == \A w \in Texts : Field!Parse(u \o w) = l \o Field!Parse(q \o w)
           S == {u \in Texts : \E l \in Seq(Canon), q \in Commaless : Splits(u, l, q)}
<1>1. <<>> \in S
  <2>1. PICK e \in Texts : e = <<>> /\ e \in Commaless /\ e \in Seq(Canon)
    BY CommalessTexts, EmptySeq
  <2>2. ASSUME NEW w \in Texts PROVE Field!Parse(e \o w) = e \o Field!Parse(e \o w)
    <3>1. PICK t \in Texts : t = e \o w
      BY CommalessTexts
    <3>2. PICK p \in Seq(Canon) : p = Field!Parse(t)
      BY ParseParts
    <3>3. p = e \o p
      BY <2>1, ConcatEmptySeq
    <3> QED
      BY <3>1, <3>2, <3>3
  <2>3. Splits(e, e, e)
    BY <2>2
  <2> HIDE DEF Splits
  <2> QED
    BY <2>1, <2>3
<1>2. ASSUME NEW u \in Texts, NEW c \in Field!Chars, u \in S PROVE Append(u, c) \in S
  <2>1. PICK l \in Seq(Canon), q \in Commaless : Splits(u, l, q)
    BY <1>2
  <2>2. PICK d \in Texts : d = <<c>>
    BY Single DEF Texts
  <2>3. Append(u, c) = u \o d /\ u \o d \in Texts
    BY <2>2, AppendIsConcat, CommalessTexts DEF Texts
  <2>4. CASE c = Comma
    <3>1. PICK k \in Seq(Canon), e \in Commaless : k = Field!Parse(u) /\ e = <<>>
      BY ParseParts, CommalessTexts
    <3>2. ASSUME NEW w \in Texts PROVE Field!Parse((u \o d) \o w) = k \o Field!Parse(e \o w)
      <4>1. e \o w = w
        BY <3>1, ConcatEmptySeq DEF Texts
      <4>2. Field!Parse((u \o d) \o w) = Field!Parse(u) \o Field!Parse(w)
        BY <2>2, <2>4, ParseParts
      <4> QED
        BY <3>1, <4>1, <4>2
    <3>3. Splits(u \o d, k, e)
      BY <3>2
    <3> HIDE DEF Splits
    <3> QED
      BY <2>3, <3>3
  <2>5. CASE c # Comma
    <3>1. PICK r \in Commaless : r = q \o d
      BY <2>2, <2>5, CommalessTexts
    <3>2. q \in Texts /\ r \in Texts
      BY CommalessTexts
    <3>3. ASSUME NEW w \in Texts PROVE Field!Parse((u \o d) \o w) = l \o Field!Parse(r \o w)
      <4>1. PICK t \in Texts : t = d \o w
        BY CommalessTexts
      <4>2. (u \o d) \o w = u \o t
        <5>1. (u \o d) \o w = u \o (d \o w)
          BY TextsAssociate, Zenon
        <5> QED
          BY <4>1, <5>1, Zenon
      <4>3. r \o w = q \o t
        <5>1. (q \o d) \o w = q \o (d \o w)
          <6>1. q \in Texts /\ d \in Texts /\ w \in Texts
            BY <3>2
          <6> QED
            BY <6>1, TextsAssociate, SMTT(60)
        <5> QED
          BY <3>1, <4>1, <5>1, Zenon
      <4> QED
        BY <2>1, <4>2, <4>3
    <3>4. Splits(u \o d, l, r)
      BY <3>3
    <3> HIDE DEF Splits
    <3> QED
      BY <2>3, <3>4
  <2> QED
    BY <2>4, <2>5
<1> HIDE DEF S
<1>3. Texts \subseteq S
  BY <1>1, <1>2, EverySequence DEF Texts
<1> QED
  BY <1>3 DEF S

(* A text without a comma, or one up to its first comma.                   *)
LEMMA FirstComma ==
  ASSUME NEW y \in Texts
  PROVE  \/ y \in Commaless
         \/ \E z \in Commaless, d \in Texts : y = (z \o <<Comma>>) \o d
<1> DEFINE Cut(u) == \E z \in Commaless, d \in Texts : u = (z \o <<Comma>>) \o d
           S == {u \in Texts : u \in Commaless \/ Cut(u)}
<1>1. <<>> \in S
  BY CommalessTexts
<1>2. ASSUME NEW u \in Texts, NEW c \in Field!Chars, u \in S PROVE Append(u, c) \in S
  <2>1. Append(u, c) \in Texts
    BY AppendProperties DEF Texts
  <2>2. CASE u \in Commaless /\ c # Comma
    <3>1. Append(u, c) \in Commaless
      BY <2>2, AppendProperties DEF Commaless
    <3> HIDE DEF Cut
    <3> QED
      BY <2>1, <3>1
  <2>3. CASE u \in Commaless /\ c = Comma
    <3>1. PICK e \in Texts, t \in Texts : e = <<>> /\ t = u \o <<Comma>>
      BY CommalessTexts
    <3>2. t \o e = t
      BY <3>1, ConcatEmptySeq DEF Texts
    <3>3. Append(u, c) = t
      BY <2>3, <3>1, AppendIsConcat DEF Texts
    <3>4. Append(u, c) = (u \o <<Comma>>) \o e
      BY <3>1, <3>2, <3>3
    <3>5. Cut(Append(u, c))
      BY <2>3, <3>4
    <3> HIDE DEF Cut
    <3> QED
      BY <2>1, <3>5
  <2>4. CASE Cut(u)
    <3>1. PICK z \in Commaless, d \in Texts : u = (z \o <<Comma>>) \o d
      BY <2>4
    <3>2. PICK w \in Texts : w = z \o <<Comma>>
      BY CommalessTexts
    <3>3. PICK X : X = Field!Chars /\ Texts = Seq(X)
      BY DEF Texts
    <3>4. w \in Seq(X) /\ d \in Seq(X) /\ c \in X
      BY <3>3
    <3>5. w \o Append(d, c) = Append(w \o d, c) /\ Append(d, c) \in Seq(X)
      BY <3>4, AppendBehind, AppendProperties, SMTT(60)
    <3>6. PICK f \in Texts : f = Append(d, c)
      BY <3>3, <3>5
    <3>7. Append(u, c) = (z \o <<Comma>>) \o f
      BY <3>1, <3>2, <3>5, <3>6
    <3>8. Cut(Append(u, c))
      BY <3>7
    <3> HIDE DEF Cut
    <3> QED
      BY <2>1, <3>8
  <2> HIDE DEF Cut
  <2> QED
    BY <1>2, <2>2, <2>3, <2>4
<1> HIDE DEF S
<1>3. Texts \subseteq S
  BY <1>1, <1>2, EverySequence DEF Texts
<1> QED
  BY <1>3 DEF S

(* What stands behind a place.                                             *)
LEMMA Behind ==
  ASSUME NEW y \in Texts
  PROVE  \E z \in Commaless, l \in Seq(Canon) :
           \A w \in Texts : Field!Parse(w \o y) = Field!Parse(w \o z) \o l
<1>1. CASE y \in Commaless
  <2>1. PICK l \in Seq(Canon) : l = <<>>
    BY EmptySeq
  <2>2. ASSUME NEW w \in Texts PROVE Field!Parse(w \o y) = Field!Parse(w \o y) \o l
    <3>1. PICK t \in Texts : t = w \o y
      BY CommalessTexts
    <3>2. PICK p \in Seq(Canon) : p = Field!Parse(t)
      BY ParseParts
    <3>3. p = p \o l
      BY <2>1, ConcatEmptySeq
    <3> QED
      BY <3>1, <3>2, <3>3
  <2> QED
    BY <1>1, <2>2
<1>2. CASE y \notin Commaless
  <2>1. PICK z \in Commaless, d \in Texts : y = (z \o <<Comma>>) \o d
    BY <1>2, FirstComma
  <2>2. PICK l \in Seq(Canon) : l = Field!Parse(d)
    BY ParseParts
  <2>3. PICK m \in Texts : m = <<Comma>>
    BY CommalessTexts
  <2>4. z \in Texts
    BY CommalessTexts
  <2>5. ASSUME NEW w \in Texts PROVE Field!Parse(w \o y) = Field!Parse(w \o z) \o l
    <3>1. PICK v \in Texts, t \in Texts : v = w \o z /\ t = z \o m
      BY <2>4, CommalessTexts
    <3>2. w \o y = (w \o t) \o d
      <4>1. (w \o t) \o d = w \o (t \o d)
        BY TextsAssociate, Zenon
      <4> QED
        BY <2>1, <2>3, <3>1, <4>1, Zenon
    <3>3. w \o t = v \o m
      <4>1. (w \o z) \o m = w \o (z \o m)
        <5>1. w \in Texts /\ z \in Texts /\ m \in Texts
          BY <2>4
        <5> QED
          BY <5>1, TextsAssociate, SMTT(60)
      <4> QED
        BY <3>1, <4>1, Zenon
    <3>4. Field!Parse((v \o m) \o d) = Field!Parse(v) \o Field!Parse(d)
      BY <2>3, ParseParts
    <3> QED
      BY <2>2, <3>1, <3>2, <3>3, <3>4
  <2> QED
    BY <2>5
<1> QED
  BY <1>1, <1>2

(* An empty text is an empty list.                                         *)
LEMMA EmptyParses == Field!Parse(<<>>) = <<>>
<1>1. PICK r \in Reader : r = Field!Read(<<>>) /\ r.list = <<>> /\ r.piece = <<>>
  BY Reads, CommalessTexts, ReadAppends DEF Start
<1>2. Field!Kept(<<>>) = <<>>
  <2>1. DOMAIN <<>> = {}
    OBVIOUS
  <2>2. PICK e : e = <<>>
    OBVIOUS
  <2>3. {k \in DOMAIN e : e[k] # Blank} = {}
    BY <2>1, <2>2
  <2>4. Field!Trim(e) = e
    BY <2>2, <2>3, Trims
  <2> QED
    BY <2>2, <2>4 DEF Field!Kept, Field!Entry
<1> QED
  BY <1>1, <1>2, ConcatEmptySeq DEF Field!Parse

(* What is on the screen means the list in the form.                       *)
LEMMA DisplayedIsParsed ==
  ASSUME NEW v \in Seq(Canon)
  PROVE  Field!Display(v) \in Texts /\ Field!Parse(Field!Display(v)) = v
<1> DEFINE S == {u \in Seq(Canon) : /\ Field!Display(u) \in Texts
                                    /\ Field!Parse(Field!Display(u)) = u}
<1>0. Field!Parse(<<>>) = <<>>
  BY EmptyParses
<1>1. <<>> \in S
  <2>1. DOMAIN <<>> = 1..0
    OBVIOUS
  <2>2. PICK f : DisplaySteps(f, <<>>, 0) /\ Field!Display(<<>>) = f[0]
    BY <2>1, DisplayStepsFold
  <2>3. Field!Display(<<>>) = <<>>
    BY <2>2 DEF DisplaySteps
  <2> QED
    BY <1>0, <2>3, CommalessTexts, EmptySeq
<1>2. ASSUME NEW u \in Seq(Canon), NEW e \in Canon, u \in S PROVE Append(u, e) \in S
  <2>1. PICK t \in Texts : t = Field!Display(u) /\ Field!Parse(t) = u
    BY <1>2
  <2>2. Field!Display(Append(u, e)) = Field!Joined(t, e)
    <3>0. PICK n, m \in Nat : OneMore(u, n, Append(u, e), m, e)
      BY Appended, SMTT(60)
    <3>1. PICK w : w = Append(u, e) /\ OneMore(u, n, w, m, e)
      BY <3>0
    <3>2. PICK f : DisplaySteps(f, w, m) /\ Field!Display(w) = f[m]
      BY <3>1, DisplayStepsFold DEF OneMore
    <3>3. DisplaySteps(f, u, n) /\ f[m] = Field!Joined(f[n], e)
      <4>1. \A k \in 1..n : k \in 1..m
        BY <3>1 DEF OneMore
      <4>2. m \in 1..m /\ m - 1 = n
        BY <3>1 DEF OneMore
      <4> QED
        BY <3>1, <3>2, <4>1, <4>2 DEF DisplaySteps, OneMore
    <3>4. Field!Display(u) = f[n]
      BY <3>1, <3>3, DisplayStepsFold DEF OneMore
    <3> QED
      BY <2>1, <3>1, <3>2, <3>3, <3>4
  <2>3. PICK b \in Commaless : /\ b = <<Blank>> \o e /\ Field!Kept(b) = <<e>>
                               /\ Field!Kept(e) = <<e>> /\ e \in Commaless
    BY EntryIsKept
  <2>4. b \in Texts /\ e \in Texts
    BY <2>3, CommalessTexts
  <2>5. Append(u, e) \in Seq(Canon) /\ Append(u, e) = u \o <<e>>
    BY AppendProperties, AppendIsConcat
  <2>6. CASE t = <<>>
    <3>1. Field!Joined(t, e) = e
      BY <2>6 DEF Field!Joined
    <3>2. Field!Parse(e) = <<e>>
      BY <2>3, ParseParts
    <3>3. u = <<>>
      <4>1. Field!Parse(<<>>) = <<>>
        BY <1>0
      <4> QED
        BY <2>1, <2>6, <4>1
    <3>4. u \o <<e>> = <<e>>
      BY <3>3, Single, ConcatEmptySeq
    <3> QED
      BY <2>2, <2>4, <2>5, <3>1, <3>2, <3>4
  <2>7. CASE t # <<>>
    <3>1. Field!Joined(t, e) = (t \o <<Comma, Blank>>) \o e
      BY <2>7, Zenon DEF Field!Joined, Comma, Blank
    <3>2. PICK m \in Texts, s \in Texts : m = <<Comma>> /\ s = <<Blank>>
      BY Single, Signs DEF Texts
    <3>3. <<Comma, Blank>> = m \o s
      BY <3>2
    <3>4. (t \o (m \o s)) \o e = (t \o m) \o b
      <4>1. t \o (m \o s) = (t \o m) \o s
        BY TextsAssociate, SMTT(60)
      <4>2. PICK w \in Texts : w = t \o m
        BY CommalessTexts
      <4>3. (w \o s) \o e = w \o (s \o e)
        BY <2>4, TextsAssociate, SMTT(60)
      <4> QED
        BY <2>3, <3>2, <4>1, <4>2, <4>3
    <3>5. Field!Joined(t, e) = (t \o m) \o b
      BY <3>1, <3>3, <3>4
    <3>6. Field!Parse((t \o m) \o b) = Field!Parse(t) \o Field!Parse(b)
      BY <2>4, <3>2, ParseParts
    <3>7. Field!Parse(b) = <<e>>
      BY <2>3, ParseParts
    <3>8. (t \o m) \o b \in Texts
      BY <2>4, CommalessTexts
    <3> QED
      BY <2>1, <2>2, <2>5, <3>5, <3>6, <3>7, <3>8
  <2> QED
    BY <2>6, <2>7
<1> HIDE DEF S
<1>3. Seq(Canon) \subseteq S
  BY <1>1, <1>2, EverySequence
<1> QED
  BY <1>3 DEF S

(* Two lists alike but for two entries at most in either.                  *)
Near(v, w) ==
  \E p \in 0..Len(v) :
    /\ SubSeq(v, 1, p) = SubSeq(w, 1, p)
    /\ \E s \in 0..(Len(v) - p) :
         /\ Len(v) - p - s <= 2
         /\ Len(w) - p - s \in 0..2
         /\ SubSeq(v, Len(v) - s + 1, Len(v)) = SubSeq(w, Len(w) - s + 1, Len(w))

(* Such lists are near each other.                                         *)
LEMMA MiddleChanges ==
  ASSUME NEW X, NEW l \in Seq(X), NEW r \in Seq(X), NEW a \in Seq(X), NEW b \in Seq(X),
         Len(a) <= 2, Len(b) <= 2
  PROVE  Near(l \o (a \o r), l \o (b \o r))
<1> DEFINE V(m) == l \o (m \o r)
<1>0. ASSUME NEW m \in Seq(X) PROVE (l \o m) \o r = l \o (m \o r)
  BY ConcatAssociative, SMTT(30)
<1>1. PICK p \in Nat, s \in Nat : p = Len(l) /\ s = Len(r)
  BY LenProperties
<1>2. ASSUME NEW m \in Seq(X)
      PROVE  /\ Len(m) \in Nat /\ Len(V(m)) = p + Len(m) + s
             /\ SubSeq(V(m), 1, p) = l
             /\ SubSeq(V(m), Len(V(m)) - s + 1, Len(V(m))) = r
  <2>1. PICK n \in Nat : n = Len(m)
    BY LenProperties
  <2>2. PICK h \in Seq(X) : h = m \o r /\ Len(h) = n + s
    BY <1>1, <2>1, ConcatProperties
  <2>3. PICK x \in Seq(X) : x = l \o h /\ Len(x) = p + (n + s)
    <3>1. l \o h \in Seq(X) /\ Len(l \o h) = Len(l) + Len(h)
      BY ConcatProperties
    <3> QED
      BY <1>1, <2>2, <3>1
  <2>4. SubSeq(x, 1, p) = l
    BY <1>1, <2>3, Ends
  <2>5. PICK g \in Seq(X) : g = l \o m /\ Len(g) = p + n
    BY <1>1, <2>1, ConcatProperties
  <2>6. x = g \o r
    BY <1>0, <2>2, <2>3, <2>5
  <2>7. SubSeq(g \o r, Len(g) + 1, Len(g) + Len(r)) = r
    BY Ends
  <2>8. SubSeq(x, (p + n) + 1, (p + n) + s) = r
    BY <1>1, <2>5, <2>6, <2>7
  <2>9. Len(x) - s + 1 = (p + n) + 1 /\ Len(x) = (p + n) + s
    BY <2>3
  <2> QED
    BY <2>1, <2>2, <2>3, <2>4, <2>8, <2>9
<1>3. PICK v, w : v = V(a) /\ w = V(b)
  OBVIOUS
<1>4. PICK i \in Nat, j \in Nat : i = Len(a) /\ j = Len(b) /\ i <= 2 /\ j <= 2
  BY LenProperties
<1>5. /\ Len(v) = p + i + s /\ Len(w) = p + j + s
      /\ SubSeq(v, 1, p) = SubSeq(w, 1, p)
      /\ SubSeq(v, Len(v) - s + 1, Len(v)) = SubSeq(w, Len(w) - s + 1, Len(w))
  BY <1>2, <1>3, <1>4
<1>6. /\ p \in 0..Len(v) /\ s \in 0..(Len(v) - p)
      /\ Len(v) - p - s = i /\ Len(w) - p - s = j
  BY <1>5
<1>7. Len(v) - p - s <= 2 /\ Len(w) - p - s \in 0..2
  <2>1. i <= 2 /\ j \in 0..2
    BY <1>4
  <2> QED
    BY <1>6, <2>1, Zenon
<1>8. Near(v, w)
  BY <1>5, <1>6, <1>7 DEF Near
<1> QED
  BY <1>3, <1>8

(* The same entries around a middle of two at most.                        *)
Around(v, w) ==
  \E l, r, a, b \in Seq(Canon) :
    Len(a) <= 2 /\ Len(b) <= 2 /\ v = l \o (a \o r) /\ w = l \o (b \o r)

(* They are near each other, either way.                                   *)
LEMMA AroundIsNear ==
  ASSUME NEW v, NEW w, Around(v, w)
  PROVE  Near(v, w) /\ Near(w, v)
<1>1. PICK l, r, a, b \in Seq(Canon) :
        Len(a) <= 2 /\ Len(b) <= 2 /\ v = l \o (a \o r) /\ w = l \o (b \o r)
  BY DEF Around
<1>2. Near(l \o (a \o r), l \o (b \o r)) /\ Near(l \o (b \o r), l \o (a \o r))
  BY <1>1, MiddleChanges
<1> QED
  BY <1>1, <1>2

(* What two texts that differ by one character are read as.                *)
LEMMA Typed ==
  ASSUME NEW x \in Texts, NEW y \in Texts, NEW c \in Field!Chars, NEW d, d = <<c>>
  PROVE  Around(Field!Parse(x \o y), Field!Parse((x \o d) \o y))
<1>1. PICK l \in Seq(Canon), q \in Commaless :
        \A w \in Texts : Field!Parse(x \o w) = l \o Field!Parse(q \o w)
  BY Before
<1>2. PICK z \in Commaless, r \in Seq(Canon) :
        \A w \in Texts : Field!Parse(w \o y) = Field!Parse(w \o z) \o r
  BY Behind
<1>3. d \in Texts /\ q \in Texts /\ z \in Texts
  <2>1. d \in Texts
    BY Single DEF Texts
  <2> QED
    BY <2>1, CommalessTexts
<1>4. PICK t \in Texts : t = q \o d
  BY <1>3, CommalessTexts
<1>5. PICK a \in Seq(Canon), b \in Seq(Canon) :
        a = Field!Parse(q \o z) /\ b = Field!Parse(t \o z)
  BY <1>3, CommalessTexts, ParseParts
<1>6. Len(a) <= 2
  <2>1. q \o z \in Commaless
    BY CommalessTexts
  <2>2. a = Field!Kept(q \o z) /\ Len(a) <= 1
    BY <1>5, <2>1, ParseParts, KeptEntries
  <2>3. Len(a) \in Nat
    BY LenProperties
  <2> QED
    BY <2>2, <2>3
<1>7. Len(b) <= 2
  <2>1. CASE c = Comma
    <3>1. PICK g \in Seq(Canon), h \in Seq(Canon) :
            /\ g = Field!Parse(q) /\ Len(g) <= 1
            /\ h = Field!Parse(z) /\ Len(h) <= 1
      BY ParseParts, KeptEntries
    <3>2. b = g \o h
      BY <1>3, <1>4, <1>5, <2>1, <3>1, ParseParts
    <3>3. Len(b) = Len(g) + Len(h)
      BY <3>2, ConcatProperties
    <3>4. Len(g) \in Nat /\ Len(h) \in Nat
      BY LenProperties
    <3> QED
      BY <3>1, <3>3, <3>4
  <2>2. CASE c # Comma
    <3>1. d \in Commaless
      BY <2>2, CommalessTexts
    <3>2. t \o z \in Commaless
      BY <1>4, <3>1, CommalessTexts
    <3>3. b = Field!Kept(t \o z) /\ Len(b) <= 1
      BY <1>5, <3>2, ParseParts, KeptEntries
    <3>4. Len(b) \in Nat
      BY LenProperties
    <3> QED
      BY <3>3, <3>4
  <2> QED
    BY <2>1, <2>2
<1>8. Field!Parse(x \o y) = l \o (a \o r)
  BY <1>1, <1>2, <1>3, <1>5
<1>9. Field!Parse((x \o d) \o y) = l \o (b \o r)
  <2>1. PICK w \in Texts : w = d \o y
    BY <1>3, CommalessTexts
  <2>2. (x \o d) \o y = x \o w
    <3>1. x \in Texts /\ d \in Texts /\ y \in Texts
      BY <1>3
    <3>2. (x \o d) \o y = x \o (d \o y)
      BY <3>1, TextsAssociate, SMTT(60)
    <3> QED
      BY <2>1, <3>2
  <2>3. q \o w = t \o y
    <3>1. q \in Texts /\ d \in Texts /\ y \in Texts
      BY <1>3
    <3>2. (q \o d) \o y = q \o (d \o y)
      BY <3>1, TextsAssociate, SMTT(60)
    <3> QED
      BY <1>4, <2>1, <3>2
  <2>4. Field!Parse(x \o w) = l \o Field!Parse(t \o y)
    BY <1>1, <2>1, <2>3
  <2>5. Field!Parse(t \o y) = b \o r
    BY <1>2, <1>5
  <2> QED
    BY <2>2, <2>4, <2>5
<1> QED
  BY <1>6, <1>7, <1>8, <1>9 DEF Around

(* A text cut in two at a place, with the character there or without it.   *)
LEMMA Cuts ==
  ASSUME NEW t \in Texts
  PROVE  /\ \A i \in 1..(Len(t) + 1), c \in Field!Chars :
              \E x, y \in Texts :
                t = x \o y /\ Field!InsertAt(t, i, c) = (x \o <<c>>) \o y
         /\ \A i \in DOMAIN t :
              \E x, y \in Texts, c \in Field!Chars :
                t = (x \o <<c>>) \o y /\ Field!RemoveAt(t, i) = x \o y
<1>1. PICK X : X = Field!Chars /\ Texts = Seq(X)
  BY DEF Texts
<1>2. PICK n \in Nat : n = Len(t) /\ DOMAIN t = 1..n /\ SubSeq(t, 1, n) = t
  BY <1>1, LenProperties, SubSeqFull
<1>3. ASSUME NEW i \in Nat, NEW j \in Nat, 1 <= i, j <= n PROVE SubSeq(t, i, j) \in Texts
  <2>1. \A k \in i..j : k \in 1..n
    BY <1>3
  <2>2. \A k \in i..j : t[k] \in X
    BY <1>1, <1>2, <2>1, ElementOfSeq
  <2> QED
    BY <1>1, <2>2, SubSeqProperties
<1>4. ASSUME NEW i \in 1..(n + 1)
      PROVE  t = SubSeq(t, 1, i - 1) \o SubSeq(t, i, n)
  <2>1. PICK k \in Nat : k = i - 1 /\ k \in 0..n /\ k + 1 = i
    BY <1>4
  <2>2. 1 \in 1..(n + 1) /\ k \in (1 - 1)..n /\ n \in k..n
    BY <2>1
  <2>3. SubSeq(t, 1, k) \o SubSeq(t, k + 1, n) = SubSeq(t, 1, n)
    BY <1>1, <1>2, <2>2, ConcatAdjacentSubSeq
  <2> QED
    BY <1>2, <2>1, <2>3
<1>5. ASSUME NEW i \in 1..(n + 1), NEW c \in Field!Chars
      PROVE  \E x, y \in Texts :
               t = x \o y /\ Field!InsertAt(t, i, c) = (x \o <<c>>) \o y
  <2>1. SubSeq(t, 1, i - 1) \in Texts /\ SubSeq(t, i, n) \in Texts
    <3>1. 1 \in Nat /\ i - 1 \in Nat /\ i \in Nat /\ 1 <= i /\ i - 1 <= n /\ n <= n
      OBVIOUS
    <3> QED
      BY <1>3, <3>1
  <2>2. Field!InsertAt(t, i, c) = (SubSeq(t, 1, i - 1) \o <<c>>) \o SubSeq(t, i, n)
    BY <1>2, Zenon DEF Field!InsertAt
  <2> QED
    BY <1>4, <2>1, <2>2
<1>6. ASSUME NEW i \in DOMAIN t
      PROVE  \E x, y \in Texts, c \in Field!Chars :
               t = (x \o <<c>>) \o y /\ Field!RemoveAt(t, i) = x \o y
  <2>0. /\ i \in Nat /\ i - 1 \in Nat /\ i + 1 \in Nat /\ 1 <= i /\ i <= n
        /\ 1 <= i + 1 /\ i - 1 <= n /\ n <= n /\ 1 <= 1 /\ 1 \in Nat
    BY <1>2
  <2>1. PICK x, y, c :
          x = SubSeq(t, 1, i - 1) /\ y = SubSeq(t, i + 1, n) /\ c = t[i]
    OBVIOUS
  <2>2. x \in Texts /\ y \in Texts
    BY <1>3, <2>0, <2>1
  <2>3. c \in X
    BY <1>1, <1>2, <2>1, ElementOfSeq
  <2>4. SubSeq(t, i, n) = <<c>> \o y
    <3>1. i \in 1..n /\ n \in i..n
      BY <2>0
    <3>2. SubSeq(t, i, n) = <<t[i]>> \o SubSeq(t, i + 1, n)
      BY <1>1, <1>2, <3>1, SubSeqRecursiveFirst
    <3> QED
      BY <2>1, <3>2
  <2>5. i \in 1..(n + 1)
    BY <2>0
  <2>6. t = x \o (<<c>> \o y)
    BY <1>4, <2>1, <2>4, <2>5
  <2>7. PICK d \in Texts : d = <<c>>
    BY <1>1, <2>3, Single
  <2>8. (x \o d) \o y = x \o (d \o y)
    <3>1. x \in Texts /\ d \in Texts /\ y \in Texts
      BY <2>2
    <3> QED
      BY <3>1, TextsAssociate, SMTT(60)
  <2>9. Field!RemoveAt(t, i) = x \o y
    BY <1>2, <2>1, Zenon DEF Field!RemoveAt
  <2> QED
    BY <1>1, <2>2, <2>3, <2>6, <2>7, <2>8, <2>9
<1> QED
  BY <1>2, <1>5, <1>6

(* The list in the form is one of entries.                                 *)
FieldInv == value \in Seq(Canon)

(* What a keystroke does to the list.                                      *)
LEMMA KeyIsLocal ==
  ASSUME FieldInv, Field!Key
  PROVE  /\ value' \in Seq(Canon) /\ Near(value, value')
         /\ Field!Parse(Field!Display(value')) = value'
<1>1. PICK t \in Texts : t = Field!Display(value) /\ Field!Parse(t) = value
  BY DisplayedIsParsed DEF FieldInv
<1>2. ASSUME NEW w \in Texts, value' = Field!Parse(w), Near(value, Field!Parse(w))
      PROVE  /\ value' \in Seq(Canon) /\ Near(value, value')
             /\ Field!Parse(Field!Display(value')) = value'
  <2>1. PICK v \in Seq(Canon) : v = Field!Parse(w)
    BY ParseParts
  <2>2. Field!Parse(Field!Display(v)) = v
    BY DisplayedIsParsed
  <2> QED
    BY <1>2, <2>1, <2>2
<1>3. ASSUME NEW i \in 1..(Len(t) + 1), NEW c \in Field!Chars,
             value' = Field!Parse(Field!InsertAt(t, i, c))
      PROVE  \E w \in Texts : value' = Field!Parse(w) /\ Near(value, Field!Parse(w))
  <2>1. PICK x, y \in Texts : t = x \o y /\ Field!InsertAt(t, i, c) = (x \o <<c>>) \o y
    BY Cuts
  <2>2. PICK d \in Texts : d = <<c>>
    BY Single DEF Texts
  <2>3. PICK w \in Texts : w = (x \o d) \o y
    BY CommalessTexts
  <2>4. Around(Field!Parse(x \o y), Field!Parse((x \o d) \o y))
    BY <2>2, Typed
  <2>5. Near(value, Field!Parse(w))
    BY <1>1, <2>1, <2>3, <2>4, AroundIsNear
  <2> QED
    BY <1>3, <2>1, <2>2, <2>3, <2>5
<1>4. ASSUME NEW i \in DOMAIN t, value' = Field!Parse(Field!RemoveAt(t, i))
      PROVE  \E w \in Texts : value' = Field!Parse(w) /\ Near(value, Field!Parse(w))
  <2>1. PICK x, y \in Texts, c \in Field!Chars :
          t = (x \o <<c>>) \o y /\ Field!RemoveAt(t, i) = x \o y
    BY Cuts
  <2>2. PICK d \in Texts : d = <<c>>
    BY Single DEF Texts
  <2>3. PICK w \in Texts : w = x \o y
    BY CommalessTexts
  <2>4. Around(Field!Parse(x \o y), Field!Parse((x \o d) \o y))
    BY <2>2, Typed
  <2>5. Near(value, Field!Parse(w))
    BY <1>1, <2>1, <2>2, <2>3, <2>4, AroundIsNear
  <2> QED
    BY <1>4, <2>1, <2>3, <2>5
<1>5. ASSUME NEW c \in Field!Chars, value' = Field!Parse(t \o <<Comma, c>>)
      PROVE  \E w \in Texts : value' = Field!Parse(w) /\ Near(value, Field!Parse(w))
  <2>1. PICK m \in Texts, d \in Texts : m = <<Comma>> /\ d = <<c>>
    BY Single, Signs DEF Texts
  <2>2. <<Comma, c>> = m \o d
    BY <2>1
  <2>3. PICK w \in Texts : w = (t \o m) \o d
    BY CommalessTexts
  <2>4. t \o <<Comma, c>> = w
    <3>1. (t \o m) \o d = t \o (m \o d)
      BY TextsAssociate, SMTT(60)
    <3> QED
      BY <2>2, <2>3, <3>1
  <2>5. PICK b \in Seq(Canon) : b = Field!Parse(d) /\ Len(b) <= 1
    <3>1. CASE c # Comma
      <4>1. d \in Commaless
        BY <2>1, <3>1, CommalessTexts
      <4>2. Field!Parse(d) = Field!Kept(d)
        BY <4>1, ParseParts
      <4> QED
        BY <4>1, <4>2, KeptEntries
    <3>2. CASE c = Comma
      <4>1. PICK e \in Commaless : e = <<>>
        BY CommalessTexts
      <4>2. e \in Texts /\ d = (e \o m) \o e
        BY <2>1, <3>2, <4>1, ConcatEmptySeq, CommalessTexts DEF Texts
      <4>3. Field!Parse(d) = Field!Parse(e) \o Field!Parse(e)
        BY <2>1, <4>2, ParseParts
      <4>4. PICK n \in Seq(Canon) : n = <<>>
        BY EmptySeq
      <4>5. Field!Parse(e) = n
        BY <4>1, <4>4, EmptyParses
      <4>6. n \o n = n /\ Len(n) = 0
        BY <4>4, ConcatEmptySeq
      <4>7. Field!Parse(d) = n
        BY <4>3, <4>5, <4>6
      <4>8. n = Field!Parse(d) /\ Len(n) <= 1
        BY <4>6, <4>7
      <4> QED
        BY <4>8, Zenon
    <3> QED
      BY <3>1, <3>2
  <2>6. Field!Parse(w) = value \o b
    BY <1>1, <2>1, <2>3, <2>5, ParseParts
  <2>7. PICK n \in Seq(Canon) : n = <<>> /\ Len(n) = 0
    BY EmptySeq
  <2>8. Near(value \o (n \o n), value \o (b \o n))
    <3>1. Len(n) <= 2 /\ Len(b) <= 2
      <4>1. Len(b) \in Nat
        BY LenProperties
      <4> QED
        BY <2>5, <2>7, <4>1
    <3>2. value \in Seq(Canon)
      BY DEF FieldInv
    <3> QED
      BY <3>1, <3>2, MiddleChanges
  <2>9. n \o n = n /\ value \o n = value /\ b \o n = b
    BY <2>7, ConcatEmptySeq DEF FieldInv
  <2> QED
    BY <1>5, <2>3, <2>4, <2>6, <2>8, <2>9
<1>6. \/ \E i \in 1..(Len(t) + 1), c \in Field!Chars :
           value' = Field!Parse(Field!InsertAt(t, i, c))
      \/ \E i \in DOMAIN t : value' = Field!Parse(Field!RemoveAt(t, i))
      \/ \E c \in Field!Chars : value' = Field!Parse(t \o <<Comma, c>>)
  BY <1>1, Zenon DEF Field!Key, Comma
<1> QED
  BY <1>2, <1>3, <1>4, <1>5, <1>6

(* A list in a field is only changed where its user types, and what is on  *)
(* the screen means the list that is saved (AdvancedTab.tsx, csvToArr and  *)
(* arrToCSV, and DownloadsTab.tsx: the text is parsed at each keystroke).  *)
THEOREM TypingIsLocal == Spec => KeystrokeIsLocal
<1> DEFINE Local ==
      /\ \E p \in 0..Len(value) :
           /\ SubSeq(value, 1, p) = SubSeq(value', 1, p)
           /\ \E s \in 0..(Len(value) - p) :
                /\ Len(value) - p - s <= 2
                /\ Len(value') - p - s \in 0..2
                /\ SubSeq(value, Len(value) - s + 1, Len(value))
                     = SubSeq(value', Len(value') - s + 1, Len(value'))
      /\ Field!Parse(Field!Display(value')) = value'
<1>1. Init => FieldInv
  <2>1. ASSUME value = <<>> PROVE FieldInv
    BY <2>1, EmptySeq DEF FieldInv
  <2>2. ASSUME Field!Init PROVE FieldInv
    <3>1. PICK w \in Field!SeqOf(Field!Chars, 3) : value = Field!Parse(w)
      BY <2>2 DEF Field!Init
    <3>2. w \in Texts
      <4>1. PICK m \in 0..3 : w \in [1..m -> Field!Chars]
        BY <3>1 DEF Field!SeqOf
      <4>2. m \in Nat
        OBVIOUS
      <4> QED
        BY <4>1, <4>2, SeqDef DEF Texts
    <3> QED
      BY <3>1, <3>2, ParseParts DEF FieldInv
  <2> QED
    BY <2>1, <2>2 DEF Init
<1>2. FieldInv /\ [Next]_vars => FieldInv'
  <2> SUFFICES ASSUME FieldInv, [Next]_vars PROVE FieldInv'
    OBVIOUS
  <2>1. CASE Field!Next
    <3>1. value' \in Seq(Canon)
      BY <2>1, KeyIsLocal DEF Field!Next
    <3>2. kind' = kind
      BY <2>1 DEF Field!Next, Field!Key
    <3>3. Canon' = Canon
      BY <3>2 DEF Canon, Commaless, Field!Chars
    <3> QED
      BY <3>1, <3>3 DEF FieldInv
  <2>2. CASE UNCHANGED field
    BY <2>2 DEF field, FieldInv, Canon, Commaless, Field!Chars
  <2> QED
    BY <2>1, <2>2, OnePart
<1>3. FieldInv /\ [Next]_vars => [Local]_(Field!vars)
  <2> SUFFICES ASSUME FieldInv, Field!Next PROVE Local
    BY OnePart DEF field, Field!vars
  <2> QED
    BY KeyIsLocal DEF Field!Next, Near
<1>4. Spec => [][Local]_(Field!vars)
  BY <1>1, <1>2, <1>3, PTL DEF Spec
<1> QED
  BY <1>4 DEF KeystrokeIsLocal, Field!KeystrokeIsLocal
=============================================================================
