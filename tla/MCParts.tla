------------------------------- MODULE MCParts -------------------------------
(***************************************************************************)
(* The parts that are small enough to be explored whole, one of them in    *)
(* each behaviour: the first state says which, and the others stand still. *)
(* They share nothing, so that nothing is lost by not interleaving them.   *)
(***************************************************************************)
EXTENDS Integers, Sequences, FiniteSets

CONSTANTS
  NumArms, Hedged, Failures,            \* HedgedRace
  Backends, MaxItems,                   \* RemoteBatch
  MaxTotal,                             \* MCChunkPlan
  Size, Limits, MaxAdded,               \* Logs
  Hosts, Caps, MaxRecords,              \* Metrics
  Views, Calls, MaxFlips,               \* Dashboard
  MaxInstalls,                          \* CertStep
  Addresses, MaxVisits,                 \* EndpointTest
  Near, MaxSteps,                       \* Figures
  NumIPs, Workers, MaxRTT               \* FrontScan

VARIABLES
  part,
  pc, arm, results, errs, callerCtx, raceCtx, answer,
  backend, items, phase, at, responses, errorMap, sent, reply,
  total, firstSize, chunkSize, maxChunks,
  limit, entries, next, full, added, logPoll, live, paused, frozen, filter, asOf,
  maxHosts, tick, requests, errors, lastSeen, recorded, failed, latest, gone,
  running, flips, status, statusPoll, call,
  trust, open, trusted, installing, first, pollRef, install, overdue, checks,
  missed,
  store, shown, info, fetch, invalid, mutation, elsewhere,
  up, visit, url, testing, testOk, test, passed, edited,
  figure, count, of, steps,
  scan, upNext, jobs, worker, expired, found, list, googleIP, mounted, taken

Race == INSTANCE HedgedRace
Remote == INSTANCE RemoteBatch
Cut == INSTANCE MCChunkPlan WITH size <- chunkSize
Log == INSTANCE Logs WITH poll <- logPoll
Traffic == INSTANCE Metrics WITH total <- recorded, totalErrors <- failed
Dash == INSTANCE Dashboard WITH poll <- statusPoll
Step == INSTANCE CertStep WITH Installs <- 1..MaxInstalls, store <- trust
Page == INSTANCE CertPage WITH open <- shown
Endpoint == INSTANCE EndpointTest
Home == INSTANCE Figures WITH Totals <- {0, 1, 3, 40}
Scan == INSTANCE FrontScan

race == <<pc, arm, results, errs, callerCtx, raceCtx, answer>>
remote == <<backend, items, phase, at, responses, errorMap, sent, reply>>
cut == <<total, firstSize, chunkSize, maxChunks>>
log == <<limit, entries, next, full, added, logPoll, live, paused, frozen, filter,
         asOf>>
traffic == <<maxHosts, tick, requests, errors, lastSeen, recorded, failed, latest,
             gone>>
dash == <<running, flips, status, statusPoll, call>>
certStep == <<trust, open, trusted, installing, first, pollRef, install, overdue,
              checks, missed>>
certPage == <<store, shown, info, fetch, invalid, mutation, elsewhere>>
endpoint == <<up, visit, url, testing, testOk, test, passed, edited>>
home == <<figure, count, of, steps>>
front == <<scan, upNext, jobs, worker, expired, found, list, googleIP, mounted,
           taken>>
vars == <<part, race, remote, cut, log, traffic, dash, certStep, certPage, endpoint,
          home, front>>

ASSUME PartsAssumption ==
  /\ Race!RaceAssumption /\ Remote!RemoteBatchAssumption
  /\ Log!LogsAssumption /\ Traffic!MetricsAssumption
  /\ Dash!DashboardAssumption
  /\ Endpoint!EndpointTestAssumption /\ Home!FiguresAssumption
  /\ Scan!FrontScanAssumption

Parts ==
  {"race", "remote", "cut", "log", "traffic", "dash", "step", "page", "endpoint",
   "home", "scan"}

(* A part that stands still does so in one of its initial states.          *)
Init ==
  /\ part \in Parts
  /\ Race!Init
  /\ Remote!Init /\ (part # "remote" => backend = "tunnel" /\ items = <<"safe">>)
  /\ IF part = "cut" THEN Cut!Init
     ELSE total = 1 /\ firstSize = 0 /\ chunkSize = 1 /\ maxChunks = 1
  /\ Log!Init /\ (part # "log" => limit = 0)
  /\ Traffic!Init /\ (part # "traffic" => maxHosts = 1)
  /\ Dash!Init /\ (part # "dash" => running)
  /\ Step!Init /\ (part # "step" => trust)
  /\ Page!Init /\ (part # "page" => store)
  /\ Endpoint!Init /\ (part # "endpoint" => up = {})
  /\ IF part = "home" THEN Home!Init
     ELSE figure = "uptime" /\ count = 0 /\ of = 0 /\ steps = 0
  /\ Scan!Init

Next ==
  /\ UNCHANGED part
  /\ \/ /\ part = "race" /\ Race!Next
        /\ UNCHANGED <<remote, cut, log, traffic, dash, certStep, certPage, endpoint,
                       home, front>>
     \/ /\ part = "remote" /\ Remote!Next
        /\ UNCHANGED <<race, cut, log, traffic, dash, certStep, certPage, endpoint,
                       home, front>>
     \/ /\ part = "cut" /\ Cut!Next
        /\ UNCHANGED <<race, remote, log, traffic, dash, certStep, certPage, endpoint,
                       home, front>>
     \/ /\ part = "log" /\ Log!Next
        /\ UNCHANGED <<race, remote, cut, traffic, dash, certStep, certPage, endpoint,
                       home, front>>
     \/ /\ part = "traffic" /\ Traffic!Next
        /\ UNCHANGED <<race, remote, cut, log, dash, certStep, certPage, endpoint,
                       home, front>>
     \/ /\ part = "dash" /\ Dash!Next
        /\ UNCHANGED <<race, remote, cut, log, traffic, certStep, certPage, endpoint,
                       home, front>>
     \/ /\ part = "step" /\ Step!Next
        /\ UNCHANGED <<race, remote, cut, log, traffic, dash, certPage, endpoint,
                       home, front>>
     \/ /\ part = "page" /\ Page!Next
        /\ UNCHANGED <<race, remote, cut, log, traffic, dash, certStep, endpoint,
                       home, front>>
     \/ /\ part = "endpoint" /\ Endpoint!Next
        /\ UNCHANGED <<race, remote, cut, log, traffic, dash, certStep, certPage,
                       home, front>>
     \/ /\ part = "home" /\ Home!Next
        /\ UNCHANGED <<race, remote, cut, log, traffic, dash, certStep, certPage,
                       endpoint, front>>
     \/ /\ part = "scan" /\ Scan!Next
        /\ UNCHANGED <<race, remote, cut, log, traffic, dash, certStep, certPage,
                       endpoint, home>>

(* The fairness of the four parts with a liveness property, while they run *)
FairSpec ==
  /\ Init /\ [][Next]_vars
  /\ WF_race(part = "race" /\ Race!Collect)
  /\ \A i \in 1..NumArms : WF_race(part = "race" /\ Race!RunArm(i))
  /\ WF_dash(part = "dash" /\ Dash!Poll)
  /\ WF_dash(part = "dash" /\ Dash!PollReads)
  /\ WF_dash(part = "dash" /\ Dash!PollAnswers)
  /\ \A c \in Calls : /\ WF_dash(part = "dash" /\ Dash!Performed(c))
                      /\ WF_dash(part = "dash" /\ Dash!Returned(c))
  /\ WF_certStep(part = "step" /\ Step!FirstReads)
  /\ WF_certStep(part = "step" /\ Step!FirstAnswers)
  /\ \A i \in 1..MaxInstalls :
       /\ WF_certStep(part = "step" /\ (Step!Returns(i) \/ Step!Fails(i)))
       /\ WF_certStep(part = "step" /\ Step!Tick(i))
       /\ WF_certStep(part = "step" /\ Step!Overdue(i))
       /\ WF_certStep(part = "step" /\ Step!CheckAnswers(i))
  /\ WF_front(part = "scan" /\ Scan!Main)
  /\ \A w \in Workers : WF_front(part = "scan" /\ Scan!Work(w))
-----------------------------------------------------------------------------
(* The parts' own properties, where they are explained.                    *)
FailureIsTheWorst == Race!FailureIsTheWorst
NoArmCutShort == Race!NoArmCutShort
AstrayOnlyAfterFailedReplay == Remote!AstrayOnlyAfterFailedReplay
UnsafeSentOnce == Remote!UnsafeSentOnce
PageIsTheNewest == Log!PageIsTheNewest
TableIsTheLatest == Traffic!TableIsTheLatest
PageFollowsTrust == Page!PageFollowsTrust
GreenIsItsOwn == Endpoint!GreenIsItsOwn

(* Before and after scaling the ranges cut the file, after it into no more *)
(* chunks than configured.                                                 *)
EveryCutServes == Cut!EveryCutIsTheFile /\ Cut!EveryCutKeepsToCap

NoFlash == Dash!NoFlash
NoFigureGoesBack == Home!NoFigureGoesBack

EveryArmEnds == part = "race" => Race!EveryArmEnds
ShowsTheTruth == part = "dash" => Dash!ShowsTheTruth
InstallSettles == part = "step" => Step!InstallSettles
ScanSettles == part = "scan" => Scan!ScanSettles
=============================================================================
