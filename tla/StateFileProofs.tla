--------------------------- MODULE StateFileProofs ---------------------------
(***************************************************************************)
(* What the state file promises for every number of accounts and requests  *)
(* and through any number of crashes and restarts: it is never half a      *)
(* snapshot, it never goes back, an account it shows as spent is spent in  *)
(* the running service too, and what RelayClient guarantees of the         *)
(* requests of one process holds in each process that follows.             *)
(***************************************************************************)
EXTENDS StateFile, RelayClientProofs

(* The figures SaveState can write.                                        *)
FigureSet ==
  [Accounts -> [calls : Nat, start : 0..MaxTime, errors : 0..ErrorsToCooloff,
                cooloff : Nat]]

(* Figures a scheduler may have had by time t.                             *)
Credible(f, t) ==
  /\ f \in FigureSet
  /\ \A a \in Accounts : /\ f[a].calls <= DailyQuota[a] + MaxInFlight - 1
                         /\ f[a].start <= t

(* Figures f are no newer than g: of each account the same window with no  *)
(* more use, up to the quota, or a window that was over when g's began.    *)
Behind(f, g) ==
  \A a \in Accounts :
    \/ f[a].start = g[a].start /\ Used(f[a].calls, a) <= Used(g[a].calls, a)
    \/ f[a].start + Day <= g[a].start

Writing(s) == saver[s] \in {"snapshot", "open", "synced"}

SaversType ==
  /\ process \in {"up", "stopping", "down"}
  /\ saver \in [Savers -> {"idle", "snapshot", "open", "synced", "stopped"}]
  /\ image \in [Savers -> FigureSet \cup {<<>>}]

(* Stop's save begins once the loop's is over, so that one of them at most *)
(* uses the temporary file, and what it will rename is its own image.      *)
OneWriter ==
  /\ Writing("stop") => saver["loop"] = "stopped"
  /\ \A s \in Savers : saver[s] = "synced" => tmp = Whole(image[s])

(* What is on disk is no newer than what is being saved, and that no newer *)
(* than what the scheduler shows.                                          *)
InOrder ==
  /\ disk # NoFile => /\ disk.kind = "whole"
                      /\ Credible(disk.figures, now) /\ Behind(disk.figures, Snapshot)
  /\ \A s \in Savers : Writing(s) =>
       /\ Credible(image[s], now) /\ Behind(image[s], Snapshot)
       /\ disk # NoFile => Behind(disk.figures, image[s])

(* The inductive invariant.  The order of the snapshots is what makes each *)
(* property of the file inductive; one writer at a time is what keeps it.  *)
SysInv ==
  /\ IInv
  /\ \A a \in Accounts : quotaWindowStart[a] <= now
  /\ SaversType
  /\ OneWriter
  /\ InOrder
-----------------------------------------------------------------------------
(* Lemmas about the order of snapshots.                                    *)

LEMMA UsedType ==
  ASSUME NEW c \in Nat, NEW a \in Accounts
  PROVE  /\ Used(c, a) \in Nat /\ Used(c, a) <= c /\ Used(c, a) <= DailyQuota[a]
         /\ c >= DailyQuota[a] => Used(c, a) = DailyQuota[a]
         /\ c < DailyQuota[a] => Used(c, a) = c
<1>1. DailyQuota[a] \in Nat
  BY AccountsAssumption
<1> QED
  BY <1>1 DEF Used

LEMMA SnapshotFigures ==
  ASSUME IInv, \A a \in Accounts : quotaWindowStart[a] <= now
  PROVE  Credible(Snapshot, now)
<1>1. SchedulerTypeOK /\ QuotaOvershootBounded
  BY DEF IInv, TypeOK
<1>2. Snapshot \in FigureSet
  BY <1>1 DEF Snapshot, FigureSet, SchedulerTypeOK
<1>3. ASSUME NEW a \in Accounts
      PROVE  callsToday[a] <= DailyQuota[a] + MaxInFlight - 1
  <2>1. callsToday[a] + Cardinality(OnTheWire(a)) <= DailyQuota[a] + MaxInFlight - 1
    BY <1>1 DEF QuotaOvershootBounded
  <2>2. /\ Cardinality(OnTheWire(a)) \in Nat /\ callsToday[a] \in Nat
        /\ DailyQuota[a] \in Nat /\ MaxInFlight \in Nat
    BY <1>1, HoldersFinite, AccountsAssumption, SchedulerConfigAssumption
    DEF SchedulerTypeOK
  <2> QED
    BY <2>1, <2>2
<1> QED
  BY <1>2, <1>3 DEF Credible, Snapshot

(* The order is one: it can be followed over several steps.                *)
LEMMA BehindTransitive ==
  ASSUME NEW f \in FigureSet, NEW g \in FigureSet, NEW h \in FigureSet,
         Behind(f, g), Behind(g, h)
  PROVE  Behind(f, h)
<1> SUFFICES ASSUME NEW a \in Accounts
             PROVE  \/ f[a].start = h[a].start
                       /\ Used(f[a].calls, a) <= Used(h[a].calls, a)
                    \/ f[a].start + Day <= h[a].start
  BY DEF Behind
<1>1. /\ f[a].start \in Nat /\ g[a].start \in Nat /\ h[a].start \in Nat
      /\ f[a].calls \in Nat /\ g[a].calls \in Nat /\ h[a].calls \in Nat
  BY SchedulerConfigAssumption DEF FigureSet
<1>2. /\ Used(f[a].calls, a) \in Nat /\ Used(g[a].calls, a) \in Nat
      /\ Used(h[a].calls, a) \in Nat /\ Day \in Nat
  BY <1>1, UsedType, SchedulerConfigAssumption
<1>3. /\ \/ f[a].start = g[a].start /\ Used(f[a].calls, a) <= Used(g[a].calls, a)
         \/ f[a].start + Day <= g[a].start
      /\ \/ g[a].start = h[a].start /\ Used(g[a].calls, a) <= Used(h[a].calls, a)
         \/ g[a].start + Day <= h[a].start
  BY DEF Behind
<1> QED
  BY <1>1, <1>2, <1>3

LEMMA BehindReflexive ==
  ASSUME NEW f \in FigureSet
  PROVE  Behind(f, f)
<1> SUFFICES ASSUME NEW a \in Accounts
             PROVE  Used(f[a].calls, a) <= Used(f[a].calls, a)
  BY DEF Behind
<1>1. Used(f[a].calls, a) \in Nat
  BY UsedType DEF FigureSet
<1> QED
  BY <1>1
-----------------------------------------------------------------------------
(* How a step of the client or the clock moves one account's figures: its  *)
(* window, and the use inside it, only move forward.                       *)
Forward(a) ==
  /\ now <= now' /\ quotaWindowStart'[a] <= now'
  /\ \/ /\ quotaWindowStart'[a] = quotaWindowStart[a]
        /\ Used(callsToday[a], a) <= Used(callsToday'[a], a)
     \/ quotaWindowStart[a] + Day <= quotaWindowStart'[a]

LEMMA SameForward ==
  ASSUME SchedulerTypeOK, NEW a \in Accounts, quotaWindowStart[a] <= now,
         now' \in {now, now + 1}, quotaWindowStart'[a] = quotaWindowStart[a],
         callsToday'[a] = callsToday[a]
  PROVE  Forward(a)
<1>1. now \in Nat /\ quotaWindowStart[a] \in Nat /\ callsToday[a] \in Nat
  BY SchedulerConfigAssumption DEF SchedulerTypeOK
<1>2. Used(callsToday[a], a) \in Nat
  BY <1>1, UsedType
<1> QED
  BY <1>1, <1>2 DEF Forward

LEMMA RollForward ==
  ASSUME SchedulerTypeOK, NEW a \in Accounts, quotaWindowStart[a] <= now,
         RollWindows, now' = now
  PROVE  Forward(a)
<1>1. now \in Nat /\ quotaWindowStart[a] \in Nat /\ Day \in Nat
  BY SchedulerConfigAssumption DEF SchedulerTypeOK
<1>2. CASE WindowOver(a)
  <2>1. quotaWindowStart'[a] = now /\ now - quotaWindowStart[a] >= Day
    BY <1>2 DEF RollWindows, WindowOver
  <2> QED
    BY <1>1, <2>1 DEF Forward
<1>3. CASE ~WindowOver(a)
  BY <1>3, SameForward DEF RollWindows, CallsNow
<1> QED
  BY <1>2, <1>3

(* Of the replies only a success and a quota answer touch the use, and     *)
(* neither lowers it below the quota.                                      *)
LEMMA ReplyForward ==
  ASSUME IInv, NEW r \in Requests, Reply(r), NEW a \in Accounts,
         quotaWindowStart[a] <= now
  PROVE  Forward(a)
<1>1. TypeOK /\ LocalsMatchPlace /\ SchedulerTypeOK
  BY DEF IInv, TypeOK
<1> DEFINE b == account[r]
<1>2. b \in Accounts
  BY <1>1, HeldAccount DEF Reply
<1>3. \/ ReportSuccess(b) \/ ReportQuotaExceeded(b)
      \/ ReportThrottle(b) \/ ReportError(b) \/ UNCHANGED schedVars
  BY RelayAssumption DEF Reply
<1>4. now' = now /\ quotaWindowStart' = quotaWindowStart
  BY <1>3 DEF ReportSuccess, ReportQuotaExceeded, ReportThrottle, ReportError,
              schedVars, windowVars
<1>5. \/ callsToday'[a] = callsToday[a]
      \/ callsToday'[a] = callsToday[a] + 1
      \/ callsToday'[a] = DailyQuota[a]
  <2>1. CASE ReportSuccess(b)
    BY <1>1, <2>1 DEF ReportSuccess, SchedulerTypeOK
  <2>2. CASE ReportQuotaExceeded(b)
    BY <1>1, <2>2 DEF ReportQuotaExceeded, SchedulerTypeOK
  <2>3. CASE ReportThrottle(b) \/ ReportError(b) \/ UNCHANGED schedVars
    BY <2>3 DEF ReportThrottle, ReportError, schedVars, windowVars
  <2> QED
    BY <1>3, <2>1, <2>2, <2>3
<1>6. /\ callsToday[a] \in Nat /\ DailyQuota[a] \in Nat /\ now \in Nat
      /\ quotaWindowStart[a] \in Nat
  BY <1>1, AccountsAssumption, SchedulerConfigAssumption DEF SchedulerTypeOK
<1>7. Used(callsToday[a], a) <= Used(callsToday'[a], a)
  BY <1>5, <1>6 DEF Used
<1> QED
  BY <1>4, <1>6, <1>7 DEF Forward

LEMMA ClientForward ==
  ASSUME IInv, Next, NEW a \in Accounts, quotaWindowStart[a] <= now
  PROVE  Forward(a)
<1>1. SchedulerTypeOK
  BY DEF IInv, TypeOK
<1>2. ASSUME NEW r \in Requests, Begin(r) \/ Release(r) PROVE Forward(a)
  BY <1>1, <1>2, SameForward
  DEF Begin, Release, ReleaseLease, schedVars, windowVars
<1>3. ASSUME NEW r \in Requests, Select(r) \/ SelectFails(r) PROVE Forward(a)
  BY <1>1, <1>3, RollForward DEF Select, Lease, SelectFails, LeaseRefused
<1>4. ASSUME Environment PROVE Forward(a)
  <2>1. CASE PollStats
    BY <1>1, <2>1, RollForward DEF PollStats
  <2>2. CASE Tick
    BY <1>1, <2>2, SameForward DEF Tick, windowVars
  <2>3. CASE \E b \in Toggled, on \in BOOLEAN : SetAccountEnabled(b, on)
    BY <1>1, <2>3, SameForward DEF SetAccountEnabled
  <2> QED
    BY <1>4, <2>1, <2>2, <2>3 DEF Environment
<1> QED
  BY <1>2, <1>3, <1>4, ReplyForward DEF Next, Serve

(* All accounts forward: what was no newer than the figures still is.      *)
LEMMA ForwardOrder ==
  ASSUME SysInv, IInv', \A a \in Accounts : Forward(a)
  PROVE  /\ \A a \in Accounts : quotaWindowStart'[a] <= now'
         /\ \A f \in FigureSet : Behind(f, Snapshot) => Behind(f, Snapshot')
         /\ \A f : Credible(f, now) => Credible(f, now')
<1>1. SchedulerTypeOK /\ SchedulerTypeOK'
  BY DEF SysInv, IInv, TypeOK
<1>2. Snapshot \in FigureSet /\ Snapshot' \in FigureSet
  BY <1>1 DEF Snapshot, FigureSet, SchedulerTypeOK
<1>3. Behind(Snapshot, Snapshot')
  BY DEF Forward, Behind, Snapshot
<1>4. now \in Nat /\ now' \in Nat /\ now <= now'
  <2>1. 1 \in Accounts
    BY AccountsAssumption DEF Accounts
  <2> QED
    BY <1>1, <2>1, SchedulerConfigAssumption DEF SchedulerTypeOK, Forward
<1>5. ASSUME NEW f, Credible(f, now) PROVE Credible(f, now')
  <2>1. \A a \in Accounts : f[a].start \in Nat
    BY <1>5, SchedulerConfigAssumption DEF Credible, FigureSet
  <2>2. \A a \in Accounts : f[a].start <= now'
    BY <1>4, <1>5, <2>1 DEF Credible
  <2> QED
    BY <1>5, <2>2 DEF Credible
<1>6. \A a \in Accounts : quotaWindowStart'[a] <= now'
  BY DEF Forward
<1>7. ASSUME NEW f \in FigureSet, Behind(f, Snapshot) PROVE Behind(f, Snapshot')
  <2> DEFINE g == Snapshot
             h == Snapshot'
  <2>1. g \in FigureSet /\ h \in FigureSet /\ Behind(f, g) /\ Behind(g, h)
    BY <1>2, <1>3, <1>7
  <2> HIDE DEF g, h
  <2>2. Behind(f, h)
    BY <2>1, BehindTransitive
  <2> QED
    BY <2>2 DEF h
<1> QED
  BY <1>5, <1>6, <1>7
-----------------------------------------------------------------------------
(* The invariant, step by step.                                            *)

(* Requests are served, or time passes over a stopped service.             *)
LEMMA ServingStep ==
  ASSUME SysInv, Serving
  PROVE  SysInv'
<1>1. Next
  BY DEF Serving, Next, Environment
<1>2. UNCHANGED <<process, saver, image, tmp, disk>>
  BY DEF Serving, fileVars
<1>3. IInv'
  <2>1. ASSUME NEW r \in Requests, Begin(r) \/ Serve(r) PROVE IInv'
    BY <2>1, BeginStep, SelectStep, SelectFailsStep, ReplyStep, ReleaseStep
    DEF SysInv, Serve
  <2> QED
    BY <1>1, <2>1, EnvironmentStep DEF Next, SysInv
<1>4. \A a \in Accounts : Forward(a)
  BY <1>1, ClientForward DEF SysInv
<1>5. /\ \A a \in Accounts : quotaWindowStart'[a] <= now'
      /\ \A f \in FigureSet : Behind(f, Snapshot) => Behind(f, Snapshot')
      /\ \A f : Credible(f, now) => Credible(f, now')
  BY <1>3, <1>4, ForwardOrder
<1>6. SaversType' /\ OneWriter'
  BY <1>2 DEF SysInv, SaversType, OneWriter, Writing
<1>7. InOrder'
  <2>1. disk' # NoFile => /\ disk'.kind = "whole" /\ Credible(disk'.figures, now')
                          /\ Behind(disk'.figures, Snapshot')
    BY <1>2, <1>5 DEF SysInv, InOrder, Credible
  <2>2. ASSUME NEW s \in Savers, Writing(s)'
        PROVE  /\ Credible(image'[s], now') /\ Behind(image'[s], Snapshot')
               /\ disk' # NoFile => Behind(disk'.figures, image'[s])
    BY <1>2, <1>5, <2>2 DEF SysInv, InOrder, Credible, Writing
  <2> QED
    BY <2>1, <2>2 DEF InOrder
<1> QED
  BY <1>3, <1>5, <1>6, <1>7 DEF SysInv

(* The figures stand still while a file is written.                        *)
LEMMA FiguresStill ==
  ASSUME SysInv, UNCHANGED vars
  PROVE  /\ IInv' /\ \A a \in Accounts : quotaWindowStart'[a] <= now'
         /\ Snapshot' = Snapshot /\ now' = now
<1>1. UNCHANGED <<now, callsToday, quotaWindowStart, consecutiveErrors, cooloffUntil>>
  BY DEF vars, schedVars, windowVars, errorVars
<1>2. IInv'
  BY StutterStep DEF SysInv
<1>3. Snapshot' = Snapshot
  BY <1>1 DEF Snapshot
<1> QED
  BY <1>1, <1>2, <1>3 DEF SysInv

(* A snapshot is as new as the figures, and no older than the file.        *)
LEMMA TakeSnapshotStep ==
  ASSUME SysInv, NEW s \in Savers, TakeSnapshot(s), ~Writing(s),
         s = "stop" => saver["loop"] = "stopped",
         s = "loop" => saver["loop"] = "idle"
  PROVE  SysInv'
<1>1. /\ saver' = [saver EXCEPT ![s] = "snapshot"]
      /\ image' = [image EXCEPT ![s] = Snapshot]
      /\ UNCHANGED <<process, tmp, disk>> /\ UNCHANGED vars
  BY DEF TakeSnapshot
<1>2. /\ IInv' /\ \A a \in Accounts : quotaWindowStart'[a] <= now'
      /\ Snapshot' = Snapshot /\ now' = now
  BY <1>1, FiguresStill
<1>3. Credible(Snapshot, now) /\ Snapshot \in FigureSet
  BY SnapshotFigures DEF SysInv, Credible
<1>4. SaversType'
  BY <1>1, <1>3 DEF SysInv, SaversType
<1>5. OneWriter'
  BY <1>1 DEF SysInv, SaversType, OneWriter, Writing, Savers
<1>6. InOrder'
  <2>1. disk' # NoFile => /\ disk'.kind = "whole" /\ Credible(disk'.figures, now')
                          /\ Behind(disk'.figures, Snapshot')
    BY <1>1, <1>2 DEF SysInv, InOrder
  <2>2. ASSUME NEW t \in Savers, Writing(t)'
        PROVE  /\ Credible(image'[t], now') /\ Behind(image'[t], Snapshot')
               /\ disk' # NoFile => Behind(disk'.figures, image'[t])
    <3>1. CASE t = s
      <4>1. image'[t] = Snapshot
        BY <1>1, <3>1 DEF SysInv, SaversType
      <4>2. Behind(Snapshot, Snapshot)
        BY <1>3, BehindReflexive
      <4> QED
        BY <1>1, <1>2, <1>3, <4>1, <4>2 DEF SysInv, InOrder
    <3>2. CASE t # s
      <4>1. image'[t] = image[t] /\ Writing(t)
        BY <1>1, <2>2, <3>2 DEF SysInv, SaversType, Writing
      <4> QED
        BY <1>1, <1>2, <4>1 DEF SysInv, InOrder
    <3> QED
      BY <3>1, <3>2
  <2> QED
    BY <2>1, <2>2 DEF InOrder
<1> QED
  BY <1>2, <1>4, <1>5, <1>6 DEF SysInv

(* OpenTmp and WriteAndSync: the only writer moves on.                     *)
LEMMA WriteStep ==
  ASSUME SysInv, NEW s \in Savers, OpenTmp(s) \/ WriteAndSync(s)
  PROVE  SysInv'
<1>1. /\ Writing(s) /\ saver' \in {[saver EXCEPT ![s] = "open"],
                                   [saver EXCEPT ![s] = "synced"]}
      /\ saver'[s] = "synced" => tmp' = Whole(image[s])
      /\ UNCHANGED <<process, image, disk>> /\ UNCHANGED vars
  BY DEF OpenTmp, WriteAndSync, Writing, SysInv, SaversType
<1>2. /\ IInv' /\ \A a \in Accounts : quotaWindowStart'[a] <= now'
      /\ Snapshot' = Snapshot /\ now' = now
  BY <1>1, FiguresStill
<1>3. SaversType'
  BY <1>1 DEF SysInv, SaversType
<1>4. \A t \in Savers : Writing(t)' <=> Writing(t)
  BY <1>1 DEF SysInv, SaversType, Writing
<1>5. OneWriter'
  BY <1>1, <1>4 DEF SysInv, SaversType, OneWriter, Writing, Savers
<1>6. InOrder'
  <2>1. disk' # NoFile => /\ disk'.kind = "whole" /\ Credible(disk'.figures, now')
                          /\ Behind(disk'.figures, Snapshot')
    BY <1>1, <1>2 DEF SysInv, InOrder
  <2>2. ASSUME NEW t \in Savers, Writing(t)'
        PROVE  /\ Credible(image'[t], now') /\ Behind(image'[t], Snapshot')
               /\ disk' # NoFile => Behind(disk'.figures, image'[t])
    BY <1>1, <1>2, <1>4, <2>2 DEF SysInv, InOrder
  <2> QED
    BY <2>1, <2>2 DEF InOrder
<1> QED
  BY <1>2, <1>3, <1>5, <1>6 DEF SysInv

(* The save is over, with or without a new file: what the writer put in    *)
(* place is its image, which is newer than the file and not the figures.   *)
LEMMA EndSaveStep ==
  ASSUME SysInv, NEW s \in Savers, Rename(s) \/ SaveFails(s)
  PROVE  /\ SysInv'
         /\ disk' # disk => /\ Writing(s) /\ disk' = Whole(image[s])
<1>1. /\ Writing(s) /\ EndSave(s) /\ UNCHANGED vars
      /\ disk' = disk \/ disk' = Whole(image[s])
  BY DEF Rename, SaveFails, Writing, SysInv, OneWriter
<1>2. /\ saver' = [saver EXCEPT ![s] = "idle"]
      /\ image' = [image EXCEPT ![s] = <<>>]
      /\ process' \in {process, "down"}
  BY <1>1 DEF EndSave
<1>3. /\ IInv' /\ \A a \in Accounts : quotaWindowStart'[a] <= now'
      /\ Snapshot' = Snapshot /\ now' = now
  BY <1>1, FiguresStill
<1>4. SaversType'
  BY <1>2 DEF SysInv, SaversType
<1>5. \A t \in Savers : Writing(t)' => t # s /\ Writing(t) /\ image'[t] = image[t]
  BY <1>2 DEF SysInv, SaversType, Writing
<1>6. \A t \in Savers : t # s => ~Writing(t)
  BY <1>1 DEF SysInv, SaversType, OneWriter, Writing, Savers
<1>7. \A t \in Savers : ~Writing(t)'
  BY <1>5, <1>6
<1>8. OneWriter'
  BY <1>7 DEF OneWriter, Writing, Savers
<1>9. InOrder'
  <2>1. disk' # NoFile => /\ disk'.kind = "whole" /\ Credible(disk'.figures, now')
                          /\ Behind(disk'.figures, Snapshot')
    <3>1. Credible(image[s], now) /\ Behind(image[s], Snapshot)
      BY <1>1 DEF SysInv, InOrder
    <3> QED
      BY <1>1, <1>3, <3>1 DEF SysInv, InOrder, Whole
  <2> QED
    BY <1>7, <2>1 DEF InOrder
<1> QED
  BY <1>1, <1>3, <1>4, <1>8, <1>9 DEF SysInv

(* Stop, the loop's end and a crash: no writer appears, no figure moves.   *)
LEMMA ProcessStep ==
  ASSUME SysInv, Stop \/ LoopStops \/ Crash
  PROVE  SysInv' /\ disk' = disk
<1>1. UNCHANGED vars /\ UNCHANGED <<tmp, disk>>
  BY DEF Stop, LoopStops, Crash
<1>2. /\ IInv' /\ \A a \in Accounts : quotaWindowStart'[a] <= now'
      /\ Snapshot' = Snapshot /\ now' = now
  BY <1>1, FiguresStill
<1>3. SaversType'
  BY DEF SysInv, SaversType, Stop, LoopStops, Crash
<1>4. \A t \in Savers : /\ Writing(t)' => Writing(t) /\ image'[t] = image[t]
                        /\ saver'[t] = "synced" => saver[t] = "synced"
  BY DEF SysInv, SaversType, Writing, Stop, LoopStops, Crash
<1>5. OneWriter'
  <2>1. Writing("stop")' => saver'["loop"] = "stopped"
    BY DEF SysInv, SaversType, OneWriter, Writing, Savers, Stop, LoopStops, Crash
  <2>2. \A t \in Savers : saver'[t] = "synced" => Writing(t)'
    BY DEF Writing
  <2> QED
    BY <1>1, <1>4, <2>1, <2>2 DEF SysInv, OneWriter
<1>6. InOrder'
  <2>1. disk' # NoFile => /\ disk'.kind = "whole" /\ Credible(disk'.figures, now')
                          /\ Behind(disk'.figures, Snapshot')
    BY <1>1, <1>2 DEF SysInv, InOrder
  <2>2. ASSUME NEW t \in Savers, Writing(t)'
        PROVE  /\ Credible(image'[t], now') /\ Behind(image'[t], Snapshot')
               /\ disk' # NoFile => Behind(disk'.figures, image'[t])
    BY <1>1, <1>2, <1>4, <2>2 DEF SysInv, InOrder
  <2> QED
    BY <2>1, <2>2 DEF InOrder
<1> QED
  BY <1>1, <1>2, <1>3, <1>5, <1>6 DEF SysInv

(* What Start loads is as new as the file: its figures for a window that   *)
(* is not over, and a window that begins now for one that is.              *)
LEMMA LoadedFigures ==
  ASSUME SysInv, NEW a \in Accounts
  PROVE  /\ Loaded(a).calls \in Nat /\ Loaded(a).start \in 0..MaxTime
         /\ Loaded(a).errors \in 0..ErrorsToCooloff /\ Loaded(a).cooloff \in Nat
         /\ Loaded(a).calls <= DailyQuota[a] + MaxInFlight - 1
         /\ Loaded(a).start <= now
         /\ disk # NoFile =>
              \/ /\ disk.figures[a].start = Loaded(a).start
                 /\ Used(disk.figures[a].calls, a) <= Used(Loaded(a).calls, a)
              \/ disk.figures[a].start + Day <= Loaded(a).start
<1>1. /\ now \in 0..MaxTime /\ now \in Nat /\ Day \in Nat
      /\ ErrorsToCooloff \in Nat /\ DailyQuota[a] \in Nat \ {0}
      /\ MaxInFlight \in Nat \ {0}
  BY AccountsAssumption, SchedulerConfigAssumption
  DEF SysInv, IInv, TypeOK, SchedulerTypeOK
<1>2. CASE Restored(a)
  <2>1. disk # NoFile /\ Loaded(a) = disk.figures[a]
    BY <1>2 DEF Loaded, Restored, NoFile
  <2>2. Credible(disk.figures, now)
    BY <2>1 DEF SysInv, InOrder
  <2>3. Used(disk.figures[a].calls, a) \in Nat
    BY <2>2, UsedType DEF Credible, FigureSet
  <2> QED
    BY <1>1, <2>1, <2>2, <2>3 DEF Credible, FigureSet
<1>3. CASE ~Restored(a)
  <2>1. Loaded(a) = NewFigures
    BY <1>3 DEF Loaded
  <2>2. ASSUME disk # NoFile PROVE disk.figures[a].start + Day <= now
    <3>1. disk.kind = "whole" /\ Credible(disk.figures, now)
      BY <2>2 DEF SysInv, InOrder
    <3>2. disk.figures[a].start \in Nat
      BY <3>1, <1>1 DEF Credible, FigureSet
    <3>3. ~(now - disk.figures[a].start < Day)
      BY <1>3, <3>1 DEF Restored
    <3> QED
      BY <1>1, <3>2, <3>3
  <2> QED
    BY <1>1, <2>1, <2>2 DEF NewFigures
<1> QED
  BY <1>2, <1>3

LEMMA StartStep ==
  ASSUME SysInv, Start
  PROVE  SysInv' /\ disk' = disk
<1>1. /\ callsToday' = [a \in Accounts |-> Loaded(a).calls]
      /\ quotaWindowStart' = [a \in Accounts |-> Loaded(a).start]
      /\ consecutiveErrors' = [a \in Accounts |-> Loaded(a).errors]
      /\ cooloffUntil' = [a \in Accounts |-> Loaded(a).cooloff]
      /\ UNCHANGED <<now, enabled, tmp>>
  BY DEF Start, LoadState
<1>2. /\ throttleTimestamps' = [a \in Accounts |-> <<>>]
      /\ inFlight' = [a \in Accounts |-> 0]
      /\ sidIndex' = [a \in Accounts |-> 0] /\ roundRobinIndex' = 0
      /\ pc' = [r \in Requests |-> "idle"]
      /\ account' = [r \in Requests |-> None]
      /\ excluded' = [r \in Requests |-> {}]
      /\ attempt' = [r \in Requests |-> 0]
      /\ answer' = [r \in Requests |-> "none"]
  BY DEF Start
<1>3. /\ process' = "up"
      /\ saver' = [s \in Savers |-> "idle"] /\ image' = [s \in Savers |-> <<>>]
  BY DEF Start
<1>4. disk' = disk
  BY DEF Start, LoadState, SysInv, InOrder, NoFile
<1>5. SchedulerTypeOK'
  <2>1. /\ callsToday' \in [Accounts -> Nat]
        /\ quotaWindowStart' \in [Accounts -> 0..MaxTime]
        /\ consecutiveErrors' \in [Accounts -> 0..ErrorsToCooloff]
        /\ cooloffUntil' \in [Accounts -> Nat]
    BY <1>1, LoadedFigures
  <2>2. now' \in 0..MaxTime /\ enabled' \in [Accounts -> BOOLEAN]
    BY <1>1 DEF SysInv, IInv, TypeOK, SchedulerTypeOK
  <2>3. /\ throttleTimestamps' \in [Accounts -> Seq(0..MaxTime)]
        /\ inFlight' \in [Accounts -> Int] /\ sidIndex' \in [Accounts -> Nat]
        /\ roundRobinIndex' \in 0..(IndexPeriod - 1)
    BY <1>2, SchedulerConfigAssumption
  <2> QED
    BY <2>1, <2>2, <2>3 DEF SchedulerTypeOK
<1>6. IInv'
  <2>1. TypeOK' /\ LocalsMatchPlace'
    BY <1>2, <1>5 DEF TypeOK, LocalsMatchPlace
  <2>2. \A b : Holders(b)' = {} /\ OnTheWire(b)' = {}
    BY <1>2 DEF Holders, OnTheWire
  <2>3. Cardinality({}) = 0
    BY FS_EmptySet
  <2>4. LeaseConservation' /\ InFlightCapped'
    <3> SUFFICES ASSUME NEW a \in Accounts
                 PROVE  inFlight'[a] = Cardinality(Holders(a)') /\ inFlight'[a] <= MaxInFlight
      BY DEF LeaseConservation, InFlightCapped
    <3>1. inFlight'[a] = 0 /\ 0 <= MaxInFlight
      BY <1>2, SchedulerConfigAssumption
    <3>2. Cardinality(Holders(a)') = 0
      BY <2>2, <2>3, Zenon
    <3> QED
      BY <3>1, <3>2
  <2>5. QuotaOvershootBounded'
    <3> SUFFICES ASSUME NEW a \in Accounts
                 PROVE  callsToday'[a] + Cardinality(OnTheWire(a)')
                          <= DailyQuota[a] + MaxInFlight - 1
      BY DEF QuotaOvershootBounded
    <3>1. /\ callsToday'[a] \in Nat
          /\ callsToday'[a] <= DailyQuota[a] + MaxInFlight - 1
      BY <1>1, LoadedFigures
    <3>2. Cardinality(OnTheWire(a)') = 0
      BY <2>2, <2>3
    <3> QED
      BY <3>1, <3>2
  <2>6. RetryDiscipline'
    BY <1>2, <2>3, RelayAssumption, NoneIsNoAccount DEF RetryDiscipline
  <2> QED
    BY <2>1, <2>4, <2>5, <2>6 DEF IInv
<1>7. \A a \in Accounts : quotaWindowStart'[a] <= now'
  BY <1>1, LoadedFigures
<1>8. SaversType' /\ OneWriter' /\ \A s \in Savers : ~Writing(s)'
  BY <1>3 DEF SaversType, OneWriter, Writing, Savers
<1>9. InOrder'
  <2>1. disk # NoFile => Behind(disk.figures, Snapshot')
    BY <1>1, LoadedFigures DEF Behind, Snapshot
  <2> QED
    BY <1>1, <1>4, <1>8, <2>1 DEF SysInv, InOrder
<1> QED
  BY <1>4, <1>6, <1>7, <1>8, <1>9 DEF SysInv

LEMMA SysInit == SystemInit => SysInv
<1> SUFFICES ASSUME SystemInit PROVE SysInv
  OBVIOUS
<1>1. IInv /\ SchedulerInit
  BY InitInv DEF SystemInit, Init
<1>2. \A a \in Accounts : quotaWindowStart[a] <= now
  BY <1>1 DEF SchedulerInit
<1>3. SaversType /\ OneWriter /\ InOrder
  BY DEF SystemInit, SaversType, OneWriter, InOrder, Writing, Savers
<1> QED
  BY <1>1, <1>2, <1>3 DEF SysInv

(* A step that replaces the file is a save's, and what it puts there is    *)
(* the image the invariant orders.                                         *)
LEMMA SysStep ==
  ASSUME SysInv, [SystemNext]_allVars
  PROVE  /\ SysInv'
         /\ disk' # disk => \E s \in Savers : Writing(s) /\ disk' = Whole(image[s])
<1>1. CASE Serving
  BY <1>1, ServingStep DEF Serving, fileVars
<1>2. ASSUME NEW s \in Savers, Save(s)
      PROVE  /\ SysInv'
             /\ disk' # disk => \E t \in Savers : Writing(t) /\ disk' = Whole(image[t])
  BY <1>2, WriteStep, EndSaveStep DEF Save, OpenTmp, WriteAndSync
<1>3. CASE PersistTick \/ FinalSave
  <2>1. ~Writing("loop") \/ ~PersistTick
    BY DEF PersistTick, Writing
  <2>2. ~Writing("stop") \/ ~FinalSave
    BY DEF FinalSave, Writing
  <2> QED
    BY <1>3, <2>1, <2>2, TakeSnapshotStep
    DEF PersistTick, FinalSave, TakeSnapshot, Savers
<1>4. CASE Stop \/ LoopStops \/ Crash
  BY <1>4, ProcessStep
<1>5. CASE Start
  BY <1>5, StartStep
<1>6. CASE UNCHANGED allVars
  <2>1. UNCHANGED vars /\ UNCHANGED <<process, saver, image, tmp, disk>>
    BY <1>6 DEF allVars, fileVars
  <2>2. /\ IInv' /\ \A a \in Accounts : quotaWindowStart'[a] <= now'
        /\ Snapshot' = Snapshot /\ now' = now
    BY <2>1, FiguresStill
  <2>3. SaversType' /\ OneWriter' /\ InOrder'
    BY <2>1, <2>2 DEF SysInv, SaversType, OneWriter, InOrder, Writing
  <2> QED
    BY <2>1, <2>2, <2>3 DEF SysInv
<1> QED
  BY <1>1, <1>2, <1>3, <1>4, <1>5, <1>6 DEF SystemNext
-----------------------------------------------------------------------------
(* SysInv is an invariant of the service with its crashes and restarts.    *)
THEOREM SystemInvariance == SystemSpec => []SysInv
<1>1. SysInv /\ [SystemNext]_allVars => SysInv'
  BY SysStep
<1> QED
  BY SysInit, <1>1, PTL DEF SystemSpec

(* Every process that follows a crash or a stop keeps what RelayClient     *)
(* promises of the first: conserved leases, the cap, the retry discipline  *)
(* and the bound on the quota, on the figures it loaded.                   *)
THEOREM ClientThroughRestarts == SystemSpec => []IInv
<1>1. SysInv => IInv
  BY DEF SysInv
<1> QED
  BY SystemInvariance, <1>1, PTL

(* The state file is a whole snapshot or absent, whatever is interrupted,  *)
(* though both savers write the same temporary file.                       *)
THEOREM FileStaysWhole == SystemSpec => []FileWhole
<1>1. SysInv => FileWhole
  BY DEF SysInv, InOrder, FileWhole, NoFile
<1> QED
  BY SystemInvariance, <1>1, PTL

(* An account that the file shows as spent, in a window not over, is spent *)
(* for the running service and in that window: no crash, restart or late   *)
(* reply hands out again what has been saved.                              *)
THEOREM SavedIsNotHandedOutAgain == SystemSpec => []SpentSurvivesRestart
<1>1. SysInv => SpentSurvivesRestart
  <2> SUFFICES ASSUME SysInv, NEW a \in Accounts, SavedSpent(a)
               PROVE  Spent(a) /\ quotaWindowStart[a] = disk.figures[a].start
    BY DEF SpentSurvivesRestart
  <2> DEFINE saved == disk.figures[a].calls
             q == DailyQuota[a]
             m == SafetyMargin
  <2>1. disk # NoFile /\ saved * 100 >= q * m /\ now - disk.figures[a].start < Day
    BY DEF SavedSpent, NoFile
  <2>2. Credible(disk.figures, now) /\ Behind(disk.figures, Snapshot)
    BY <2>1 DEF SysInv, InOrder
  <2>3. /\ saved \in Nat /\ callsToday[a] \in Nat /\ q \in Nat /\ m \in 1..100
        /\ disk.figures[a].start \in Nat /\ quotaWindowStart[a] \in Nat
        /\ now \in Nat /\ Day \in Nat /\ quotaWindowStart[a] <= now
    <3>1. saved \in Nat /\ disk.figures[a].start \in Nat
      BY <2>2, SchedulerConfigAssumption DEF Credible, FigureSet
    <3>2. SchedulerTypeOK /\ quotaWindowStart[a] <= now
      BY DEF SysInv, IInv, TypeOK
    <3> QED
      BY <3>1, <3>2, AccountsAssumption, SchedulerConfigAssumption DEF SchedulerTypeOK
  <2>4. \/ /\ disk.figures[a].start = quotaWindowStart[a]
           /\ Used(saved, a) <= Used(callsToday[a], a)
        \/ disk.figures[a].start + Day <= quotaWindowStart[a]
    BY <2>2 DEF Behind, Snapshot
  <2>5. /\ disk.figures[a].start = quotaWindowStart[a]
        /\ Used(saved, a) <= Used(callsToday[a], a)
    BY <2>1, <2>3, <2>4
  <2>6. callsToday[a] >= saved \/ callsToday[a] >= q
    BY <2>3, <2>5 DEF Used
  <2>7. q * 100 >= q * m
    <3> HIDE DEF q, m
    <3>1. m \in Nat /\ 100 - m \in Nat
      BY <2>3
    <3>2. q * (100 - m) >= 0 /\ q * (100 - m) = q * 100 - q * m /\ q * m \in Nat
      BY <2>3, <3>1
    <3> QED
      BY <2>3, <3>2
  <2>8. callsToday[a] * 100 >= q * m
    <3>1. q * m \in Nat
      BY <2>3
    <3> QED
      BY <2>1, <2>3, <2>6, <2>7, <3>1
  <2> QED
    BY <2>5, <2>8 DEF Spent
<1> QED
  BY SystemInvariance, <1>1, PTL

(* No save replaces a newer snapshot by an older one: within a window the  *)
(* use on disk, up to the quota, never falls.                              *)
THEOREM SavesInOrder == SystemSpec => DiskNeverGoesBack
<1>1. SysInv /\ [SystemNext]_allVars =>
        [\A a \in Accounts :
           /\ disk.kind = "whole" /\ disk'.kind = "whole"
           /\ disk'.figures[a].start = disk.figures[a].start
           => Used(disk'.figures[a].calls, a) >= Used(disk.figures[a].calls, a)]_allVars
  <2> SUFFICES ASSUME SysInv, [SystemNext]_allVars, NEW a \in Accounts,
                      disk.kind = "whole",
                      disk'.figures[a].start = disk.figures[a].start
               PROVE  Used(disk'.figures[a].calls, a) >= Used(disk.figures[a].calls, a)
    OBVIOUS
  <2>1. disk # NoFile
    BY DEF NoFile
  <2>2. Credible(disk.figures, now)
    BY <2>1 DEF SysInv, InOrder
  <2>3. /\ Used(disk.figures[a].calls, a) \in Nat /\ disk.figures[a].start \in Nat
        /\ Day \in Nat \ {0}
    BY <2>2, UsedType, SchedulerConfigAssumption DEF Credible, FigureSet
  <2>4. CASE disk' = disk
    BY <2>3, <2>4
  <2>5. CASE disk' # disk
    <3>1. PICK s \in Savers : Writing(s) /\ disk' = Whole(image[s])
      BY <2>5, SysStep
    <3>2. Behind(disk.figures, image[s]) /\ Credible(image[s], now)
      BY <2>1, <3>1 DEF SysInv, InOrder
    <3>3. disk'.figures = image[s]
      BY <3>1 DEF Whole
    <3>4. Used(image[s][a].calls, a) \in Nat
      BY <3>2, UsedType DEF Credible, FigureSet
    <3>5. \/ Used(disk.figures[a].calls, a) <= Used(disk'.figures[a].calls, a)
          \/ disk.figures[a].start + Day <= disk'.figures[a].start
      BY <3>2, <3>3 DEF Behind
    <3> QED
      BY <2>3, <3>3, <3>4, <3>5
  <2> QED
    BY <2>4, <2>5
<1> QED
  BY SystemInvariance, <1>1, PTL DEF SystemSpec, DiskNeverGoesBack
=============================================================================
