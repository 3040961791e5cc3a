------------------------------ MODULE StateFile ------------------------------
(***************************************************************************)
(* The scheduler's figures across restarts: SaveState, writeFileAtomic,    *)
(* LoadState, persistLoop, Start and Stop of                               *)
(* internal/scheduler/scheduler.go, under the requests of RelayClient.     *)
(*                                                                         *)
(* One service process at a time.  Its periodic saver and its final save   *)
(* take a snapshot under the scheduler's lock and write it outside, so     *)
(* that replies are reported meanwhile; the process may crash between any  *)
(* two steps.  A crash stops the process and keeps what it wrote; what the *)
(* operating system does to unsynced files is the partial content a        *)
(* temporary file has before its fsync.  The switch of an account lives in *)
(* the configuration, not in this file, and survives.                      *)
(***************************************************************************)
EXTENDS RelayClient

Savers == {"loop", "stop"}    \* persistLoop, and Stop's own SaveState

VARIABLES
  process,  \* "up", "stopping" (inside Scheduler.Stop) or "down"
  saver,    \* each saver: "idle", "snapshot", "open", "synced" or "stopped"
  image,    \* the snapshot it writes
  tmp,      \* the temporary file
  disk      \* the state file

fileVars == <<process, saver, image, tmp, disk>>

(* What persistedAccount keeps of an account and Scheduler models.         *)
Snapshot ==
  [a \in Accounts |-> [calls |-> callsToday[a], start |-> quotaWindowStart[a],
                       errors |-> consecutiveErrors[a], cooloff |-> cooloffUntil[a]]]

NoFile == [kind |-> "none", figures |-> <<>>]
Partial == [kind |-> "partial", figures |-> <<>>]
Whole(figures) == [kind |-> "whole", figures |-> figures]

SystemInit ==
  /\ Init
  /\ process = "up"
  /\ saver = [s \in Savers |-> "idle"]
  /\ image = [s \in Savers |-> <<>>]
  /\ tmp = NoFile /\ disk = NoFile
-----------------------------------------------------------------------------
(* SaveState.                                                              *)

TakeSnapshot(s) ==
  /\ saver' = [saver EXCEPT ![s] = "snapshot"]
  /\ image' = [image EXCEPT ![s] = Snapshot]
  /\ UNCHANGED <<vars, process, tmp, disk>>

(* A save is over: the loop waits for its ticker, Stop returns.            *)
EndSave(s) ==
  /\ saver' = [saver EXCEPT ![s] = "idle"]
  /\ image' = [image EXCEPT ![s] = <<>>]
  /\ process' = IF s = "stop" THEN "down" ELSE process

\* Mutant: the old state file is truncated before the new one is whole.
OpenInPlace(s) ==
  /\ saver[s] = "snapshot"
  /\ tmp' = Partial /\ disk' = Partial
  /\ saver' = [saver EXCEPT ![s] = "open"]
  /\ UNCHANGED <<vars, process, image>>

OpenTmp(s) ==
  /\ saver[s] = "snapshot"
  /\ tmp' = Partial
  /\ saver' = [saver EXCEPT ![s] = "open"]
  /\ UNCHANGED <<vars, process, image, disk>>

WriteAndSync(s) ==
  /\ saver[s] = "open"
  /\ tmp' = Whole(image[s])
  /\ saver' = [saver EXCEPT ![s] = "synced"]
  /\ UNCHANGED <<vars, process, image, disk>>

Rename(s) ==
  /\ saver[s] = "synced"
  /\ disk' = tmp /\ tmp' = NoFile
  /\ EndSave(s)
  /\ UNCHANGED vars

(* An error on the way: the old file stays, and the temporary one is       *)
(* removed, except when it is the rename that fails.                       *)
SaveFails(s) ==
  /\ \/ saver[s] \in {"snapshot", "synced"} /\ UNCHANGED tmp
     \/ saver[s] \in {"open", "synced"} /\ tmp' = NoFile
  /\ EndSave(s)
  /\ UNCHANGED <<vars, disk>>

Save(s) == OpenTmp(s) \/ WriteAndSync(s) \/ Rename(s) \/ SaveFails(s)
-----------------------------------------------------------------------------
(* LoadState, and Start over the scheduler that New has made.              *)

(* A saved window that is over, or no readable file, leaves New's figures. *)
Restored(a) == disk.kind = "whole" /\ now - disk.figures[a].start < Day

NewFigures == [calls |-> 0, start |-> now, errors |-> 0, cooloff |-> 0]

\* Mutant: the calls are counted anew, in the window of the file.
LoadedUncounted(a) ==
  IF Restored(a) THEN [disk.figures[a] EXCEPT !.calls = 0] ELSE NewFigures

Loaded(a) == IF Restored(a) THEN disk.figures[a] ELSE NewFigures

LoadState ==
  /\ callsToday' = [a \in Accounts |-> Loaded(a).calls]
  /\ quotaWindowStart' = [a \in Accounts |-> Loaded(a).start]
  /\ consecutiveErrors' = [a \in Accounts |-> Loaded(a).errors]
  /\ cooloffUntil' = [a \in Accounts |-> Loaded(a).cooloff]
  /\ disk' = IF disk.kind = "partial" THEN NoFile ELSE disk

(* New leaves the rest of the scheduler as Init does; the requests of the  *)
(* process before are gone, or report to a scheduler nobody reads.         *)
Start ==
  /\ process = "down"
  /\ process' = "up"
  /\ LoadState
  /\ throttleTimestamps' = [a \in Accounts |-> <<>>]
  /\ inFlight' = [a \in Accounts |-> 0]
  /\ sidIndex' = [a \in Accounts |-> 0] /\ roundRobinIndex' = 0
  /\ pc' = [r \in Requests |-> "idle"]
  /\ account' = [r \in Requests |-> None]
  /\ excluded' = [r \in Requests |-> {}]
  /\ attempt' = [r \in Requests |-> 0]
  /\ answer' = [r \in Requests |-> "none"]
  /\ saver' = [s \in Savers |-> "idle"] /\ image' = [s \in Savers |-> <<>>]
  /\ UNCHANGED <<now, enabled, tmp>>
-----------------------------------------------------------------------------
(* The life of the process.                                                *)

PersistTick ==
  /\ process # "down" /\ saver["loop"] = "idle"
  /\ TakeSnapshot("loop")

Stop ==
  /\ process = "up"
  /\ process' = "stopping"
  /\ UNCHANGED <<vars, saver, image, tmp, disk>>

LoopStops ==
  /\ process = "stopping" /\ saver["loop"] = "idle"
  /\ saver' = [saver EXCEPT !["loop"] = "stopped"]
  /\ UNCHANGED <<vars, process, image, tmp, disk>>

\* Mutant: the final save does not wait for persistStopped.
FinalSaveAtOnce ==
  /\ process = "stopping" /\ saver["stop"] = "idle"
  /\ TakeSnapshot("stop")

FinalSave ==
  /\ process = "stopping" /\ saver["loop"] = "stopped" /\ saver["stop"] = "idle"
  /\ TakeSnapshot("stop")

Crash ==
  /\ process # "down"
  /\ process' = "down"
  /\ saver' = [s \in Savers |-> "idle"] /\ image' = [s \in Savers |-> <<>>]
  /\ UNCHANGED <<vars, tmp, disk>>

(* Requests of a stopping service may still report, and even begin, since  *)
(* the listener does not wait for hijacked connections.                    *)
Serving ==
  /\ \/ process # "down" /\ Next
     \/ process = "down" /\ Tick /\ UNCHANGED requestVars
  /\ UNCHANGED fileVars

SystemNext ==
  \/ Serving
  \/ \E s \in Savers : Save(s)
  \/ PersistTick \/ Stop \/ LoopStops \/ FinalSave
  \/ Crash \/ Start

allVars == <<vars, fileVars>>

SystemSpec == SystemInit /\ [][SystemNext]_allVars
-----------------------------------------------------------------------------
(* Properties.                                                             *)

(* "writes data to path via tmp + fsync + rename" (scheduler.go:449): the  *)
(* loop's save and the final one share a temporary name, and yet whatever  *)
(* the crash interrupts, the state file is a whole snapshot or absent.     *)
FileWhole == disk.kind # "partial"

SavedSpent(a) ==
  /\ disk.kind = "whole"
  /\ disk.figures[a].calls * 100 >= DailyQuota[a] * SafetyMargin
  /\ now - disk.figures[a].start < Day

(* What has been saved is not handed out again: an account the state file  *)
(* shows as spent, in a window that is not over, is spent for the running  *)
(* service too, through any number of crashes and restarts, and for that   *)
(* same window.  Calls made since the last save are what a crash forgets.  *)
SpentSurvivesRestart ==
  process = "up" =>
    \A a \in Accounts : SavedSpent(a) =>
      Spent(a) /\ quotaWindowStart[a] = disk.figures[a].start

Used(calls, a) == IF calls < DailyQuota[a] THEN calls ELSE DailyQuota[a]

(* SaveState writes outside the lock what it read inside it: still no save *)
(* replaces a newer snapshot by an older one, so that within a window the  *)
(* use on disk, up to the quota, never falls.                              *)
DiskNeverGoesBack ==
  [][\A a \in Accounts :
       /\ disk.kind = "whole" /\ disk'.kind = "whole"
       /\ disk'.figures[a].start = disk.figures[a].start
       => Used(disk'.figures[a].calls, a) >= Used(disk.figures[a].calls, a)]_allVars
=============================================================================
