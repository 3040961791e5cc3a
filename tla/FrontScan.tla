----------------------------- MODULE FrontScan -----------------------------
(***************************************************************************)
(* A scan of the front's addresses (internal/frontscan): a loop hands them *)
(* to workers until all are handed out or skipped, closes the channel and  *)
(* waits; and the wizard's step that started it (AppsScriptAccount.tsx),   *)
(* where the answer fills the address field, whatever the user does.       *)
(***************************************************************************)
EXTENDS Naturals, FiniteSets, SequencesExt

CONSTANTS
  NumIPs,   \* the candidate addresses
  Workers,
  MaxRTT    \* bound: the round trips told apart

FrontScanAssumption == NumIPs \in Nat \ {0} /\ MaxRTT \in Nat \ {0}

IPs == 1..NumIPs

Free == 0
Ended == NumIPs + 1

VARIABLES
  scan,      \* "idle", "dispatch", "wait", "returned", "shown" or "failed"
  upNext,    \* the address the loop is at
  jobs,      \* the channel: "open" or "closed"
  worker,    \* Free, Ended, or the address it probes
  expired,   \* is the scan's context done?
  found,     \* the results, in no order
  list,      \* the list that is returned
  googleIP,  \* the wizard's field: an address, or 0 for one typed in
  mounted,   \* is the step that asked still on the screen?
  taken      \* history: the field when the answer had been taken

vars ==
  <<scan, upNext, jobs, worker, expired, found, list, googleIP, mounted, taken>>

Init ==
  /\ scan = "idle" /\ upNext = 1 /\ jobs = "open"
  /\ worker = [w \in Workers |-> Free]
  /\ expired = FALSE /\ found = {} /\ list = <<>>
  /\ googleIP = 0 /\ mounted = TRUE /\ taken = 0

step == <<googleIP, mounted, taken>>
-----------------------------------------------------------------------------
(* A scan that cannot read the configuration fails.                        *)
RunScan ==
  /\ scan = "idle" /\ mounted
  /\ scan' \in {"dispatch", "failed"}
  /\ UNCHANGED <<upNext, jobs, worker, expired, found, list, step>>

(* The time limit, or the window is closed.                                *)
Expire ==
  /\ scan \in {"dispatch", "wait"} /\ ~expired /\ expired' = TRUE
  /\ UNCHANGED <<scan, upNext, jobs, worker, found, list, step>>

(* The select takes either case that is ready: an expired scan may go on   *)
(* handing out.                                                            *)
Hand(w) ==
  /\ scan = "dispatch" /\ upNext \in IPs /\ worker[w] = Free
  /\ worker' = [worker EXCEPT ![w] = upNext] /\ upNext' = upNext + 1
  /\ UNCHANGED <<scan, jobs, expired, found, list, step>>

(* The break leaves the select only: the address is skipped.               *)
Skip ==
  /\ scan = "dispatch" /\ upNext \in IPs /\ expired
  /\ upNext' = upNext + 1
  /\ UNCHANGED <<scan, jobs, worker, expired, found, list, step>>

\* Mutant: the close is deferred, and so comes after the wait.
DeferClose ==
  /\ scan = "dispatch" /\ upNext \notin IPs
  /\ scan' = "wait"
  /\ UNCHANGED <<upNext, jobs, worker, expired, found, list, step>>

(* Everything is handed out or skipped: the workers may end.               *)
CloseJobs ==
  /\ scan = "dispatch" /\ upNext \notin IPs
  /\ jobs' = "closed" /\ scan' = "wait"
  /\ UNCHANGED <<upNext, worker, expired, found, list, step>>

(* The dial does not look at the context; its own timeout bounds it.       *)
Probe(w) ==
  /\ worker[w] \in IPs
  /\ \E rtt \in 0..MaxRTT :
       found' = found \cup {[ip |-> worker[w], ok |-> rtt # 0, rtt |-> rtt]}
  /\ worker' = [worker EXCEPT ![w] = Free]
  /\ UNCHANGED <<scan, upNext, jobs, expired, list, step>>

WorkerEnds(w) ==
  /\ worker[w] = Free /\ jobs = "closed"
  /\ worker' = [worker EXCEPT ![w] = Ended]
  /\ UNCHANGED <<scan, upNext, jobs, expired, found, list, step>>

(* The order; what is equal in it comes in any order.                      *)
Before(r, s) == IF r.ok # s.ok THEN r.ok ELSE r.rtt < s.rtt

Sorted(l) == \A i, j \in DOMAIN l : Before(l[i], l[j]) => i < j

Return ==
  /\ scan = "wait" /\ \A w \in Workers : worker[w] = Ended
  /\ list' \in {l \in SetToSeqs(found) : Sorted(l)}
  /\ scan' = "returned"
  /\ UNCHANGED <<upNext, jobs, worker, expired, found, step>>

(* The first that is reachable is recommended.                             *)
Recommended(l) == SelectInSeq(l, LAMBDA r : r.ok)

(* The field is the wizard's: a step that is gone fills it all the same.   *)
Answers ==
  /\ scan = "returned" /\ scan' = "shown"
  /\ googleIP' = IF Recommended(list) = 0 THEN googleIP
                                          ELSE list[Recommended(list)].ip
  /\ taken' = googleIP'
  /\ UNCHANGED <<upNext, jobs, worker, expired, found, list, mounted>>
-----------------------------------------------------------------------------
(* The user types an address, takes a reachable one of the six on show, or *)
(* leaves.                                                                 *)
Type ==
  /\ mounted /\ googleIP # 0 /\ googleIP' = 0
  /\ UNCHANGED <<scan, upNext, jobs, worker, expired, found, list, mounted, taken>>

Pick ==
  /\ scan = "shown" /\ mounted
  /\ \E j \in DOMAIN list :
       j <= 6 /\ list[j].ok /\ googleIP' = list[j].ip
  /\ UNCHANGED <<scan, upNext, jobs, worker, expired, found, list, mounted, taken>>

Leave ==
  /\ mounted /\ mounted' = FALSE
  /\ UNCHANGED <<scan, upNext, jobs, worker, expired, found, list, googleIP, taken>>

Work(w) == Hand(w) \/ Probe(w) \/ WorkerEnds(w)
Main == Skip \/ CloseJobs \/ Return \/ Answers

Next == RunScan \/ Expire \/ (\E w \in Workers : Work(w)) \/ Main
          \/ Type \/ Pick \/ Leave

(* Both are runnable goroutines, and a dial has a timeout of four seconds. *)
FairSpec ==
  /\ Init /\ [][Next]_vars
  /\ WF_vars(Main) /\ \A w \in Workers : WF_vars(Work(w))
-----------------------------------------------------------------------------
(* A scan under way ends, with a result for each address that was handed   *)
(* out and no other, all of them unless it ran out of time; the field then *)
(* has the fastest that was reached, or what it had when none was: never an*)
(* address that failed, whose round trip of zero is the shortest.          *)
FastestIsTaken ==
  LET reached == {r \in found : r.ok}
  IN /\ scan = "shown" /\ ToSet(list) = found /\ Len(list) = Cardinality(found)
     /\ expired \/ {r.ip : r \in found} = IPs
     /\ IF reached = {} THEN taken = 0
        ELSE \E r \in reached : taken = r.ip /\ \A s \in reached : r.rtt <= s.rtt

ScanSettles == scan = "dispatch" ~> FastestIsTaken
=============================================================================
