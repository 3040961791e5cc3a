------------------------------- MODULE Metrics -------------------------------
(***************************************************************************)
(* The traffic counters (internal/obs/metrics.go): totals, and per-host    *)
(* maps bounded by a cap, with the host seen longest ago making room; and  *)
(* the home page's table over them (routes/home/HostsTable.tsx).           *)
(***************************************************************************)
EXTENDS Integers, Functions, FiniteSets, FiniteSetsExt

CONSTANTS
  Hosts,
  Caps,       \* what SetCap is called with
  MaxRecords  \* bound: the requests of a run

MetricsAssumption ==
  Caps \subseteq Int /\ (\E c \in Caps : c > 0) /\ MaxRecords \in Nat

VARIABLES
  maxHosts, tick,
  requests, errors, lastSeen,  \* the maps, by host
  total, totalErrors,
  latest,                      \* history: the host recorded last
  gone                         \* history: when the host evicted last was seen

vars == <<maxHosts, tick, requests, errors, lastSeen, total, totalErrors,
          latest, gone>>

Known == DOMAIN requests
NoHost == "none"
Empty == [h \in {} |-> 0]

Init ==
  /\ maxHosts \in {c \in Caps : c > 0} /\ tick = 0
  /\ requests = Empty /\ errors = Empty /\ lastSeen = Empty
  /\ total = 0 /\ totalErrors = 0
  /\ latest = NoHost /\ gone = 0

\* Mutant: one host too many is let in.
CrowdedBy(n) == n > maxHosts

(* evictLRULocked before a host that is new.                               *)
Crowded(n) == n >= maxHosts

Oldest == CHOOSE h \in Known : \A g \in Known : lastSeen[h] <= lastSeen[g]

Get(f, h) == IF h \in DOMAIN f THEN f[h] ELSE 0
Put(f, h, n) == [g \in DOMAIN f \cup {h} |-> IF g = h THEN n ELSE f[g]]

(* Record: without a host only the totals count.                           *)
Record(h, failed) ==
  LET evicts == h # NoHost /\ h \notin Known /\ Crowded(Cardinality(Known))
      kept == IF evicts THEN Known \ {Oldest} ELSE Known
  IN
  /\ total < MaxRecords /\ total' = total + 1
  /\ totalErrors' = totalErrors + (IF failed THEN 1 ELSE 0)
  /\ IF h = NoHost
       THEN UNCHANGED <<tick, requests, errors, lastSeen, latest, gone>>
       ELSE /\ tick' = tick + 1
            /\ gone' = IF evicts THEN lastSeen[Oldest] ELSE gone
            /\ requests' = Put(Restrict(requests, kept), h, Get(requests, h) + 1)
            /\ errors' =
                 LET rest == Restrict(errors, kept \cap DOMAIN errors)
                 IN IF failed THEN Put(rest, h, Get(errors, h) + 1) ELSE rest
            /\ lastSeen' = Put(Restrict(lastSeen, kept), h, tick')
            /\ latest' = h
  /\ UNCHANGED maxHosts

(* The hosts seen latest stay.                                             *)
SetCap(c) ==
  LET kept == {h \in Known :
                 Cardinality({g \in Known : lastSeen[g] > lastSeen[h]}) < c}
      dropped == Known \ kept
  IN
  /\ c > 0
  /\ maxHosts' = c
  /\ requests' = Restrict(requests, kept)
  /\ errors' = Restrict(errors, kept \cap DOMAIN errors)
  /\ lastSeen' = Restrict(lastSeen, kept)
  /\ gone' = IF dropped = {} THEN gone ELSE Max({lastSeen[h] : h \in dropped})
  /\ UNCHANGED <<tick, total, totalErrors, latest>>

Next ==
  \/ \E h \in Hosts \cup {NoHost}, failed \in BOOLEAN : Record(h, failed)
  \/ \E c \in Caps : SetCap(c)

Spec == Init /\ [][Next]_vars
-----------------------------------------------------------------------------
(* The bar behind a row of the table, in percent of the busiest host.      *)
Bar(h) ==
  Min({100, (100 * requests[h]) \div Max({requests[g] : g \in Known} \cup {1})})

(* The table has at most the cap's hosts, those seen latest, the last one  *)
(* always among them; its maps agree, so that no row counts more errors    *)
(* than requests or more than the totals say; and the busiest host's bar   *)
(* is the full one.                                                        *)
TableIsTheLatest ==
  /\ Cardinality(Known) <= maxHosts
  /\ DOMAIN lastSeen = Known /\ DOMAIN errors \subseteq Known
  /\ \A h \in Known : lastSeen[h] > gone /\ Get(errors, h) <= requests[h]
  /\ latest # NoHost => latest \in Known
  /\ MapThenSumSet(LAMBDA h : requests[h], Known) <= total
  /\ MapThenSumSet(LAMBDA h : errors[h], DOMAIN errors) <= totalErrors
  /\ \A h \in Known :
       (\A g \in Known : requests[g] <= requests[h]) <=> Bar(h) = 100
=============================================================================
