-------------------------------- MODULE Logs --------------------------------
(***************************************************************************)
(* The log ring (internal/obs/logs.go) and the page that shows it          *)
(* (routes/logs): the tail a poll fetches, and the copy that a pause holds.*)
(***************************************************************************)
EXTENDS Naturals, SequencesExt

CONSTANTS
  Size,     \* of the ring
  Limits,   \* what the page may ask for; 0 for everything
  MaxAdded  \* bound: the entries of a run

LogsAssumption == Size \in Nat \ {0} /\ Limits \subseteq Nat /\ MaxAdded \in Nat

VARIABLES
  limit,                \* of the page
  entries, next, full,  \* the ring; next counts from 0
  added,                \* history: the entries so far, entry n the nth
  poll,                 \* the stats fetch: "none" or the tail it carries
  live,                 \* stats.logs
  paused, frozen,       \* frozenLogs, <<>> for none
  filter,               \* the button pressed
  asOf                  \* history: what was added when the list on show was read

vars == <<limit, entries, next, full, added, poll, live, paused, frozen, filter,
          asOf>>

Free == 0

(* The levels the entries carry, which take turns, and how the page        *)
(* compares each with the name on a button.                                *)
Levels == {"ERROR", "WARNING", "INFO", "DEBUG"}
Level(n) == CASE n % 4 = 1 -> "ERROR" [] n % 4 = 2 -> "WARNING"
              [] n % 4 = 3 -> "INFO" [] OTHER -> "DEBUG"
Lowered(level) == CASE level = "ERROR" -> "error" [] level = "WARNING" -> "warning"
                    [] level = "INFO" -> "info" [] level = "DEBUG" -> "debug"

Buttons == {"all", "error", "warn", "info", "debug"}

None == [none |-> TRUE]
Answer(s) == [tail |-> s, asOf |-> added]

Init ==
  /\ limit \in Limits
  /\ entries = [i \in 1..Size |-> Free] /\ next = 0 /\ full = FALSE
  /\ added = 0
  /\ poll = None /\ live = <<>>
  /\ paused = FALSE /\ frozen = <<>> /\ filter = "all"
  /\ asOf = [live |-> 0, frozen |-> 0]

Add ==
  /\ added < MaxAdded /\ added' = added + 1
  /\ entries' = [entries EXCEPT ![next + 1] = added']
  /\ next' = (next + 1) % Size
  /\ full' = (full \/ next' = 0)
  /\ UNCHANGED <<limit, poll, live, paused, frozen, filter, asOf>>

\* Mutant: the limit keeps the oldest.
KeepFirst(s) == IF limit > 0 /\ Len(s) > limit THEN SubSeq(s, 1, limit) ELSE s

Limited(s) ==
  IF limit > 0 /\ Len(s) > limit THEN SubSeq(s, Len(s) - limit + 1, Len(s)) ELSE s

TailOf ==
  Limited((IF full THEN SubSeq(entries, next + 1, Size) ELSE <<>>)
          \o SubSeq(entries, 1, next))

(* One stats fetch is under way at a time.                                 *)
PollReads ==
  /\ poll = None
  /\ poll' = Answer(TailOf)
  /\ UNCHANGED <<limit, entries, next, full, added, live, paused, frozen, filter,
                 asOf>>

PollAnswers ==
  /\ poll # None
  /\ live' = poll.tail /\ poll' = None
  /\ asOf' = [asOf EXCEPT !.live = poll.asOf]
  /\ UNCHANGED <<limit, entries, next, full, added, paused, frozen, filter>>

(* togglePause                                                             *)
TogglePause ==
  /\ paused' = ~paused
  /\ frozen' = IF paused THEN <<>> ELSE live
  /\ asOf' = [asOf EXCEPT !.frozen = asOf.live]
  /\ UNCHANGED <<limit, entries, next, full, added, poll, live, filter>>

SetFilter ==
  /\ filter' \in Buttons \ {filter}
  /\ UNCHANGED <<limit, entries, next, full, added, poll, live, paused, frozen,
                 asOf>>

Next == Add \/ PollReads \/ PollAnswers \/ TogglePause \/ SetFilter

Spec == Init /\ [][Next]_vars
-----------------------------------------------------------------------------
(* The page, newest first.  A pause of an empty list holds an empty list.  *)
Matches == [level \in Levels |-> filter = "all" \/ Lowered(level) = filter]

Only(list, levels) == SelectSeq(list, LAMBDA n : levels[Level(n)])

Shown == Only(Reverse(IF paused THEN frozen ELSE live), Matches)

(* The entries that were the newest at one moment, all there were room for,*)
(* the newest first, and the levels each button stands for.  For "warn"    *)
(* there is none: the entries it is meant for are called "WARNING".        *)
Newest(n) ==
  LET room == IF limit > 0 /\ limit < Size THEN limit ELSE Size
  IN [i \in 1..(IF n < room THEN n ELSE room) |-> n - i + 1]

Names == {<<"error", "ERROR">>, <<"info", "INFO">>, <<"debug", "DEBUG">>}
Asked == [level \in Levels |-> filter = "all" \/ <<filter, level>> \in Names]

(* The page lists the newest entries of one moment that have the button's  *)
(* level, none twice or missing: across the ring's wrap, under the limit   *)
(* and while it is paused.  "warn" lists nothing, whatever warnings there  *)
(* are.                                                                    *)
PageIsTheNewest ==
  Shown = Only(Newest(IF paused THEN asOf.frozen ELSE asOf.live), Asked)
=============================================================================
