------------------------------- MODULE Figures -------------------------------
(***************************************************************************)
(* What the home page makes of the counters it polls (lib/format.ts,       *)
(* routes/home/index.tsx): rounded, in units that change with the size.    *)
(* Each behaviour follows one figure as its counter grows from poll to     *)
(* poll.  Every figure is given in one unit, so that two can be compared.  *)
(***************************************************************************)
EXTENDS Integers

CONSTANTS
  Near,      \* bound: how far around a change of unit counters are followed
  Totals,    \* the totals of the percentages, the errors of the success rate
  MaxSteps   \* bound: the polls followed

FiguresAssumption ==
  Near \in Nat /\ Totals \subseteq Nat /\ MaxSteps \in Nat

VARIABLES
  figure,    \* the figure followed
  count,     \* its counter: seconds, grains of bytes, microseconds, a part
  of,        \* the whole a percentage is of; the grain bytes are counted in
  steps

vars == <<figure, count, of, steps>>

Sizes == {"uptime", "bytes", "latency"}
Percentages == {"download", "quota", "success"}

Minute == 60
Hour == 3600
Day == 86400

Units == {Day, Hour, Minute, 1}

\* Mutant: minutes are rounded, not cut.
RoundedMinutes(unit, secs) ==
  CASE unit = Day    -> secs \div Day
    [] unit = Hour   -> (secs % Day) \div Hour
    [] unit = Minute -> ((secs % Hour) + 30) \div Minute
    [] unit = 1      -> secs % Minute

Amount(unit, secs) ==
  CASE unit = Day    -> secs \div Day
    [] unit = Hour   -> (secs % Day) \div Hour
    [] unit = Minute -> (secs % Hour) \div Minute
    [] unit = 1      -> secs % Minute

(* fmtUptime: the units whose part is pushed; hours that are zero are left *)
(* out even after a day.                                                   *)
UptimeParts(secs) ==
  {u \in Units : Amount(u, secs) > 0 \/ u = 1 \/ (u = Minute /\ secs >= Hour)}

(* The first two are shown.                                                *)
Uptime(secs) ==
  LET parts == UptimeParts(secs)
      first == {u \in parts : ~ \E a, b \in parts : a > b /\ b > u}
      part(u) == IF u \in first THEN u * Amount(u, secs) ELSE 0
  IN part(Day) + part(Hour) + part(Minute) + part(1)

(* n / d as Math.round has it, or with digits: toFixed of n / d over 10^k. *)
Rounded(n, d) == (2 * n + d) \div (2 * d)

(* fmtBytes, of a counter in grains of 1024^k bytes (k = 0: in bytes; the  *)
(* larger grains reach GB to EB with small numbers), in hundredths of a    *)
(* grain.  Three digits up to PB, one after the point from 1 EB on.        *)
Power(e) ==
  CASE e = 0 -> 1
    [] e = 1 -> 1024
    [] e = 2 -> 1024 * 1024
    [] e = 3 -> 1024 * 1024 * 1024
    [] e = 4 -> 1024 * 1024 * 1024 * 1024
    [] e = 5 -> 1024 * 1024 * 1024 * 1024 * 1024
    [] e = 6 -> 1024 * 1024 * 1024 * 1024 * 1024 * 1024

EB == 6

(* The unit the loop stops at, 1024^(k + e) bytes.                         *)
Exponent(v, k) ==
  CHOOSE e \in 0 .. EB - k :
    /\ k + e = EB \/ v < Power(e + 1)
    /\ e = 0 \/ Power(e) <= v

ThreeDigits(v, unit) ==
  LET tens == IF v >= 100 * unit THEN 1 ELSE IF v >= 10 * unit THEN 10 ELSE 100
  IN Rounded(v * tens, unit) * unit * (100 \div tens)

OneDigit(v, unit) == Rounded(v * 10, unit) * unit * 10

Bytes(v, k) ==
  LET e == Exponent(v, k)
  IN CASE k + e = 0 -> 100 * v
       [] 0 < k + e /\ k + e < EB -> ThreeDigits(v, Power(e))
       [] k + e = EB -> OneDigit(v, Power(e))

(* fmtLatency, of microseconds and in them: "<1 ms", ms, or s to 10 ms.    *)
Latency(us) ==
  IF us < 1000 THEN 0
  ELSE IF us < 1000 * 1000 THEN Rounded(us, 1000) * 1000
  ELSE Rounded(us, 10000) * 10000

(* The percentages, as numbers: the download's is capped, the quota's may  *)
(* pass 100, and without requests all have succeeded.                      *)
Download(done, total) ==
  IF total = 0 THEN 0 ELSE Rounded(100 * (IF done < total THEN done ELSE total), total)

Quota(calls, quota) == IF quota = 0 THEN 0 ELSE Rounded(100 * calls, quota)

Success(succeeded, failed) ==
  IF succeeded + failed = 0 THEN 100
  ELSE Rounded(100 * succeeded, succeeded + failed)

Shown(c) ==
  CASE figure = "uptime"   -> Uptime(c)
    [] figure = "bytes"    -> Bytes(c, of)
    [] figure = "latency"  -> Latency(c)
    [] figure = "download" -> Download(c, of)
    [] figure = "quota"    -> Quota(c, of)
    [] figure = "success"  -> Success(c, of)
-----------------------------------------------------------------------------
Changes ==
  [f \in Sizes |->
     CASE f = "uptime"  -> {0, Minute, Hour, Day, Day + Hour, 2 * Day}
       [] f = "bytes"   -> {0, 1024, 10 * 1024, 100 * 1024, 1024 * 1024}
       [] f = "latency" -> {0, 1000, 999500, 1000 * 1000}]

Init ==
  /\ steps = 0
  /\ \/ /\ figure \in Sizes /\ of \in (IF figure = "bytes" THEN 0 .. EB - 1 ELSE {0})
        /\ count \in {c \in UNION {b - Near .. b + Near : b \in Changes[figure]} : c >= 0}
     \/ figure \in Percentages /\ of \in Totals /\ count = 0

(* A poll later.                                                           *)
Grow ==
  /\ steps < MaxSteps /\ steps' = steps + 1
  /\ \E n \in {1, 7, Near} : count' = count + n
  /\ UNCHANGED <<figure, of>>

Next == Grow
Spec == Init /\ [][Next]_vars
-----------------------------------------------------------------------------
(* No figure goes back while its counter grows, whatever units and digits  *)
(* it passes, and none runs ahead: an uptime shown has passed, a percentage*)
(* of a part is one of the whole.                                          *)
NoFigureGoesBack ==
  [][/\ Shown(count) <= Shown(count')
     /\ figure = "uptime" => Shown(count') <= count'
     /\ figure \in {"download", "success"} => Shown(count') <= 100]_vars
=============================================================================
