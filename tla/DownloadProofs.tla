--------------------------- MODULE DownloadProofs ---------------------------
(***************************************************************************)
(* What a chunked download guarantees for every size of file, probe and    *)
(* chunk, every number of ranges, retries and parallel fetches: no fetch   *)
(* outlives the handler; and, when upstream honours the range it is asked  *)
(* for, the browser gets the file's bytes in order, each once, and the     *)
(* progress shown is honest.                                               *)
(*                                                                         *)
(* That upstream honours the range is the hypothesis "whole" \notin        *)
(* Replies: fetchChunkWithRetry accepts a 200 with the whole body where it *)
(* asked for a range, and then none of this holds.                         *)
(***************************************************************************)
EXTENDS Download, ChunkPlanProofs, FiniteSetTheorems, SequenceTheorems

NumRanges == Fetches(plan.total, plan.firstSize, plan.chunkSize)
Start(i) == RangeStart(plan.firstSize, plan.chunkSize, i)
End(i) == RangeEnd(plan.total, plan.firstSize, plan.chunkSize, i)

(* The ranges upstream has answered, and the bytes of the file that have   *)
(* arrived with them and with the probe.                                   *)
Got == {i \in DOMAIN fetcher : ready[i].err = "nil"}
Arrived == (0..(plan.firstSize - 1)) \cup UNION {Start(i)..End(i) : i \in Got}

(* How much of the file the handler has written when range i is next.      *)
Upto(i) == IF i < NumRanges THEN Start(i) ELSE plan.total

GoodPlan ==
  /\ plan.total \in Sizes /\ plan.firstSize \in 0..plan.total
  /\ plan.chunkSize \in Nat \ {0}

(* The fetchers are there from Spawn on, and idle when the handler returns.*)
FetchersInv ==
  /\ DOMAIN ready = DOMAIN fetcher
  /\ pc \notin {"stream", "wait", "respond", "returned"} => DOMAIN fetcher = {}
  /\ pc \in {"respond", "returned"} => \A i \in DOMAIN fetcher : fetcher[i] = "done"

(* Each fetch has sent nothing yet, its range, or an error.                *)
ResultsInv ==
  /\ DOMAIN lastErr = DOMAIN fetcher
  /\ \A i \in DOMAIN fetcher :
       /\ fetcher[i] # "done" => ready[i] = NoResult
       /\ \/ ready[i] = NoResult
          \/ ready[i].err \in Errors
          \/ ready[i].err = "nil" /\ ready[i].bytes = RangeBytes(i)
       /\ lastErr[i] \in Errors \cup {"nil"}
       /\ fetcher[i] = "backoff" => lastErr[i] \in Errors

Types ==
  /\ pc \in {"probe", "relay", "register", "header", "first", "count", "stream", "wait",
             "respond", "whole", "returned"}
  /\ plan \in [total : Nat, firstSize : Nat, chunkSize : Nat]
  /\ entry \in [status : {"none", "active", "done", "failed", "cancelled"},
                done : Nat, chunks : Nat, cancel : BOOLEAN]
  /\ head \in {"none", "ok", "error"} /\ result \in {"none", "ok", "error"}
  /\ streamErr \in Errors \cup {"nil"}
  /\ next \in Nat

(* Where the handler is, and what the browser has by then.                 *)
HandlerInv ==
  /\ pc \in {"probe", "relay", "whole"} => entry = NoEntry
  /\ pc \in {"probe", "relay", "register", "header"} => head = "none"
  /\ pc \in {"whole", "first", "count", "stream", "wait", "respond"} => head = "ok"
  /\ result = "none" <=> pc # "returned"
  /\ head = "ok" => plan.total \in Sizes
  /\ pc \in {"register", "header", "first", "count", "stream", "wait"} => GoodPlan
  /\ pc \in {"probe", "relay", "whole", "register", "header", "first"} => wire = <<>>
  /\ pc = "count" => wire = Bytes(0, plan.firstSize - 1)
  /\ pc \in {"first", "count"} => plan.firstSize > 0
  /\ pc \notin {"stream", "wait", "respond", "returned"} => next = 0 /\ streamErr = "nil"
  /\ pc \in {"stream", "wait"} =>
       /\ DOMAIN fetcher = Ranges
       /\ next \in 0..NumRanges
       /\ wire = Bytes(0, Upto(next) - 1)
       /\ \A i \in 0..(next - 1) : i \in Got
       /\ 0..(Upto(next) - 1) \subseteq Arrived
  /\ pc = "stream" => next < NumRanges /\ streamErr = "nil"
  /\ pc = "wait" /\ streamErr = "nil" => next = NumRanges

(* The entry counts what has arrived: nothing before the probe's chunk is  *)
(* counted, then the bytes of Arrived and the ranges of Got.               *)
Uncounted ==
  /\ entry.done = 0 /\ entry.chunks = 0 /\ entry.status \notin {"none", "done"}
  /\ DOMAIN fetcher = {}

Counted ==
  /\ GoodPlan /\ DOMAIN fetcher = Ranges
  /\ entry.done = Cardinality(Arrived)
  /\ entry.chunks = Cardinality(Got) + (IF plan.firstSize > 0 THEN 1 ELSE 0)

EntryInv ==
  /\ pc \in {"register", "header", "first", "count"} => Uncounted
  /\ pc \in {"stream", "wait"} => Counted /\ entry.status \notin {"none", "done"}
  /\ pc \in {"respond", "returned"} /\ entry # NoEntry =>
       \/ Uncounted /\ wire = <<>> /\ GoodPlan
       \/ /\ Counted
          /\ Len(wire) <= entry.done
          /\ entry.status = "done" =>
               wire = Bytes(0, plan.total - 1) /\ Got = Ranges

(* The inductive invariant.  Counting by the set of bytes that have        *)
(* arrived is what relates the tracker's sums to the browser's prefix.     *)
DownloadInv ==
  /\ Types
  /\ FetchersInv
  /\ ResultsInv
  /\ HandlerInv
  /\ EntryInv
-----------------------------------------------------------------------------
(* Lemmas about bytes and ranges.                                          *)

LEMMA BytesAre ==
  ASSUME NEW a \in Nat, NEW b \in Int, a <= b + 1
  PROVE  /\ Bytes(a, b) \in Seq(Nat)
         /\ Len(Bytes(a, b)) = b - a + 1
         /\ \A k \in 1..(b - a + 1) : Bytes(a, b)[k] = a + k - 1
<1> DEFINE m == b - a + 1
<1>1. m \in Nat
  OBVIOUS
<1>2. Bytes(a, b) = [k \in 1..m |-> a + k - 1]
  BY DEF Bytes
<1> HIDE DEF m
<1>3. \A k \in 1..m : a + k - 1 \in Nat
  BY <1>1
<1>4. [k \in 1..m |-> a + k - 1] \in [1..m -> Nat]
  BY <1>3
<1>5. [k \in 1..m |-> a + k - 1] \in Seq(Nat)
  BY <1>1, <1>4
<1>6. Len([k \in 1..m |-> a + k - 1]) = m
  BY <1>1
<1> QED
  BY <1>2, <1>5, <1>6 DEF m

(* A prefix of the file, and what follows it.                              *)
LEMMA BytesConcat ==
  ASSUME NEW a \in Nat, NEW b \in Int, a <= b + 1
  PROVE  Bytes(0, a - 1) \o Bytes(a, b) = Bytes(0, b)
<1> DEFINE s == Bytes(0, a - 1)
           t == Bytes(a, b)
           u == Bytes(0, b)
<1>1. s \in Seq(Nat) /\ Len(s) = a /\ \A k \in 1..a : s[k] = k - 1
  <2> DEFINE e == a - 1
  <2>1. e \in Int /\ 0 <= e + 1 /\ e - 0 + 1 = a
    OBVIOUS
  <2> HIDE DEF e
  <2>2. /\ Bytes(0, e) \in Seq(Nat) /\ Len(Bytes(0, e)) = e - 0 + 1
        /\ \A k \in 1..(e - 0 + 1) : Bytes(0, e)[k] = 0 + k - 1
    BY <2>1, BytesAre
  <2> QED
    BY <2>1, <2>2 DEF e
<1>2. t \in Seq(Nat) /\ Len(t) = b - a + 1 /\ \A k \in 1..(b - a + 1) : t[k] = a + k - 1
  BY BytesAre
<1>3. u \in Seq(Nat) /\ Len(u) = b + 1 /\ \A k \in 1..(b + 1) : u[k] = k - 1
  <2>1. 0 <= b + 1 /\ b - 0 + 1 = b + 1
    OBVIOUS
  <2> QED
    BY <2>1, BytesAre
<1> DEFINE w == s \o t
<1> HIDE DEF s, t, u, w
<1>4. /\ w \in Seq(Nat) /\ Len(w) = b + 1
      /\ \A k \in 1..(b + 1) : w[k] = IF k <= a THEN s[k] ELSE t[k - a]
  <2>1. Len(s) + Len(t) = b + 1
    BY <1>1, <1>2
  <2>2. /\ w \in Seq(Nat) /\ Len(w) = Len(s) + Len(t)
        /\ \A k \in 1..(Len(s) + Len(t)) :
             w[k] = IF k <= Len(s) THEN s[k] ELSE t[k - Len(s)]
    BY <1>1, <1>2, ConcatProperties, Zenon DEF w
  <2>3. Len(s) = a
    BY <1>1
  <2> QED
    BY <2>1, <2>2, <2>3
<1>5. \A k \in 1..(b + 1) : w[k] = u[k]
  <2> SUFFICES ASSUME NEW k \in 1..(b + 1) PROVE w[k] = u[k]
    OBVIOUS
  <2>1. CASE k <= a
    BY <1>1, <1>3, <1>4, <2>1
  <2>2. CASE k > a
    <3> DEFINE j == k - a
    <3>1. j \in 1..(b - a + 1) /\ a + j - 1 = k - 1
      BY <2>2
    <3>2. w[k] = t[j]
      BY <1>4, <2>2
    <3> HIDE DEF j
    <3>3. t[j] = a + j - 1
      BY <1>2, <3>1
    <3>4. u[k] = k - 1
      BY <1>3
    <3> QED
      BY <3>1, <3>2, <3>3, <3>4
  <2> QED
    BY <2>1, <2>2
<1>6. w = u
  BY <1>3, <1>4, <1>5, SeqEqual
<1> QED
  BY <1>6 DEF w, s, t, u

LEMMA PlanTypes ==
  ASSUME GoodPlan
  PROVE  /\ plan.total \in Nat \ {0} /\ plan.firstSize \in 0..plan.total
         /\ plan.firstSize \in Nat /\ plan.chunkSize \in Nat \ {0}
         /\ NumRanges \in Nat /\ Ranges = 0..(NumRanges - 1)
         /\ Chunks = NumRanges + (IF plan.firstSize > 0 THEN 1 ELSE 0)
         /\ NumRanges > 0 => plan.firstSize < plan.total
         /\ NumRanges = 0 => plan.firstSize = plan.total
<1>1. /\ plan.total \in Nat \ {0} /\ plan.firstSize \in 0..plan.total
      /\ plan.chunkSize \in Nat \ {0}
  BY DownloadAssumption DEF GoodPlan
<1>2. plan.firstSize \in Nat /\ plan.firstSize <= plan.total
  BY <1>1
<1>3. /\ NumRanges \in Nat
      /\ Chunks = NumRanges + (IF plan.firstSize > 0 THEN 1 ELSE 0)
      /\ plan.firstSize = plan.total => NumRanges = 0
      /\ plan.firstSize < plan.total => NumRanges > 0
  <2> DEFINE t == plan.total
             f == plan.firstSize
             c == plan.chunkSize
  <2>1. t \in Nat \ {0} /\ f \in 0..t /\ c \in Nat \ {0}
    BY <1>1
  <2> HIDE DEF t, f, c
  <2>2. /\ Fetches(t, f, c) \in Nat
        /\ ComputeChunks(t, f, c) = Fetches(t, f, c) + (IF f > 0 THEN 1 ELSE 0)
        /\ f = t => Fetches(t, f, c) = 0
        /\ f < t => Fetches(t, f, c) > 0
    BY <2>1, FetchesCount
  <2> QED
    BY <2>2 DEF NumRanges, Chunks, t, f, c
<1>4. Ranges = 0..(NumRanges - 1)
  BY DEF Ranges, NumRanges
<1> QED
  BY <1>1, <1>2, <1>3, <1>4

(* The ranges follow one another.                                          *)
LEMMA RangesFollow ==
  ASSUME GoodPlan, NEW i \in Ranges
  PROVE  /\ Start(i) \in Nat /\ End(i) \in Nat
         /\ plan.firstSize <= Start(i) /\ Start(i) <= End(i) /\ End(i) < plan.total
         /\ Upto(i) = Start(i) /\ Upto(i + 1) = End(i) + 1
         /\ i \in Nat /\ i < NumRanges
<1>1. /\ plan.total \in Nat \ {0} /\ plan.firstSize \in 0..plan.total
      /\ plan.chunkSize \in Nat \ {0} /\ NumRanges \in Nat
      /\ i \in 0..(NumRanges - 1) /\ plan.firstSize < plan.total
  BY PlanTypes
<1>2. /\ Start(i) \in Nat /\ End(i) \in Nat
      /\ plan.firstSize <= Start(i) /\ Start(i) <= End(i) /\ End(i) < plan.total
      /\ i < NumRanges - 1 => End(i) + 1 = Start(i + 1)
      /\ i = NumRanges - 1 => End(i) = plan.total - 1
  BY <1>1, RangesOfCut DEF NumRanges, Start, End
<1>3. Upto(i) = Start(i)
  BY <1>1 DEF Upto
<1>4. Upto(i + 1) = End(i) + 1
  BY <1>1, <1>2 DEF Upto
<1> QED
  BY <1>1, <1>2, <1>3, <1>4

(* And do not overlap.                                                     *)
LEMMA RangesApart ==
  ASSUME GoodPlan, NEW i \in Ranges, NEW j \in Ranges, i < j
  PROVE  End(i) < Start(j)
<1>1. /\ plan.chunkSize \in Nat /\ plan.firstSize \in Nat /\ NumRanges \in Nat
      /\ i \in 0..(NumRanges - 1) /\ j \in 0..(NumRanges - 1)
  BY PlanTypes
<1>2. End(i) \in Nat /\ Upto(i + 1) = End(i) + 1 /\ i + 1 < NumRanges
      /\ Upto(i + 1) = Start(i + 1) /\ Start(j) \in Nat
  BY <1>1, RangesFollow DEF Upto
<1>3. Start(i + 1) <= Start(j)
  <2> DEFINE c == plan.chunkSize
             f == plan.firstSize
  <2>1. c \in Nat /\ f \in Nat /\ i \in Nat /\ j \in Nat /\ j - (i + 1) \in Nat
    BY <1>1
  <2>2. Start(i + 1) = f + (i + 1) * c /\ Start(j) = f + j * c
    BY DEF Start, RangeStart
  <2> HIDE DEF c, f
  <2>3. (j - (i + 1)) * c >= 0 /\ (j - (i + 1)) * c = j * c - (i + 1) * c
    BY <2>1
  <2>4. j * c \in Nat /\ (i + 1) * c \in Nat
    BY <2>1
  <2> QED
    BY <2>1, <2>2, <2>3, <2>4
<1> QED
  BY <1>2, <1>3

(* What has arrived is a part of the file.                                 *)
LEMMA ArrivedInFile ==
  ASSUME GoodPlan, DOMAIN fetcher \subseteq Ranges
  PROVE  /\ Arrived \subseteq 0..(plan.total - 1) /\ IsFiniteSet(Arrived)
         /\ Cardinality(Arrived) \in Nat /\ Cardinality(Arrived) <= plan.total
         /\ IsFiniteSet(Got) /\ Cardinality(Got) \in Nat
         /\ Cardinality(Got) <= NumRanges
<1>1. plan.total \in Nat /\ plan.firstSize \in 0..plan.total /\ NumRanges \in Nat
      /\ Ranges = 0..(NumRanges - 1)
  BY PlanTypes
<1>2. \A i \in Got : Start(i) \in Nat /\ End(i) \in Nat /\ End(i) < plan.total
  BY RangesFollow DEF Got
<1>3. Arrived \subseteq 0..(plan.total - 1)
  BY <1>1, <1>2 DEF Arrived
<1>4. /\ IsFiniteSet(0..(plan.total - 1)) /\ Cardinality(0..(plan.total - 1)) = plan.total
      /\ IsFiniteSet(Ranges) /\ Cardinality(Ranges) = NumRanges
  <2>1. ASSUME NEW m \in Nat
        PROVE  IsFiniteSet(0..(m - 1)) /\ Cardinality(0..(m - 1)) = m
    <3>1. 0 \in Int /\ m - 1 \in Int
      OBVIOUS
    <3>2. /\ IsFiniteSet(0..(m - 1))
          /\ Cardinality(0..(m - 1)) = IF 0 > m - 1 THEN 0 ELSE m - 1 - 0 + 1
      BY <3>1, FS_Interval
    <3> QED
      BY <3>2
  <2> QED
    BY <1>1, <2>1
<1>5. IsFiniteSet(Arrived) /\ Cardinality(Arrived) <= plan.total
  BY <1>3, <1>4, FS_Subset
<1>6. Got \subseteq Ranges
  BY DEF Got
<1>7. IsFiniteSet(Got) /\ Cardinality(Got) <= NumRanges
  BY <1>4, <1>6, FS_Subset
<1> QED
  BY <1>3, <1>5, <1>7, FS_CardinalityType

(* A range that arrives brings bytes that had not.                         *)
LEMMA ArrivedGrows ==
  ASSUME GoodPlan, DOMAIN fetcher \subseteq Ranges, NEW i \in Ranges, i \notin Got
  PROVE  /\ Cardinality(Arrived \cup (Start(i)..End(i)))
              = Cardinality(Arrived) + (End(i) - Start(i) + 1)
         /\ Cardinality(Got \cup {i}) = Cardinality(Got) + 1
<1>1. /\ Start(i) \in Nat /\ End(i) \in Nat /\ Start(i) <= End(i)
      /\ plan.firstSize <= Start(i) /\ plan.firstSize \in Nat
  BY RangesFollow, PlanTypes
<1>2. /\ IsFiniteSet(Start(i)..End(i))
      /\ Cardinality(Start(i)..End(i)) = End(i) - Start(i) + 1
  BY <1>1, FS_Interval
<1>3. Arrived \cap (Start(i)..End(i)) = {}
  <2> SUFFICES ASSUME NEW x \in Arrived, x \in Start(i)..End(i) PROVE FALSE
    OBVIOUS
  <2>1. CASE x \in 0..(plan.firstSize - 1)
    BY <1>1, <2>1
  <2>2. ASSUME NEW j \in Got, x \in Start(j)..End(j) PROVE FALSE
    <3>1. j \in Ranges /\ j # i /\ j \in Int /\ i \in Int
      BY PlanTypes DEF Got
    <3>2. Start(j) \in Nat /\ End(j) \in Nat
      BY <3>1, RangesFollow
    <3>3. End(i) < Start(j) \/ End(j) < Start(i)
      BY <3>1, RangesApart
    <3> QED
      BY <1>1, <2>2, <3>2, <3>3
  <2> QED
    BY <2>1, <2>2 DEF Arrived
<1>4. IsFiniteSet(Arrived) /\ Cardinality(Arrived) \in Nat /\ IsFiniteSet(Got)
  BY ArrivedInFile
<1>5. Cardinality({}) = 0
  BY FS_EmptySet
<1>6. Cardinality(Arrived \cup (Start(i)..End(i)))
        = Cardinality(Arrived) + Cardinality(Start(i)..End(i))
            - Cardinality(Arrived \cap (Start(i)..End(i)))
  BY <1>2, <1>4, FS_Union
<1>7. Cardinality(Arrived \cup (Start(i)..End(i)))
        = Cardinality(Arrived) + (End(i) - Start(i) + 1)
  <2>1. Cardinality(Arrived \cap (Start(i)..End(i))) = 0
    BY <1>3, <1>5
  <2> QED
    BY <1>1, <1>2, <1>4, <1>6, <2>1
<1>8. Cardinality(Got \cup {i}) = Cardinality(Got) + 1
  BY <1>4, FS_AddElement
<1> QED
  BY <1>7, <1>8
-----------------------------------------------------------------------------
(* What a step leaves alone when it leaves the plan and the fetches alone. *)

LEMMA SamePlan ==
  ASSUME plan' = plan
  PROVE  /\ NumRanges' = NumRanges /\ Ranges' = Ranges /\ Chunks' = Chunks
         /\ GoodPlan' <=> GoodPlan
         /\ \A i : /\ Start(i)' = Start(i) /\ End(i)' = End(i) /\ Upto(i)' = Upto(i)
                   /\ RangeBytes(i)' = RangeBytes(i)
<1>1. NumRanges' = NumRanges /\ Ranges' = Ranges /\ Chunks' = Chunks
  BY DEF NumRanges, Ranges, Chunks
<1>2. GoodPlan' <=> GoodPlan
  BY DEF GoodPlan
<1>3. ASSUME NEW i
      PROVE  /\ Start(i)' = Start(i) /\ End(i)' = End(i) /\ Upto(i)' = Upto(i)
             /\ RangeBytes(i)' = RangeBytes(i)
  BY <1>1 DEF Start, End, Upto, RangeBytes
<1> QED
  BY <1>1, <1>2, <1>3

LEMMA SameFetches ==
  ASSUME DownloadInv, plan' = plan, UNCHANGED fetchVars
  PROVE  /\ UNCHANGED <<fetcher, ready, lastErr>>
         /\ Got' = Got /\ Arrived' = Arrived /\ ResultsInv'
         /\ Counted /\ UNCHANGED entry => Counted'
<1>1. UNCHANGED <<fetcher, ready, lastErr>>
  BY DEF fetchVars
<1>2. Got' = Got
  BY <1>1 DEF Got
<1>3. /\ \A i : Start(i)' = Start(i) /\ End(i)' = End(i) /\ RangeBytes(i)' = RangeBytes(i)
      /\ Ranges' = Ranges /\ (GoodPlan' <=> GoodPlan)
  BY SamePlan
<1>4. Arrived' = Arrived
  BY <1>2, <1>3 DEF Arrived
<1>5. ResultsInv'
  BY <1>1, <1>3 DEF DownloadInv, ResultsInv
<1>6. Counted /\ UNCHANGED entry => Counted'
  BY <1>1, <1>2, <1>3, <1>4 DEF Counted
<1> QED
  BY <1>1, <1>2, <1>4, <1>5, <1>6
-----------------------------------------------------------------------------
(* The invariant, action by action.                                        *)

(* Before a chunked download begins, and where none does.                  *)
LEMMA OneShotStep ==
  ASSUME DownloadInv,
         ProbeFails \/ ProbeRedirected \/ WholeHeader \/ WholeBody \/ RelayFails
  PROVE  DownloadInv'
<1>1. /\ pc \in {"probe", "relay", "whole"} /\ UNCHANGED fetchVars /\ entry' = entry
      /\ next' = next /\ streamErr' = streamErr
      /\ pc' \in {"probe", "relay", "whole", "returned"}
      /\ DOMAIN fetcher = {} /\ entry = NoEntry /\ wire = <<>>
      /\ next = 0 /\ streamErr = "nil"
  BY DEF ProbeFails, ProbeRedirected, WholeHeader, WholeBody, RelayFails,
         Succeed, RespondError, DownloadInv, FetchersInv, HandlerInv
<1>2. Types'
  BY <1>1, DownloadAssumption
  DEF ProbeFails, ProbeRedirected, WholeHeader, WholeBody, RelayFails, planVars,
      wireVars, Succeed, RespondError, DownloadInv, Types
<1>3. FetchersInv'
  BY <1>1 DEF fetchVars, DownloadInv, FetchersInv
<1>4. ResultsInv'
  BY <1>1 DEF fetchVars, DownloadInv, ResultsInv
<1>5. HandlerInv'
  BY <1>1
  DEF ProbeFails, ProbeRedirected, WholeHeader, WholeBody, RelayFails, planVars,
      wireVars, Succeed, RespondError, DownloadInv, Types, HandlerInv
<1>6. EntryInv'
  BY <1>1 DEF EntryInv
<1> QED
  BY <1>2, <1>3, <1>4, <1>5, <1>6 DEF DownloadInv

LEMMA RunChunkedStep ==
  ASSUME DownloadInv, pc \in {"probe", "relay"}, UNCHANGED gone,
         NEW total \in Sizes, NEW n \in Nat, n <= total, NEW forced \in BOOLEAN,
         RunChunked(total, n, forced)
  PROVE  DownloadInv'
<1>1. /\ UNCHANGED fetchVars /\ next' = next /\ streamErr' = streamErr
      /\ DOMAIN fetcher = {} /\ entry = NoEntry /\ wire = <<>> /\ wire' = wire
      /\ next = 0 /\ streamErr = "nil" /\ head = "none" /\ result = "none"
  BY DEF RunChunked, RespondError, wireVars, DownloadInv, FetchersInv, HandlerInv
<1>2. FetchersInv' /\ ResultsInv'
  <2>1. pc' \in {"relay", "returned", "register"}
    BY DEF RunChunked, RespondError
  <2> QED
    BY <1>1, <2>1 DEF fetchVars, DownloadInv, FetchersInv, ResultsInv
<1>3. CASE pc' \in {"relay", "returned"} /\ plan' = plan /\ entry' = entry
           /\ head' \in {"none", "error"} /\ result' \in {"none", "error"}
           /\ (result' = "none" <=> pc' # "returned")
           /\ (pc' = "relay" => head' = "none")
  <2>1. Types'
    BY <1>1, <1>3 DEF DownloadInv, Types
  <2>2. HandlerInv'
    BY <1>1, <1>3 DEF DownloadInv, HandlerInv
  <2>3. EntryInv'
    BY <1>1, <1>3 DEF EntryInv
  <2> QED
    BY <1>2, <2>1, <2>2, <2>3 DEF DownloadInv
<1>4. CASE pc' = "register"
  <2> DEFINE scaled == ScaledSize(total, n, ChunkSize, MaxChunks)
  <2>1. /\ plan' = [total |-> total, firstSize |-> n, chunkSize |-> scaled]
        /\ entry' = NewEntry /\ head' = head /\ result' = result
    BY <1>4 DEF RunChunked, RespondError, wireVars
  <2>2. total \in Nat \ {0} /\ n \in 0..total /\ scaled \in Nat \ {0}
    <3>1. /\ total \in Nat \ {0} /\ n \in 0..total
          /\ ChunkSize \in Nat \ {0} /\ MaxChunks \in Nat
      BY DownloadAssumption
    <3> QED
      BY <3>1, ScaledSizeWide
  <2> HIDE DEF scaled
  <2>3. GoodPlan'
    BY <2>1, <2>2 DEF GoodPlan
  <2>4. Types'
    BY <1>1, <1>4, <2>1, <2>2 DEF DownloadInv, Types, NewEntry, NoEntry
  <2>5. HandlerInv'
    BY <1>1, <1>4, <2>1, <2>3 DEF HandlerInv
  <2>6. EntryInv'
    BY <1>1, <1>4, <2>1 DEF EntryInv, Uncounted, NewEntry, NoEntry, fetchVars
  <2> QED
    BY <1>2, <2>4, <2>5, <2>6 DEF DownloadInv
<1>5. \/ pc' = "register"
      \/ /\ pc' \in {"relay", "returned"} /\ plan' = plan /\ entry' = entry
         /\ head' \in {"none", "error"} /\ result' \in {"none", "error"}
         /\ (result' = "none" <=> pc' # "returned")
         /\ (pc' = "relay" => head' = "none")
  BY <1>1 DEF RunChunked, RespondError, planVars, wireVars
<1> QED
  BY <1>3, <1>4, <1>5

(* Nothing has been fetched or counted yet.                                *)
LEMMA UncountedStays ==
  ASSUME Uncounted, UNCHANGED fetchVars, entry'.done = entry.done,
         entry'.chunks = entry.chunks, entry'.status \notin {"none", "done"}
  PROVE  Uncounted'
BY DEF Uncounted, fetchVars

LEMMA RegisterStep ==
  ASSUME DownloadInv, Register
  PROVE  DownloadInv'
<1>1. /\ pc = "register" /\ pc' = "header" /\ entry' = [entry EXCEPT !.cancel = TRUE]
      /\ UNCHANGED <<plan, next, streamErr, head, wire, result>> /\ UNCHANGED fetchVars
  BY DEF Register, planVars, wireVars
<1>2. Types'
  BY <1>1 DEF DownloadInv, Types
<1>3. FetchersInv'
  BY <1>1 DEF fetchVars, DownloadInv, FetchersInv
<1>4. ResultsInv' /\ GoodPlan'
  BY <1>1, SameFetches, SamePlan DEF DownloadInv, HandlerInv
<1>5. HandlerInv'
  BY <1>1, <1>4 DEF DownloadInv, HandlerInv
<1>6. EntryInv'
  <2>1. /\ entry'.done = entry.done /\ entry'.chunks = entry.chunks
        /\ entry'.status = entry.status
    BY <1>1 DEF DownloadInv, Types
  <2>2. DOMAIN fetcher' = {}
    BY <1>1 DEF DownloadInv, FetchersInv, fetchVars
  <2>3. /\ entry.done = 0 /\ entry.chunks = 0
        /\ entry.status \notin {"none", "done"}
    BY <1>1 DEF DownloadInv, EntryInv, Uncounted
  <2>4. Uncounted'
    BY <2>1, <2>2, <2>3 DEF Uncounted
  <2> QED
    BY <1>1, <2>4 DEF EntryInv
<1> QED
  BY <1>2, <1>3, <1>4, <1>5, <1>6 DEF DownloadInv

(* The pool of fetches starts: nothing has arrived but what is counted.    *)
LEMMA SpawnStep ==
  ASSUME DownloadInv, Spawn, GoodPlan, NumRanges > 0, UNCHANGED <<plan, next, streamErr>>,
         next = 0, streamErr = "nil", head' = "ok", result = "none", result' = result,
         wire' = Bytes(0, plan.firstSize - 1),
         entry'.done = plan.firstSize, entry'.status \notin {"none", "done"},
         entry'.chunks = IF plan.firstSize > 0 THEN 1 ELSE 0,
         Types'
  PROVE  DownloadInv'
<1>1. /\ pc' = "stream" /\ DOMAIN fetcher' = Ranges /\ DOMAIN ready' = Ranges
      /\ DOMAIN lastErr' = Ranges
      /\ \A i \in Ranges : /\ ready'[i] = NoResult /\ lastErr'[i] = "nil"
                           /\ fetcher'[i] = "queued"
  BY DEF Spawn
<1>2. /\ NumRanges' = NumRanges /\ Ranges' = Ranges /\ GoodPlan'
      /\ \A i : Upto(i)' = Upto(i)
  BY SamePlan
<1>3. FetchersInv' /\ ResultsInv'
  BY <1>1 DEF FetchersInv, ResultsInv
<1>4. Got' = {}
  BY <1>1 DEF Got, NoResult
<1>5. Arrived' = 0..(plan.firstSize - 1)
  BY <1>4 DEF Arrived
<1>6. /\ plan.firstSize \in Nat /\ NumRanges \in Nat
  BY PlanTypes
<1>7. Upto(0) = plan.firstSize
  <2>1. Start(0) = plan.firstSize
    BY <1>6, PlanTypes DEF Start, RangeStart
  <2> QED
    BY <2>1 DEF Upto
<1>8. Cardinality(Arrived') = plan.firstSize /\ Cardinality(Got') = 0
  <2>1. /\ 0 \in Int /\ plan.firstSize - 1 \in Int
    BY <1>6
  <2>2. Cardinality(0..(plan.firstSize - 1))
          = IF 0 > plan.firstSize - 1 THEN 0 ELSE plan.firstSize - 1 - 0 + 1
    BY <2>1, FS_Interval
  <2>3. Cardinality(0..(plan.firstSize - 1)) = plan.firstSize
    BY <1>6, <2>2
  <2>4. Cardinality({}) = 0
    BY FS_EmptySet
  <2> QED
    BY <1>4, <1>5, <2>3, <2>4, Zenon
<1>9. HandlerInv'
  <2>1. /\ next' \in 0..NumRanges' /\ next' < NumRanges'
        /\ \A i \in 0..(next' - 1) : i \in Got'
    BY <1>2, <1>6
  <2>2. wire' = Bytes(0, Upto(next)' - 1) /\ 0..(Upto(next)' - 1) \subseteq Arrived'
    BY <1>2, <1>5, <1>7
  <2> QED
    BY <1>1, <1>2, <2>1, <2>2 DEF HandlerInv, GoodPlan
<1>10. EntryInv'
  <2> SUFFICES Counted'
    BY <1>1 DEF EntryInv
  <2>1. entry'.done = Cardinality(Arrived')
    BY <1>8
  <2>2. entry'.chunks = Cardinality(Got') + (IF plan'.firstSize > 0 THEN 1 ELSE 0)
    BY <1>6, <1>8
  <2> QED
    BY <1>1, <1>2, <2>1, <2>2 DEF Counted
<1> QED
  BY <1>3, <1>9, <1>10 DEF DownloadInv

(* The handler gives up before anything is counted.                        *)
LEMMA GiveUpEarly ==
  ASSUME DownloadInv, pc \in {"header", "first"}, FailEntry, RespondError,
         UNCHANGED fetchVars, UNCHANGED <<plan, next, streamErr>>
  PROVE  DownloadInv'
<1>1. /\ pc' = "returned" /\ result' = "error" /\ wire' = wire /\ wire = <<>>
      /\ head' \in {head, "error"} /\ entry' = [entry EXCEPT !.status = "failed"]
      /\ DOMAIN fetcher = {}
  BY DEF RespondError, FailEntry, DownloadInv, HandlerInv, FetchersInv
<1>2. ResultsInv' /\ GoodPlan' /\ UNCHANGED <<fetcher, ready>>
  BY SameFetches, SamePlan DEF DownloadInv, HandlerInv
<1>3. Types'
  BY <1>1 DEF DownloadInv, Types
<1>4. FetchersInv'
  BY <1>1, <1>2 DEF DownloadInv, FetchersInv
<1>5. HandlerInv'
  BY <1>1, <1>2 DEF HandlerInv, GoodPlan
<1>6. EntryInv'
  <2>1. Uncounted
    BY DEF DownloadInv, EntryInv
  <2>2. /\ entry'.done = entry.done /\ entry'.chunks = entry.chunks
        /\ entry'.status = "failed"
    BY <1>1 DEF DownloadInv, Types
  <2>3. Uncounted'
    BY <2>1, <2>2, UncountedStays
  <2> QED
    BY <1>1, <1>2, <2>3 DEF EntryInv
<1> QED
  BY <1>2, <1>3, <1>4, <1>5, <1>6 DEF DownloadInv

LEMMA WriteHeaderStep ==
  ASSUME DownloadInv, WriteHeader
  PROVE  DownloadInv'
<1>1. /\ pc = "header" /\ UNCHANGED <<plan, next, streamErr>>
      /\ GoodPlan /\ wire = <<>> /\ next = 0 /\ streamErr = "nil" /\ result = "none"
      /\ Uncounted
  BY DEF WriteHeader, planVars, DownloadInv, HandlerInv, EntryInv
<1>2. CASE FailEntry /\ RespondError /\ UNCHANGED fetchVars
  BY <1>1, <1>2, GiveUpEarly
<1>3. CASE head' = "ok" /\ UNCHANGED <<entry, wire, garbled, result>>
           /\ plan.firstSize > 0 /\ pc' = "first" /\ UNCHANGED fetchVars
  <2>1. ResultsInv' /\ GoodPlan'
    BY <1>1, <1>3, SameFetches, SamePlan
  <2>2. FetchersInv'
    BY <1>1, <1>3 DEF fetchVars, DownloadInv, FetchersInv
  <2>3. Types'
    BY <1>1, <1>3 DEF DownloadInv, Types
  <2>4. HandlerInv'
    BY <1>1, <1>3, <2>1 DEF HandlerInv, GoodPlan
  <2>5. EntryInv'
    BY <1>1, <1>3 DEF EntryInv, Uncounted, fetchVars
  <2> QED
    BY <2>1, <2>2, <2>3, <2>4, <2>5 DEF DownloadInv
<1>4. CASE head' = "ok" /\ UNCHANGED <<entry, wire, garbled, result>>
           /\ ~(plan.firstSize > 0) /\ Spawn
  <2>1. plan.firstSize = 0 /\ NumRanges > 0
    BY <1>1, <1>4, PlanTypes
  <2>2. wire' = Bytes(0, plan.firstSize - 1)
    <3>1. Bytes(0, -1) = <<>>
      <4>1. /\ Bytes(0, -1) \in Seq(Nat) /\ Len(Bytes(0, -1)) = -1 - 0 + 1
        BY BytesAre
      <4> QED
        BY <4>1, EmptySeq
    <3>2. plan.firstSize - 1 = -1
      BY <2>1
    <3> QED
      BY <1>1, <1>4, <3>1, <3>2
  <2>3. Types'
    BY <1>1, <1>4 DEF DownloadInv, Types, Spawn
  <2>4. /\ entry'.done = plan.firstSize /\ entry'.status \notin {"none", "done"}
        /\ entry'.chunks = IF plan.firstSize > 0 THEN 1 ELSE 0
    BY <1>1, <1>4, <2>1 DEF Uncounted
  <2> QED
    BY <1>1, <1>4, <2>1, <2>2, <2>3, <2>4, SpawnStep
<1> QED
  BY <1>2, <1>3, <1>4 DEF WriteHeader

LEMMA WriteFirstStep ==
  ASSUME DownloadInv, WriteFirst
  PROVE  DownloadInv'
<1>1. /\ pc = "first" /\ UNCHANGED <<plan, next, streamErr>> /\ UNCHANGED fetchVars
      /\ GoodPlan /\ next = 0 /\ streamErr = "nil" /\ result = "none"
      /\ Uncounted
  BY DEF WriteFirst, planVars, DownloadInv, HandlerInv, EntryInv
<1>2. CASE FailEntry /\ RespondError
  BY <1>1, <1>2, GiveUpEarly
<1>3. CASE wire' = Bytes(0, plan.firstSize - 1) /\ pc' = "count"
           /\ UNCHANGED <<entry, head, garbled, result>>
  <2>1. ResultsInv' /\ GoodPlan'
    BY <1>1, SameFetches, SamePlan
  <2>2. FetchersInv'
    BY <1>1, <1>3 DEF fetchVars, DownloadInv, FetchersInv
  <2>3. Types'
    BY <1>1, <1>3 DEF DownloadInv, Types
  <2>4. HandlerInv'
    BY <1>1, <1>3, <2>1 DEF DownloadInv, HandlerInv, GoodPlan
  <2>5. EntryInv'
    BY <1>1, <1>3 DEF EntryInv, Uncounted, fetchVars
  <2> QED
    BY <2>1, <2>2, <2>3, <2>4, <2>5 DEF DownloadInv
<1> QED
  BY <1>2, <1>3 DEF WriteFirst

(* The probe's chunk is counted; if it is the file, nothing is fetched.    *)
LEMMA CountFirstStep ==
  ASSUME DownloadInv, CountFirst
  PROVE  DownloadInv'
<1>1. /\ pc = "count" /\ UNCHANGED <<plan, next, streamErr, head, wire, result>>
      /\ entry' = [entry EXCEPT !.done = @ + plan.firstSize, !.chunks = @ + 1]
      /\ GoodPlan /\ next = 0 /\ streamErr = "nil" /\ result = "none" /\ head = "ok"
      /\ wire = Bytes(0, plan.firstSize - 1) /\ plan.firstSize > 0
      /\ DOMAIN fetcher = {}
      /\ Uncounted
  BY DEF CountFirst, planVars, wireVars, DownloadInv, HandlerInv, EntryInv, FetchersInv
<1>2. plan.firstSize \in Nat /\ plan.total \in Nat /\ NumRanges \in Nat
      /\ Chunks = NumRanges + 1
  BY <1>1, PlanTypes
<1>3. /\ entry'.done = plan.firstSize /\ entry'.status \notin {"none", "done"}
      /\ entry'.chunks = 1
      /\ entry' \in [status : {"none", "active", "done", "failed", "cancelled"},
                     done : Nat, chunks : Nat, cancel : BOOLEAN]
  <2> DEFINE f == plan.firstSize
  <2>1. entry.done = 0 /\ entry.status \notin {"none", "done"} /\ entry.chunks = 0
    BY <1>1 DEF Uncounted
  <2>2. /\ entry \in [status : {"none", "active", "done", "failed", "cancelled"},
                      done : Nat, chunks : Nat, cancel : BOOLEAN]
        /\ entry' = [entry EXCEPT !.done = entry.done + f, !.chunks = entry.chunks + 1]
        /\ f \in Nat
    BY <1>1, <1>2 DEF DownloadInv, Types
  <2>3. entry.done + f = f /\ entry.chunks + 1 = 1
    BY <2>1, <2>2
  <2> HIDE DEF f
  <2>4. entry' = [entry EXCEPT !.done = f, !.chunks = 1]
    BY <2>2, <2>3
  <2>5. entry'.done = f /\ entry'.status = entry.status /\ entry'.chunks = 1
    BY <2>2, <2>4
  <2>6. entry' \in [status : {"none", "active", "done", "failed", "cancelled"},
                   done : Nat, chunks : Nat, cancel : BOOLEAN]
    <3>1. entry' = [status |-> entry.status, done |-> f, chunks |-> 1,
                    cancel |-> entry.cancel]
      BY <2>2, <2>4
    <3> QED
      BY <2>2, <3>1
  <2> QED
    BY <2>1, <2>5, <2>6 DEF f
<1>4. CASE ~(Chunks <= 1) /\ Spawn
  <2>1. NumRanges > 0
    BY <1>2, <1>4
  <2>2. Types'
    BY <1>1, <1>3, <1>4 DEF DownloadInv, Types, Spawn
  <2> QED
    BY <1>1, <1>3, <1>4, <2>1, <2>2, SpawnStep
<1>5. CASE Chunks <= 1 /\ pc' = "wait" /\ UNCHANGED fetchVars
  <2>1. NumRanges = 0 /\ plan.firstSize = plan.total /\ Ranges = {}
    BY <1>1, <1>2, <1>5, PlanTypes
  <2>2. /\ NumRanges' = NumRanges /\ Ranges' = Ranges /\ GoodPlan' /\ ResultsInv'
        /\ Got' = Got /\ Arrived' = Arrived /\ Upto(next)' = Upto(0)
        /\ UNCHANGED <<fetcher, ready>>
    BY <1>1, <1>5, SamePlan, SameFetches
  <2>3. Got = {} /\ Arrived = 0..(plan.firstSize - 1)
    BY <1>1 DEF Got, Arrived
  <2>4. Types'
    BY <1>1, <1>3, <1>5 DEF DownloadInv, Types
  <2>5. FetchersInv'
    BY <1>5, <2>2 DEF DownloadInv, FetchersInv
  <2>6. Upto(0) = plan.firstSize
    BY <2>1 DEF Upto
  <2>7. HandlerInv'
    <3>1. /\ next' = 0 /\ next' \in 0..NumRanges' /\ next' = NumRanges'
          /\ \A i \in 0..(next' - 1) : i \in Got'
      BY <1>1, <2>1, <2>2
    <3>2. wire' = Bytes(0, Upto(next)' - 1) /\ 0..(Upto(next)' - 1) \subseteq Arrived'
      BY <1>1, <2>2, <2>3, <2>6
    <3>3. DOMAIN fetcher' = Ranges'
      BY <1>1, <2>1, <2>2
    <3> QED
      BY <1>1, <1>5, <2>2, <3>1, <3>2, <3>3 DEF HandlerInv, GoodPlan
  <2>8. Counted'
    <3>1. Cardinality(Arrived') = plan.firstSize
      <4>1. /\ 0 \in Int /\ plan.firstSize - 1 \in Int
        BY <1>2
      <4>2. Cardinality(0..(plan.firstSize - 1))
              = IF 0 > plan.firstSize - 1 THEN 0 ELSE plan.firstSize - 1 - 0 + 1
        BY <4>1, FS_Interval
      <4>3. Cardinality(0..(plan.firstSize - 1)) = plan.firstSize
        BY <1>2, <4>2
      <4> QED
        BY <2>2, <2>3, <4>3
    <3>2. Cardinality(Got') = 0
      BY <2>2, <2>3, FS_EmptySet
    <3>3. DOMAIN fetcher' = Ranges'
      BY <1>1, <2>1, <2>2
    <3> QED
      BY <1>1, <1>3, <2>2, <3>1, <3>2, <3>3 DEF Counted
  <2>9. EntryInv'
    BY <1>3, <1>5, <2>8 DEF EntryInv
  <2> QED
    BY <2>2, <2>4, <2>5, <2>7, <2>9 DEF DownloadInv
<1> QED
  BY <1>4, <1>5 DEF CountFirst

(* A range that is there extends the prefix; an error ends the stream.     *)
LEMMA StreamNextStep ==
  ASSUME DownloadInv, StreamNext
  PROVE  DownloadInv'
<1>1. /\ pc = "stream" /\ ready[next] # NoResult
      /\ UNCHANGED <<plan, entry, head, result>> /\ UNCHANGED fetchVars
      /\ GoodPlan /\ streamErr = "nil" /\ result = "none" /\ head = "ok"
      /\ DOMAIN fetcher = Ranges /\ next < NumRanges /\ next \in 0..NumRanges
      /\ wire = Bytes(0, Upto(next) - 1)
      /\ \A i \in 0..(next - 1) : i \in Got
      /\ 0..(Upto(next) - 1) \subseteq Arrived
      /\ Counted /\ entry.status \notin {"none", "done"}
  BY DEF StreamNext, planVars, DownloadInv, HandlerInv, EntryInv
<1>2. /\ NumRanges \in Nat /\ Ranges = 0..(NumRanges - 1) /\ next \in Nat
  BY <1>1, PlanTypes DEF DownloadInv, Types
<1>3. next \in Ranges
  BY <1>1, <1>2
<1>4. /\ NumRanges' = NumRanges /\ Ranges' = Ranges /\ GoodPlan' /\ ResultsInv'
      /\ Got' = Got /\ Arrived' = Arrived /\ \A i : Upto(i)' = Upto(i)
      /\ UNCHANGED <<fetcher, ready>>
      /\ Counted'
  BY <1>1, SamePlan, SameFetches
<1>5. pc' \in {"stream", "wait"}
  BY <1>1 DEF StreamNext
<1>6. FetchersInv' /\ EntryInv'
  BY <1>1, <1>4, <1>5 DEF DownloadInv, FetchersInv, EntryInv
<1>7. CASE /\ ready[next].err = "nil" /\ wire' = wire \o ready[next].bytes
           /\ next' = next + 1 /\ pc' = (IF next + 1 \in Ranges THEN pc ELSE "wait")
           /\ UNCHANGED streamErr
  <2>1. Types'
    BY <1>1, <1>2, <1>5, <1>7 DEF DownloadInv, Types
  <2>2. ready[next].bytes = Bytes(Start(next), End(next))
    BY <1>1, <1>3, <1>7 DEF DownloadInv, ResultsInv, Errors, RangeBytes, Start, End
  <2>3. /\ Start(next) \in Nat /\ End(next) \in Nat /\ Start(next) <= End(next)
        /\ Upto(next) = Start(next) /\ Upto(next + 1) = End(next) + 1
    BY <1>1, <1>3, RangesFollow
  <2>4. wire' = Bytes(0, Upto(next + 1) - 1)
    <3>1. Bytes(0, Start(next) - 1) \o Bytes(Start(next), End(next)) = Bytes(0, End(next))
      <4>1. Start(next) <= End(next) + 1 /\ End(next) \in Int
        BY <2>3
      <4> QED
        BY <2>3, <4>1, BytesConcat
    <3>2. Upto(next + 1) - 1 = End(next)
      BY <2>3
    <3> QED
      BY <1>1, <1>7, <2>2, <2>3, <3>1, <3>2, Zenon
  <2>5. next \in Got
    BY <1>1, <1>3, <1>7 DEF Got
  <2>6. 0..(Upto(next + 1) - 1) \subseteq Arrived
    <3>1. Start(next)..End(next) \subseteq Arrived
      BY <2>5 DEF Arrived
    <3>2. ASSUME NEW x \in 0..(Upto(next + 1) - 1) PROVE x \in Arrived
      BY <1>1, <2>3, <3>1, <3>2
    <3> QED
      BY <3>2
  <2>7. /\ next' \in 0..NumRanges /\ (pc' = "stream" => next' < NumRanges)
        /\ (pc' = "wait" => next' = NumRanges)
        /\ \A i \in 0..(next' - 1) : i \in Got
    BY <1>1, <1>2, <1>7, <2>5
  <2>8. HandlerInv'
    <3>1. /\ next' \in 0..NumRanges' /\ (pc' = "stream" => next' < NumRanges')
          /\ (pc' = "wait" => next' = NumRanges')
          /\ \A i \in 0..(next' - 1) : i \in Got'
      BY <1>4, <2>7
    <3>2. Upto(next)' = Upto(next + 1)
      BY <1>4, <1>7 DEF Upto, Start
    <3>3. wire' = Bytes(0, Upto(next)' - 1) /\ 0..(Upto(next)' - 1) \subseteq Arrived'
      BY <1>4, <2>4, <2>6, <3>2
    <3>4. DOMAIN fetcher' = Ranges'
      BY <1>1, <1>4
    <3> QED
      BY <1>1, <1>4, <1>5, <1>7, <3>1, <3>3, <3>4 DEF HandlerInv, GoodPlan
  <2> QED
    BY <1>4, <1>6, <2>1, <2>8 DEF DownloadInv
<1>8. CASE pc' = "wait" /\ streamErr' \in Errors /\ UNCHANGED <<wire, next>>
  <2>1. Types'
    BY <1>1, <1>8 DEF DownloadInv, Types
  <2>2. Upto(next)' = Upto(next)
    BY <1>4, <1>8 DEF Upto, Start
  <2>3. HandlerInv'
    <3>1. /\ next' \in 0..NumRanges' /\ (\A i \in 0..(next' - 1) : i \in Got')
          /\ wire' = Bytes(0, Upto(next)' - 1) /\ 0..(Upto(next)' - 1) \subseteq Arrived'
          /\ DOMAIN fetcher' = Ranges'
      BY <1>1, <1>4, <1>8, <2>2
    <3> QED
      BY <1>1, <1>4, <1>8, <3>1 DEF HandlerInv, GoodPlan, Errors
  <2> QED
    BY <1>4, <1>6, <2>1, <2>3 DEF DownloadInv
<1>9. ready[next].err # "nil" => ready[next].err \in Errors
  BY <1>1, <1>3 DEF DownloadInv, ResultsInv
<1> QED
  BY <1>7, <1>8, <1>9 DEF StreamNext

(* What the browser has is among what has arrived.                         *)
LEMMA StreamedIsArrived ==
  ASSUME DownloadInv, pc \in {"stream", "wait"}
  PROVE  Len(wire) <= Cardinality(Arrived)
<1>1. /\ GoodPlan /\ DOMAIN fetcher = Ranges /\ next \in 0..NumRanges
      /\ wire = Bytes(0, Upto(next) - 1) /\ 0..(Upto(next) - 1) \subseteq Arrived
  BY DEF DownloadInv, HandlerInv
<1>2. /\ plan.total \in Nat \ {0} /\ NumRanges \in Nat /\ Ranges = 0..(NumRanges - 1)
      /\ next \in Nat
  BY <1>1, PlanTypes
<1> DEFINE u == Upto(next)
<1>3. u \in Nat
  <2>1. CASE next < NumRanges
    BY <1>1, <1>2, <2>1, RangesFollow
  <2>2. CASE ~(next < NumRanges)
    BY <1>2, <2>2 DEF Upto
  <2> QED
    BY <2>1, <2>2
<1>4. wire = Bytes(0, u - 1) /\ 0..(u - 1) \subseteq Arrived
  BY <1>1
<1> HIDE DEF u
<1>5. Len(wire) = u
  <2> DEFINE e == u - 1
  <2>1. e \in Int /\ 0 <= e + 1 /\ e - 0 + 1 = u
    BY <1>3
  <2> HIDE DEF e
  <2>2. Len(Bytes(0, e)) = e - 0 + 1
    BY <2>1, BytesAre
  <2> QED
    BY <1>4, <2>1, <2>2 DEF e
<1>6. Cardinality(0..(u - 1)) = u
  <2>1. /\ 0 \in Int /\ u - 1 \in Int
    BY <1>3
  <2>2. Cardinality(0..(u - 1)) = IF 0 > u - 1 THEN 0 ELSE u - 1 - 0 + 1
    BY <2>1, FS_Interval
  <2> QED
    BY <1>3, <2>2
<1>7. IsFiniteSet(Arrived)
  BY <1>1, ArrivedInFile
<1>8. Cardinality(0..(u - 1)) <= Cardinality(Arrived)
  BY <1>4, <1>7, FS_Subset
<1> QED
  BY <1>5, <1>6, <1>8

(* Every fetch has ended; without an error the handler has written the     *)
(* whole file and returns, with one it has it answered.                    *)
LEMMA ConcludeStep ==
  ASSUME DownloadInv, Conclude
  PROVE  /\ DownloadInv' /\ wire' = wire /\ plan' = plan
         /\ result' \in {"none", "ok"} /\ head' = head
         /\ result' = "ok" => wire = Bytes(0, plan.total - 1)
<1>1. /\ pc = "wait" /\ pc' \in {"respond", "returned"} /\ \A i \in DOMAIN fetcher : fetcher[i] = "done"
      /\ UNCHANGED <<plan, next, streamErr, wire>> /\ UNCHANGED fetchVars
      /\ head' = head /\ head = "ok"
      /\ \/ streamErr = "nil" /\ FinishEntry /\ result' = "ok" /\ pc' = "returned"
         \/ /\ streamErr # "nil" /\ (CancelEntry \/ FailEntry)
            /\ result' = "none" /\ pc' = "respond"
  BY DEF Conclude, planVars, wireVars, Idle, Succeed, DownloadInv, HandlerInv
<1>2. /\ GoodPlan /\ DOMAIN fetcher = Ranges /\ next \in 0..NumRanges
      /\ wire = Bytes(0, Upto(next) - 1)
      /\ \A i \in 0..(next - 1) : i \in Got
      /\ 0..(Upto(next) - 1) \subseteq Arrived
      /\ Counted /\ entry.status \notin {"none", "done"}
  BY <1>1 DEF DownloadInv, HandlerInv, EntryInv
<1>3. /\ plan.total \in Nat \ {0} /\ NumRanges \in Nat /\ Ranges = 0..(NumRanges - 1)
      /\ next \in Nat
  BY <1>2, PlanTypes
<1>4. /\ Ranges' = Ranges /\ GoodPlan' /\ ResultsInv'
      /\ Got' = Got /\ Arrived' = Arrived
      /\ UNCHANGED <<fetcher, ready>>
  BY <1>1, <1>2, SamePlan, SameFetches
<1>5. ASSUME streamErr = "nil"
      PROVE  /\ wire = Bytes(0, plan.total - 1) /\ Got = Ranges
             /\ Cardinality(Arrived) = plan.total
  <2>1. next = NumRanges
    BY <1>1, <1>5 DEF DownloadInv, HandlerInv
  <2>2. Upto(next) = plan.total
    BY <1>3, <2>1 DEF Upto
  <2>3. Got = Ranges
    BY <1>2, <1>3, <2>1 DEF Got
  <2>4. Arrived = 0..(plan.total - 1)
    BY <1>2, <2>2, ArrivedInFile
  <2>5. Cardinality(0..(plan.total - 1)) = plan.total
    <3>1. /\ 0 \in Int /\ plan.total - 1 \in Int
      BY <1>3
    <3>2. Cardinality(0..(plan.total - 1))
            = IF 0 > plan.total - 1 THEN 0 ELSE plan.total - 1 - 0 + 1
      BY <3>1, FS_Interval
    <3> QED
      BY <1>3, <3>2
  <2> QED
    BY <1>2, <2>2, <2>3, <2>4, <2>5
<1>6. Len(wire) <= Cardinality(Arrived)
  BY <1>1, StreamedIsArrived
<1>7. Types'
  <2>1. \/ entry' = [entry EXCEPT !.status = "done", !.done = plan.total]
        \/ \E st \in {"active", "none", "done", "failed", "cancelled"} :
             entry' = [entry EXCEPT !.status = st]
    BY <1>1 DEF FinishEntry, CancelEntry, FailEntry, DownloadInv, Types
  <2>2. plan.total \in Nat
    BY <1>3
  <2>3. entry' \in [status : {"none", "active", "done", "failed", "cancelled"},
                   done : Nat, chunks : Nat, cancel : BOOLEAN]
    BY <2>1, <2>2 DEF DownloadInv, Types
  <2> QED
    BY <1>1, <2>3 DEF DownloadInv, Types
<1>8. FetchersInv'
  BY <1>1, <1>4 DEF DownloadInv, FetchersInv
<1>9. HandlerInv'
  BY <1>1, <1>4 DEF HandlerInv, GoodPlan
<1>10. ASSUME entry'.done = Cardinality(Arrived), entry'.chunks = entry.chunks
       PROVE  Counted'
  <2>1. /\ GoodPlan' /\ DOMAIN fetcher' = Ranges' /\ entry'.done = Cardinality(Arrived')
    BY <1>2, <1>4, <1>10
  <2>2. entry'.chunks = Cardinality(Got') + (IF plan'.firstSize > 0 THEN 1 ELSE 0)
    BY <1>1, <1>2, <1>4, <1>10 DEF Counted
  <2> QED
    BY <2>1, <2>2 DEF Counted
<1>11. EntryInv'
  <2>1. CASE streamErr = "nil" /\ FinishEntry
    <3>1. entry'.done = plan.total /\ entry'.chunks = entry.chunks
      BY <2>1 DEF FinishEntry, DownloadInv, Types
    <3>2. Counted'
      BY <1>5, <1>10, <2>1, <3>1
    <3> QED
      BY <1>1, <1>4, <1>5, <1>6, <2>1, <3>1, <3>2 DEF EntryInv
  <2>2. CASE streamErr # "nil" /\ (CancelEntry \/ FailEntry)
    <3>1. /\ entry'.done = entry.done /\ entry'.chunks = entry.chunks
          /\ entry'.status # "done"
      BY <1>2, <2>2 DEF CancelEntry, FailEntry, DownloadInv, Types
    <3>2. Counted' /\ Len(wire) <= entry.done
      BY <1>2, <1>6, <1>10, <3>1 DEF Counted
    <3> QED
      BY <1>1, <3>1, <3>2 DEF EntryInv
  <2> QED
    BY <1>1, <2>1, <2>2
<1> QED
  BY <1>1, <1>4, <1>5, <1>7, <1>8, <1>9, <1>11 DEF DownloadInv

(* The answer to an error changes neither the entry nor the fetches.       *)
LEMMA RespondStep ==
  ASSUME DownloadInv, Respond
  PROVE  DownloadInv'
<1>1. /\ pc = "respond" /\ pc' = "returned" /\ result' = "error" /\ head' = head
      /\ head = "ok" /\ UNCHANGED <<plan, next, streamErr, wire, entry>> /\ UNCHANGED fetchVars
  BY DEF Respond, RespondError, planVars, DownloadInv, HandlerInv
<1>2. /\ ResultsInv' /\ UNCHANGED <<fetcher, ready>> /\ (GoodPlan' <=> GoodPlan)
      /\ Got' = Got /\ Arrived' = Arrived /\ Ranges' = Ranges
  BY <1>1, SameFetches, SamePlan DEF DownloadInv
<1>3. Types' /\ FetchersInv'
  BY <1>1, <1>2 DEF DownloadInv, Types, FetchersInv
<1>4. HandlerInv'
  BY <1>1 DEF DownloadInv, HandlerInv
<1>5. (Uncounted' <=> Uncounted) /\ (Counted' <=> Counted)
  BY <1>1, <1>2 DEF Uncounted, Counted
<1>6. EntryInv'
  BY <1>1, <1>2, <1>5 DEF DownloadInv, EntryInv
<1> QED
  BY <1>2, <1>3, <1>4, <1>6 DEF DownloadInv

(* The entry goes; the user and the browser change no count.               *)
LEMMA RemoveStep ==
  ASSUME DownloadInv, Remove
  PROVE  DownloadInv'
<1>1. /\ pc \in {"respond", "returned"} /\ pc' = pc /\ entry' = NoEntry
      /\ UNCHANGED <<plan, next, streamErr, head, wire, result>> /\ UNCHANGED fetchVars
  BY DEF Remove, planVars, wireVars
<1>2. ResultsInv' /\ UNCHANGED <<fetcher, ready>>
  BY <1>1, SameFetches
<1>3. Types'
  BY <1>1 DEF DownloadInv, Types, NoEntry
<1>4. FetchersInv'
  BY <1>1, <1>2 DEF DownloadInv, FetchersInv
<1>5. HandlerInv'
  BY <1>1 DEF DownloadInv, HandlerInv
<1>6. EntryInv'
  BY <1>1 DEF EntryInv
<1> QED
  BY <1>2, <1>3, <1>4, <1>5, <1>6 DEF DownloadInv

LEMMA UserCancelsStep ==
  ASSUME DownloadInv, UserCancels
  PROVE  DownloadInv'
<1>1. /\ entry.status = "active" /\ pc' = pc
      /\ entry' = [entry EXCEPT !.status = "cancelled"]
      /\ UNCHANGED <<plan, next, streamErr, head, wire, result>> /\ UNCHANGED fetchVars
  BY DEF UserCancels, CancelEntry, planVars, wireVars
<1>2. /\ entry'.done = entry.done /\ entry'.chunks = entry.chunks
      /\ entry'.status = "cancelled" /\ entry # NoEntry
  BY <1>1 DEF DownloadInv, Types, NoEntry
<1>3. /\ ResultsInv' /\ UNCHANGED <<fetcher, ready>> /\ (GoodPlan' <=> GoodPlan)
      /\ Got' = Got /\ Arrived' = Arrived
      /\ NumRanges' = NumRanges /\ Ranges' = Ranges /\ \A i : Upto(i)' = Upto(i)
  BY <1>1, SameFetches, SamePlan
<1>4. Types'
  BY <1>1 DEF DownloadInv, Types
<1>5. FetchersInv'
  BY <1>1, <1>3 DEF DownloadInv, FetchersInv
<1>6. HandlerInv'
  <2>1. pc \notin {"probe", "relay", "whole"}
    BY <1>2 DEF DownloadInv, HandlerInv
  <2>2. Upto(next)' = Upto(next)
    BY <1>1, <1>3 DEF Upto, Start
  <2> QED
    BY <1>1, <1>3, <2>1, <2>2 DEF DownloadInv, HandlerInv
<1>7. EntryInv'
  <2>1. Uncounted => Uncounted'
    BY <1>1, <1>2, UncountedStays
  <2>2. Counted => Counted'
    <3> SUFFICES ASSUME Counted PROVE Counted'
      OBVIOUS
    <3>1. /\ GoodPlan' /\ DOMAIN fetcher' = Ranges' /\ entry'.done = Cardinality(Arrived')
      BY <1>2, <1>3 DEF Counted
    <3>2. entry'.chunks = Cardinality(Got') + (IF plan'.firstSize > 0 THEN 1 ELSE 0)
      BY <1>1, <1>2, <1>3 DEF Counted
    <3> QED
      BY <3>1, <3>2 DEF Counted
  <2> QED
    BY <1>1, <1>2, <1>3, <2>1, <2>2 DEF DownloadInv, EntryInv
<1> QED
  BY <1>3, <1>4, <1>5, <1>6, <1>7 DEF DownloadInv

LEMMA SameDownload ==
  ASSUME DownloadInv,
         UNCHANGED <<pc, plan, next, streamErr, entry, head, wire, result>>,
         UNCHANGED fetchVars
  PROVE  DownloadInv'
<1>1. /\ ResultsInv' /\ UNCHANGED <<fetcher, ready>> /\ (GoodPlan' <=> GoodPlan)
      /\ Got' = Got /\ Arrived' = Arrived /\ (Counted => Counted')
      /\ NumRanges' = NumRanges /\ Ranges' = Ranges /\ Upto(next)' = Upto(next)
  BY SameFetches, SamePlan DEF Upto, Start
<1>2. Types'
  BY DEF DownloadInv, Types
<1>3. FetchersInv'
  BY <1>1 DEF DownloadInv, FetchersInv
<1>4. HandlerInv'
  BY <1>1 DEF DownloadInv, HandlerInv
<1>5. Uncounted => Uncounted'
  BY <1>1 DEF Uncounted
<1>6. EntryInv'
  BY <1>1, <1>5 DEF DownloadInv, EntryInv
<1> QED
  BY <1>1, <1>2, <1>3, <1>4, <1>6 DEF DownloadInv

(* A fetch that brings no bytes: it waits, tries, fails or gives up.       *)
QuietFetch(i) ==
  Acquire(i) \/ QueueCancelled(i) \/ TryAgain(i) \/ Failed(i) \/ Backoff(i)

LEMMA FetchWhere ==
  ASSUME DownloadInv, NEW i \in DOMAIN fetcher, fetcher[i] # "done"
  PROVE  /\ pc \in {"stream", "wait"} /\ ready[i] = NoResult
         /\ GoodPlan /\ Counted /\ DOMAIN fetcher = Ranges /\ i \in Ranges /\ i \notin Got
<1>1. pc \in {"stream", "wait"}
  BY DEF DownloadInv, FetchersInv
<1>2. ready[i] = NoResult
  BY DEF DownloadInv, ResultsInv
<1> QED
  BY <1>1, <1>2 DEF DownloadInv, HandlerInv, EntryInv, Got, NoResult

LEMMA QuietFetchStep ==
  ASSUME DownloadInv, NEW i \in DOMAIN fetcher, QuietFetch(i)
  PROVE  DownloadInv'
<1>1. /\ fetcher[i] # "done" /\ UNCHANGED handlerVars /\ entry' = entry
  BY DEF QuietFetch, Acquire, QueueCancelled, TryAgain, Failed, Backoff
<1>2. /\ pc \in {"stream", "wait"} /\ ready[i] = NoResult /\ i \in Ranges
      /\ i \notin Got /\ Counted
  BY <1>1, FetchWhere
<1>3. UNCHANGED <<pc, plan, next, streamErr, head, wire, result>>
  BY <1>1 DEF handlerVars, planVars, wireVars
<1>4. lastErr[i] \in Errors \cup {"nil"} /\ (fetcher[i] = "backoff" => lastErr[i] \in Errors)
  BY DEF DownloadInv, ResultsInv
<1>5. DOMAIN ready = DOMAIN fetcher /\ DOMAIN lastErr = DOMAIN fetcher
  BY DEF DownloadInv, FetchersInv, ResultsInv
<1>6. /\ DOMAIN fetcher' = DOMAIN fetcher /\ DOMAIN lastErr' = DOMAIN fetcher
      /\ DOMAIN ready' = DOMAIN fetcher
      /\ \A j \in DOMAIN fetcher \ {i} : /\ fetcher'[j] = fetcher[j] /\ ready'[j] = ready[j]
                                      /\ lastErr'[j] = lastErr[j]
      /\ lastErr'[i] \in Errors \cup {"nil"}
      /\ fetcher'[i] = "backoff" => lastErr'[i] \in Errors
      /\ \/ ready'[i] = NoResult
         \/ fetcher'[i] = "done" /\ ready'[i].err \in Errors
  <2>1. CASE Acquire(i)
    BY <1>2, <1>4, <1>5, <2>1 DEF Acquire
  <2>2. CASE QueueCancelled(i)
    BY <1>2, <1>4, <1>5, <2>2 DEF QueueCancelled, Send, Errors
  <2>3. CASE TryAgain(i)
    BY <1>2, <1>4, <1>5, <2>3 DEF TryAgain, Send, Errors
  <2>4. CASE Failed(i)
    BY <1>2, <1>4, <1>5, <2>4 DEF Failed, Send, Errors
  <2>5. CASE Backoff(i)
    BY <1>2, <1>4, <1>5, <2>5 DEF Backoff, Send, Errors
  <2> QED
    BY <2>1, <2>2, <2>3, <2>4, <2>5 DEF QuietFetch
<1>7. /\ NumRanges' = NumRanges /\ Ranges' = Ranges /\ (GoodPlan' <=> GoodPlan)
      /\ \A j : /\ Upto(j)' = Upto(j) /\ RangeBytes(j)' = RangeBytes(j)
                /\ Start(j)' = Start(j) /\ End(j)' = End(j)
  BY <1>3, SamePlan
<1>8. Got' = Got
  <2>1. i \notin Got'
    BY <1>6 DEF Got, NoResult, Errors
  <2> QED
    BY <1>2, <1>6, <2>1 DEF Got
<1>9. Arrived' = Arrived
  BY <1>3, <1>7, <1>8 DEF Arrived
<1>10. FetchersInv'
  BY <1>2, <1>3, <1>6 DEF FetchersInv
<1>11. ResultsInv'
  <2> SUFFICES ASSUME NEW j \in DOMAIN fetcher
               PROVE  /\ fetcher'[j] # "done" => ready'[j] = NoResult
                      /\ \/ ready'[j] = NoResult
                         \/ ready'[j].err \in Errors
                         \/ ready'[j].err = "nil" /\ ready'[j].bytes = RangeBytes(j)
                      /\ lastErr'[j] \in Errors \cup {"nil"}
                      /\ fetcher'[j] = "backoff" => lastErr'[j] \in Errors
    BY <1>6, <1>7 DEF ResultsInv
  <2>1. CASE j = i
    BY <1>6, <2>1
  <2>2. CASE j # i
    BY <1>6, <2>2 DEF DownloadInv, ResultsInv
  <2> QED
    BY <2>1, <2>2
<1>12. Types'
  BY <1>1, <1>3 DEF DownloadInv, Types
<1>13. HandlerInv'
  <2>1. Upto(next)' = Upto(next)
    BY <1>3, <1>7 DEF Upto, Start
  <2> QED
    BY <1>2, <1>3, <1>6, <1>7, <1>8, <1>9, <2>1 DEF DownloadInv, HandlerInv
<1>14. EntryInv'
  <2>1. Counted'
    <3>1. /\ GoodPlan' /\ DOMAIN fetcher' = Ranges' /\ entry'.done = Cardinality(Arrived')
      BY <1>1, <1>2, <1>6, <1>7, <1>9 DEF Counted
    <3>2. entry'.chunks = Cardinality(Got') + (IF plan'.firstSize > 0 THEN 1 ELSE 0)
      BY <1>1, <1>2, <1>3, <1>8 DEF Counted
    <3> QED
      BY <3>1, <3>2 DEF Counted
  <2> QED
    BY <1>1, <1>2, <1>3, <2>1 DEF DownloadInv, EntryInv
<1> QED
  BY <1>10, <1>11, <1>12, <1>13, <1>14 DEF DownloadInv

(* A range arrives: it is counted with the bytes it brings.                *)
LEMMA AnsweredStep ==
  ASSUME DownloadInv, "whole" \notin Replies, NEW i \in DOMAIN fetcher, Answered(i)
  PROVE  DownloadInv'
<1>1. /\ fetcher[i] = "post" /\ UNCHANGED handlerVars /\ lastErr' = lastErr
      /\ ready' = [ready EXCEPT ![i] = [bytes |-> RangeBytes(i), err |-> "nil"]]
      /\ fetcher' = [fetcher EXCEPT ![i] = "done"]
      /\ entry' = [entry EXCEPT !.done = @ + Len(RangeBytes(i)), !.chunks = @ + 1]
  BY DEF Answered, Send
<1>2. /\ pc \in {"stream", "wait"} /\ ready[i] = NoResult /\ i \in Ranges
      /\ i \notin Got /\ Counted /\ GoodPlan /\ DOMAIN fetcher = Ranges
  BY <1>1, FetchWhere
<1>3. UNCHANGED <<pc, plan, next, streamErr, head, wire, result>>
  BY <1>1 DEF handlerVars, planVars, wireVars
<1>4. DOMAIN ready = DOMAIN fetcher /\ DOMAIN lastErr = DOMAIN fetcher
  BY DEF DownloadInv, FetchersInv, ResultsInv
<1>5. /\ NumRanges' = NumRanges /\ Ranges' = Ranges /\ (GoodPlan' <=> GoodPlan)
      /\ \A j : /\ Upto(j)' = Upto(j) /\ RangeBytes(j)' = RangeBytes(j)
                /\ Start(j)' = Start(j) /\ End(j)' = End(j)
  BY <1>3, SamePlan
<1>6. /\ DOMAIN fetcher' = DOMAIN fetcher /\ DOMAIN ready' = DOMAIN fetcher
      /\ fetcher'[i] = "done"
      /\ ready'[i] = [bytes |-> RangeBytes(i), err |-> "nil"]
      /\ \A j \in DOMAIN fetcher \ {i} : fetcher'[j] = fetcher[j] /\ ready'[j] = ready[j]
  BY <1>1, <1>4
<1>7. Got' = Got \cup {i}
  BY <1>6 DEF Got
<1>8. Arrived' = Arrived \cup (Start(i)..End(i))
  BY <1>3, <1>5, <1>7 DEF Arrived
<1>9. /\ Start(i) \in Nat /\ End(i) \in Nat /\ Start(i) <= End(i)
      /\ Len(RangeBytes(i)) = End(i) - Start(i) + 1
  <2>1. Start(i) \in Nat /\ End(i) \in Nat /\ Start(i) <= End(i)
    BY <1>2, RangesFollow
  <2>2. RangeBytes(i) = Bytes(Start(i), End(i))
    BY DEF RangeBytes, Start, End
  <2>3. Len(Bytes(Start(i), End(i))) = End(i) - Start(i) + 1
    <3> DEFINE a == Start(i)
               b == End(i)
    <3>1. a \in Nat /\ b \in Int /\ a <= b + 1
      BY <2>1
    <3> HIDE DEF a, b
    <3>2. Len(Bytes(a, b)) = b - a + 1
      BY <3>1, BytesAre
    <3> QED
      BY <3>2 DEF a, b
  <2> QED
    BY <2>1, <2>2, <2>3
<1>10. /\ Cardinality(Arrived') = Cardinality(Arrived) + Len(RangeBytes(i))
       /\ Cardinality(Got') = Cardinality(Got) + 1
  BY <1>2, <1>7, <1>8, <1>9, ArrivedGrows
<1>11. /\ entry.done \in Nat /\ entry.chunks \in Nat /\ entry.status \notin {"none", "done"}
       /\ entry \in [status : {"none", "active", "done", "failed", "cancelled"},
                      done : Nat, chunks : Nat, cancel : BOOLEAN]
  BY <1>2 DEF DownloadInv, Types, EntryInv
<1>12. /\ entry'.done = entry.done + Len(RangeBytes(i)) /\ entry'.chunks = entry.chunks + 1
       /\ entry'.status = entry.status
       /\ entry' \in [status : {"none", "active", "done", "failed", "cancelled"},
                       done : Nat, chunks : Nat, cancel : BOOLEAN]
  <2> DEFINE d == entry.done + Len(RangeBytes(i))
             k == entry.chunks + 1
  <2>1. d \in Nat /\ k \in Nat
    BY <1>9, <1>11
  <2>2. entry' = [entry EXCEPT !.done = d, !.chunks = k]
    BY <1>1
  <2> HIDE DEF d, k
  <2>3. entry' = [status |-> entry.status, done |-> d, chunks |-> k, cancel |-> entry.cancel]
    BY <1>11, <2>2
  <2>4. /\ entry'.done = d /\ entry'.chunks = k /\ entry'.status = entry.status
    BY <2>3
  <2>5. entry' \in [status : {"none", "active", "done", "failed", "cancelled"},
                    done : Nat, chunks : Nat, cancel : BOOLEAN]
    BY <1>11, <2>1, <2>3
  <2> QED
    BY <2>4, <2>5 DEF d, k
<1>13. Types'
  BY <1>3, <1>12 DEF DownloadInv, Types
<1>14. FetchersInv'
  BY <1>2, <1>3, <1>6 DEF FetchersInv
<1>15. ResultsInv'
  <2> SUFFICES ASSUME NEW j \in DOMAIN fetcher
               PROVE  /\ fetcher'[j] # "done" => ready'[j] = NoResult
                      /\ \/ ready'[j] = NoResult
                         \/ ready'[j].err \in Errors
                         \/ ready'[j].err = "nil" /\ ready'[j].bytes = RangeBytes(j)
                      /\ lastErr[j] \in Errors \cup {"nil"}
                      /\ fetcher'[j] = "backoff" => lastErr[j] \in Errors
    BY <1>1, <1>4, <1>5, <1>6 DEF ResultsInv
  <2>1. CASE j = i
    BY <1>6, <2>1 DEF DownloadInv, ResultsInv
  <2>2. CASE j # i
    BY <1>6, <2>2 DEF DownloadInv, ResultsInv
  <2> QED
    BY <2>1, <2>2
<1>16. HandlerInv'
  <2>1. Upto(next)' = Upto(next)
    BY <1>3, <1>5 DEF Upto, Start
  <2>2. DOMAIN fetcher' = Ranges'
    BY <1>2, <1>5, <1>6
  <2> QED
    BY <1>2, <1>3, <1>5, <1>7, <1>8, <2>1, <2>2 DEF DownloadInv, HandlerInv
<1>17. EntryInv'
  <2>1. Counted'
    <3>1. GoodPlan' /\ DOMAIN fetcher' = Ranges'
      BY <1>2, <1>5, <1>6
    <3>2. entry'.done = Cardinality(Arrived')
      BY <1>2, <1>10, <1>12 DEF Counted
    <3>3. entry'.chunks = Cardinality(Got') + (IF plan'.firstSize > 0 THEN 1 ELSE 0)
      <4>1. Cardinality(Got) \in Nat
        BY <1>2, ArrivedInFile
      <4> QED
        BY <1>2, <1>3, <1>10, <1>12, <4>1 DEF Counted
    <3> QED
      BY <3>1, <3>2, <3>3 DEF Counted
  <2> QED
    BY <1>2, <1>3, <1>11, <1>12, <2>1 DEF EntryInv
<1> QED
  BY <1>13, <1>14, <1>15, <1>16, <1>17 DEF DownloadInv
-----------------------------------------------------------------------------
LEMMA InitDownload == Init => DownloadInv
<1> SUFFICES ASSUME Init PROVE DownloadInv
  OBVIOUS
<1>1. Types /\ FetchersInv /\ ResultsInv
  BY DEF Init, Types, FetchersInv, ResultsInv, NoEntry
<1>2. HandlerInv /\ EntryInv
  BY DEF Init, HandlerInv, EntryInv
<1> QED
  BY <1>1, <1>2 DEF DownloadInv

LEMMA StepDownload ==
  ASSUME DownloadInv, "whole" \notin Replies, [Next]_vars
  PROVE  DownloadInv'
<1>1. CASE ProbeFails \/ ProbeRedirected \/ WholeHeader \/ WholeBody \/ RelayFails
  BY <1>1, OneShotStep
<1>2. CASE ProbeAnswered
  <2>1. PICK total \in Sizes, n \in ProbeSizes : n <= total /\ RunChunked(total, n, FALSE)
    BY <1>2 DEF ProbeAnswered
  <2>2. n \in Nat /\ pc \in {"probe", "relay"} /\ UNCHANGED gone
    BY <1>2, DownloadAssumption DEF ProbeAnswered
  <2> QED
    BY <2>1, <2>2, RunChunkedStep
<1>3. CASE ProbeTooLarge \/ RelayTooLarge
  <2>1. PICK total \in Sizes : RunChunked(total, 0, TRUE)
    BY <1>3 DEF ProbeTooLarge, RelayTooLarge
  <2>2. pc \in {"probe", "relay"} /\ UNCHANGED gone
    BY <1>3 DEF ProbeTooLarge, RelayTooLarge
  <2>3. total \in Nat /\ 0 <= total
    BY DownloadAssumption
  <2> QED
    BY <2>1, <2>2, <2>3, RunChunkedStep
<1>4. CASE Register \/ WriteHeader \/ WriteFirst \/ CountFirst
  BY <1>4, RegisterStep, WriteHeaderStep, WriteFirstStep, CountFirstStep
<1>5. CASE StreamNext \/ Conclude \/ Respond
  BY <1>5, StreamNextStep, ConcludeStep, RespondStep
<1>6. CASE FetchSome
  <2>1. PICK i \in DOMAIN fetcher : Fetch(i)
    BY <1>6 DEF FetchSome
  <2>2. CASE Answered(i)
    BY <2>2, AnsweredStep
  <2>3. CASE QuietFetch(i)
    BY <2>3, QuietFetchStep
  <2> QED
    BY <2>1, <2>2, <2>3 DEF Fetch, QuietFetch
<1>7. CASE Remove \/ UserCancels
  BY <1>7, RemoveStep, UserCancelsStep
<1>8. CASE BrowserLeaves \/ BrowserStalls
  BY <1>8, SameDownload DEF BrowserLeaves, BrowserStalls, planVars, wireVars
<1>9. CASE UNCHANGED vars
  BY <1>9, SameDownload DEF vars, planVars, wireVars
<1> QED
  BY <1>1, <1>2, <1>3, <1>4, <1>5, <1>6, <1>7, <1>8, <1>9 DEF Next, Handle

(* DownloadInv holds of every download, whatever fails, is cancelled or    *)
(* left, if upstream answers a range with that range.                      *)
THEOREM DownloadInvariance ==
  ASSUME "whole" \notin Replies
  PROVE  Spec => []DownloadInv
<1>1. DownloadInv /\ [Next]_vars => DownloadInv'
  BY StepDownload
<1> QED
  BY <1>1, InitDownload, PTL DEF Spec

(* The dashboard never shows fewer bytes than the browser has (but while   *)
(* the probe's are being counted), nor more than the file, nor a download  *)
(* as done that lacks a byte: Progress, AddChunk and Finish against the    *)
(* stream, for every file and every order of arrival.                      *)
THEOREM ShownIsHonest ==
  ASSUME "whole" \notin Replies
  PROVE  Spec => []ProgressHonest
<1>1. DownloadInv => ProgressHonest
  <2> SUFFICES ASSUME DownloadInv, entry # NoEntry PROVE ProgressHonest
    BY DEF ProgressHonest
  <2>1. CASE Uncounted /\ wire = <<>> /\ GoodPlan
    <3>1. Len(wire) = 0 /\ plan.total \in Nat /\ Chunks \in Nat
      BY <2>1, PlanTypes
    <3> QED
      BY <2>1, <3>1 DEF Uncounted, ProgressHonest
  <2>2. CASE /\ Counted /\ Len(wire) <= entry.done
             /\ entry.status = "done" => wire = Bytes(0, plan.total - 1) /\ Got = Ranges
    <3>1. /\ GoodPlan /\ DOMAIN fetcher = Ranges /\ entry.done = Cardinality(Arrived)
          /\ entry.chunks = Cardinality(Got) + (IF plan.firstSize > 0 THEN 1 ELSE 0)
      BY <2>2 DEF Counted
    <3>2. /\ Cardinality(Arrived) <= plan.total /\ Cardinality(Got) \in Nat
          /\ Cardinality(Got) <= NumRanges
      BY <3>1, ArrivedInFile
    <3>3. /\ NumRanges \in Nat /\ Ranges = 0..(NumRanges - 1)
          /\ Chunks = NumRanges + (IF plan.firstSize > 0 THEN 1 ELSE 0)
      BY <3>1, PlanTypes
    <3>4. entry.done <= plan.total /\ entry.chunks <= Chunks
      BY <3>1, <3>2, <3>3
    <3>5. ASSUME Got = Ranges PROVE entry.chunks = Chunks
      <4>1. /\ 0 \in Int /\ NumRanges - 1 \in Int
        BY <3>3
      <4>2. Cardinality(0..(NumRanges - 1)) = IF 0 > NumRanges - 1 THEN 0 ELSE NumRanges - 1 - 0 + 1
        BY <4>1, FS_Interval
      <4>3. Cardinality(0..(NumRanges - 1)) = NumRanges
        BY <3>3, <4>2
      <4> QED
        BY <3>1, <3>3, <3>5, <4>3
    <3> QED
      BY <2>2, <3>4, <3>5 DEF ProgressHonest
  <2>3. CASE pc \in {"stream", "wait"}
    <3>1. Counted /\ entry.status \notin {"none", "done"}
      BY <2>3 DEF DownloadInv, EntryInv
    <3>2. Len(wire) <= entry.done
      BY <2>3, <3>1, StreamedIsArrived DEF Counted
    <3> QED
      BY <2>2, <3>1, <3>2
  <2>4. CASE pc \in {"register", "header", "first"}
    BY <2>1, <2>4 DEF DownloadInv, HandlerInv, EntryInv
  <2>5. CASE pc = "count"
    <3>1. Uncounted /\ GoodPlan
      BY <2>5 DEF DownloadInv, HandlerInv, EntryInv
    <3>2. plan.total \in Nat /\ Chunks \in Nat
      BY <3>1, PlanTypes
    <3> QED
      BY <2>5, <3>1, <3>2 DEF Uncounted, ProgressHonest
  <2>6. CASE pc \in {"respond", "returned"}
    BY <2>1, <2>2, <2>6 DEF DownloadInv, EntryInv
  <2>7. pc \notin {"probe", "relay", "whole"}
    BY DEF DownloadInv, HandlerInv
  <2> QED
    BY <2>3, <2>4, <2>5, <2>6, <2>7 DEF DownloadInv, Types
<1> QED
  BY <1>1, DownloadInvariance, PTL

(* No fetch outlives the handler (wg.Wait before runChunked returns), also *)
(* when upstream answers with the whole file.                              *)
THEOREM FetchesEndFirst == Spec => []NoOrphanFetch
<1>1. Init => FetchersInv
  BY DEF Init, FetchersInv
<1>2. FetchersInv /\ [Next]_vars => FetchersInv'
  <2> SUFFICES ASSUME FetchersInv, [Next]_vars PROVE FetchersInv'
    OBVIOUS
  <2>1. CASE Spawn
    BY <2>1 DEF Spawn, FetchersInv
  <2>2. CASE /\ \/ pc' \in {"stream", "wait", "respond", "returned"}
                \/ pc \notin {"stream", "wait", "respond", "returned"}
             /\ UNCHANGED fetchVars
             /\ \/ pc' \notin {"respond", "returned"} \/ pc \in {"respond", "returned"}
                \/ \A i \in DOMAIN fetcher : fetcher[i] = "done"
    BY <2>2 DEF fetchVars, FetchersInv
  <2>3. CASE Handle
    <3>1. CASE ProbeFails \/ ProbeRedirected \/ WholeHeader \/ WholeBody \/ RelayFails
               \/ ProbeAnswered \/ ProbeTooLarge \/ RelayTooLarge
      BY <2>2, <3>1
      DEF ProbeFails, ProbeRedirected, WholeHeader, WholeBody, RelayFails, ProbeAnswered,
          ProbeTooLarge, RelayTooLarge, RunChunked, FetchersInv
    <3>2. CASE Register \/ WriteHeader \/ WriteFirst \/ CountFirst
      BY <2>1, <2>2, <3>2 DEF Register, WriteHeader, WriteFirst, CountFirst, FetchersInv
    <3>3. CASE StreamNext \/ Conclude \/ Respond
      BY <2>2, <3>3 DEF StreamNext, Conclude, Idle, Succeed, Respond, RespondError
    <3> QED
      BY <2>3, <3>1, <3>2, <3>3 DEF Handle
  <2>4. CASE FetchSome
    <3>1. PICK i \in DOMAIN fetcher : Fetch(i)
      BY <2>4 DEF FetchSome
    <3>2. /\ fetcher[i] # "done" /\ pc' = pc
          /\ DOMAIN fetcher' = DOMAIN fetcher /\ DOMAIN ready' = DOMAIN ready
      BY <3>1 DEF Fetch, Acquire, QueueCancelled, TryAgain, Answered, Failed, Backoff, Send,
                  handlerVars
    <3> QED
      BY <3>1, <3>2 DEF FetchersInv
  <2>5. CASE Remove \/ UserCancels \/ BrowserLeaves \/ BrowserStalls \/ UNCHANGED vars
    BY <2>5 DEF Remove, UserCancels, BrowserLeaves, BrowserStalls, vars, fetchVars, FetchersInv
  <2> QED
    BY <2>3, <2>4, <2>5 DEF Next
<1>3. FetchersInv => NoOrphanFetch
  BY DEF FetchersInv, NoOrphanFetch, Fetching
<1> QED
  BY <1>1, <1>2, <1>3, PTL DEF Spec
-----------------------------------------------------------------------------
(* The download as OrderedDelivery sees it: the size announced, the bytes  *)
(* sent, the outcome.                                                      *)
Size == IF head = "ok" THEN plan.total ELSE 0
Outcome == CASE result = "none" -> "open" [] result = "ok" -> "complete"
             [] result = "error" -> "cut"

LEMMA FileAre ==
  ASSUME NEW n \in Nat
  PROVE  Delivery!File(n) = Bytes(0, n - 1)
<1>1. n - 1 - 0 + 1 = n /\ \A k \in 1..n : 0 + k - 1 = k - 1
  OBVIOUS
<1> QED
  BY <1>1 DEF Delivery!File, Bytes

(* A step that changes nothing the browser sees.                           *)
LEMMA UnseenStep ==
  ASSUME DownloadInv, UNCHANGED <<wire, result>>, plan'.total = plan.total \/ head = "none",
         head' = head \/ (head = "none" /\ head' # "ok")
  PROVE  UNCHANGED <<Size, wire, Outcome>>
<1>1. UNCHANGED Outcome
  BY DEF Outcome
<1>2. UNCHANGED Size
  BY DEF Size
<1> QED
  BY <1>1, <1>2

(* Bytes that extend the prefix are a piece sent.                          *)
LEMMA SentStep ==
  ASSUME DownloadInv, head = "ok", head' = "ok", plan.total \in Nat, plan' = plan,
         result = "none", result' \in {"none", "ok"},
         NEW m \in Nat, NEW n \in Nat, wire = Bytes(0, m - 1), wire' = Bytes(0, n - 1),
         m < n, n <= plan.total, result' = "ok" => n = plan.total
  PROVE  Delivery!Send
<1>1. /\ Size = plan.total /\ Size' = Size /\ Outcome = "open"
      /\ Outcome' = IF result' = "ok" THEN "complete" ELSE "open"
  BY DEF Size, Outcome
<1>2. Len(wire) = m
  <2> DEFINE e == m - 1
  <2>1. e \in Int /\ 0 <= e + 1 /\ e - 0 + 1 = m
    OBVIOUS
  <2> HIDE DEF e
  <2>2. Len(Bytes(0, e)) = e - 0 + 1
    BY <2>1, BytesAre
  <2> QED
    BY <2>1, <2>2 DEF e
<1>3. wire' = Delivery!File(n)
  BY FileAre
<1>4. n \in (Len(wire) + 1)..Size
  BY <1>1, <1>2
<1>5. Outcome' \in IF n = Size THEN {"open", "complete"} ELSE {"open"}
  BY <1>1
<1> QED
  BY <1>1, <1>3, <1>4, <1>5 DEF Delivery!Send, Size, Outcome

(* A response that fails is cut.                                           *)
LEMMA CutStep ==
  ASSUME DownloadInv, RespondError, result = "none", plan' = plan
  PROVE  Delivery!End
<1>1. /\ wire' = wire /\ result' = "error"
      /\ head' = head \/ (head = "none" /\ head' # "ok")
  BY DEF RespondError
<1>2. Outcome = "open" /\ Outcome' = "cut" /\ Size' = Size
  BY <1>1 DEF Outcome, Size
<1> QED
  BY <1>1, <1>2 DEF Delivery!End, Size, Outcome

LEMMA AnnounceStep ==
  ASSUME head = "none", head' = "ok", plan'.total \in Sizes, result = "none",
         UNCHANGED <<wire, result>>
  PROVE  Delivery!Announce
<1>1. Size = 0 /\ Size' = plan'.total /\ Outcome = "open" /\ Outcome' = Outcome
  BY DEF Size, Outcome
<1> QED
  BY <1>1 DEF Delivery!Announce, Size, Outcome

LEMMA EmptyIsNoBytes == Bytes(0, 0 - 1) = <<>>
<1>1. 0 \in Nat /\ 0 - 1 \in Int /\ 0 <= (0 - 1) + 1 /\ (0 - 1) - 0 + 1 = 0
  OBVIOUS
<1>2. Bytes(0, 0 - 1) \in Seq(Nat) /\ Len(Bytes(0, 0 - 1)) = 0
  BY <1>1, BytesAre
<1> QED
  BY <1>2, EmptySeq

LEMMA RunChunkedDelivers ==
  ASSUME DownloadInv, pc \in {"probe", "relay"},
         NEW total, NEW n, NEW forced, RunChunked(total, n, forced)
  PROVE  Delivery!End \/ UNCHANGED <<Size, wire, Outcome>>
<1>1. head = "none" /\ result = "none"
  BY DEF DownloadInv, HandlerInv
<1>2. CASE RespondError /\ UNCHANGED planVars
  BY <1>1, <1>2, CutStep DEF planVars
<1>3. CASE UNCHANGED wireVars
  BY <1>1, <1>3, UnseenStep DEF wireVars
<1> QED
  BY <1>2, <1>3 DEF RunChunked

LEMMA DeliveryStep ==
  ASSUME DownloadInv, DownloadInv', [Next]_vars
  PROVE  Delivery!Next \/ UNCHANGED <<Size, wire, Outcome>>
<1>1. CASE ProbeFails \/ ProbeRedirected \/ Register \/ CountFirst \/ Remove \/ UserCancels
           \/ BrowserLeaves \/ BrowserStalls \/ UNCHANGED vars
  <2>1. plan' = plan /\ UNCHANGED <<head, wire, result>>
    BY <1>1 DEF ProbeFails, ProbeRedirected, Register, CountFirst, Remove, UserCancels,
                BrowserLeaves, BrowserStalls, vars, planVars, wireVars
  <2> QED
    BY <2>1, UnseenStep
<1>2. CASE FetchSome
  <2>1. plan' = plan /\ UNCHANGED <<head, wire, result>>
    BY <1>2 DEF FetchSome, Fetch, Acquire, QueueCancelled, TryAgain, Answered, Failed,
                Backoff, handlerVars, planVars, wireVars
  <2> QED
    BY <2>1, UnseenStep
<1>3. CASE ProbeAnswered \/ ProbeTooLarge \/ RelayTooLarge
  <2>1. PICK total, n, forced : RunChunked(total, n, forced)
    BY <1>3 DEF ProbeAnswered, ProbeTooLarge, RelayTooLarge
  <2>2. pc \in {"probe", "relay"}
    BY <1>3 DEF ProbeAnswered, ProbeTooLarge, RelayTooLarge
  <2> QED
    BY <2>1, <2>2, RunChunkedDelivers DEF Delivery!Next
<1>4. CASE WholeHeader
  <2>1. head = "none" /\ result = "none"
    BY <1>4 DEF WholeHeader, DownloadInv, HandlerInv
  <2>2. head' = "ok" /\ plan'.total \in Sizes /\ UNCHANGED <<wire, result>>
    BY <1>4 DEF WholeHeader, DownloadInv, Types
  <2> QED
    BY <2>1, <2>2, AnnounceStep DEF Delivery!Next
<1>5. CASE WholeBody
  <2>1. /\ pc = "whole" /\ plan' = plan /\ head = "ok" /\ result = "none" /\ wire = <<>>
        /\ plan.total \in Sizes
    BY <1>5 DEF WholeBody, planVars, DownloadInv, HandlerInv
  <2>2. CASE RespondError
    BY <2>1, <2>2, CutStep DEF Delivery!Next
  <2>3. CASE wire' = Bytes(0, plan.total - 1) /\ Succeed /\ UNCHANGED <<head, garbled>>
    <3>1. plan.total \in Nat /\ 0 < plan.total
      <4>1. plan.total \in Nat \ {0}
        BY <2>1, DownloadAssumption
      <4> QED
        BY <4>1
    <3>2. wire = Bytes(0, 0 - 1)
      BY <2>1, EmptyIsNoBytes
    <3>3. head' = "ok" /\ result' = "ok" /\ plan.total <= plan.total
      BY <2>1, <2>3, <3>1 DEF Succeed
    <3>4. Delivery!Send
      BY <2>1, <2>3, <3>1, <3>2, <3>3, SentStep
    <3> QED
      BY <3>4 DEF Delivery!Next
  <2> QED
    BY <1>5, <2>2, <2>3 DEF WholeBody
<1>6. CASE RelayFails
  <2>1. result = "none" /\ plan' = plan /\ RespondError
    BY <1>6 DEF RelayFails, planVars, DownloadInv, HandlerInv
  <2> QED
    BY <2>1, CutStep DEF Delivery!Next
<1>7. CASE WriteHeader
  <2>1. /\ plan' = plan /\ head = "none" /\ result = "none" /\ GoodPlan
    BY <1>7 DEF WriteHeader, planVars, DownloadInv, HandlerInv
  <2>2. CASE RespondError
    BY <2>1, <2>2, CutStep DEF Delivery!Next
  <2>3. CASE head' = "ok" /\ UNCHANGED <<wire, result>>
    BY <2>1, <2>3, AnnounceStep DEF Delivery!Next, GoodPlan
  <2> QED
    BY <1>7, <2>2, <2>3 DEF WriteHeader
<1>8. CASE WriteFirst
  <2>1. /\ plan' = plan /\ head = "ok" /\ result = "none" /\ GoodPlan /\ wire = <<>>
        /\ plan.firstSize > 0
    BY <1>8 DEF WriteFirst, planVars, DownloadInv, HandlerInv
  <2>2. CASE RespondError
    BY <2>1, <2>2, CutStep DEF Delivery!Next
  <2>3. CASE wire' = Bytes(0, plan.firstSize - 1) /\ UNCHANGED <<head, result>>
    <3>1. /\ plan.total \in Nat /\ plan.firstSize \in Nat /\ 0 < plan.firstSize
          /\ plan.firstSize <= plan.total
      BY <2>1, PlanTypes
    <3>2. wire = Bytes(0, 0 - 1)
      BY <2>1, EmptyIsNoBytes
    <3>3. head' = "ok" /\ result' = "none"
      BY <2>1, <2>3
    <3>4. Delivery!Send
      BY <2>1, <2>3, <3>1, <3>2, <3>3, SentStep
    <3> QED
      BY <3>4 DEF Delivery!Next
  <2> QED
    BY <1>8, <2>2, <2>3 DEF WriteFirst
<1>9. CASE StreamNext
  <2>1. /\ pc = "stream" /\ plan' = plan /\ head = "ok" /\ head' = head /\ result = "none"
        /\ result' = result /\ GoodPlan /\ next < NumRanges /\ next \in 0..NumRanges
        /\ wire = Bytes(0, Upto(next) - 1)
    BY <1>9 DEF StreamNext, planVars, DownloadInv, HandlerInv
  <2>2. CASE wire' = wire
    BY <2>1, <2>2, UnseenStep
  <2>3. CASE next' = next + 1 /\ pc' \in {"stream", "wait"}
    <3>1. next \in Ranges
      BY <2>1, PlanTypes
    <3>2. /\ Upto(next) \in Nat /\ Upto(next + 1) \in Nat /\ Upto(next) < Upto(next + 1)
          /\ Upto(next + 1) <= plan.total /\ plan.total \in Nat
      BY <2>1, <3>1, RangesFollow, PlanTypes
    <3>3. wire' = Bytes(0, Upto(next + 1) - 1)
      <4>1. Upto(next)' = Upto(next + 1)
        BY <2>1, <2>3, SamePlan DEF Upto, Start
      <4> QED
        BY <2>3, <4>1 DEF DownloadInv, HandlerInv
    <3>4. head' = "ok" /\ result' \in {"none", "ok"} /\ result' # "ok"
      BY <2>1
    <3>5. Delivery!Send
      BY <2>1, <3>2, <3>3, <3>4, SentStep
    <3> QED
      BY <3>5 DEF Delivery!Next
  <2>4. wire' = wire \/ (next' = next + 1 /\ pc' \in {"stream", "wait"})
    BY <1>9 DEF StreamNext
  <2> QED
    BY <2>2, <2>3, <2>4
<1>10. CASE Conclude
  <2>1. /\ plan' = plan /\ head = "ok" /\ result = "none" /\ GoodPlan
    BY <1>10 DEF Conclude, planVars, DownloadInv, HandlerInv
  <2>2. CASE UNCHANGED wireVars
    BY <2>1, <2>2, UnseenStep DEF wireVars
  <2>3. CASE Succeed /\ UNCHANGED <<head, wire>>
    <3>1. result' = "ok" /\ wire' = wire /\ head' = "ok"
      BY <2>1, <2>3 DEF Succeed
    <3>2. wire = Bytes(0, plan.total - 1)
      BY <1>10, <3>1, ConcludeStep
    <3>3. plan.total \in Nat /\ plan.total > 0
      BY <2>1, PlanTypes
    <3>4. /\ Outcome = "open" /\ Outcome' = "complete" /\ Size = plan.total /\ Size' = Size
      BY <2>1, <3>1 DEF Outcome, Size
    <3>5. wire = Delivery!File(plan.total)
      BY <3>2, <3>3, FileAre
    <3>6. Delivery!End
      BY <3>1, <3>3, <3>4, <3>5 DEF Delivery!End, Outcome, Size
    <3> QED
      BY <3>6 DEF Delivery!Next
  <2> QED
    BY <1>10, <2>2, <2>3 DEF Conclude
<1>11. CASE Respond
  <2>1. result = "none" /\ plan' = plan /\ RespondError
    BY <1>11 DEF Respond, planVars, DownloadInv, HandlerInv
  <2> QED
    BY <2>1, CutStep DEF Delivery!Next
<1> QED
  BY <1>1, <1>2, <1>3, <1>4, <1>5, <1>6, <1>7, <1>8, <1>9, <1>10, <1>11 DEF Next, Handle

(* The browser gets a prefix of the file in order, each byte once, and the *)
(* handler says it succeeded only after the last: runChunked implements    *)
(* OrderedDelivery, for every order in which the ranges arrive.            *)
THEOREM DownloadDelivers ==
  ASSUME "whole" \notin Replies
  PROVE  Spec => DeliversInOrder
<1>1. Init => Delivery!Init
  BY DEF Init, Delivery!Init
<1>2. DownloadInv /\ DownloadInv' /\ [Next]_vars => [Delivery!Next]_(<<Size, wire, Outcome>>)
  BY DeliveryStep
<1>3. Spec => []DownloadInv
  BY DownloadInvariance
<1> QED
  BY <1>1, <1>2, <1>3, PTL DEF Spec, DeliversInOrder, Delivery!Spec, Size, Outcome
=============================================================================
