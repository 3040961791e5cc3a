--------------------------- MODULE ChunkPlanProofs ---------------------------
(***************************************************************************)
(* That a cut serves its file, for every size of file, probe and chunk.    *)
(***************************************************************************)
EXTENDS ChunkPlan, TLAPS

(* A quotient rounded up: the least number of pieces of d that hold n.     *)
LEMMA CeilDivBounds ==
  ASSUME NEW n \in Nat, NEW d \in Nat \ {0}
  PROVE  /\ CeilDiv(n, d) \in Nat
         /\ CeilDiv(n, d) * d >= n /\ CeilDiv(n, d) * d < n + d
         /\ n > 0 => CeilDiv(n, d) > 0
<1> DEFINE x == n + d - 1
           q == x \div d
<1>1. x \in Nat
  OBVIOUS
<1> HIDE DEF x
<1>2. q \in Nat /\ d * q <= x /\ x < d * q + d
  BY <1>1
<1> HIDE DEF q
<1>3. d * q \in Nat /\ d * q = q * d
  BY <1>2
<1>4. q * d >= n /\ q * d < n + d
  <2> DEFINE m == d * q
  <2>1. m \in Nat /\ m <= n + d - 1 /\ n + d - 1 < m + d /\ m = q * d
    BY <1>2, <1>3 DEF x
  <2> HIDE DEF m
  <2>2. m >= n /\ m < n + d
    BY <2>1
  <2> QED
    BY <2>1, <2>2
<1>5. n > 0 => q > 0
  <2> SUFFICES ASSUME n > 0, q = 0 PROVE FALSE
    BY <1>2
  <2> QED
    BY <1>4
<1> QED
  BY <1>2, <1>4, <1>5 DEF q, x, CeilDiv

LEMMA CeilDivLeast ==
  ASSUME NEW n \in Nat, NEW d \in Nat \ {0}, NEW k \in Nat, n <= k * d
  PROVE  CeilDiv(n, d) <= k
<1> DEFINE q == CeilDiv(n, d)
<1>1. q \in Nat /\ q * d < n + d
  BY CeilDivBounds
<1> HIDE DEF q
<1> SUFFICES ASSUME q > k PROVE FALSE
  BY <1>1 DEF q
<1>2. q - k - 1 \in Nat
  BY <1>1
<1>3. (q - k - 1) * d >= 0 /\ (q - k - 1) * d = q * d - k * d - d
  BY <1>1, <1>2
<1>4. q * d \in Nat /\ k * d \in Nat
  BY <1>1
<1> QED
  BY <1>1, <1>3, <1>4

(* What the auto-scaled size is: never smaller, and wide enough to cover   *)
(* the rest of the file with the chunks the cap leaves to it.              *)
LEMMA ScaledSizeWide ==
  ASSUME NEW total \in Nat \ {0}, NEW firstSize \in 0..total,
         NEW size \in Nat \ {0}, NEW maxChunks \in Nat
  PROVE  /\ ScaledSize(total, firstSize, size, maxChunks) \in Nat \ {0}
         /\ ScaledSize(total, firstSize, size, maxChunks) >= size
<1> DEFINE cap == IF firstSize = 0 THEN maxChunks
                  ELSE IF maxChunks < 2 THEN 1 ELSE maxChunks - 1
           wider == CeilDiv(total - firstSize, cap)
           scaled == IF wider < size THEN size ELSE wider
<1>1. CASE maxChunks > 0 /\ ComputeChunks(total, firstSize, size) > maxChunks
  <2>1. cap \in Nat \ {0} /\ total - firstSize \in Nat
    BY <1>1
  <2> HIDE DEF cap
  <2>2. wider \in Nat
    BY <2>1, CeilDivBounds
  <2> HIDE DEF wider
  <2>3. scaled \in Nat \ {0} /\ scaled >= size
    BY <2>2
  <2>4. ScaledSize(total, firstSize, size, maxChunks) = scaled
    BY <1>1 DEF ScaledSize, scaled, wider, cap
  <2> QED
    BY <2>3, <2>4
<1>2. CASE ~(maxChunks > 0 /\ ComputeChunks(total, firstSize, size) > maxChunks)
  <2>1. ScaledSize(total, firstSize, size, maxChunks) = size
    BY <1>2 DEF ScaledSize
  <2> QED
    BY <2>1
<1> QED
  BY <1>1, <1>2

(* The number of ranges is the rest of the file, divided rounding up.      *)
LEMMA FetchesCount ==
  ASSUME NEW total \in Nat \ {0}, NEW firstSize \in 0..total, NEW size \in Nat \ {0}
  PROVE  /\ Fetches(total, firstSize, size) \in Nat
         /\ ComputeChunks(total, firstSize, size) \in Nat
         /\ ComputeChunks(total, firstSize, size)
              = Fetches(total, firstSize, size) + (IF firstSize > 0 THEN 1 ELSE 0)
         /\ firstSize = total => Fetches(total, firstSize, size) = 0
         /\ firstSize < total =>
              /\ Fetches(total, firstSize, size) = CeilDiv(total - firstSize, size)
              /\ Fetches(total, firstSize, size) > 0
<1> DEFINE q == CeilDiv(total - firstSize, size)
<1>1. CASE firstSize = total
  <2>1. ComputeChunks(total, firstSize, size) = 1
    BY <1>1 DEF ComputeChunks
  <2> QED
    BY <1>1, <2>1 DEF Fetches
<1>2. CASE firstSize < total
  <2>1. total - firstSize \in Nat /\ total - firstSize > 0
    BY <1>2
  <2>2. q \in Nat /\ q > 0
    BY <2>1, CeilDivBounds
  <2>3. ComputeChunks(total, firstSize, size) = (IF firstSize > 0 THEN 1 ELSE 0) + q
    <3>1. /\ ~(size <= 0 \/ total <= 0) /\ size > 0 /\ total > 0
          /\ ~(firstSize >= total)
      BY <1>2
    <3> QED
      BY <1>2, <3>1 DEF ComputeChunks
  <2> HIDE DEF q
  <2>4. Fetches(total, firstSize, size) = q
    BY <2>2, <2>3 DEF Fetches
  <2> QED
    BY <1>2, <2>2, <2>3, <2>4 DEF q
<1> QED
  BY <1>1, <1>2

(* The ranges of a cut that has any: each is in the file and not empty,    *)
(* the next begins where it ends, and the last ends with the file.         *)
LEMMA RangesOfCut ==
  ASSUME NEW total \in Nat \ {0}, NEW firstSize \in 0..total,
         NEW size \in Nat \ {0}, firstSize < total,
         NEW i \in 0..(Fetches(total, firstSize, size) - 1)
  PROVE  LET n == Fetches(total, firstSize, size)
             start(j) == RangeStart(firstSize, size, j)
             end(j) == RangeEnd(total, firstSize, size, j)
         IN  /\ start(i) \in Nat /\ end(i) \in Nat
             /\ firstSize <= start(i) /\ start(i) <= end(i) /\ end(i) < total
             /\ i < n - 1 => end(i) + 1 = start(i + 1)
             /\ i = n - 1 => end(i) = total - 1
<1> DEFINE n == Fetches(total, firstSize, size)
           rest == total - firstSize
<1>1. n = CeilDiv(rest, size) /\ n \in Nat /\ n > 0 /\ rest \in Nat
  BY FetchesCount
<1>2. n * size >= rest /\ n * size < rest + size
  BY <1>1, CeilDivBounds
<1> HIDE DEF n, rest
<1>3. i \in Nat /\ i <= n - 1
  BY <1>1 DEF n
<1>4. /\ i * size \in Nat /\ n * size \in Nat
      /\ (n - 1) * size = n * size - size /\ (i + 1) * size = i * size + size
  BY <1>1, <1>3
<1>5. i * size <= (n - 1) * size
  <2>1. n - 1 - i \in Nat
    BY <1>1, <1>3
  <2>2. (n - 1 - i) * size >= 0 /\ (n - 1 - i) * size = (n - 1) * size - i * size
    BY <1>1, <1>3, <2>1
  <2> QED
    BY <1>1, <1>4, <2>2
<1>6. i < n - 1 => (i + 1) * size <= (n - 1) * size
  <2> SUFFICES ASSUME i < n - 1 PROVE (i + 1) * size <= (n - 1) * size
    OBVIOUS
  <2>1. n - 2 - i \in Nat
    BY <1>1, <1>3
  <2>2. (n - 2 - i) * size >= 0 /\ (n - 2 - i) * size = (n - 1) * size - (i + 1) * size
    BY <1>1, <1>3, <2>1
  <2> QED
    BY <1>1, <1>4, <2>2
<1> DEFINE a == i * size
           b == n * size
<1>7. /\ a \in Nat /\ b \in Nat /\ a + size <= b /\ b < rest + size /\ b >= rest
      /\ (i + 1) * size = a + size
      /\ i < n - 1 => a + size + size <= b
      /\ i = n - 1 => a + size = b
  <2> DEFINE c == (n - 1) * size
             d == (i + 1) * size
  <2>1. /\ a \in Nat /\ b \in Nat /\ c = b - size /\ d = a + size
    BY <1>4
  <2>2. a <= c /\ (i < n - 1 => d <= c) /\ b >= rest /\ b < rest + size
    BY <1>2, <1>5, <1>6
  <2>3. i = n - 1 => a = c
    OBVIOUS
  <2>4. d = a + size
    BY <2>1
  <2> HIDE DEF a, b, c, d
  <2>5. a + size <= b /\ (i < n - 1 => a + size + size <= b) /\ (i = n - 1 => a + size = b)
    BY <2>1, <2>2, <2>3
  <2> QED
    BY <2>1, <2>2, <2>4, <2>5 DEF d
<1>8. RangeStart(firstSize, size, i) = firstSize + a
  BY DEF RangeStart
<1>9. RangeStart(firstSize, size, i + 1) = firstSize + (a + size)
  BY <1>7 DEF RangeStart
<1>10. RangeEnd(total, firstSize, size, i) =
         IF firstSize + a + size - 1 >= total THEN total - 1
         ELSE firstSize + a + size - 1
  BY <1>8 DEF RangeEnd
<1> HIDE DEF a, b
<1>11. firstSize \in Nat /\ rest = total - firstSize
  BY DEF rest
<1> QED
  BY <1>1, <1>3, <1>7, <1>8, <1>9, <1>10, <1>11 DEF n
-----------------------------------------------------------------------------
(* The ranges follow one another from the probe's body to the end of the   *)
(* file, for every cut.                                                    *)
THEOREM EveryCutIsTheFile ==
  ASSUME NEW total \in Nat \ {0}, NEW firstSize \in 0..total, NEW size \in Nat \ {0}
  PROVE  CutsTheFile(total, firstSize, size)
<1> DEFINE n == Fetches(total, firstSize, size)
           start(i) == RangeStart(firstSize, size, i)
           end(i) == RangeEnd(total, firstSize, size, i)
<1>1. CASE firstSize = total
  BY <1>1, FetchesCount DEF CutsTheFile
<1>2. CASE firstSize < total
  <2>1. n \in Nat /\ n > 0
    BY <1>2, FetchesCount
  <2>2. \A i \in 0..(n - 1) :
          /\ start(i) <= end(i)
          /\ i < n - 1 => end(i) + 1 = start(i + 1)
          /\ i = n - 1 => end(i) = total - 1
    BY <1>2, RangesOfCut
  <2>3. start(0) = firstSize
    BY DEF RangeStart
  <2> HIDE DEF n, start, end
  <2>4. /\ \A i \in 0..(n - 1) : start(i) <= end(i)
        /\ \A i \in 0..(n - 2) : end(i) + 1 = start(i + 1)
        /\ end(n - 1) = total - 1
    BY <2>1, <2>2
  <2> QED
    BY <1>2, <2>1, <2>3, <2>4 DEF CutsTheFile, n, start, end
<1> QED
  BY <1>1, <1>2

(* Auto-scaling keeps every cut to the configured number of chunks.        *)
THEOREM EveryCutKeepsToCap ==
  ASSUME NEW total \in Nat \ {0}, NEW firstSize \in 0..total,
         NEW size \in Nat \ {0}, NEW maxChunks \in Nat \ {0}
  PROVE  KeepsToCap(total, firstSize, size, maxChunks)
<1> DEFINE scaled == ScaledSize(total, firstSize, size, maxChunks)
           smallest == IF firstSize = 0 \/ firstSize = total THEN 1 ELSE 2
           most == IF maxChunks < smallest THEN smallest ELSE maxChunks
<1>1. scaled \in Nat \ {0} /\ scaled >= size
  BY ScaledSizeWide
<1>2. ComputeChunks(total, firstSize, scaled) <= most
  <2>1. CASE ComputeChunks(total, firstSize, size) <= maxChunks
    <3>1. scaled = size
      <4>1. ComputeChunks(total, firstSize, size) \in Nat
        BY FetchesCount
      <4> QED
        BY <2>1, <4>1 DEF ScaledSize
    <3>2. ComputeChunks(total, firstSize, size) \in Nat
      BY FetchesCount
    <3> QED
      BY <2>1, <3>1, <3>2
  <2>2. CASE firstSize = total
    <3>1. ComputeChunks(total, firstSize, scaled) = 1
      BY <1>1, <2>2, FetchesCount
    <3> QED
      BY <2>2, <3>1
  <2>3. CASE /\ firstSize < total
             /\ ~(ComputeChunks(total, firstSize, size) <= maxChunks)
    <3> DEFINE cap == IF firstSize = 0 THEN maxChunks
                      ELSE IF maxChunks < 2 THEN 1 ELSE maxChunks - 1
               rest == total - firstSize
               wider == CeilDiv(rest, cap)
    <3>1. cap \in Nat \ {0} /\ rest \in Nat /\ ComputeChunks(total, firstSize, size) \in Nat
      BY FetchesCount
    <3>2. scaled = IF wider < size THEN size ELSE wider
      BY <2>3, <3>1 DEF ScaledSize
    <3>3. cap + (IF firstSize > 0 THEN 1 ELSE 0) <= most
      BY <2>3
    <3> HIDE DEF scaled, cap, rest, wider, most
    <3>4. wider \in Nat /\ wider * cap >= rest /\ wider <= scaled
      <4>1. wider \in Nat /\ wider * cap >= rest
        BY <3>1, CeilDivBounds DEF wider
      <4>2. wider <= scaled
        BY <3>2, <4>1
      <4> QED
        BY <4>1, <4>2
    <3>5. rest <= cap * scaled
      <4>1. scaled - wider \in Nat
        BY <1>1, <3>4
      <4>2. (scaled - wider) * cap >= 0
            /\ (scaled - wider) * cap = scaled * cap - wider * cap
        BY <3>1, <3>4, <4>1, <1>1
      <4>3. scaled * cap \in Nat /\ wider * cap \in Nat /\ scaled * cap = cap * scaled
        BY <1>1, <3>1, <3>4
      <4> QED
        BY <3>1, <3>4, <4>2, <4>3
    <3>6. CeilDiv(rest, scaled) <= cap /\ CeilDiv(rest, scaled) \in Nat
      BY <1>1, <3>1, <3>5, CeilDivLeast, CeilDivBounds
    <3>7. ComputeChunks(total, firstSize, scaled)
            = CeilDiv(rest, scaled) + (IF firstSize > 0 THEN 1 ELSE 0)
      <4>1. Fetches(total, firstSize, scaled) = CeilDiv(rest, scaled)
        BY <1>1, <2>3, FetchesCount DEF rest
      <4>2. ComputeChunks(total, firstSize, scaled)
              = Fetches(total, firstSize, scaled) + (IF firstSize > 0 THEN 1 ELSE 0)
        BY <1>1, FetchesCount
      <4> QED
        BY <4>1, <4>2
    <3>8. most \in Nat
      BY DEF most
    <3> QED
      BY <3>1, <3>3, <3>6, <3>7, <3>8
  <2> QED
    BY <2>1, <2>2, <2>3
<1> QED
  BY <1>1, <1>2 DEF KeepsToCap
=============================================================================
