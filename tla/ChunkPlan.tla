------------------------------ MODULE ChunkPlan ------------------------------
(***************************************************************************)
(* How a download of known size is cut into byte ranges:                   *)
(* computeChunks, the auto-scaling at the head of runChunked and the loop  *)
(* that starts one fetch per range, internal/listener/download.go.         *)
(* The first firstSize bytes are the probe's body, chunk 0, when there is  *)
(* one; the other ranges are fetched.                                      *)
(***************************************************************************)
EXTENDS Integers

\* Mutant: whole chunks only, the last short one is forgotten.
FloorDiv(n, d) == n \div d

CeilDiv(n, d) == (n + d - 1) \div d

ComputeChunks(total, firstSize, size) ==
  CASE size <= 0 \/ total <= 0 -> 0
    [] size > 0 /\ total > 0 /\ firstSize >= total -> 1
    [] size > 0 /\ total > 0 /\ firstSize < total ->
         (IF firstSize > 0 THEN 1 ELSE 0) + CeilDiv(total - firstSize, size)

(* The chunk size after auto-scaling to at most maxChunks chunks.          *)
ScaledSize(total, firstSize, size, maxChunks) ==
  LET cap == IF firstSize = 0 THEN maxChunks
             ELSE IF maxChunks < 2 THEN 1 ELSE maxChunks - 1
      wider == CeilDiv(total - firstSize, cap)
  IN  IF maxChunks > 0 /\ ComputeChunks(total, firstSize, size) > maxChunks
      THEN IF wider < size THEN size ELSE wider
      ELSE size

(* The number of ranges left to fetch, and the i-th of them.               *)
Fetches(total, firstSize, size) ==
  ComputeChunks(total, firstSize, size) - (IF firstSize > 0 THEN 1 ELSE 0)

RangeStart(firstSize, size, i) == firstSize + i * size
RangeEnd(total, firstSize, size, i) ==
  LET end == RangeStart(firstSize, size, i) + size - 1
  IN  IF end >= total THEN total - 1 ELSE end
-----------------------------------------------------------------------------
(* Properties of every cut.                                                *)

(* The ranges follow one another from the end of the probe's body to the   *)
(* end of the file, none empty, none missing, none overlapping: the body   *)
(* put together in order is the file.                                      *)
CutsTheFile(total, firstSize, size) ==
  LET n == Fetches(total, firstSize, size)
      start(i) == RangeStart(firstSize, size, i)
      end(i) == RangeEnd(total, firstSize, size, i)
  IN  IF firstSize = total
      THEN n = 0
      ELSE /\ n > 0
           /\ start(0) = firstSize
           /\ \A i \in 0..(n - 1) : start(i) <= end(i)
           /\ \A i \in 0..(n - 2) : end(i) + 1 = start(i + 1)
           /\ end(n - 1) = total - 1

(* Scaled, the number of chunks keeps to the cap; a cap of 1 cannot hold   *)
(* the probe's chunk and the rest.                                         *)
KeepsToCap(total, firstSize, size, maxChunks) ==
  LET scaled == ScaledSize(total, firstSize, size, maxChunks)
      smallest == IF firstSize = 0 \/ firstSize = total THEN 1 ELSE 2
  IN  /\ scaled >= size
      /\ ComputeChunks(total, firstSize, scaled)
           <= IF maxChunks < smallest THEN smallest ELSE maxChunks
=============================================================================
