---------------------------- MODULE MCChunkPlan ----------------------------
(* Every cut of a file of at most MaxTotal bytes, one per state.           *)
EXTENDS ChunkPlan

CONSTANT MaxTotal

VARIABLES total, firstSize, size, maxChunks
vars == <<total, firstSize, size, maxChunks>>

Init ==
  /\ total \in 1..MaxTotal
  /\ firstSize \in 0..total
  /\ size \in 1..(MaxTotal + 1)
  /\ maxChunks \in 1..(MaxTotal + 1)

Next == UNCHANGED vars

Spec == Init /\ [][Next]_vars

(* Before and after scaling, the ranges cut the file.                      *)
EveryCutIsTheFile ==
  /\ CutsTheFile(total, firstSize, size)
  /\ CutsTheFile(total, firstSize, ScaledSize(total, firstSize, size, maxChunks))

(* The scaled cut keeps to the configured number of chunks.                *)
EveryCutKeepsToCap == KeepsToCap(total, firstSize, size, maxChunks)
=============================================================================
