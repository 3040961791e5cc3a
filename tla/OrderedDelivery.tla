--------------------------- MODULE OrderedDelivery ---------------------------
(***************************************************************************)
(* What a download promises the browser: after a header that announces the *)
(* file's size, the bytes of the file in order, each once, and an end that *)
(* is called complete only after the last of them.  How the bytes are      *)
(* fetched, in what order and with how many retries, is not seen here.     *)
(***************************************************************************)
EXTENDS Integers, Sequences

CONSTANT Sizes     \* sizes a file may have

VARIABLES
  size,     \* the announced size, 0 before the header
  sent,     \* the body so far; a byte is its offset in the file
  outcome   \* "open", "complete" or "cut"

File(n) == [k \in 1..n |-> k - 1]

Init == size = 0 /\ sent = <<>> /\ outcome = "open"

Announce ==
  /\ outcome = "open" /\ size = 0
  /\ size' \in Sizes
  /\ UNCHANGED <<sent, outcome>>

(* The last piece may come with the end.                                   *)
Send ==
  /\ outcome = "open"
  /\ \E n \in (Len(sent) + 1)..size :
       /\ sent' = File(n)
       /\ outcome' \in IF n = size THEN {"open", "complete"} ELSE {"open"}
  /\ UNCHANGED size

End ==
  /\ outcome = "open"
  /\ \/ outcome' = "cut"
     \/ outcome' = "complete" /\ size > 0 /\ sent = File(size)
  /\ UNCHANGED <<size, sent>>

Next == Announce \/ Send \/ End

Spec == Init /\ [][Next]_<<size, sent, outcome>>
=============================================================================
