------------------------------ MODULE Download ------------------------------
(***************************************************************************)
(* One download through the proxy: tryStreamDownload, tryStreamFromTooLarge*)
(* and runChunked of internal/listener/download.go, called as              *)
(* writeRequestResponse (on an intercepted TLS connection) or serveRelayed *)
(* (plain HTTP) calls them, and the entry the download has in the tracker, *)
(* internal/obs/downloads.go.                                              *)
(*                                                                         *)
(* The handler and its fetchers are goroutines.  They meet in the tracker  *)
(* (one lock per call), in the download's context, in the semaphore and in *)
(* one buffered channel per range; a step ends where one of these is       *)
(* touched.  The user (UserCancels) and the browser (BrowserLeaves,        *)
(* BrowserStalls) act at any moment.  A byte is its offset in the file.  Logs, file names,       *)
(* headers other than the status and the speed shown are left out.         *)
(***************************************************************************)
EXTENDS ChunkPlan, Sequences, FiniteSets

CONSTANTS
  Sizes,        \* file sizes
  ProbeSizes,   \* lengths of the body the probe may bring
  Replies,      \* what upstream may answer to a range: "range", "whole", "error"
  MaxHops,      \* redirects the probe follows (5)
  MaxAttempts,  \* tries per range (5)
  MinSize,      \* chunked_download_min_size
  MaxBytes,     \* max_response_body_bytes
  ChunkSize,    \* chunked_download_chunk_size
  MaxChunks,    \* chunked_download_max_chunks
  MaxParallel,  \* chunked_download_max_parallel
  Connections   \* the kinds of connection: "plain" HTTP, "intercepted" TLS

ASSUME DownloadAssumption ==
  /\ Sizes \subseteq Nat \ {0}
  /\ ProbeSizes \subseteq Nat
  /\ Replies \subseteq {"range", "whole", "error"}
  /\ MaxHops \in Nat
  /\ MaxAttempts \in Nat \ {0} /\ MinSize \in Nat /\ MaxBytes \in Nat
  /\ ChunkSize \in Nat \ {0} /\ MaxChunks \in Nat /\ MaxParallel \in Nat \ {0}
  /\ Connections \subseteq {"plain", "intercepted"}

VARIABLES
  conn,      \* the kind of connection the browser has
  pc,        \* where the handler is
  hop,       \* redirects followed
  plan,      \* the cut: total, firstSize, chunkSize (all 0 before runChunked)
  next,      \* the range the handler streams next
  streamErr, \* what broke the stream, or "nil"
  fetcher,   \* where each range's goroutine is
  attempt,   \* its tries so far
  lastErr,   \* its latest error, or "nil"
  ready,     \* its channel: NoResult, or the result sent
  ctxDone,   \* the download's context is cancelled
  entry,     \* the tracker's entry, or NoEntry
  gone,      \* the browser has closed the connection
  stalled,   \* the browser has stopped reading, the connection is full
  head,      \* the status line sent: "none", "ok", "error"
  wire,      \* the bytes of the file sent
  garbled,   \* an error response has been written behind them
  result     \* what the handler made of it: "none", "ok", "error"

planVars == <<hop, plan>>
fetchVars == <<fetcher, attempt, lastErr, ready>>
wireVars == <<head, wire, garbled, result>>
vars == <<conn, stalled, pc, planVars, next, streamErr, fetchVars, ctxDone, entry, gone,
          wireVars>>

(* Errors are told apart by what becomes of them: "disconnect" for those   *)
(* taken for a cancellation (context.Canceled and isBrowserDisconnect: the *)
(* context is cancelled, or some connection was reset or closed early).    *)
Errors == {"disconnect", "other"}
NoResult == [bytes |-> <<>>, err |-> "pending"]
NoEntry == [status |-> "none", done |-> 0, chunks |-> 0, cancel |-> FALSE]
NewEntry == [NoEntry EXCEPT !.status = "active"]

Bytes(start, end) == [k \in 1..(end - start + 1) |-> start + k - 1]
Chunks == ComputeChunks(plan.total, plan.firstSize, plan.chunkSize)
Ranges == 0..(Fetches(plan.total, plan.firstSize, plan.chunkSize) - 1)
RangeBytes(i) == Bytes(RangeStart(plan.firstSize, plan.chunkSize, i),
                       RangeEnd(plan.total, plan.firstSize, plan.chunkSize, i))

Init ==
  /\ conn \in Connections
  /\ pc \in {"probe", "relay"}    \* a URL that looks like a download, or not
  /\ hop = 0
  /\ plan = [total |-> 0, firstSize |-> 0, chunkSize |-> 0]
  /\ next = 0 /\ streamErr = "nil"
  /\ fetcher = <<>> /\ attempt = <<>> /\ lastErr = <<>> /\ ready = <<>>
  /\ ctxDone = FALSE /\ entry = NoEntry /\ gone = FALSE /\ stalled = FALSE
  /\ head = "none" /\ wire = <<>> /\ garbled = FALSE /\ result = "none"
-----------------------------------------------------------------------------
(* How the handler ends.                                                   *)

(* A write of body bytes returns once the browser reads or has left: the   *)
(* server sets no write deadline.  A header fits the connection's buffer.  *)
Writable == ~stalled \/ gone

Succeed ==
  /\ pc' = "returned" /\ result' = "ok"

(* An error response.  serveRelayed writes none once the header is out;    *)
(* writeRequestResponse writes it in any case.                             *)
RespondError ==
  /\ pc' = "returned" /\ result' = "error"
  /\ head' = IF head = "none" /\ ~gone THEN "error" ELSE head
  /\ garbled' = (head = "ok" /\ conn = "intercepted" /\ ~gone)
  /\ UNCHANGED wire

(* Downloads.Finish and Fail: whatever the status was.                     *)
FinishEntry == entry' = [entry EXCEPT !.status = "done", !.done = plan.total]
FailEntry == entry' = [entry EXCEPT !.status = "failed"]

(* Downloads.Cancel: only an active download is cancelled.                 *)
CancelEntry ==
  entry' = [entry EXCEPT !.status = IF @ = "active" THEN "cancelled" ELSE @]

(* The head of runChunked, up to the entry in the tracker.                 *)
RunChunked(total, firstSize, forced) ==
  \/ /\ ~forced /\ total < MinSize
     /\ pc' = "relay"
     /\ UNCHANGED <<planVars, next, streamErr, fetchVars, ctxDone, entry, wireVars>>
  \/ /\ forced \/ total >= MinSize
     /\ total > MaxBytes
     /\ RespondError
     /\ UNCHANGED <<planVars, next, streamErr, fetchVars, ctxDone, entry>>
  \/ /\ forced \/ total >= MinSize
     /\ total <= MaxBytes
     /\ plan' = [total |-> total, firstSize |-> firstSize,
                 chunkSize |-> ScaledSize(total, firstSize, ChunkSize, MaxChunks)]
     /\ entry' = NewEntry
     /\ pc' = "register"
     /\ UNCHANGED <<hop, next, streamErr, fetchVars, ctxDone, wireVars>>

(* The probe: a request for the first ChunkSize bytes.                     *)
ProbeFails ==
  /\ pc = "probe"
  /\ pc' = "relay"
  /\ UNCHANGED <<planVars, next, streamErr, fetchVars, ctxDone, entry, gone, wireVars>>

ProbeRedirected ==
  /\ pc = "probe"
  /\ IF hop = MaxHops THEN pc' = "relay" /\ hop' = hop
                      ELSE pc' = "probe" /\ hop' = hop + 1
  /\ UNCHANGED <<plan, next, streamErr, fetchVars, ctxDone, entry, gone, wireVars>>

(* A 206, with the file's size and the probe's body.                       *)
ProbeAnswered ==
  /\ pc = "probe"
  /\ \E total \in Sizes, n \in ProbeSizes :
       n <= total /\ RunChunked(total, n, FALSE)
  /\ UNCHANGED gone

ProbeTooLarge ==
  /\ pc = "probe"
  /\ \E total \in Sizes : RunChunked(total, 0, TRUE)
  /\ UNCHANGED gone

(* A 200 that looks like a download, or the ordinary relayed response: the *)
(* whole body in one piece.                                                *)
WholeHeader ==
  /\ pc \in {"probe", "relay"}
  /\ \E total \in Sizes : plan' = [plan EXCEPT !.total = total]
  /\ head' = "ok"
  /\ pc' = "whole"
  /\ UNCHANGED <<hop, next, streamErr, fetchVars, ctxDone, entry, gone, wire, garbled, result>>

WholeBody ==
  /\ pc = "whole"
  /\ Writable
  /\ \/ wire' = Bytes(0, plan.total - 1) /\ Succeed /\ UNCHANGED <<head, garbled>>
     \/ gone /\ RespondError
  /\ UNCHANGED <<planVars, next, streamErr, fetchVars, ctxDone, entry, gone>>

(* The ordinary relay fails, or reports the response as too large.         *)
RelayFails ==
  /\ pc = "relay"
  /\ RespondError
  /\ UNCHANGED <<planVars, next, streamErr, fetchVars, ctxDone, entry, gone>>

RelayTooLarge ==
  /\ pc = "relay"
  /\ \E total \in Sizes : RunChunked(total, 0, TRUE)
  /\ UNCHANGED gone
-----------------------------------------------------------------------------
(* runChunked.                                                             *)

Register ==
  /\ pc = "register"
  /\ entry' = [entry EXCEPT !.cancel = TRUE]
  /\ ctxDone' = (ctxDone \/ (gone /\ conn = "plain"))
  /\ pc' = "header"
  /\ UNCHANGED <<planVars, next, streamErr, fetchVars, gone, wireVars>>

Spawn ==
  /\ pc' = "stream"
  /\ fetcher' = [i \in Ranges |-> "queued"]
  /\ attempt' = [i \in Ranges |-> 0]
  /\ lastErr' = [i \in Ranges |-> "nil"]
  /\ ready' = [i \in Ranges |-> NoResult]

(* A write to the browser fails only once it has left; the header of a     *)
(* plain HTTP response is buffered and never does.                         *)
WriteHeader ==
  /\ pc = "header"
  /\ \/ /\ head' = "ok"
        /\ IF plan.firstSize > 0 THEN pc' = "first" /\ UNCHANGED fetchVars
                                 ELSE Spawn
        /\ UNCHANGED <<entry, wire, garbled, result>>
     \/ gone /\ conn = "intercepted" /\ FailEntry /\ RespondError /\ UNCHANGED fetchVars
  /\ UNCHANGED <<planVars, next, streamErr, ctxDone, gone>>

WriteFirst ==
  /\ pc = "first" /\ Writable
  /\ \/ /\ wire' = Bytes(0, plan.firstSize - 1)
        /\ pc' = "count"
        /\ UNCHANGED <<entry, head, garbled, result>>
     \/ gone /\ FailEntry /\ RespondError
  /\ UNCHANGED <<planVars, next, streamErr, fetchVars, ctxDone, gone>>

(* The probe's chunk is counted after it is written; the others before.    *)
CountFirst ==
  /\ pc = "count"
  /\ entry' = [entry EXCEPT !.done = @ + plan.firstSize, !.chunks = @ + 1]
  /\ IF Chunks <= 1 THEN pc' = "wait" /\ UNCHANGED fetchVars ELSE Spawn
  /\ UNCHANGED <<planVars, next, streamErr, ctxDone, gone, wireVars>>

\* Mutant: a range is written as soon as it is there, not in its turn.
StreamAnyReady ==
  /\ pc = "stream"
  /\ \E i \in Ranges :
       /\ ready[i].err = "nil"
       /\ wire' = wire \o ready[i].bytes
       /\ ready' = [ready EXCEPT ![i] = [NoResult EXCEPT !.err = "taken"]]
  /\ next' = next + 1
  /\ pc' = IF next + 1 \in Ranges THEN pc ELSE "wait"
  /\ UNCHANGED <<planVars, streamErr, fetcher, attempt, lastErr, ctxDone, entry,
                 gone, head, garbled, result>>

(* The handler receives the next range's result.  An error, or a failed    *)
(* write, cancels the other fetches and ends the loop.                     *)
StreamNext ==
  /\ pc = "stream"
  /\ ready[next] # NoResult
  /\ ready[next].err = "nil" => Writable
  /\ \/ /\ ready[next].err = "nil"
        /\ wire' = wire \o ready[next].bytes
        /\ next' = next + 1
        /\ pc' = IF next + 1 \in Ranges THEN pc ELSE "wait"
        /\ UNCHANGED <<streamErr, ctxDone>>
     \/ /\ \/ ready[next].err # "nil" /\ streamErr' = ready[next].err
           \/ ready[next].err = "nil" /\ gone /\ streamErr' \in Errors
        /\ ctxDone' = TRUE
        /\ pc' = "wait"
        /\ UNCHANGED <<wire, next>>
  /\ UNCHANGED <<planVars, fetchVars, entry, gone, head, garbled, result>>

Idle(i) == fetcher[i] = "done"

\* Mutants of Conclude: the fetchers are not waited for; every end is "done".
ConcludeWithoutWaiting ==
  /\ pc = "wait"
  /\ \/ streamErr = "nil" /\ FinishEntry /\ Succeed /\ UNCHANGED <<head, wire, garbled>>
     \/ streamErr = "disconnect" /\ CancelEntry /\ pc' = "respond" /\ UNCHANGED wireVars
     \/ streamErr = "other" /\ FailEntry /\ pc' = "respond" /\ UNCHANGED wireVars
  /\ UNCHANGED <<planVars, next, streamErr, fetchVars, ctxDone, gone>>
ConcludeAsDone ==
  /\ pc = "wait"
  /\ \A i \in DOMAIN fetcher : Idle(i)
  /\ FinishEntry
  /\ IF streamErr = "nil" THEN Succeed /\ UNCHANGED <<head, wire, garbled>>
     ELSE pc' = "respond" /\ UNCHANGED wireVars
  /\ UNCHANGED <<planVars, next, streamErr, fetchVars, ctxDone, gone>>

(* wg.Wait, then the final status.                                         *)
Conclude ==
  /\ pc = "wait"
  /\ \A i \in DOMAIN fetcher : Idle(i)
  /\ \/ streamErr = "nil" /\ FinishEntry /\ Succeed /\ UNCHANGED <<head, wire, garbled>>
     \/ streamErr = "disconnect" /\ CancelEntry /\ pc' = "respond" /\ UNCHANGED wireVars
     \/ streamErr = "other" /\ FailEntry /\ pc' = "respond" /\ UNCHANGED wireVars
  /\ UNCHANGED <<planVars, next, streamErr, fetchVars, ctxDone, gone>>

(* The error is returned to the caller, which answers it.                  *)
Respond ==
  /\ pc = "respond" /\ (conn = "intercepted" => Writable)
  /\ RespondError
  /\ UNCHANGED <<planVars, next, streamErr, fetchVars, ctxDone, entry, gone>>

(* cleanupDownload, five seconds later.                                    *)
Remove ==
  /\ pc \in {"respond", "returned"} /\ entry # NoEntry
  /\ entry' = NoEntry
  /\ UNCHANGED <<pc, planVars, next, streamErr, fetchVars, ctxDone, gone, wireVars>>
-----------------------------------------------------------------------------
(* One range's goroutine, fetchChunkWithRetry included.                    *)

Fetching == {i \in DOMAIN fetcher : fetcher[i] \in {"top", "post", "backoff"}}

handlerVars == <<pc, planVars, next, streamErr, ctxDone, gone, wireVars>>

(* Send the result and return: the channel has room for it.                *)
Send(i, bytes, err) ==
  /\ ready' = [ready EXCEPT ![i] = [bytes |-> bytes, err |-> err]]
  /\ fetcher' = [fetcher EXCEPT ![i] = "done"]

Acquire(i) ==
  /\ fetcher[i] = "queued"
  /\ Cardinality(Fetching) < MaxParallel
  /\ fetcher' = [fetcher EXCEPT ![i] = "top"]
  /\ attempt' = [attempt EXCEPT ![i] = 1]
  /\ UNCHANGED <<lastErr, ready, entry, handlerVars>>

\* Mutant: a fetch cancelled in the queue sends nothing.
QueueCancelledSilently(i) ==
  /\ fetcher[i] = "queued" /\ ctxDone
  /\ fetcher' = [fetcher EXCEPT ![i] = "done"]
  /\ UNCHANGED <<ready, attempt, lastErr, entry, handlerVars>>

QueueCancelled(i) ==
  /\ fetcher[i] = "queued" /\ ctxDone
  /\ Send(i, <<>>, "disconnect")
  /\ UNCHANGED <<attempt, lastErr, entry, handlerVars>>

TryAgain(i) ==
  /\ fetcher[i] = "top"
  /\ IF ctxDone
     THEN Send(i, <<>>, IF lastErr[i] = "nil" THEN "disconnect" ELSE lastErr[i])
     ELSE fetcher' = [fetcher EXCEPT ![i] = "post"] /\ UNCHANGED ready
  /\ UNCHANGED <<attempt, lastErr, entry, handlerVars>>

(* A 206 or a 200: its body is the range, as long as it is.                *)
Answered(i) ==
  /\ fetcher[i] = "post"
  /\ \E bytes \in (IF "range" \in Replies THEN {RangeBytes(i)} ELSE {})
                  \cup (IF "whole" \in Replies THEN {Bytes(0, plan.total - 1)} ELSE {}) :
       /\ entry' = [entry EXCEPT !.done = @ + Len(bytes), !.chunks = @ + 1]
       /\ Send(i, bytes, "nil")
  /\ UNCHANGED <<attempt, lastErr, handlerVars>>

(* An error, of whatever making: that of an upstream connection reset or   *)
(* closed early reads like that of a browser that has left.                *)
Failed(i) ==
  /\ fetcher[i] = "post"
  /\ \E err \in (IF "error" \in Replies THEN Errors ELSE {})
                \cup (IF ctxDone THEN {"disconnect"} ELSE {}) :
       /\ lastErr' = [lastErr EXCEPT ![i] = err]
       /\ IF attempt[i] < MaxAttempts
          THEN fetcher' = [fetcher EXCEPT ![i] = "backoff"] /\ UNCHANGED ready
          ELSE Send(i, <<>>, err)
  /\ UNCHANGED <<attempt, entry, handlerVars>>

Backoff(i) ==
  /\ fetcher[i] = "backoff"
  /\ \/ /\ attempt' = [attempt EXCEPT ![i] = @ + 1]
        /\ fetcher' = [fetcher EXCEPT ![i] = "top"]
        /\ UNCHANGED ready
     \/ ctxDone /\ Send(i, <<>>, lastErr[i]) /\ UNCHANGED attempt
  /\ UNCHANGED <<lastErr, entry, handlerVars>>

Fetch(i) == Acquire(i) \/ QueueCancelled(i) \/ TryAgain(i) \/ Answered(i)
            \/ Failed(i) \/ Backoff(i)
-----------------------------------------------------------------------------
(* The user and the browser.                                               *)

UserCancels ==
  /\ entry.status = "active"
  /\ CancelEntry
  /\ ctxDone' = (ctxDone \/ entry.cancel)
  /\ UNCHANGED <<pc, planVars, next, streamErr, fetchVars, gone, wireVars>>

(* Only a plain HTTP request's context follows the connection.             *)
BrowserLeaves ==
  /\ ~gone
  /\ gone' = TRUE
  /\ ctxDone' = (ctxDone \/ (conn = "plain" /\ entry.cancel))
  /\ UNCHANGED <<pc, planVars, next, streamErr, fetchVars, entry, wireVars>>

(* It stays connected and reads no more.                                   *)
BrowserStalls ==
  /\ ~stalled /\ ~gone
  /\ stalled' = TRUE
  /\ UNCHANGED <<conn, pc, planVars, next, streamErr, fetchVars, ctxDone, entry, gone,
                 wireVars>>

Handle ==
  \/ ProbeFails \/ ProbeRedirected \/ ProbeAnswered \/ ProbeTooLarge
  \/ WholeHeader \/ WholeBody \/ RelayFails \/ RelayTooLarge
  \/ Register \/ WriteHeader \/ WriteFirst \/ CountFirst \/ StreamNext \/ Conclude
  \/ Respond

FetchSome == \E i \in DOMAIN fetcher : Fetch(i)

Next ==
  \/ /\ Handle \/ FetchSome \/ Remove \/ UserCancels \/ BrowserLeaves
     /\ UNCHANGED <<conn, stalled>>
  \/ BrowserStalls

Spec == Init /\ [][Next]_vars

(* The goroutines run, and every call upstream is bounded by a timeout.  A *)
(* write is only enabled while the browser lets it return.                 *)
FairSpec == Spec /\ WF_vars(Handle /\ UNCHANGED <<conn, stalled>>)
            /\ WF_vars(FetchSome /\ UNCHANGED <<conn, stalled>>)
-----------------------------------------------------------------------------
(* Properties.                                                             *)

TypeOK ==
  /\ pc \in {"probe", "relay", "register", "header", "first", "count", "stream", "wait",
             "respond", "whole", "returned"}
  /\ hop \in 0..MaxHops
  /\ plan \in [total : Nat, firstSize : Nat, chunkSize : Nat]
  /\ next \in Nat /\ streamErr \in Errors \cup {"nil"}
  /\ DOMAIN attempt = DOMAIN fetcher /\ DOMAIN lastErr = DOMAIN fetcher
  /\ DOMAIN ready = DOMAIN fetcher
  /\ \A i \in DOMAIN fetcher :
       /\ fetcher[i] \in {"queued", "top", "post", "backoff", "done"}
       /\ attempt[i] \in 0..MaxAttempts /\ lastErr[i] \in Errors \cup {"nil"}
       /\ ready[i].err \in Errors \cup {"nil", "pending"}
  /\ entry.status \in {"none", "active", "done", "failed", "cancelled"}
  /\ head \in {"none", "ok", "error"} /\ result \in {"none", "ok", "error"}
  /\ ctxDone \in BOOLEAN /\ gone \in BOOLEAN /\ stalled \in BOOLEAN /\ garbled \in BOOLEAN

(* Out of a pool of fetchers that finish in any order, fail and retry, the *)
(* browser gets the file's bytes in order, each once, and the handler      *)
(* reports success only after the last one.  (What may be written behind   *)
(* them on an intercepted connection is BodyIsTheFile's question.)         *)
Delivery == INSTANCE OrderedDelivery WITH
  size <- IF head = "ok" THEN plan.total ELSE 0,
  sent <- wire,
  outcome <- CASE result = "none" -> "open" [] result = "ok" -> "complete"
               [] result = "error" -> "cut"

DeliversInOrder == Delivery!Spec

(* "Stream chunks to the browser in order as they become ready"            *)
(* (download.go:407): after a 200 header, what the browser has received is *)
(* always the beginning of the file.                                       *)
BodyIsTheFile == head = "ok" => wire = Bytes(0, Len(wire) - 1) /\ ~garbled

(* The progress shown is honest: bytes counted as they arrive from         *)
(* upstream, in any order, are never fewer than the browser has (but for   *)
(* the probe's, which are counted late) and never more than the file; a    *)
(* download shown as done has every chunk and every byte.                  *)
ProgressHonest ==
  entry # NoEntry =>
    /\ pc # "count" => Len(wire) <= entry.done
    /\ entry.done <= plan.total
    /\ entry.chunks <= Chunks
    /\ entry.status = "done" => wire = Bytes(0, plan.total - 1) /\ entry.chunks = Chunks

(* No fetch outlives the handler: nothing is downloaded, and no account's  *)
(* slot is held, for a browser that has been answered.                     *)
NoOrphanFetch == pc = "returned" => Fetching = {}

(* "Cancel marks the download cancelled ... Returns true when the download *)
(* was active and got cancelled" (obs/downloads.go:130): the download the  *)
(* user was told is cancelled is not shown as done or failed later.        *)
CancelledStays ==
  [][entry.status = "cancelled" => entry'.status \in {"cancelled", "none"}]_vars

(* The handler waits for nothing but a browser that stays connected and    *)
(* does not read, with bytes for it in hand.                               *)
HeldByTheBrowser ==
  /\ stalled /\ ~gone
  /\ \/ pc \in {"first", "whole", "respond"}
     \/ pc = "stream" /\ ready[next].err = "nil"

(* Every download ends, whatever fails, is cancelled or left, and however  *)
(* few fetchers run at once, unless the browser holds it for ever.         *)
HandlerReturns == []<>(pc = "returned" \/ HeldByTheBrowser)
=============================================================================
