---------------------------- MODULE RemoteBatch ----------------------------
(***************************************************************************)
(* What the far ends do with one POST of the relay client: the Vercel      *)
(* functions (vercel/api/tunnel.ts and batch.ts over _envelope.ts) and the *)
(* Apps Script deployment (_doBatch and _doBatchRelayed of Code.gs).       *)
(*                                                                         *)
(* The Vercel handler runs the envelopes as promises that interleave at    *)
(* every await; Apps Script has one thread, one fetchAll and, when that    *)
(* throws, a replay of the items one by one.  Of an envelope only its      *)
(* shape and its method matter, of a response whose it is.                 *)
(***************************************************************************)
EXTENDS Integers, Sequences, FiniteSets, SequencesExt

CONSTANTS
  Backends,  \* subset of {"tunnel", "batch", "script", "relayed"}
  MaxItems   \* bound: envelopes of a batch

RemoteBatchAssumption ==
  /\ Backends \subseteq {"tunnel", "batch", "script", "relayed"}
  /\ MaxItems \in Nat \ {0}

(* The envelopes: no URL or no method; a body or a header that the request *)
(* cannot be built from; safe to replay or not.                            *)
Envelope == {"malformed", "unbuildable", "safe", "unsafe"}

Vercel == {"tunnel", "batch"}

VARIABLES
  backend,    \* the endpoint the client posted to
  items,      \* the envelopes
  phase,      \* of the handler
  at,         \* Vercel: where each promise is
  responses,  \* Apps Script: the answers by position in fetchArgs, 0 for null
  errorMap,   \* Apps Script: the items that have an error
  sent,       \* how often an item's request went out
  reply       \* the replies of an answered post

vars == <<backend, items, phase, at, responses, errorMap, sent, reply>>

Items == 1..Len(items)

(* A reply: what it is and, for a response, whose.                         *)
Of(i) == [kind |-> "response", of |-> i]
Error(kind) == [kind |-> kind, of |-> 0]

Init ==
  /\ backend \in Backends
  /\ items \in UNION {[1..n -> Envelope] : n \in 1..MaxItems}
  /\ backend = "tunnel" => Len(items) = 1
  /\ phase = "received"
  /\ at = [i \in Items |-> "idle"]
  /\ responses = <<>> /\ errorMap = {}
  /\ sent = [i \in Items |-> 0]
  /\ reply = <<>>
-----------------------------------------------------------------------------
(* The request is refused before any envelope is looked at: the method,    *)
(* the token, or a body that is not JSON.                                  *)
Refuse ==
  /\ phase = "received"
  /\ phase' = "refused"
  /\ UNCHANGED <<backend, items, at, responses, errorMap, sent, reply>>

(* envs.map(runEnvelope): every promise runs to its first await, which is  *)
(* the fetch; a request that cannot be built rejects it before that.       *)
Begun(i) ==
  CASE items[i] = "malformed"   -> "bad_envelope"
    [] items[i] = "unbuildable" -> "threw"
    [] OTHER -> "fetching"

VercelStart ==
  /\ phase = "received" /\ backend \in Vercel
  /\ phase' = "running"
  /\ at' = [i \in Items |-> Begun(i)]
  /\ sent' = [i \in Items |-> IF Begun(i) = "fetching" THEN 1 ELSE 0]
  /\ UNCHANGED <<backend, items, responses, errorMap, reply>>

(* The fetch throws, or its headers are here; a content-length over the    *)
(* cap ends the envelope without reading the body.  The header may be      *)
(* absent, and small where the decoded body is not.                        *)
FetchAnswers(i) ==
  /\ at[i] = "fetching"
  /\ \E next \in {"fetch_failed", "too_large", "reading"} :
       at' = [at EXCEPT ![i] = next]
  /\ UNCHANGED <<backend, items, phase, responses, errorMap, sent, reply>>

(* The body is compared with the cap once more, as it was read.            *)
(* arrayBuffer is awaited outside the try: a body that breaks off rejects  *)
(* the promise, and with it the post.                                      *)
BodyRead(i) ==
  /\ at[i] = "reading"
  /\ \E next \in {"response", "too_large", "threw"} :
       at' = [at EXCEPT ![i] = next]
  /\ UNCHANGED <<backend, items, phase, responses, errorMap, sent, reply>>

VercelReply(i) == IF at[i] = "response" THEN Of(i) ELSE Error(at[i])

(* Promise.all: the replies in the order of the envelopes once all are     *)
(* there.                                                                  *)
VercelAnswer ==
  /\ phase = "running"
  /\ \A i \in Items :
       at[i] \in {"bad_envelope", "fetch_failed", "too_large", "response"}
  /\ reply' = [i \in Items |-> VercelReply(i)]
  /\ phase' = "answered"
  /\ UNCHANGED <<backend, items, at, responses, errorMap, sent>>

(* The first rejection ends the handler; the other promises run on.        *)
VercelFail ==
  /\ phase = "running"
  /\ \E i \in Items : at[i] = "threw"
  /\ phase' = "failed"
  /\ UNCHANGED <<backend, items, at, responses, errorMap, sent, reply>>
-----------------------------------------------------------------------------
(* The items the first loop refuses.  _doBatchRelayed wraps an item as it  *)
(* is, so that its request can always be built.                            *)
Refused == {i \in Items : items[i] = "malformed"
                         \/ /\ items[i] = "unbuildable"
                            /\ backend = "script"}

(* fetchIndex: the items that are fetched, in order.                       *)
FetchIndex ==
  LET fetched == Items \ Refused
  IN CHOOSE s \in [1..Cardinality(fetched) -> fetched] :
       \A p, q \in DOMAIN s : p < q => s[p] < s[q]

(* The first loop of _doBatch.                                             *)
ScriptPrepare ==
  /\ phase = "received" /\ backend \notin Vercel
  /\ errorMap' = Refused
  /\ phase' = IF FetchIndex = <<>> THEN "assemble" ELSE "fetchAll"
  /\ UNCHANGED <<backend, items, at, responses, sent, reply>>

Sending(S) == [i \in Items |-> sent[i] + IF i \in S THEN 1 ELSE 0]

(* fetchAll answers for all, or throws after any of them went out.         *)
FetchAll ==
  /\ phase = "fetchAll"
  /\ \/ /\ responses' = FetchIndex
        /\ sent' = Sending(ToSet(FetchIndex))
        /\ phase' = "assemble"
     \/ \E S \in SUBSET ToSet(FetchIndex) :
          /\ responses' = <<>>
          /\ sent' = Sending(S)
          /\ phase' = "replay"
  /\ UNCHANGED <<backend, items, at, errorMap, reply>>

\* Mutant: everything is replayed.
ReplayAll(i) == TRUE

(* SAFE_REPLAY_METHODS; _doBatchRelayed does not look at the method.       *)
Replayable(i) == items[i] = "safe" \/ backend = "relayed"

(* One turn of the loop after a fetchAll that threw.                       *)
Replay ==
  /\ phase = "replay"
  /\ LET j == Len(responses) + 1
         i == FetchIndex[j]
     IN /\ \/ /\ Replayable(i)
              /\ responses' = Append(responses, i)
              /\ sent' = Sending({i})
              /\ UNCHANGED errorMap
           \/ /\ responses' = Append(responses, 0)
              /\ sent' = IF Replayable(i) THEN Sending({i}) ELSE sent
              /\ errorMap' = errorMap \cup {i}
        /\ phase' = IF j = Len(FetchIndex) THEN "assemble" ELSE "replay"
  /\ UNCHANGED <<backend, items, at, reply>>

\* Mutant: the item's own number, as if nothing had been left out.
OwnNumber(i) == i

(* rIdx when the last loop is at item i: it is advanced for the items that *)
(* have no error, and so not for one whose replay failed, although that    *)
(* one has a place in responses.                                           *)
RIdx(i) == 1 + Cardinality({k \in 1..(i - 1) : k \notin errorMap})

ScriptReply(i) ==
  IF i \in errorMap THEN Error("error")
  ELSE IF RIdx(i) \in DOMAIN responses /\ responses[RIdx(i)] # 0
         THEN Of(responses[RIdx(i)])
         ELSE Error("fetch failed")

ScriptAnswer ==
  /\ phase = "assemble"
  /\ reply' = [i \in Items |-> ScriptReply(i)]
  /\ phase' = "answered"
  /\ UNCHANGED <<backend, items, at, responses, errorMap, sent>>
-----------------------------------------------------------------------------
Next ==
  \/ Refuse
  \/ VercelStart \/ VercelAnswer \/ VercelFail
  \/ \E i \in Items : FetchAnswers(i) \/ BodyRead(i)
  \/ ScriptPrepare \/ FetchAll \/ Replay \/ ScriptAnswer

Spec == Init /\ [][Next]_vars
-----------------------------------------------------------------------------
(* The i-th reply is the i-th item's: what DoBatch assumes when it pairs   *)
(* replies with requests (internal/relay/client.go:176-177).               *)
EveryReplyIsItsOwn ==
  phase = "answered" =>
    \A i \in Items : reply[i].kind = "response" => reply[i].of = i

(* Replies go astray in one way only: behind an item whose replay failed,  *)
(* and then towards an earlier item's answer.  Malformed items, promises   *)
(* that end in any order and a fetchAll that works never misplace one.     *)
AstrayOnlyAfterFailedReplay ==
  phase = "answered" =>
    \A i \in Items :
      reply[i].kind = "response" /\ reply[i].of # i =>
        /\ reply[i].of < i
        /\ \E k \in errorMap : k < i /\ k \notin Refused

(* A request that is not safe to repeat goes out at most once, whatever    *)
(* fetchAll did before it threw.  (A deployment with RELAY_URL set replays *)
(* all methods and is outside.)                                            *)
UnsafeSentOnce ==
  backend # "relayed" => \A i \in Items : items[i] = "unsafe" => sent[i] <= 1
=============================================================================
