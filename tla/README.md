# XenRelayProxy in TLA+

XenRelayProxy is a local HTTP/SOCKS5 proxy that carries a browser's requests
through relay functions the user deploys (Google Apps Script or Vercel). Its
core is written in Go (`internal/`, `pkg/relayvpn`): a listener that intercepts
TLS, a relay client that posts each request to one of several accounts, a
scheduler that shares the accounts out, and a chunked downloader. A desktop
window in TypeScript (`frontend/`) sets it up and shows what it does. This
directory holds TLA+ models of the core, of the far ends of the relay and of the
window, the TLC configurations that check them on small instances, and TLAPS
proofs of what holds for every instance.

Paths and line numbers refer to the repository root (`internal/...`).

## 1. Inventory

| Component | Keeps | Operations | Meets the others through |
|---|---|---|---|
| Scheduler `internal/scheduler` | accounts (calls today, window start, cool-off, error streak, throttle history, slots in flight, deployment index), round-robin index, state file | `SelectExcluding`, `Release`, `Report*`, `SetAccountEnabled`, `Stats`, `SaveState`, `LoadState` | its mutex; the relay client's calls; the state file |
| Relay client `internal/relay/client.go` | nothing of its own; locals of each request | `Do`, `DoBatch`, `ClassifyError` | leases from the scheduler, posts through a transport |
| Transports `internal/relay/{appscript,vercel,provider}.go` | HTTP clients | `PostSingle`, `PostBatch`, `raceJSON` (hedged fan-out over deployments) | goroutines racing into one channel |
| Listener `internal/listener/server.go`, `socks.go`, `routing.go` | listeners, leaf certificates through `mitm` | CONNECT, MITM stream, plain HTTP, SOCKS5, routing, cache lookups | calls the relay client and the downloader |
| Chunked downloads `internal/listener/download.go` | locals of the handler; one goroutine and channel per range | `tryStreamDownload`, `tryStreamFromTooLarge`, `runChunked`, `fetchChunkWithRetry` | the relay client, the tracker, a cancellable context |
| Download tracker `internal/obs/downloads.go` | one entry per download | `Start`, `SetCancel`, `AddBytes`, `ChunkDone`, `Finish`, `Fail`, `Cancel`, `Remove`, `Snapshot` | its mutex; the UI's cancel button |
| Service API `pkg/relayvpn/api.go` | the running server, config, run state | `Start`, `Stop`, `SaveConfig`, `SetMode`, `ToggleAccount`, ... | called concurrently by the desktop shell |
| Config `internal/config` | the JSON file | load, normalise, validate, save | every component at start |
| Cache, metrics, logs `internal/cache`, `internal/obs` | LRU of responses; per-host counters; ring buffer | get/put, record, add/tail/subscribe | their mutexes |
| MITM CA `internal/mitm` | CA key and certificate on disk, leaf cache | `CertificateFor`, `loadOrCreateCA` | files; the TLS handshake |
| Front scanner `internal/frontscan` | nothing | `Scan` | worker goroutines |
| Apps Script relay `apps_script/Code.gs` | nothing | single and batch fetch, redirects | the transport's POST |
| Vercel and Python relays `vercel/`, `server_relay/` | nothing | fetch per item, as interleaving promises | the transport's POST |
| Desktop shell, CLI `app.go`, `cmd/` | nothing | forward calls | the service API |
| Setup wizard and gate `frontend/src/routes/wizard`, `app/router.tsx` | the step, the form, how far the user has been | `next`, `back`, jumps, `finish`, `skipWizard`, `persistDraft` | reads and writes the configuration through the API, and the query cache |
| Accounts and Settings pages `routes/accounts`, `routes/settings` | a form over the cached configuration | save, toggle, regenerate the key, list fields | the query cache, the API |
| Home page, top bar `routes/home`, `components/layout` | the polled status and statistics | connect, disconnect, figures | the query cache, the API |
| Certificate step and page `routes/wizard/steps/Cert.tsx`, `routes/certificate` | whether the CA is trusted, an interval | install, uninstall, wait for trust | the API, the system's trust store |
| Logs page `routes/logs` | a frozen list, a filter | pause, filter | the polled statistics |

What is hard about them:

- **Concurrency.** Every browser request is a goroutine that leases an account,
  works outside the scheduler's lock and reports later; a download adds one
  goroutine per range; the user switches accounts and cancels downloads at any
  moment.
- **Ordering.** Replies come in any order: a success after a quota answer, a
  throttle after a longer cool-off, ranges out of sequence.
- **Failure.** Any call may fail or time out; retries move to other accounts;
  one range of a download may fail with the rest in the air; the process may
  stop between two writes of its state file.
- **Limits.** Daily quotas, in-flight caps, retry counts, numbers of chunks.

What makes each component correct:

- *Scheduler and client*: a slot is given back exactly once on every path; no
  account serves more requests than its cap; the quota is overshot by no more
  than the calls in flight; an exhausted account stays out until its window
  rolls; a retry never repeats an account; every request returns.
- *Downloads*: the browser gets the file's bytes in order, each once; "complete"
  and "done" mean whole; progress never lies; no fetch outlives the handler;
  everything ends.
- *Transports*: the first good answer wins, losers cannot block or leak, the
  error reported is the worst one.
- *State file*: a crash leaves the old or the new state, and restarting never
  hands out quota that was already spent.
- *Lifecycle*: what is shown as connected listens; a server is lost only behind
  calls that overlapped; a Stop or a change that runs alone takes effect.
- *Cache, metrics, logs*: the byte and entry limits hold, the newest survive.
- *Far ends*: reply `i` answers request `i`, what is unsafe to repeat goes out
  once.
- *Scan*: it ends in time with a result for each address it tried, and takes
  the fastest one reached.
- *Wizard*: no step is skipped, what is stored is not taken back, and Start on a
  complete form leaves the program set up.
- *Pages*: what is cached is what is stored, up to the rewriting of a save, once
  nothing is under way; a save takes back nothing else; a shown state becomes the true one and does not
  flash; a verdict is about what is on the screen.

The complete list of hazards, each at its line, is in `PROJECT.json`.

## 2. Plan

Modules in the order they are written. All of them exist but the last group.

1. **Relay core**: `Scheduler`, `LeasePool` (abstract), `RelayClient` (composes
   `Scheduler` with concurrent requests), proofs in `RelayClientProofs` and
   `QuotaProofs`.
2. **Downloads**: `ChunkPlan` (arithmetic), `OrderedDelivery` (abstract),
   `Download` (handler, fetchers, tracker).
3. **Transports**: `HedgedRace`, a race of deployments under one lease.
4. **State file**: `StateFile`, two savers sharing one temporary file, crash and
   reload, composed with `RelayClient`.
5. **Lifecycle**: `Service`, concurrent `Start`/`Stop`/`SetMode`/`SaveConfig`.
6. **Far ends**: `RemoteBatch`, the batches of Apps Script and Vercel.
7. **Stores**: `Logs` (ring and page), `Metrics` (counters and table).
8. **Window**: `Wizard`, `ConfigCache`, `ListField`, `Dashboard`, `CertStep`,
   `CertPage`, `EndpointTest`, `Figures`, `FrontScan`.
9. **Left**: the races of several leases together (the losers of a race run on
   after the slot is back, so more calls are upstream than in-flight cap times
   fan-out); the state file across an overlap of an old service's `Stop` and a
   new one's `Start`, which reads it first, and with them two writers of one
   temporary name (scheduler.go:454, config.go:229); the listener's decision
   tree (`responseFor`, `Routing`), the response cache, the certificate
   authority across a crash.

The theorems follow the same order; section 5 has those that are proved.

## 3. Modules

### `Scheduler` — `internal/scheduler/scheduler.go`

Every method holds `Scheduler.mu` for its whole effect, so each is one action.
`Select` and `Stats` roll the windows first, and that roll is part of their
actions. An account is its position in `s.accounts`; labels are unique
(`config.Validate`). State maps one to one to the fields of `Account`, with
these abstractions, each named at its declaration: the statistics only the
screen shows are left out (so the last tie-break of `least_loaded` is a free
choice), `consecutiveErrors` saturates at the count from which every further
error has the same effect, `sidIndex` is kept modulo the number of deployments
and `roundRobinIndex` modulo a common multiple of all list lengths (the code
only ever uses them modulo these), weights matter only as `weighted_random`'s
free choice and as `least_loaded`'s tie-break, and the safety margin is a
percentage. The code compares floating-point products; the model compares the
same products as integers. `Release` decrements the atomic counter after it has
let go of the mutex; a `Select` at that moment may read the counter before the
decrement in its filter and after it in `least_loaded`'s score, which changes
only which of the candidates it takes.

### `RelayClient` — `internal/relay/client.go`

A request is a goroutine: `idle`, `select`, `post` (on the wire, outside every
lock), `release`. `Reply` is the return of the post with the report it causes;
`Release` is the release with the retry decision that follows it. `Batches` are
the requests that call `DoBatch`, which never retries. The user's switch
(`ToggleAccount`), the Stats poll and the clock are `Environment`.

The switch is modelled as the scheduler's operation. In the program
`ToggleAccount` first saves the configuration, which restarts a running service
with a scheduler of its own; the switch meets requests in flight when a start
was still in progress at that moment, or when another toggle's restart comes in
between (both are behaviours of `Service`).

### `LeasePool`

The abstract specification: callers hold slots, at most `MaxInFlight` per
account. `RelayClient` implements it under the mapping that forgets everything
but who holds what.

### `ChunkPlan`, `OrderedDelivery`, `Download` — `internal/listener/download.go`, `internal/obs/downloads.go`

`ChunkPlan` is the arithmetic of cutting a file. `Download` is one download: the
probe, the fallback to the ordinary relay and the second chance after
`too_large`, the head of `runChunked`, one goroutine per range, the in-order
writer and the tracker's entry. A byte is its offset in the file, so what the
browser reads can be compared with the file; `garbled` says that an error
response has been written behind the body. `conn` is the kind of connection:
`writeRequestResponse` ("intercepted") and `serveRelayed` ("plain") differ in
what they do with a late error and in whether the request's context follows the
connection. `OrderedDelivery` is what the browser is promised.

The browser may leave, and it may stay and stop reading (`BrowserStalls`): the
server sets no write deadline (server.go:98-102), so a write then waits for as
long as the browser does. An error is taken for the browser's by
`isBrowserDisconnect`, that is by its words, and a range whose upstream
connection was reset or closed early has the same ones: `Failed` gives such a
range either class. `Respond` is the answer `writeRequestResponse` or
`serveRelayed` writes after `tryStreamDownload` has returned, a write of its own.

Two tracker calls next to one another (bytes and chunk count of one range) are
one step: nothing reads between them what another step could change. The probe's
chunk is written before it is counted, and that is two steps. `Start`
and `SetCancel` are two steps, because a cancel in between finds nothing to call.

### `HedgedRace` — `internal/relay/appscript.go`

What happens inside `RelayClient!Reply`: one goroutine per deployment, the first
at once and the others on timers, a buffered channel, a context of the race under
the request's. The caller collects until a reply or until every arm has failed.
A result is its class. `postJSONScript` counts every 2xx body that looks like
JSON as a reply, and such a body may carry an error inside: a fast quota answer
of one deployment therefore beats a slower good one, and the race is won by the
first *reply*, not by the first success; that is what the models say too.

### `StateFile` — `internal/scheduler/scheduler.go` (save, load, start, stop)

Extends `RelayClient` by the life of the process. A save is a snapshot under the
lock, then the temporary file opened, written and synced, renamed, with a
possible failure at each step; replies are reported in between. `Stop` lets the
loop's saver end before it saves itself, and the two share one temporary name,
so that this order is what keeps the file whole. `Crash` may come anywhere and
keeps the files as they are; `Start` makes a scheduler with `New`'s figures and
applies `LoadState`. The saved figures the other models leave out (keepalive,
statistics) are left out here. The removal of an unreadable file is part of
`LoadState`, and `FileWhole` says that these writers never make one.

### `Service` — `pkg/relayvpn/api.go`

Calls of the front end, each a goroutine: `Start`, `Stop`, `SaveConfig`,
`SetMode`, `ToggleAccount`, `MarkSetupCompleted`. A step is one hold of
`API.mu`, one read or write of the configuration file, or one use of a port.
The port is part of the configuration: a listen fails only when another server
has that port. Two starts that overlap around a change of the port therefore both
listen, `Publish` overwrites `API.server` without a look, and the first server is
an orphan (`Orphans`): it goes on listening and no call reaches it again. Two
histories are kept: `alone` tells the calls that overlapped with no other,
`crossed` says that two starts have overlapped with no Stop since. What holds is
that servers become orphans only while `crossed`, that a Stop which runs alone
leaves nothing but the orphans there were, and that after a change which runs
alone a connected service runs with it. A save of the
configuration is one step, although two overlapping ones share a temporary file
(config.go:229). TLC shows
what overlapping costs when the properties are stated without it: a mode set
while a start is in progress is written but not applied, since the start has
read the file and `SetMode` finds nothing running to restart, though the comment
at api.go:407 says the listener restarts; and one of two overlapping changes of
the file may undo the other.

### `RemoteBatch` — `vercel/api/*.ts`, `apps_script/Code.gs`

What the far end does with one POST. On Vercel the envelopes are promises that
interleave at each await (the fetch, the reading of the body) and a rejected one
fails the whole batch; an item that is refused by `runEnvelope` gets an error of
its own. On Apps Script there is one thread: the split into `fetchArgs` with
their `fetchIndex`, one `fetchAll`, and, when it throws (after any of its
requests has gone out), the replay of the items one by one, leaving out unsafe
methods unless a relay server does the fetching. Responses are named by the item
they answer, so that a misplaced one shows.

### `Logs`, `Metrics` — `internal/obs`, and what the window shows of them

`Logs` is the ring with its cursor and the page that polls its tail, filters it
and freezes it. Entries are numbered and the four levels take turns; a button
compares its name with the level's in lower case, as the page does, so that
"warn" never meets "WARNING" and lists nothing. The search for a text is left
out. `Metrics` is the maps of the per-host counters with the eviction and the
table over them.

### `Wizard` — `frontend/src/routes/wizard`, `app/router.tsx`, over `pkg/relayvpn/api.go` and `internal/config`

A handler of the window is an async function. It captures the render it was
made in, gives the thread back at each await, and goes on whatever the user has
done since; so each await is the end of an action, and a handler under way is a
job with its captured form. `Next` of a step is `ClickNext` (the checks),
`PersistReads` (GetConfig), `PersistSaves` (SaveConfig) and `NextGoes`; `finish`
and `skipWizard` add `Marks` (markSetupCompleted) and `Leaves`. The effect that
fills the form is `HydrateReads` and `HydrateKey`. Of a configuration two
conditions of `Validate` are kept: a key, and an endpoint for the mode. The
window's own checks are others than `Validate`'s: an address in another case or a
placeholder for a script ID passes the one and not the other, so an endpoint is
missing, refused by the service alone, or good (`Endpoints`). The check of the
front's domain (index.tsx:167) is left out, which only lets more go on.

### `ConfigCache` — `lib/queries.ts`, `routes/accounts`, `routes/settings`

One query holds the configuration and is never stale by itself. Saves set it,
toggles invalidate it, the wizard does both, and a fetch runs when the query is
invalid and something shows it. The form is set anew from each cached value. A
handler is the click with the form it captured, the service's read and write of
the file, and the answer. The service does not store what it is sent: a save
applies `SetDefaults` and `Normalize` before it writes, and a read applies them to
what it has read, while the cache keeps what was sent until the next fetch.
`Normal` is that rewriting, any function of the values and not assumed to be
idempotent (a trailing dot before a blank takes two goes); `Agrees` says that a
copy is what a read answers, or what the file was made from. `stale` and
`overlap` are history variables which say why the cache may lag. `ListField` is
the text fields that hold a list.

### `Dashboard` — `routes/home`, `components/layout/TopBar.tsx`

Two buttons over one polled status, each with mutations of its own. A mutation
performs its call, then refetches the status and ends with that answer; a
refetch cancels a poll that is under way. `Flip` is the relay going on or off
without a button (a save's restart).

### `CertStep`, `CertPage`, `EndpointTest`, `Figures`

`CertStep` is the wizard's certificate step: an install, then an interval of
asynchronous checks until trust or thirty seconds. `CertPage` is the page over
the cached certificate information. Trust may change outside at any moment.
`EndpointTest` is the Vercel test and its verdict. `Figures` is the arithmetic
behind the home page's numbers, each followed as its counter grows. A count of
bytes passes all the units up to EB; it is followed in grains of a power of 1024
bytes, so that each change of unit is reached by small numbers.

### `FrontScan` — `internal/frontscan`, `routes/wizard/steps/AppsScriptAccount.tsx`

A scan is a dispatch loop, a pool of workers over an unbuffered channel, and a
time limit. The `break` of the loop's `select` leaves only the `select`, so that
an expired scan skips the rest one by one, and may still hand one out when a
worker is ready; the dial looks at its own timeout and not at the context. `Hand`
and `Skip` are the two cases. Equal results come in any order. The answer fills
the wizard's field from whatever step the user is on, also over an address typed
meanwhile. One scan is followed; the button allows the next only after it.

### `MCParts`, `MCConfiguration`

Components that share no state are checked in one run: the first state chooses
the component, its actions run and the others stand still in an initial state.
The graph is the union of the components' own graphs, each explored whole; nothing
is lost, since no action of one reads or writes what another's does. Each
component's fairness is asked of it in its own behaviours.

## 4. Runs

| Run | Question | Result |
|---|---|---|
| `relay_leases` | Are slots conserved and the cap kept by the real holders, on every path? How far can the quota be overshot, does a spent account stay out, can replies end a cool-off? | holds |
| `relay_retries` | Do retries meet fresh accounts only, does every request return, do slots come back? | holds |
| `relay_rotation_saturated` | Does round robin serve every healthy account when accounts reach their cap? | violated: an account can be passed over for ever |
| `download_stream` | In-order delivery, honest progress, no orphan fetch and termination, on both kinds of connection (on an intercepted one the context does not follow the browser), with more ranges than fetchers | holds, but for a browser that holds the connection and does not read |
| `download_mid_error` | Is the body the file when a download breaks on an intercepted connection? | violated: an error response is written into the body |
| `download_cancelled` | Does a cancelled download stay cancelled? | violated: `Finish` and `Fail` overwrite the status |
| `service` | Do overlapping starts, stops and restarts, with a port that changes, ever show a connection nothing serves; are servers lost only behind an overlap; does a call that runs alone do what it says? | holds |
| `service_orphaned` | Does nothing listen that the program knows nothing of, while it shows itself as disconnected? | violated: the earlier of two overlapping starts on different ports is lost and goes on listening |
| `state_file` | Does the file stay whole and never go back, and does a saved spent account stay spent, through crashes and restarts? | holds |
| `parts` | The components on their own. Race: is a failure told only when no arm has a reply, and the worst one; does every arm end? Far end: do replies go astray only behind a failed replay, do unsafe requests go out once? Cut: do the ranges make up the file, within the cap? Logs and metrics: does the page list the newest, does the table keep the latest? Window: does a button flash or stay wrong, does an installation settle, does the page follow the trust, is a green verdict the address's own, does a figure go back, does a scan end with the fastest address in the field? | holds |
| `configuration` | Can a late handler take the user past a step; what can take back the completed setup; when may the cache lag behind the file; does a save take back anything; does a keystroke in a list touch its neighbours? | holds |
| `wizard_unfinished` | Does Start on a complete form leave the program set up? | violated: a partial save makes the file unreadable to every later handler |

**Bounds.** `relay_leases` has three requests on one account of cap two, so that
two hold the account the third one selects, one of them a batch; its quota of two
is within their reach. Its clock of four ticks runs over a window of three, a
cool-off of two and a backoff of one, so that a window rolls while a call is on
the wire and cool-offs end inside and across windows; the thresholds for
throttle and error escalation are one and two instead of five, twenty and fifty.
`relay_retries` has three accounts for three attempts, so that two earlier
refusals have to be remembered, and a batch that competes for them at a cap of
one. It and the rotation freeze the clock (`MaxTime = 0`): their properties do
not depend on time, and a cool-off then simply never ends. Symmetry is used over
the requests that are not batches, the callers, servers and ports of `service`
and the handlers of `configuration`, and never with a liveness property.

The downloads have up to three ranges to fetch, two in the air at once, so that
one has to queue; two tries each; files of one byte too few and one too many, and
one of two ranges of two bytes, whose size is the scaled one. Ranges finish out
of order, queue, fail for good, and are cancelled in each of their states. `CHECK_DEADLOCK FALSE` is set
for the download runs and for those of the window and the parts: a download and
a race end, and the bounded histories of the others do.

In `parts` the race has three arms: an order of failures needs two, and a third
can still be waiting for its timer when the race is decided. A batch has three
envelopes of every mix of shapes, so that one can fail before, between and after
two others. Every cut of a file of up to seven bytes is made. The log ring has
three places and eight entries, with limits below and above its size, so that it
wraps twice. Three hosts meet caps of one and two. Two clicks and two flips let a
second mutation and a change from outside fall into every step of the first;
three installs let a check of the first answer in the second and the third meet
what it left. Two addresses and two visits are what the endpoint test tells
apart. A scan has three addresses for two workers, so that one waits to be handed out,
and round trips that tie and differ. Figures are followed three polls long from every count within 65 of each
change of unit, in every grain.

In `configuration` two handlers at a time are what it takes to overlap; the
wizard's user takes one turn off the straight way (back, a jump, an edit that
spoils the form), starts with no file or with a complete one, and the disk may
fail at any write. Two calls make every pair of writers; of the three values for
the rest of a configuration one is rewritten to the second by a save and to the
third by the next, which is as far as `Normalize` goes on. A list has texts of up to eight characters of a
letter, the comma, the blank and the dot.

`state_file` has one
account (the file is written whole, the accounts in it do not meet), two
requests so that one is on the wire while another is counted, a clock of three
ticks over a window of two so that a window ends while the service is down, and
any number of crashes and restarts. The quota is two, so an account is spent by
its calls as well as by a quota answer. `service` has two callers with any
sequence of calls each, two ports and two servers, one of which may be an
orphan; its properties speak of one call against the rest.

**Fairness.** `RelayClient!FairSpec` is weak fairness of each request's own
steps: a started request is a runnable goroutine, `Select` never blocks, and the
HTTP client's timeout bounds the post. Nothing is assumed of the user, of the
clock or of new requests, except in `BusySpec` (used for the rotation, which is
about callers who keep asking; the starved account is never leased although they
do). `Download!FairSpec` is weak fairness of the
handler and of the fetchers taken together: a fetcher has finitely many steps,
so this already lets each of them finish. A write is fair only while the browser
reads or after it has left, when the write fails; nothing bounds it otherwise, and
`HandlerReturns` excepts the handler that has bytes for a browser that stays and
does not read. The browser and the user owe nothing.
`MCParts!FairSpec` is, for the race, weak fairness of the caller's receive and of
each arm: timers elapse, and the HTTP client's timeout bounds each post; the
caller may leave or stay. For the buttons it is weak fairness of the poll's timer
and of every call of the service and answer under way; for the scan that of the
loop and of each worker, whose dial has a timeout of four seconds; for the
certificate step that of the interval and of the calls it waits for. The user owes nothing
there either, and the trust may change outside or never.

## 5. Proofs

Each proof module extends the module it is about. The only assumptions are the
named ones on the constants, which TLC evaluates in every run, and one hypothesis
of the downloads, below. What is proved holds for every number of accounts,
requests, callers, deployments, envelopes, handlers and log entries, for files
and rings of every size, and for clocks and histories of any length.

An invariant is seldom inductive by itself. What had to be added is the part
worth reading:

**`RelayClientProofs`, `QuotaProofs`.** `IInv` adds to the type
invariant that a request's locals match its place (`LocalsMatchPlace`), that the
counters equal the holders (`LeaseConservation`), the cap on the counters, the
retry discipline and the quota bound. The strengthening is needed because
`Select` looks at a counter while the bounds are about requests: the cap becomes
a bound on holders only through conservation, conservation through the release
step only if a request knows it holds a slot, and the quota bound only because a
call that is counted leaves the wire in the same step and the calls on the wire
are within the cap. From `IInv` follow `TypeCorrect`, `LeasesConserved`,
`RetriesDisciplined`, `OvershootBounded`, and `PoolRefinement`: the client
implements `LeasePool`. `SpentStaysOutHolds` (the key fact is that a roll which
leaves the window's start alone leaves the whole window alone) and `CooloffKept`
are action properties from the same invariant.

**`StateFileProofs`.** `SysInv` is `IInv` on the figures of the process that
runs (`ClientThroughRestarts`: a restart loses none of it), with at most one
saver at the temporary file (`OneWriter`) and the snapshots ordered by age
(`InOrder`): the file is behind the temporary file, and that behind memory, where
an account is behind another figure if its window is older, or the same with no
more use up to the quota. The two depend on each other: a rename keeps the order
on disk only because no other saver has replaced what is renamed. `FileStaysWhole`,
`SavedIsNotHandedOutAgain` and `SavesInOrder` follow. The order has to cap the
use at the quota, since `Report` may count beyond it what `LoadState` takes as
spent.

**`ChunkPlanProofs`, `DownloadProofs`.** The first has the arithmetic, division
rounded up and the scaling of the chunk size among it. `DownloadInv` then counts
by sets of bytes: `Arrived` is the set of the bytes in the ranges that have come,
`Got` those ranges, and the tracker's two sums are the cardinalities of these
(`Counted`), while the browser has the bytes up to the range the writer is at
(`Upto`). That is what relates a sum in order of arrival to a stream in order of
the file. `DownloadDelivers` is the refinement of `OrderedDelivery`. Three of the
four theorems have the hypothesis `"whole" \notin Replies`: upstream answers a
range with that range or not at all. It is the setting of `download_stream`, and
it is needed: a 200 with the whole file is taken as the range (section 6), and
then neither the counts nor the stream are the file's. `FetchesEndFirst` does
without it.

**`ServiceProofs`.** `ServiceInv` says where each server is: made and not yet
published, in `API.server`, or taken for closing, and lost when in none of these
(`OnePlace`), that what is shown as connected listens, that nobody else calls
beside a call that is alone (`NobodyElse`), and, for a call that has overlapped
with no other, what it read before its next step is still so (`Lone`). The last is
what a history variable is needed for. `ConnectionIsServed` is an invariant; `OrphansNeedOverlap`,
`LoneStopLeavesOrphans` and `LoneChangeTakesEffect` speak of a step, and follow
from it. None of them needs to know how many servers listen.

**`PartsProofs`.** One invariant for each part, which the others leave alone:
`RaceInv` (an error counts as received exactly when its arm has ended and its
result was taken), `SentInv` (how often an envelope went out, by phase), `CutInv`,
`AstrayInv`, `EndpointInv`, `PageInv`, `RingInv` with `ListsInv`, `DashInv`,
`TrafficInv` and `FiguresInv`. The ring is
the hard one: place `i` holds the number congruent to it among the last `Size`,
and `Tail` unrolls them by arithmetic modulo `Size`; what a page lists is then
those numbers filtered, and stays so while the ring runs on. `DashInv` has to say
what a poll under way and a mutation under way each know, because a button is
shown from the one and withheld by the other.

Three of the parts, and the list typed into a field below, need an induction
over data. The library's theorems take an operator for it; `Least` and `Induct`
say the same of a set, from the well-foundedness of `<`. `AstrayInv` rests on
`Sorting` and `Places`: the items that are fetched can be put in order, and the
place of each is one more than there are before it. With no failed replay in
front `RIdx` counts just those, with one it counts fewer. `TrafficInv` replaces
the sums of the table by the number of its `Units`, which a request adds one to
and an eviction only takes from; `SumIsCount` shows by induction that the fold
of `MapThenSumSet` is that number, whatever order it takes the rows in. `SetCap`
keeps no more than the cap because the host seen longest ago among those kept
has all the others after it. For the figures each unit's range, from bytes to EB, ends where the
next begins (`BytesRanges`, `UptimeCuts`), and a quotient that is no smaller is
rounded to one that is no smaller (`RoundingGrows`).

**`ConfigurationProofs`.** `SetupInv`: a `Next` under way carries the step it was
clicked on, and what was checked before it goes on is enough for the step after
that one (`Covered`); a save that saw setup done keeps it (`KeepsDone`).
`PagesInv` has two parts. `Announced` needs no condition: a cache that does not
agree with the file (`Agrees`, above) will hear of it from a handler that is about
to answer. Nothing is assumed of `Normal` but its type. `AloneInv`
holds as long as the user has waited for each answer: one handler is active, what
it is about to write or has written is the file but for its own change, the form
follows the cache (or is ahead of it by a switch, `Toggled`), and a fetch has
read the file as it is. Only the wizard's finish has company, since it has
announced its save and goes on to its mark; the mark may rewrite the file once
more, and what the cache will hold still agrees with it. For a list typed into a field,
`ReadSteps` and `DisplaySteps` say what the folds of `Read` and `Display` have
come to after each character and entry. What is read behind a comma is read on
its own (`CommaParts`), so a text is its first comma's two sides; `Before` and
`Behind` leave of the two sides of the cursor a piece without a comma each, and
a key changes what those two make, which is two entries at most. An entry as the
form holds it (`Canon`) is kept as it is, with or without a blank before it, and
therefore what is displayed parses to the same list (`DisplayedIsParsed`).

Only model-checked:

- the liveness properties (`EveryRequestReturns`, `SlotsComeBack`,
  `HandlerReturns`, `EveryArmEnds`, `ShowsTheTruth`, `InstallSettles`,
  `ScanSettles`) and the rotation: they rest on fairness and `ENABLED`, which the
  prover does not handle;
- the properties of the violation runs, and the downloads in which a range is
  answered with the whole file.

## 6. Findings

Each is the violation run of the same name; `PROJECT.json` quotes the line the
code disagrees with.

- `relay_rotation_saturated`: README.md:405 promises classic round robin over
  healthy accounts; the index is taken modulo a list whose length changes.
- `download_mid_error`, `download_cancelled`: an error response inside a body, a
  cancelled download that is shown as done or failed.
- `service_orphaned`: `Publish` (api.go:177) overwrites the server of a start that
  overlapped with it on another port; a later Stop closes one of the two, and the
  other listens until the program ends.
- `wizard_unfinished`: with no configuration file, `Next` on the second step
  saves an account that has no script IDs yet. `Load` validates, so from then on
  `GetConfig`, `MarkSetupCompleted` and `Start` fail, `persistDraft` keeps its
  error to itself and the wizard walks on to its end, where the gate sends the
  user back to the first step. Only removing or repairing the file by hand ends
  this.

What else came up while modelling, without a run of its own:

- A 200 answer to a range request is taken as the range, whatever its length
  (download.go:474, although 192 treats a 200 as "doesn't support Range").
- An item whose replay failed is skipped without its place in `responses`
  (Code.gs:254): the item after it gets an earlier item's answer
  (`RemoteBatch!EveryReplyIsItsOwn` states what `DoBatch` assumes;
  `AstrayOnlyAfterFailedReplay`, which is checked, bounds what goes wrong).
- A fetch that is under way when its query is invalidated with nothing showing it
  answers with the old value and clears the mark, so that the pages may show
  pre-wizard values after all (against the comment at routes/wizard/index.tsx:147).
- `finish` marks the setup even when its save has failed, and does not tell the
  cache; the next save of the Settings page takes the mark back.
- Both exceptions are named in `StaleOnlyBehindALateAnswer` and
  `SaveTakesBackNothing`.
- In the certificate step a late check of one install frees the button during the
  next; a third click then overtakes `pollRef`, and the second's interval is
  never cleared (`Overtaken`, which `InstallSettles` exempts).
- The list fields drop a comma as it is typed, since the text is redisplayed from
  the list; number fields snap to their minimum while a number is typed.
- An address of a scan that was not reached can be chosen in the Settings list
  (NetworkTab.tsx:67), though not in the wizard's (AppsScriptAccount.tsx:216).
- The logs page's button "warn" (routes/logs/index.tsx:27) lists nothing, whatever
  warnings there are: line 56 compares the button's name with the level in lower
  case, and the Go side writes "WARNING" (logs.go:15). `PageIsTheNewest` says so.
- A download whose range is reset or closed early upstream is shown as cancelled,
  though neither the user nor the browser cancelled it: `isBrowserDisconnect`
  (download.go:576) goes by `io.EOF` and the words of the error.
- A browser that stays connected and does not read keeps the handler, and with it
  the download's entry, for as long as it likes: the server has no write deadline.
- The pages show what was sent and not what the save made of it (queries.ts:84)
  until the next fetch, which only an invalidation causes: a cleared list of
  extensions or a domain in mixed case stays on the screen as typed.
- The wizard's checks let pass what `Validate` refuses: an address with its scheme
  in capitals (index.tsx:178, config.go:498), a placeholder script ID (182, 506).
- Any fetch of the configuration discards unsaved edits of an open form, and a
  regenerated key is put into the form of the render it was clicked in
  (SecurityTab.tsx:27).

Some sentences of the documentation say something else than the models: a `fanout_hedge_delay_ms` of 0 cannot be had, since
`SetDefaults` makes it 150 (config.go:377, against the comment at 130); the
defaults of 20 calls in flight and two arms allow 40 executions, above the ~30
that config.go:135 wants to keep under; the listener does not retry when no
account is free (config.go:139 says it does); `least_loaded` weighs calls in flight as well as the usage
ratio README.md:404 names, and `Do` does not retry the transient errors
config.go:142 lists (client.go:122 says why).

## 7. Not modelled

`PROJECT.json` lists every component with its reason. What could still be
modelled is the last group of the plan. The rest transforms data without keeping
state (the wire protocol, header rewriting, the Python relay, translations), is
static (the deployment guides, the terminal page, styling), or calls the
operating system (the certificate store), whose answers the models take as
inputs. Of the window's own state the sidebar's drawer, the theme and the error
boundary are left out: no call of the service depends on them.
