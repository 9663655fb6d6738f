# ntpool in TLA+

ntpool is a solo mining pool in one Go process: it asks a coin node for block
templates, turns them into Stratum V1 jobs, checks the shares that miners send
back, and submits a share that meets the network target as a block. This
directory holds TLA+ models of its core, the TLC runs that check them on small
instances, and TLAPS proofs of the properties for every value of the constants.

Run a check with `tlc -workers 2 -config jobs.cfg MCJobDistribution.tla` (the
module of each run is in the table below), a proof with
`tlapm JobDistributionProofs.tla`.

## 1. Inventory of the system

| Component | Source | State | Operations | Talks to |
|---|---|---|---|---|
| Template loop | `main.go` | `templateMu`, `lastTemplateFingerprint`, last error and algo logged | `updateJob`, called every 3 s by the poller and by the ZMQ callback; shutdown | RPC client, job manager, stratum server |
| Job manager | `pool/job.go` | `jobCounter`, `currentJob`, `jobMap` under `jm.mu` | `CreateJob`, `GetJob`, `GetCurrentJob`, `TemplateFingerprint`, merkle branch | template loop, session handlers |
| Stratum server, jobs side | `stratum/server.go` | `sessions`, `sessionCounter` under `s.mu` | `handleConnection`, `handleAuthorize`, `BroadcastJob`, `sendJobToSession` | job manager, sessions |
| Stratum server, shares | `stratum/server.go` | candidates of one share (local) | `handleSubmit` and the byte-order candidates | job manager, session, RPC client |
| Stratum server, blocks | `stratum/server.go` | `foundBlocks` (`blocksMu`), `found_blocks.json` (`saveMu`), `witnessRejected` | `recordFoundBlock`, `saveFoundBlocks`, `loadFoundBlocks`, the witness retry | RPC client, disk, notifications |
| Connection admission and stop | `stratum/server.go` | `activeConns`, `listener`, `stopChan` | `Start`, `handleConnection`, `Stop` | main |
| Session | `stratum/session.go` | difficulty, vardiff history, counters, flags, `writeMu` | `RecordShare` (vardiff), `EffectiveSubmitDiff`, `SubmitBlocker`, `Disable`/`Ban`/`Resume`, `WriteJSON` | handler, broadcaster, dashboard |
| Duplicate filter | `stratum/duplicate.go` | `ring`, `next`, `seen` under `d.mu` | `SeenOrAdd` | `handleSubmit` |
| RPC client | `bitcoin/rpc.go` | health, learned client rules | `Call`, `GetBlockTemplate` (rule and algo retries), `SubmitBlock` | node |
| ZMQ subscriber | `bitcoin/zmq.go` | connection, health, `stopChan` | `connectLoop`, `handshakeAndSubscribe`, `readLoop`, `Stop` | node, template loop |
| Coinbase and witness | `pool/coinbase.go`, `pool/witness.go`, `pool/address.go` | none (pure) | coinbase parts, addresses, witness commitment, merkle root | job manager, `handleSubmit` |
| Hashes and targets | `crypto/sha256.go` | none (pure) | targets, difficulties, merkle fold, header | `handleSubmit` |
| Notifications | `stratum/server.go` | `notificationStatus` under `notificationMu` | begin, finish, send, test | ntfy, Discord |
| Dashboard | `web/server.go`, `public/` | websocket clients, market quote, health history under `w.mu` and others | HTTP handlers, broadcaster, quote poller | stratum server, RPC and ZMQ health |
| Configuration | `config/` | read once | `LoadConfig`, coin profiles | all |

What is hard, and what makes each part right:

* **Template loop, job manager, broadcasts.** Two goroutines run `updateJob`;
  one handler goroutine per session sends jobs too, without its lock. A miner
  must not be left without the current job, must not be set back to an older
  one, must not lose work on the block being mined, and must not be left on
  work for an abandoned block. A job id must never come to mean another job. A
  changed template must reach the miners - also when a peer stops reading its
  socket, and there it does not.
* **Block submission.** It happens perhaps once in the life of a pool, against
  a node whose rules the profile may have wrong, with two handlers at once in
  the worst case, over an RPC that may fail after the node took the block. A
  valid block must not be lost, and what the node refused must not be recorded.
* **Found-block history.** Saves run concurrently and the process may end
  between the steps of a save.
* **Duplicate filter.** It must never count a remembered share twice, nor
  reject a share for ever because of a key it should have forgotten.
* **Session.** Vardiff against shares in flight, and operator actions between
  the check and the use of a flag.
* **Connections.** The limit counts before it checks; `Stop` may miss a
  connection accepted a moment ago.
* **Dashboard and shutdown.** One goroutine per browser, a broadcaster that
  writes under the lock they all need, and a `Stop` that needs it too; `main`
  stops one part after the other while the rest goes on.
* **RPC and ZMQ.** Bounded retries that drop parameters, reconnects, a stop
  during a dial.
* **Pure code.** A block is put together by five functions at three times, from
  a coinbase of the pool's own and transactions it has to read itself. Byte
  orders, length prefixes, odd merkle levels, the commitment and the scripts of
  addresses must all be as the node reads them, or the one block of the year is
  worth nothing.

The complete list, at its lines, is in `PROJECT.json` under `hazards`.

## 2. Plan

The most important behaviour comes first: that miners work on what the node
wants, and that a found block is not lost.

| Order | Module | About | State |
|---|---|---|---|
| 1 | `JobManager` | the table of jobs | done, proved |
| 2 | `JobDistribution`, extends 1 | templates to jobs to miners | done, safety proved, liveness checked |
| 3 | `RecentKeys`, `ShareDeduper` | abstract and detailed duplicate filter | done, refinement checked and proved |
| 4 | `FoundBlocks` | history, saves, crashes | done, safety proved |
| 5 | `BlockSubmission`, extends 4 | witness retry, lost answers, concurrent finders | done, safety proved, liveness checked |
| 6 | `Shares`, instantiates 3 | `handleSubmit` up to acceptance, vardiff, shares in flight, operator actions | done, safety proved |
| 7 | `GbtClient` | rule and algo retries of `GetBlockTemplate` | done, proved |
| 8 | `ZmqSubscriber` | connect loop, callback, `Stop` | done, proved |
| 9 | `NodeLink`, extends 7 and 8 | both ways to the node, joined by `templateMu` | done, safety proved, liveness checked |
| 10 | `Connections` | accept loop, limit, clean-up, `Stop` | done, proved |
| 11 | `Dashboard` | websockets, broadcaster, `Stop` | done, proved |
| 12 | `Shutdown`, extends 10 and 11 | `main` stopping both | done, safety proved, liveness checked |
| 13 | `TxData`, `MerkleTree`, `Coinbase` | reading transactions, the two trees, the coinbase | done, proved |
| 14 | `ShareSearch` | the headers tried for one share | done, proved for the orders it knows |
| 15 | `ShareSubmit`, extends 13, 14, `ShareDeduper` and `NodeRules` | from a template to a block the node takes | done, proved |

Abstract specifications: `RecentKeys` for the duplicate filter, `JobManager` for
`JobDistribution`, `FoundBlocks` for `BlockSubmission`, `ShareDeduper` for
`ShareSubmit`, `Connections` and `Dashboard` for `Shutdown`. The detailed or
composed module is proved to implement the abstract one each time. `NodeRules`
is the other kind of reference: what the node demands, written without the
pool's readers and trees, by which the pool's blocks are judged.

## 3. The models

### JobManager and JobDistribution

`JobManager` is `pool.JobManager`. A template is a member of `Template`; a job
is its id with its template, because the coinbase, the merkle branch and the
header fields are functions of the template. `CreateJob` holds `jm.mu` from its
first to its last line, so it is one step, the eviction loop included
(`Newest`). Job ids are numbers; the code writes them as hexadecimal text.

`JobDistribution` composes it with the template loop and the sessions.

| TLA+ | Code |
|---|---|
| `NewBlock`, `Reorganise`, `RefreshTemplate` | the node, external: what `getblocktemplate` would return now, and the ZMQ message (`notified`), which may be lost |
| `Acquire(r)` .. `StoreFingerprint(r)` | `updateJob`, run by the poller or by the ZMQ goroutine; one step for each place where another goroutine can come between |
| `upc`, `update`, `unsent` | program counter and locals of `updateJob`; the sessions `BroadcastJob` has not come to |
| `HasNews`, `CleanJobs` | the fingerprint comparison and the `cleanJobs` decision |
| `Snapshot`, `SendBroadcast` | `BroadcastJob`: the copy of the session list, and a blocking write per session in any order (Go map order) |
| `Connect`, `Disconnect` | `handleConnection`; a ban and the idle timeout end a session too |
| `Authorize`, `LoadCurrentJob`, `SendHeld` | `handleAuthorize`, which sends the job it read a moment ago with `clean_jobs` TRUE |
| `SubmitRetargets`, `SendHeld` | `handleSubmit` as far as it bears on jobs: vardiff re-sends the job *of the share* |
| `Stall` | a peer that stops reading: `WriteJSON` has no deadline |
| `work`, `given`, `broadcast`, `late`, `overtaken` | what a miner does with `mining.notify`, and history for the properties |

A template has a height, a previous block (numbered in the order the node had
them, so `prev` stands for the hash), a body (everything else the fingerprint
covers) and a clock, which it does not cover.

`NoMissedJob` and `TemplateReachesMiners` are about the work a miner holds
(`HasWork`). One case takes the current job away again, and they name it: the
handler reads a job, a broadcast brings a later one, and the handler then sends
what it read with `clean_jobs` TRUE (`overtaken`). The miner is left with the
superseded job until the next broadcast. The run `jobs_refresh` is about the
same send.

### RecentKeys and ShareDeduper

`ShareDeduper` is `shareDeduper`: the ring that first grows and then is
overwritten in a circle, and its index. A key is one spelling of a share:
`shareKey` joins the strings as they were sent. `RecentKeys` says what the
filter promises, without a ring; `ShareDeduper` implements it with the ring read
from its oldest key on (`OldestFirst`).

### FoundBlocks and BlockSubmission

`FoundBlocks` is the history. A save is three steps, because the code does them
under three different locks: `CopyHistory` under `blocksMu`, then - after the
encoding - `BeginWrite` and `EndWrite` under `saveMu`. `os.WriteFile` truncates
the file first, so between the two the file is `Torn`: that is what a process
that ends there leaves behind. `FailOpen` is a file that cannot be opened, which
leaves the old one; `FailWrite` is an error after that. Both are logged.
`Restart` is the end of the process at any point with `loadFoundBlocks` of the
next one.

`BlockSubmission` is the last part of `handleSubmit`, for several sessions at
once. The node is external: it may refuse witness data (`legacyNode`) whatever
the coin profile says, may refuse a block for other reasons, and an RPC call may
fail before or after the node took the block (`NodeAnswer`). `Finder` says which
session finds a block: `extranonce1` makes blocks of two sessions different.
`DecideWitness`, `SubmitBlock`, `LearnRejection`, `Retry` and the ends `GiveUp`
or `RecordFound` .. `Announce` follow the code; `witnessRejected` is shared.

### Shares

`Shares` is one session: what becomes of the shares of its miner, how vardiff
moves its difficulty, and the operator who stops it.

| TLA+ | Code |
|---|---|
| `CheckBlocker`, `StaleJob`, `Judge`, `Credit` | `handleSubmit` in the places where the operator or the clock can come between: `SubmitBlocker`; `GetJob`; the duplicate filter with `EffectiveSubmitDiff` and the acceptance; `RecordShare` with the `set_difficulty` after it |
| `Retargeted`, `Rounded`, `RetargetDue`, `Kept` | the arithmetic of `RecordShare` |
| `RequiredDiff` | `EffectiveSubmitDiff` |
| `Subscribe` | `handleSubscribe`, which sends the difficulty at any time |
| `DisableSession`, `BanSession`, `CloseBanned`, `ResumeSession` | the dashboard's `/api/admin/worker`; a ban sets its flag first and closes the connection a step later |
| `HandlerEnds` | `handleConnection` after the connection is closed; until then it may still work on lines it had buffered |
| `Filter!SubmitKey` | the duplicate filter, by its abstract specification |
| `Find`, `Resend`, `Receive` | the miner, external: it works at the difficulty it was told last and its shares just meet that, and it may submit one again |

Difficulties are whole numbers: vardiff rounds to whole numbers, and so they
are unless a configured one is not. A step of vardiff is always 3/4 or 5/4,
because inside of half to twice the target rate nothing happens and the ratio is
clamped. All times are in one unit. The miner is authorized. Sessions share none
of this state, so one is enough. `found`, `epoch`, `epochEnd`, `credits`,
`forgotten` and `slipped` are history.

Two things the model shows and the properties state: at difficulty 1 vardiff
never rises and at 2 it never falls, because 5/4 and 3/4 round back; and a
`DEFAULT_DIFF` outside the limits stays until vardiff first moves.

### GbtClient, ZmqSubscriber and NodeLink

`GbtClient` is `GetBlockTemplate`: one step per request with its answer. The
node is external: it demands rules, refuses rules, takes the algorithm parameter
or not, and may stumble or change during a call (`NodeChanges`, `Refused` with
any error); `troubled` marks such calls. `AskWithAlgo` and `AskWithRules` are
`requestBlockTemplate`, `Learn` is what the loop makes of the error, `AskPlain`
the last request.

`ZmqSubscriber` is the goroutine of `connectLoop`, with `Stop` called from
main. `zpc` says where it stands: `CheckStop`, `Dial` or `DialFails`,
`StoreConn`, `Handshake`, `Read`, the callback, `Sleep`. Connections are numbered
in the order they are made; `opened` and `up` say which end still holds one open.
Closing a socket under a goroutine that reads from it ends the read, so after
`StopClose` only `HandshakeFails` and `ReadFails` are possible there. `Stop` is
three steps: it closes `stopChan`, takes `z.conn`, and closes it.

`NodeLink` joins them: the callback of the subscriber and the poller both run
`updateJob`, which holds `templateMu` (`caller`) during the requests and the
broadcast of the job made of the answer (`phase`), so nothing is read from ZMQ
meanwhile. A write of the broadcast may be `stuck` on a miner that does not
read, for any time, until that miner reads or leaves, or the stratum server's
`Stop` closes its connection (`CloseMiners`), which `main` calls after the
subscriber's. Which job goes to whom is in `JobDistribution`.

Two things the model shows. A node that demands three rules the profile does not
name is not served: the third is learned, but not asked with. And a `Stop` that
comes while the subscriber is dialing closes nothing; the properties name that
case (`missed`). And a miner that stays and never reads again keeps the callback
from returning, so announcements are noticed only if none does (`MinersGoOn`);
on shutdown its connection is closed, unless it was registered after the stratum
server's `Stop` had listed the sessions (`miners = "missed"`).

### Connections, Dashboard and Shutdown

`Connections` is the accept loop and `handleConnection`, one step for each part
another goroutine can come between: a connection is `accepted`, counted and
`admitted` or refused, a session registered (`serving`), and on the way out
`closed`, unregistered (`released`) and counted down (`done`), in the order of
the deferred calls. `Stop` closes the listener, lists the sessions under `s.mu`
and closes one after the other. Connections are numbered in the order they are
accepted. `extranonce1` is the session counter modulo `Extranonces`.

`Dashboard` is the `/ws` handler, the broadcaster and the dashboard's `Stop`.
`wmu` is the mutex `w.mu`; sections that cannot block are one step that needs it
free, the broadcaster's sweep holds it from `Tick` to `SweepEnds` with a blocking
write per client between. `PeerStalls` is a browser that keeps the connection
and reads nothing. `Start` runs in a goroutine of its own, so `Stop` may come
before there is a server.

`Shutdown` is `main` from the signal on: `StopMiners` is `stratumServer.Stop`,
`StopBrowsers` is `webServer.Stop`, and when `main` returns all goroutines end.
The block subscriber's `Stop`, which comes first, returns at once and is in
`NodeLink`.

The models show three gaps, which the properties name: a connection that was
accepted and not yet registered when `Stop` listed the sessions (`missed`), a
websocket between its upgrade and its entry in `w.clients` (`unlisted`), and a
dashboard that starts after its `Stop`. All close with the process. The fourth,
a browser that does not read, keeps the process from ending.

### TxData, MerkleTree, Coinbase, ShareSearch and ShareSubmit

These look inside what the other models take whole: a job, a share, a block.

| TLA+ | Code |
|---|---|
| `TxidFromData`, `TxHasWitness`, `TxWitnessHash`, `AddWitnessNonce` | the readers and writers of serialised transactions, over tokens: a count, a length or a byte of a script is a token, and so is each field of a fixed width. `CompactLimit` stands for 253 |
| `Leaf`, `CalculateMerkleBranch`, `CalculateMerkleRoot` | the branch of a job and the root folded over it; an entry of a template gives `txid`, `hash` and `data`, or not |
| `MerkleRoot`, `EffectiveWitnessCommitment` | the tree of the wtxids and the commitment |
| `EncodeBip34Height`, `AddressToScriptPubKey`, `IsValidAddress`, `BuildCoinbaseTransaction` | the coinbase, in digits to the base `ByteBase`; an address is a text with what base58 and bech32 decode it to |
| `FeeSatoshis`, `Floats` | the fee in float64, `int64(float64(value) * (PoolFeePercent / 100.0))`: the percentage is a decimal of any length, rounded to the nearest float64 when it is read, when it is divided and when it is multiplied, and the product is cut off. `Significand` stands for 2^52 and `Scales` for the powers of two |
| `getBytePermutations` .. `getVersionCandidates`, `IsCandidate` | the headers the four nested loops of `handleSubmit` try; a version is the set of its bits |
| `DuplicateShare`, `LowDifficulty`, `Accept` | `handleSubmit`: the filter, the loop that finds nothing, the loop that stops at a header. The candidates come in the order of a Go map, so any that meets the target may be first |
| `BlockOf` | `buildFullBlockHex` |
| `NodeRules` | the node, external: serialisation, txid and wtxid, merkle root by its definition, BIP34, BIP141, the reward |

`Sha256d` is a free constructor, so two hashes are equal only when what was
hashed is equal. Which headers hash low is the luck of the miner:
`scenario.lucky`, chosen freely. A scenario also fixes the configuration, the
template and the two targets. A share is what the miner hashed (`meant`) and
what it sent.

What the model shows and the properties name: a header that meets the network's
target and not the session's is refused (`TooEasyForSession`), and another order
of the same bytes that meets the session's target by chance may end the loop
before the one that solves the block (`OtherFoundFirst`). Templates of which the
pool can make no valid block are named in `OutOfReach`: heights up to 16, for
which BIP34 has opcodes; a fee above 100 %; entries without data; a foreign
format without a txid; witness transactions on a chain said to take none.

Operators named as mutants in the modules are plausible bugs of the definition
that follows them; no specification uses them.

## 4. Runs

| Run | Shows | Bounds and why they are enough |
|---|---|---|
| `jobs` | all safety of job distribution, with a peer that may stall | 1 session, 4 templates over 2 heights and 3 tips, 2 bodies, `MaxJobs` 2. Sessions touch each other only through the time a broadcast takes, which one session with free interleaving already makes arbitrary; with 4 templates and 2 jobs kept, eviction happens twice. 2.2 million states |
| `jobs_live` | a template that stays reaches every miner that stays | as above, 3 templates, no stalling peer |
| `jobs_stall` | a violation: with one peer that stops reading the pool stops serving templates | 1 stalling session, 2 templates |
| `jobs_refresh` | a violation: a handler sends a same-height refresh with `clean_jobs` TRUE | 1 session, 2 templates |
| `blocks` | all safety of block submission and of the history | 2 sessions, 3 blocks, a history of 2: concurrent finders, one session with two blocks, trimming, any number of restarts. 3.1 million states |
| `blocks_live` | every handler of a found block comes to its end | 2 sessions, 2 blocks |
| `blocks_lost` | a violation: a found block is missing from the file after both saves returned | as `blocks`, and no write fails |
| `shares` | all safety of a session's shares | 4 shares, one on the way besides the one in the handler, one resent, a filter of 2, 7 units of time with a retarget every 2 and a window of 5: two changes of the difficulty, up twice or up and down, shares of both earlier difficulties, forgotten keys. 3.1 million states |
| `node_link` | safety of the ZMQ connection and of the template requests; announcements are acted on; `Stop` ends the subscriber | 3 kinds of node, among them one that demands more than can be learned and one that takes no rules; it may change at any time. 2 connections, so one is made after another was lost; 2 blocks, so one can wait while the other is called back. Miners may make any broadcast wait, for a time or for ever. 306 000 states |
| `submit` | which shares count, which blocks are submitted, that the node takes them and the reward is paid; the filter keeps its promise | 34 scenarios: templates of 0 to 7 transactions, so every shape of three levels of both trees, legacy, segwit and foreign, with the mixes of fields nodes give; wallet addresses of every kind; fees of 0, 1/2, 3.99, 63.78, 8.65, 100 and 150 % of 127 satoshis, with a `Significand` of 256, so that one comes out a satoshi low and one a satoshi high; heights at each change of the number of bytes; shares in all seven byte orders, shortened and wrong; targets on both sides of each other; a cache of 3 that wraps. `ByteBase` 4, two bits a byte: the orders and carries are those of four bytes |
| `payout` | a violation: an address `IsValidAddress` passes is paid to a stray script | one scenario, a text of five letters |
| `shutdown` | admission, extranonces, both `Stop`s, and that shutdown ends | 3 connections with a limit of 2 and 2 extranonces: one refused, and a wrap of the counter with two live sessions; 1 browser that may stall or leave at any point. Browsers meet only at `w.mu`, which the broadcaster takes at any time. 660 000 states |

`Template` bounds the node's steps (`MaxTime`); nothing else in the job runs is
cut, since a node that stops changing leaves finitely many states. Blocks are
recorded at most once each, which bounds the history. In `shares`
`MaxTime`, `MaxInFlight` and `MaxResends` bound the clock and the miner; the
proofs do not use them.

Deadlock is checked everywhere but in `jobs_stall`, where the stalled system
really comes to a stop, in `shares`, where the clock and the shares run out and
the connection may be gone, and in `shutdown`, where `main` returns.

**Fairness.** The poller's ticker never stops and Go mutexes hand the lock to a
goroutine that has waited long, so taking `templateMu` is strongly fair for the
poller. An RPC that is tried for ever succeeds again and again (the node is up);
everything else of `updateJob` and of a handler that has begun to send is weakly
fair. No peer is made to connect, read or submit, no node to find a block. The
ZMQ goroutine need not take the lock: the poller alone is enough. In
`blocks_live` a handler that can go on does: the HTTP client has a timeout, so
every RPC returns. In `node_link` the same holds of the template requests and of
dialing, which has a timeout of its own; the ZMQ goroutine takes `templateMu`
under strong fairness, as Go's mutex provides. `End` is strongly fair too: a
broadcast writes to finitely many miners, so it is over unless one of them keeps
it waiting for good. No miner is assumed to read or to leave; `BlocksAreNoticed`
says instead what it needs, `MinersGoOn`, and TLC refutes it without that.
`main` goes on to the stratum server's `Stop` (`CloseMiners`). There the
handshake need never be answered and nobody need call `Stop`, but a `Stop` that
was called goes on. In `shutdown` the steps of the stratum server's `Stop` and
of a sweep that has begun are weakly fair, those of the dashboard's `Stop`,
which waits for `w.mu`, strongly (the mutex hands itself to who waits long).
Nothing is assumed of miners, browsers, handlers or the ticker.

## 5. Where code and documentation disagree

* `jobs_stall`: the README (line 234) says that the template is checked again
  every few seconds and a new job is broadcast when it changes. `BroadcastJob`
  writes to one socket after the other without a write deadline while
  `updateJob` holds `templateMu`. A peer that stays connected and reads nothing
  blocks the write once its socket buffer is full, and from then on neither the
  poller nor ZMQ fetches a template, for all miners.
* `jobs_refresh`: `main.go` (96-97) says that a same-height refresh must keep
  old jobs valid. `handleAuthorize` sends the current job with `clean_jobs` TRUE.
  When a template refresh comes between the session's authorization and that
  send, the broadcast gives the miner a job first and the handler then flushes
  it - even with an older job of the same block - and a second
  `mining.authorize` on a connection does the same.
* `blocks_lost`: `recordFoundBlock` "prepends a block to the history and
  persists it" (server.go:183). Two saves copy the history in one order and may
  write it in the other: the file then lacks the later block until the next one
  is found. `saveMu` only keeps the writes apart.
* `payout`: `IsValidAddress` "reports whether address decodes into a spendable
  scriptPubKey" (address.go:19), and the configured wallet is checked with it.
  `AddressToScriptPubKey` tries bech32 first on any text with exactly one `1`
  and only letters of the bech32 alphabet behind it, the last six aside, and
  looks at neither prefix nor checksum (coinbase.go:142). A base58 address of
  that form, for example `1Lz4RGSdKmw5tuFZN2FFHEesDDvT5bZi9u` or DigiByte's
  `DNkEYq7QYYUAEZA9CmV7abM6i21878PyeC`, passes the check and the reward goes to a
  script that is not its own.
* Found with `shutdown`, without a run of its own: the README (line 240) says
  that on a signal the pool stops accepting, closes the miners' sessions and
  shuts the dashboard down before the process ends. A browser that keeps its
  websocket open and reads nothing blocks the broadcaster, which holds `w.mu`,
  and the dashboard's `Stop` waits for that without a limit: `ShutdownEnds`
  has to except it.
* Found with `Shares`, without a run: the README (line 251) says that
  `requiredDiff` may be `PreviousDiff` for a while when vardiff has just lowered
  the difficulty. `EffectiveSubmitDiff` does that after a rise. The code is
  right: after a fall the new difficulty accepts the shares of the old one.

* Found with `Coinbase`, without a run: the README (line 95) and `.env.example`
  (line 41) say that `COINBASE_TEXT` is put into the coinbase transaction. It is
  read (config.go:117) and used nowhere: the coinbase input has the height and
  the extranonces only.

## 6. Proofs

All theorems hold for every value of the constants that satisfies the named
assumptions: any number of sessions, any set of templates, any cache size, any
history length. There is no bound on the number of steps.

| Module | Theorems | Argument |
|---|---|---|
| `JobDistributionProofs` | of the table: types, `JobWindow`, `IdsAreNeverReused`; of the distribution: types, `BroadcastsInOrder`, `NoMissedJob`, `NoStaleWork`, `DistSpec => JMSpec`, `BroadcastKeepsWork`; and two that no run needs to repeat, `CurrentJobNeverGoesBack` and `NewJobIsNews` | the ids in the map are an interval that ends at the counter, and evicting the smallest keeps it one; `Core`: exactly the refresher inside `updateJob` holds `templateMu`, what its locals hold at each place and how old it is, and that the stored fingerprint is the current job's between two broadcasts. On top of it one strengthening per property: `ServeInv` says who will bring a missing job, or that the handler has overtaken the broadcast, and that work was given, `StaleInv` that old work is flushed or a clean broadcast is still to come, `ChainInv` that two templates with the same previous block have the same height, no job lies on a later tip than the current one, and while a clean job is broadcast all others lie on earlier tips |
| `BlockSubmissionProofs` | of the history: types, `OneWriter`, `DiskIsAnEarlierHistory`, `QuietSavesAreComplete`; of block submission: types, `SubmitSpec => FBSpec`, `LearnsTheTruth`, `ValidBlocksAreKept`, `OnlyAcceptedBlocksAreRecorded` | `HistoryInv`: what a save holds is an earlier history too, and prepending shifts every earlier history by one; `QuietInv`: without an overlap there is one save, and it carries the whole history; `HandlerKnows`: what the answer tells at each place of the handler; `RecordInv`: an accepted block that is not yet recorded is not in the history |
| `NodeLinkProofs` | types, `RulesAreLearned`, `PlainNodesServe`, `NoLeak`, `StopCutsOff` | `LearnInv`: in a call without trouble the rules hold the profile's and only learned ones beyond, as many as attempts, and the plain request is reached only when the node cannot be learned; `CutInv`: until `Stop` takes `z.conn`, that is the connection in use, and a loop that was not dialing then never dials again |
| `SharesProofs` | types, `WithinLimits` and the six other properties of the run `shares` | `NextDifficulty`: one step of the arithmetic; `SpaceInv`: changes are an interval apart, the last one at `lastDiffChange`; `TellInv`: what the miner was told or mined at is the session's last difficulty, the one before, or older - with `SpaceInv` the older ones were replaced longer ago than the grace window; `SlipInv`; `OnceInv`: what was or is about to be counted is remembered |
| `BlockDataProofs` | `BranchLeadsToRoot`, `MerkleRootIsRoot`, `TxidIsRead` | a branch is followed level by level: at each, the node above the coinbase with the siblings collected so far and the rest of the level is what the node's tree has there (`BranchLeadsToRoot`); a serialised transaction is followed part by part: the reader stands at the place where the next part begins, for any number of inputs, outputs, stacks and items |
| `CoinbaseProofs` | `WholeRewardIsPaidOut`, `BlockBeginsWithHeight`, `MinedBlockIsAccepted` | the float64 fee is within the reward and, by the sum of three rounding errors (`ErrorsOnOneDenominator`), next to the exact one (`FeeIsNearlyExact`); the outputs the node reads are the ones put together, and their values add up; the digits of a height are minimal and give it back; the node reads the coinbase back with all its parts, its txid is the hash the root was computed with, with or without the reserved value, and the body is the coinbase before the transactions in the order of the tree |
| `ShareSubmitProofs` | of the filter: types, `IndexMatchesRing`, `DedupSpec => RemembersRecentKeys`; of a submission: types, `SubmitSpec => DedupSpec` and with it `RemembersRecentKeys`, `HonestSharesCount`, `SolvedBlocksAreSubmitted`, `RewardIsPaid`, `SubmittedBlocksAreValid` | growing appends to `OldestFirst`, overwriting drops its head and appends; a header reported in an order the code knows is a candidate (`ReportedIsCandidate`); the verdict on a share is right when it is given and nothing it rests on changes (`VerdictsAreRight`). `HonestSharesCount` and `SolvedBlocksAreSubmitted` assume that the extranonce2 has four bytes or fewer and that every share is `Reported`, each field in one of the seven orders; for a miner with an order of its own they do not hold. The two on blocks need no induction over steps: they hold of every block that can be made of a scenario, by the theorems of `CoinbaseProofs` |
| `ShutdownProofs` | types, `ShutdownSpec => ConnSpec /\ DashSpec`, `AdmissionIsExact`, `SearchSpacesDiffer`, `ShutdownLeavesNothing` | `NumberInv`: sessions carry different numbers, none above the counter; `StopInv`: from the listing on every open connection is listed, missed or about to be closed by its handler; `DashInv` says the same of websockets, and both carry over to the composition by the refinement |

The assumptions are `MaxJobsAssumption`, `DistributionAssumption`,
`MaxAssumption`, `FoundBlocksAssumption`, `FinderAssumption`,
`SharesAssumption`, `GbtAssumption`, `NoRuleAssumption`, `ZmqAssumption`,
`ConnectionsAssumption`, `DashboardAssumption`, `CompactAssumption`,
`FloatAssumption`, `CoinbaseAssumption`, `SearchAssumption`, `ShareAssumption`,
`PayoutAssumption` and `TemplateAssumption`: the rules are a finite set, sizes
are positive, model values differ, a template has its fields, the grace window
(15 s) is shorter than the retarget interval (45 s), `MIN_DIFF` is not above
`MAX_DIFF`, float64 has whole significands and powers of two down to a fraction
as fine as the significand is long. The last two are about the configuration and
the node. `PayoutAssumption`: the configured addresses are addresses, each with
the script of its kind, the reward is a whole number of satoshis, at most 2^51
(more than any coin pays for a block), and the pool's fee goes to another script
than the miner's share. It does not say that the pool reads an address rightly:
`RewardIsPaid` excepts the ones of the run `payout` (`Misread`), and percentages
above 100.
`TemplateAssumption`: each entry of a template has the txid and the data of its
transaction or lacks them, transactions are well-formed, and the scripts of the
coinbase have at most 252 bytes, as the code writes their lengths in one byte.
`SubmittedBlocksAreValid` excepts the templates in `OutOfReach`.

What is proved about blocks is proved for any number of transactions, inputs,
outputs and witness items, for any height, amount, fee and address. The
recursions are functions over an interval, and the induction over them goes by
the least index at which a claim would fail (`NatHasLeast`, `BoundedInduction` in
`BlockDataProofs`), which needs no theorem with an operator as its parameter.

Only model-checked: the five liveness properties (TLAPS has no proof rules for
fairness here) and the four violations.

## 7. What is not modelled, and limits

* Notifications beyond their start, the health of RPC and ZMQ, statistics and
  market quotes: what they change is only shown on the dashboard. Overlapping
  notification attempts overwrite each other's status; the code makes no promise
  there to check.
* The first websocket message is written outside `w.mu` and may overlap the
  broadcaster's write to the same connection, which gorilla/websocket answers
  with a panic. The overlap is in `Dashboard`; the panic is the library's and
  not modelled.
* Widths are scaled: lengths count tokens, digits have the base `ByteBase`, a
  byte `BitsPerByte` bits, and `CompactSize` has two sizes of four. A share
  whose fields have an odd number of hexadecimal digits or more than their width
  is left out, as are SHA-256 itself, the floating-point difficulties with the
  targets made of them (of floating point, only the fee is modelled, for
  percentages from zero on; a negative one takes no fee, like zero), the
  alphabets of base58 and bech32, and the byte order of the previous hash in
  `mining.notify`.
* The framing of ZMTP messages. The subscriber asks for `hashblock` (zmq.go:171)
  where the README (lines 60 and 89) names a `rawblock` publisher: with a node
  that publishes only the latter no announcement arrives, which in the models is
  a node whose announcements are lost, and the poller alone serves templates.
* `RulesAreLearned` says nothing of a call in which a request failed in passing:
  there the algorithm may be dropped and the plain request made.
* Configuration is read once at start. The browser code under `public/` only
  shows what the dashboard sends.
* A new session is a new element of `Session`; a session never reconnects.
* A message counts as received when the write to an open socket is done.
* The content of the fingerprint is the record without the clock; collisions of
  SHA-256 are left out.
