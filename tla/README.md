# TLA+ verification of the Solana Nervous System

This directory specifies the parts of the repository that keep state and can go
wrong in ways a unit test hardly reaches: the on-chain program that pays node
operators, the request path, the peer bookkeeping and the background tasks of the
daemon, and the relay and the P2P node of the mobile library. The specifications are
model-checked with TLC, and the safety properties they are checked for are proved with
TLAPS.

`PROJECT.json` lists for every definition the source lines it stands for, the runs,
the mutants (one per checked property: a plausible bug under which the property
fails), the hazards of the code and the theorems.

## 1. Inventory

| Component | State it keeps | Operations | Interacts with | What is hard | What makes it correct |
|---|---|---|---|---|---|
| On-chain program (`sns-program/.../lib.rs`) | node, escrow, batch, protocol accounts; token accounts | register, settle, stake, slash, initialize | wallets, token program, daemon (batches) | several instructions share one escrow; checked arithmetic at era boundaries; resent transactions | every lamport of an escrow is accounted for by a batch record or still there, tokens are backed, an ejected node is shut out |
| Attack prevention (`attack_prevention.rs`) | rate records and bans per address | is_banned, check_rate_limit, scan_payload, cleanup | request handlers, cleanup task | handlers on several threads, clock read outside the lock | bounded bursts, bans last, the process survives |
| Circuit breaker (`security.rs`) | failure count, time of the last failure | is_open, record_failure, record_success | request handlers | two words written and read separately, with a clock read before the lock | opens after failures, closes again |
| RPC gateway (`rpc_proxy.rs`, with `parallel_executor.rs`, `sharding.rs`, `geo_router.rs`, `latency_engine.rs`) | requests in flight, permits, cache, rate count | rpc_handler | all daemon components, itself over HTTP | permits held across awaits, requests to itself, clients that hang up, fallbacks | permits come back, a request is paid for once per attempt, every request ends |
| Receipt batches (`zk_payments.rs`) | receipts in memory, batch files | add_receipt, persist_and_clear | hourly task, `/settle` handler, blocking pool | cancellation and crashes between writing and clearing | no receipt is lost or paid twice |
| Mobile relay (`relay_client.rs`) | process-wide statics, channel, semaphore | start, stop, forward_rpc, relay loop | app threads, relay runtime | overlapping starts, stop during a request | one loop, prompt stop, callers return |
| Peer guard and P2P swarm (`peer_guard.rs`, `p2p.rs`) | scores, bans, connections | swarm events, is_allowed, cleanup, get_stats | libp2p, cleanup task, statistics page | two tables locked entry by entry; unsigned differences of values read at different times | bans last, the thresholds fit together, the process survives |
| Latency engine (`latency_engine.rs`) | three cache tiers, latency counters | get_cached, set_cache, evict | gateway | expired entry removed after its lock is gone; entries stamped when stored | what is served is not too old, live entries stay |
| Load balancer (`load_balancer.rs`) | per-upstream counters | select_node, record_success, record_error | gateway | moving average read and written in two steps | averages stay within what was measured |
| Wallet rewards (`wallet_rewards.rs`) | pending and lifetime earnings, cached balance | record_request, balance, settlement | gateway, `/wallet` | lock held across a network call, clock read before it | a request is credited once |
| Consensus router (`consensus.rs`) | strikes per node | query_with_consensus, punish_node | (not wired) | nodes answer while the chain moves; calls share the strikes | a result was current during the call, correct nodes are not framed |
| Onion routing (`onion.rs`, `onion_handler`) | none between requests | wrap, peel, relay or exit | gateway, peer registry | a relay waits without a timeout | no permit is held while relaying, relaying is not paid |
| Mobile node, governor (`sns-native/src/lib.rs`, `p2p_node.rs`, `mobile_governor.rs`) | statics set once, flags, counters, three copies of the throttle state | init_governor, set_throttle_state, init_node, dial_peer, swarm task | app threads, relay runtime | flag tested before it is set; nodes that fail to build | one node stays in command, flags and counters do not mislead |
| TypeScript SDK (`sdk/src`) | ranked peers, timers | init, request, failover, destroy | daemons | concurrent first calls | not modelled |
| Identity, telemetry, configuration, verifier, light client, dashboard, mobile UI | files, counters, views | | | | not modelled: I/O and presentation |

Vendored code (`sns-program/node_modules`, `patched_crates`) is outside the project.

## 2. Modules

| Module | Models | Uses |
|---|---|---|
| `RewardSchedule` | the halving schedule and the closed form of the reward loop | |
| `SnsProgram` | every instruction of the program | `RewardSchedule` |
| `MCSnsProgram` | instance for TLC | `SnsProgram` |
| `EraLoop` | the reward loop pass by pass | `RewardSchedule` |
| `SumTheorems` | lemmas: induction, and what becomes of a sum when a term or the set changes | |
| `SnsProgramProofs` | theorems about program, schedule and loop | `SnsProgram`, `EraLoop`, `SumTheorems` |
| `AttackPrevention` | bans, rate limit, cleanup | |
| `CircuitBreaker` | the breaker | |
| `RpcGateway`, `MCRpcGateway`, `RpcGatewayProofs` | the request pipeline; symmetry for TLC; theorems | |
| `RelayClient` | the mobile relay | |
| `ReceiptBatch`, `ReceiptBatchProofs` | batches, theorems | |
| `UpstreamPath` | cache, breaker, load balancer and upstream call of a request, composed | `CircuitBreaker` |
| `RequestPathProofs` | theorems about the composition, the breaker and attack prevention | `UpstreamPath`, `AttackPrevention`, `SumTheorems` |
| `PeerGuard`, `PeerGuardProofs` | scores and bans of peers under swarm events, theorems | |
| `MobileNode` | the C interface, throttle state and P2P node of the mobile library | |
| `NativeProofs` | theorems about the relay and the P2P node | `MobileNode`, `RelayClient`, `SumTheorems` |
| `RegularRead` | abstract: a read returns a value that was current during the call | |
| `ConsensusRouter`, `MCConsensusRouter`, `ConsensusRouterProofs` | consensus queries; symmetry for TLC; theorems | `RegularRead` |

A proof module that covers two components extends both, so a component that shares a
proof module gives its specification a name of its own: `RateSpec`, `LoopSpec`,
`PathSpec`, `RelaySpec`.

### SnsProgram

A variable stands for a kind of account: `node` (NodeAccount), `escrow`, `batch`
(BatchRecord), `state` (ProgramState), `wallet`, `tokens` and `vault`. An action is an
instruction that commits; one that fails a `require!`, a constraint or a CPI leaves
everything as it was, which is a stuttering step, because a transaction is atomic.
`slash_node` is two actions, one for each side of the ejection threshold. Fees,
rent deposits of the program's own accounts, endpoint strings and events are left
out. `u64` is kept as a word whose largest value is the constant `Word`, and
`checked_add` as a guard. `SettleCompressedBatch` uses the closed form of the reward
loop; `EraLoop` runs the loop itself and shows that it ends as that closed form says.
The reward of an era is the initial reward shifted right, modelled as that many
halvings that each round down (`Shifted`).

Two history variables say where an escrow's lamports came from: `funded` (clients
pay in, as a transfer to the escrow's address) and `pledged` (stakes put in, less what
an ejection returned). `EscrowAccounted` relates them to the batch records.

`program_state` is not a `mut` account of `settle_compressed_batch`: what the handler
writes to its copy is not stored, so `StateAfterSettle` leaves it alone.

### AttackPrevention

A handler (the set `Workers`) passes through the calls of one request; `is_banned` is two steps because
the entry is released before it is removed, `check_rate_limit` is two because the
clock is read before the record is locked, and `cleanup` is three. Time is in
seconds. The release profile has `overflow-checks = true` and `panic = "abort"`, so
an unsigned difference that would be negative is the end of the process (`Abort`).
`MaxPause` bounds how long a handler rests between two of its calls; `BurstBound`
names it, because a handler that rests with an old time in hand is admitted late.

### CircuitBreaker

`is_open` and `record_failure` are three steps each: the atomic, the clock, the mutex.
`is_open` reads the clock in a statement of its own (security.rs:253), and
`record_failure` evaluates the right-hand side of its assignment before the place it
assigns to (line 261), so both hold a second that may be old when the mutex is
theirs, and an older stamp can overwrite a newer one. `held` is the age of that
second; `MaxHold` bounds it, and `OpenWhenSettled` names it, as the breaker may
close that much early. Ages replace times, which keeps the state finite: ages from
`Recovery + MaxHold` on are not told apart, nor are counts from `MaxFailures` on.

### RpcGateway

A request is a record with its stage in `rpc_handler`, its method, its caller and its
reply. Requests in the stages `Holding` own a permit. The
geo router knows no node but this one (it registers itself in `main.rs`), so a
method of another shard is posted to the node's own port: `Forward` creates a nested
request, which passes through the same pipeline and is rate limited as `unknown`.
`HangUp` and `Drop` model that the server drops the handler of a closed connection;
the awaits at which it can be dropped are stages, also the one between `set_cache` and
`record_request` of `getSlot` (`stored`). A window of the rate limit may turn at any
time (`NewWindow`), whoever is inside: neither the wait for a permit nor the forward
has a timeout, so a nested request may live through any number of windows, which
`seen` counts up to `MaxSeen`.

What `record_request` has been paid for is history (`paid`), kept per request of a
client and over all handlers that work on it: `root` is the client a nested request
is for, and stays so when its caller has fallen back and no longer waits for it
(`FallBack`; `fell` counts these, up to `MaxFalls`). A client's ledger starts over with
its next request. The counter `session_requests`, which `record_request` raises before
its await, is left out.

`Verify` is the call of the verification gateway (50 ms), which every method but the
listed reads must pass; the breaker is an outcome (`CircuitOpen`) with a module of its
own, and so are bans (`Refuse`). A client may come by `/onion`: a layer that cannot be
peeled is refused, an exit or a relay without a known next hop continues in
`rpc_handler`, and a relay waits for the next hop without a permit and without a
timeout.

### UpstreamPath

Extends `CircuitBreaker` with what surrounds it in `rpc_handler` for a method this
node answers: `get_cached` (an expired entry is let go of and then removed, which
are two steps), `select_node`, the call with the client's timeout, the two atomic halves of
`record_success`, the body, `set_cache`, and the eviction task. Every step of the
breaker is taken from `CircuitBreaker`, so the properties of that module hold of its
part of the composition and are checked there. Time is a tick that all ages share.
The latency that is reported runs from the entry of the handler (rpc_proxy.rs:257, 414):
`StoreAverage` adds to the ticks of the call any number up to `MaxBefore` for the wait
for a permit, a failed forward and the verification, and `slowest` is the longest
sample reported for a node.
The run has two upstream nodes although `main.rs` adds one, so that selection has a
choice to make.

### PeerGuard

The swarm loop is one task: a call on a record, the ban it leads to and the removal of
the record are steps in that order, as each takes its own lock. `cleanup` reads the
clock, sweeps the bans, then the records; `get_stats` counts the table and then the
healthy records; `is_allowed` sees an expired ban and then removes the entry. The
history variable `met` records that the swarm loop wrote a record during a scan.
Scores keep their arithmetic with smaller numbers; `GuardAssumption` keeps the
relation of the code's values (four failures at 10 stay below the initial 50).
The expiry of a ban is computed just before its insert (peer_guard.rs:114, 167); as the
swarm loop is the only writer of bans, `WriteBan` reads the clock at the insert. The
clock never goes back in the model; the code uses `SystemTime`, which can, and then the
unsigned differences of `cleanup` fail without any race.

### MobileNode

One action per call of the interface, with `set_throttle_state` in three steps (the
three stores) and `init_node` in four: the test of `P2P_RUNNING`, the channel and
`SWARM_TX.set` with the spawn, the building of the swarm and the loop. `tokio::select!`
chooses at random among ready branches, so neither commands nor events starve the
other.

### ConsensusRouter

A query selects three nodes that are not blacklisted, asks them at once, and tallies
when all have answered or failed (`join_all`). The answers are heights of the chain,
which moves meanwhile; a body with neither error nor result is a vote for null
(consensus.rs:243), which the lying node may cast. The model presumes that
`available_nodes` names no endpoint twice and that a correct node answers with a result
or an error: the code checks neither, and a node that is asked twice, or two whose
bodies have no result, would win alone. `ResultIsRegular` is the specification of `RegularRead` under
the mapping that forgets nodes and strikes: at most one lying node cannot make the
router return a value that was never current during the call.

### RelayClient

`start` is a step per static it sets. A runtime that loses the race for `RELAY_RT`
is dropped with its loop; a loop that ends closes its channel and fails what is in
it. A permit and the POST are a step each. `forward_rpc` is marked
`#[allow(dead_code)]` (relay_client.rs:205), is not exported by `lib.rs` and has no
caller in the repository, so nothing fills the channel yet: the callers of the model
are threads that use it as it is written to be used.

### ReceiptBatch

A settlement takes the mutex, hands its file to the blocking pool, waits and clears.
A dropped `/settle` handler frees the mutex while its write is still with the pool.
A crash loses memory and unfinished writes, and may leave the file of a write under
way cut short, as `tokio::fs::write` truncates before it writes. A receipt is a model
value; a file is the set of receipts in it, one that is cut short has none. No code
calls `add_receipt` (zk_payments.rs:33) yet; the hourly task and `/settle` are wired and
settle what would be added.

## 3. Runs

Run | Bounds | Shows
---|---|---
`program` | 2 owners, 2 mints, 2 batches, small words | What was pledged and paid into an escrow is there or in a batch record; the half of the stake that ejection returns is missing only after a settlement or a priority stake; supply is backed by recorded receipts; reputation and registration agree; lamports leave an escrow only for a new batch or an ejection. Two owners are needed for a batch id taken by the other; two batches for a second settlement. `EscrowAccounted` and `StakeCovered` fail when a batch id can be settled again.
`program_schedule` | the same | violation: supply does not follow the halving schedule
`era_loop` | three eras | The loop pays each receipt the reward of its era, ends, and agrees with the closed form used in `SnsProgram`.
`rate_limit` | 2 handlers, 1 address, 6 seconds, windows of 2, pauses of at most 1 | A burst across two windows is at most twice the limit, cleanup notwithstanding; a ban in force is lost only to a handler that read an older, expired one. Addresses do not interact, so one is enough; two handlers are what the races need.
`upstream` | 2 handlers, 2 nodes, threshold 2, recovery and TTL of 2 ticks, timeout, hold and time before the call of 1 | The breaker is open when nobody is inside `record_failure` and the last failure is recent by more than a reading is held, and never stays open; a served value is younger than TTL plus timeout; lost samples and stale loads do not push an average past the longest time reported; a live cache entry disappears only through a reader that had seen an older one expire. Two handlers are what each race needs.
`gateway` | 2 clients (one direct, one by `/onion` too), 2 nested, 2 permits, limit 1, 2 methods, 1 failed forward per request, windows told apart up to 1 | Permits are conserved; a request is paid for at most once more than its forwards have failed, at least once for a value, and, when it was refused or relayed, only for what it left behind; a gridlock of the permits takes the windows it needs. With limit 1 and 2 permits a nested request that has seen no new window cannot be part of one, and with the next window it can, so both sides of `GridlockTakesWindows` occur. Nested slots are interchangeable (symmetry; no liveness in this run). `getTokenSupply` is cached, verified and of another shard; `getSlot` is intercepted.
`gateway_answers` | 1 client, 2 nested, 2 permits, limit 2 | violation: see below
`relay` | 2 starts, 3 callers, channel of 1, 1 permit | One loop survives, a stop is seen before a second request is taken, every call returns.
`receipts` | 3 receipts, hourly task and one handler, 2 hang-ups, 3 batch ids | No receipt in two files; while nobody hangs up, nothing that was settled is lost, not to a crash in the middle of a write either, and the summary is right.
`peers` | 1 peer, 4 seconds, ban after 3 failures | Only a peer that failed handshakes and violated the protocol runs out of score without a ban; a ban in force ends early only by a stale `is_allowed` or a later ban of an hour; the unsigned differences fail only when the swarm loop wrote during a scan. Peers do not share entries, so one is enough.
`native` | 2 tokens, 2 calls of `init_node`, 2 setters, channel of 2 | Copies of the throttle state agree after undisturbed calls; a set flag has a node; the counter covers open connections; the commanded node stays, a duplicate ends, the channel drains.
`consensus` | 4 nodes, 1 lying (a height or null), 2 queries, blacklisting at 2, 2 heights | The router implements `RegularRead`; a correct node is punished only for a failure of its own or because the chain moved; strikes exceed the threshold at most by the calls under way. Four nodes let two calls overlap without being equal.

`CHECK_DEADLOCK FALSE` is set where a bound stops the model (time in `rate_limit` and
`peers`, batch ids in `receipts`) or the system may rest (`relay` and `native` once
everything has returned). Type invariants are listed in two runs; those of all
modules are proved.

### Fairness

- `EraLoop`: the loop is ordinary code; it takes its next pass.
- `CircuitBreaker`, `UpstreamPath`: time passes, and a handler that runs goes on (the
  upstream client has a timeout). Requests need not arrive.
- `MobileNode`: a spawned task is polled, so a swarm is built or fails, a waiting
  command is taken (`select!` picks among ready branches at random), a loop without
  senders is left and the task ends. Connections and calls of the app need not happen.
- `RpcGateway`: handlers that are not waiting for a permit or an answer are polled,
  the upstream client and the verification gateway time out, tokio's semaphore is
  fair (first in, first out: strong fairness of `Acquire`), the server notices closed
  connections. Nobody has to hang up, and neither the forward nor the relay of an onion
  layer has a timeout to rely on.
- `RelayClient`: tasks run, the semaphore and the bounded channel serve their waiters
  in turn, and the loop receives when there is something.

### What the violations show

`program_schedule`: `program_state` lacks `mut` (lib.rs:320), so the count of served
requests stays 0 and every batch is paid as the first era's, whereas `CHANGELOG.md:10`
promises halving on chain.

`gateway_answers`: a request for another shard is posted to the node itself with the
permit kept (rpc_proxy.rs:348), and the nested request is for the same shard. With 2
permits and a limit of 2, TLC finds both held by handlers that forward, the innermost
nested request waiting for a third, and nothing that ends the wait: there is no
timeout, the fallback is taken only when the connection fails, and the client need not
go away. The shipped values (100 permits, config.rs:40; 100 requests in a window,
attack_prevention.rs:92) have the same proportion. `docs/ARCHITECTURE.md:34` says that
an unavailable shard "triggers a fallback to the local validator, ensuring 100%
uptime." Fewer requests in a window than permits do not rule it out, they make it take
more windows (`GridlockTakesWindows`).

### Observed while modelling, not runs of their own

- `check_rate_limit` and `cleanup` read the clock before they lock the record
  (attack_prevention.rs:79, 124); when another handler writes the next second first,
  `now - record.window_start` underflows and the release build aborts (`Abort` in
  `AttackPrevention`). `docs/ARCHITECTURE.md:34` speaks of 100% uptime.
  `PeerGuard::cleanup` and `get_stats` (peer_guard.rs:223, 187) and
  `get_onchain_balance` (wallet_rewards.rs:69) have the same shape; `AbortNeedsARace`
  shows that the guard's needs a write during the scan.
- The burst of two limits is over less than a window when handlers may rest for longer
  than a second between reading the clock (attack_prevention.rs:79) and counting: with
  pauses of 2 seconds, TLC finds a third window's request within `Window` seconds of the
  first one's. `BurstBound` states how the span shrinks.
- A forward that fails after the nested request was handled leaves that one paid, and
  the fallback is paid again (rpc_proxy.rs:354, wallet_rewards.rs:49-54): the credits of
  a request are bounded by its attempts (`PaidPerAttempt`), not by one.
- `PeerGuard::cleanup` drops records by `last_seen`, which a new connection and a
  successful relay refresh and a failed handshake does not (peer_guard.rs:94-100): a
  failure counted a second ago is forgotten with a record that is a day old, and so is
  the record of a peer that has been connected for a day. The comment at line 221 says
  "not seen in 24 hours".
- The write of a `/settle` handler whose client went away can land after the next
  settlement has written the same file and cleared memory (zk_payments.rs:117), and
  truncate it; `KeptUnlessCutShort` shows that nothing else loses receipts.
- `SWARM_TX` can be set once (p2p_node.rs:50) and keeps the sender of a node that
  failed to build or ended: every later node finds its channel without senders and
  ends at once, so P2P does not run again in the process.
- The comments on the cache tiers (latency_engine.rs:18-26) speak of 5 s, 30 s and 5
  minutes; `get_ttl` says 500 ms, 2 s and 10 s. A value may be older by the client's
  timeout, because it is stamped when it is stored.
- `record_error` disables no node, and a node that only fails keeps the average 0 and
  is selected first; `README.md:25` says failing nodes are isolated instantly.
- `verify_with_brahman` lets seven read methods through; every other read needs the
  gateway on port 8420, without which it is answered with 403.
- `PeerGuard::is_allowed` has no caller (p2p.rs:244), and `ConsensusRouter` is not
  constructed by the daemon.
- The escrow's balance check in `settle_compressed_batch` (lib.rs:65) does not set the
  stake aside, and the half a slashed node forfeits stays in the escrow of an owner
  who can register again (lib.rs:211).
- `is_banned` can remove a fresh ban (attack_prevention.rs:59);
  `BanLostToStaleReadOnly` shows that this is the only way.
- An upstream body that cannot be read is neither a success nor a failure to the
  breaker (rpc_proxy.rs:444), and a request is credited before its answer is known to
  be JSON (rpc_proxy.rs:424).
- The relay loop may test `RELAY_RUNNING` before `start` has set it and end
  (relay_client.rs:140, 156, 266); and after a stop, `start` cannot succeed again
  (relay_client.rs:150).

## 4. Proofs

| Theorem | States | Argument |
|---|---|---|
| `SnsProgramProofs!TypeCorrect` | `TypeOK` | inductive; per action |
| `SnsProgramProofs!EjectedHasNoReputation` | `ActiveIffReputable` | not inductive alone: reputations are multiples of 20 up to 100 (`ReputationInv`), so one below 20 is 0 |
| `SnsProgramProofs!EscrowIsAccounted` | `EscrowAccounted` | `LedgerInv`: a settlement moves one amount from the escrow to a record that was empty, so one term joins the owner's sum (`SettledOnce`) and no other owner's changes |
| `SnsProgramProofs!StakeIsCovered` | `StakeCovered` | `StakeInv`: while an owner has neither batches nor tokens in a vault, the escrow holds at least the stake |
| `SnsProgramProofs!OutflowIsAccounted` | `EscrowOutflow` | action property from types and reputation |
| `SnsProgramProofs!LoopPaysSchedule` | `LoopReward` = `ScheduledReward` for every count and batch | induction on what remains of the batch: a pass stays within one era (`PassBounds`, `PassPays`), which pays all its receipts alike (`EraPaysEqually`), and the schedule splits at any receipt (`ScheduleSplits`) |
| `SnsProgramProofs!PassesPaySchedule`, `LoopTypes`, `LoopIsSummarised` | `PaysSchedule`, `LoopTypeOK`, and that an ended loop agrees with `RewardFits` and `LoopReward` | `LoopInv`: the loop has paid the schedule so far, remembers that the last era it entered ends within the word, and has failed only if the whole batch does not fit |
| `SnsProgramProofs!SupplyBacked` | `SupplyIsBacked` | staking moves tokens of one term of the sum; a settlement adds at most `InitialReward` per receipt (an era pays no more than the first) to one owner and its receipts to a batch that had none |
| `RequestPathProofs!TypeCorrect`, `OpensWhenSettled` | `TypeOK`, `OpenWhenSettled`, of the breaker | `StampedInTime`: outside of `record_failure`, the stamp is older than the last counted failure by at most `MaxHold`, since every stamp is the age of a reading and the last one counted has been stamped |
| `RequestPathProofs!PathImplementsBreaker`, `PathOpensWhenSettled` | `PathSpec => Spec`, hence `OpenWhenSettled` of the composition | every action of the path is an action of the breaker or leaves its variables alone |
| `RequestPathProofs!ServesFreshValues`, `AveragesAreBounded`, `OnlyStaleReadersLoseValues`, `PathTypeCorrect` | `PathTypeOK`, `ServedIsFresh`, `AverageBounded`, `FreshLostToStaleReaderOnly` | `PathInv`: a cached value is older than its stamp by at most a call (`EntryDated`), and averages and loaded copies are at most the longest sample reported for their node; the new average lies between two numbers that are |
| `RequestPathProofs!RateTypes`, `BansAreKept` | `RateTypeOK`, `BanLostToStaleReadOnly` | `TimesInv`: neither the time a handler nor the one cleanup holds is ahead of the clock, and no ban reaches further than `BanSecs` from now |
| `RequestPathProofs!BurstsAreBounded` | `BurstBound` | not inductive alone: a record accounts for the admissions of its address (`Accounts`). Those from `MaxPause` seconds after its window began on are at most its count, capped by the limit; those in the span that ends now are at most one limit more, as they are of two windows; and none is later than `MaxPause` seconds after the record was last seen, so a record that cleanup drops leaves none near the clock |
| `ReceiptBatchProofs!TypeCorrect`, `ReceiptInOneFile` | `TypeOK`, `NoReceiptTwice` | a receipt *belongs* to at most one batch, be it through a file, a write with the pool or memory (`OneBatch`), and only if it was earned (`BelongingIsEarned`) |
| `ReceiptBatchProofs!NothingIsLost`, `SummariesMatchFiles` | `KeptUnlessCutShort`, `ReportMatchesFile` | `HeldInv`: until a client goes away one worker is busy, a write with the pool holds what memory holds, the current file holds no more than memory and all of it once written, later files are empty |
| `ConsensusRouterProofs!ConsensusIsRegular` | `ResultIsRegular` (refinement of `RegularRead`) | two agreeing answers include an honest one, which is a height the chain had since the call began (`HonestAnswers`); step by step, `RouterInv` makes every action a step of the abstract read or a stutter |
| `ConsensusRouterProofs!CorrectNodesAreNotFramed` | `NoFraming` | a strike is a dissent of an answer from the winner, and both were current during the call |
| `ConsensusRouterProofs!StrikesAreBounded` | `StrikesBounded` | not inductive alone: strikes plus the calls under way that asked the node stay below the bound (`StrikesOwed`), as a blacklisted node is not selected |
| `ConsensusRouterProofs!RouterTypes` | `TypeOK` | `RouterInv`, and a call has selected three nodes or none (`ThreeAsked`) |
| `PeerGuardProofs!GuardTypes`, `OnlyBothExhaust` | `TypeOK`, `ExhaustedNeedsBoth` | `RecordsSolvent`: a score is at least the initial one less a penalty per failure unless the peer violated the protocol, and is positive without failures, outside of a ban under way |
| `PeerGuardProofs!AbortsAreRaces` | `AbortNeedsARace` | unless the swarm loop has written during the scan, no record is younger than the clock cleanup has read and the count of get_stats covers the table (`ScansCover`) |
| `PeerGuardProofs!BansEndEarlyTwoWays` | `BanEndsEarly` | action property: the clock of cleanup is not ahead (`ClocksPast`), bans of an hour end within an hour (`BansDated`) |
| `RpcGatewayProofs!PermitsAreConserved`, `GatewayTypes` | `PermitsConserved`, `TypeOK` | each step moves one handler in or out of the set of holders and the counter with it; the cardinality follows |
| `RpcGatewayProofs!RequestsArePaidPerAttempt` | `PaidPerAttempt` | `Budget`: what was paid for a client's request, plus one for every handler that works on it and may still be paid, is at most one plus the failed forwards; forwarding hands the claim on, falling back adds one, and a nested request is for its caller's client (`Rooted`) |
| `RpcGatewayProofs!GridlocksTakeWindows` | `GridlockTakesWindows` | `LimitInv`: for every k, the nested requests inside that have seen at most k windows begin were let in by the last k + 1 windows, `Limit` each at most, the current one by its count. In a gridlock every permit is held by a handler with a nested request of its own inside (an injection) |
| `NativeProofs!OneLoopIsLeft`, `StopIsSeen`, `RelayTypes` | `OneLoop`, `StopIsPrompt`, `RelayTypeOK` | `Owned`: a start past `RELAY_RT` owns it or has lost its loop; `RaisedOnce`: the flag goes up once; `TakenLate`: after a late request the flag is down and the loop does not wait for another |
| `NativeProofs!ThrottleCopiesAgree` | `CopiesAgree` | `Undisturbed`: a setter nobody overlapped is the only one at work and has written the copies up to where it is |
| `NativeProofs!FlagHasANode`, `ServingNodeStays` | `RunningHasANode`, `FirstNodeStays` | the flag is raised by a node that begins to serve; `SWARM_TX` is set once |
| `NativeProofs!CountCoversConnections`, `NativeTypes` | `PeerCountCovers`, `TypeOK` | a connection changes the counter and one term of the sum alike, and a node that ends leaves the sum and not the counter (`CountInv`) |

They hold for all values of the constants that satisfy the assumptions of the modules:
any number of clients, handlers, peers, nodes, starts, callers, receipts and batches,
and any thresholds in the relation the code has them in; a handler of the rate limit
rests for at most a window (`RateAssumption`), one of the breaker holds a reading of the
clock for at most `MaxHold` seconds, whatever that is. The bounds of the models
(`MaxTime`, `MaxBatch`, `HangUps`, `MaxBefore`, `MaxSeen`, `MaxFalls`) are arbitrary numbers there. Fairness is not used,
so the theorems name the specifications without it; `FairSpec` implies them.

Sums need induction over the set they range over. The induction theorems of the
library take an operator as a parameter, which the provers at hand do not instantiate;
`SumTheorems` states induction for sets instead (`SetInduction`: a set that holds 0 and
with every number its successor holds all numbers), from the existence of minimal
elements in a well-founded order, and derives what the proofs above use of
`SumFunctionOnSet`: the sum after one term has changed, with an element more or less,
over a subset, and of larger terms.

Only model-checked: liveness (`NeverStuckOpen`,
`ForwardReturns`, `DuplicatesEnd`, `FullChannelDrains`, and of `EndsAsSummarised` that
the loop ends), which the prover does not handle. Every other property of the passing
runs is a theorem.

## 5. Not modelled

- The TypeScript SDK, the mobile app and the dashboard: clients and presentation. The
  SDK's race of two first calls (index.ts:91) is listed as a hazard.
- The balance cache of `wallet_rewards.rs`; its two hazards are listed with reasons.
- `RequestSigner`, the rate limiter and the sanitizer of `security.rs`: no callers.
- Identity, telemetry, configuration, verifier and light client: files, formatting,
  hashing and counters.
- Ciphers, the Merkle root, libp2p behaviours, JNI glue, battery and thermal probes.
- Status pages: they read counters and format them.

## 6. Plan

1. An abstract ledger (a receipt is unsettled, recorded or paid) that `ReceiptBatch`
   implements while nobody hangs up; `HeldInv` has what the mapping needs.
2. The balance cache of the wallet.
