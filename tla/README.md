# TLA+ models of the dingo node

This directory models the parts of the dingo node (`src/`) that TLC can check:
- the outbound peer manager, with its reconnect loop and primary ChainSync slot;
- the ChainSync server handlers that stream the node's chain to downstream peers, and an abstract specification they refine;
- the ChainSync client handlers that feed the local chain through the event bus;
- local transaction submission into the mempool;
- the SQLite metadata store's vacuum timer;
- the Alonzo era descriptor's parameter and nonce functions.

`PROJECT.json` holds the component list, the runs, the mutants, the map from every definition to the source lines it models, the findings and the hazard list.

## The system (inventory)

| Component | Source | State | Operations | Model |
|---|---|---|---|---|
| Outbound peer manager | `src/outbound.go` | `outboundPeer` records, `outboundConns`, primary client in `chainsyncState` | `startOutboundConnections`, `createOutboundConnection`, `reconnectOutboundConnection` | `OutboundPeers` |
| Connection manager / closed events | `src/connmanager/event.go` (event types only) | live connections | `AddConnection`, closed handler (spec 4.2, 4.10, 5) | inside `OutboundPeers`, `ChainSyncServer` |
| ChainSync server | `src/state/eras/byron.go` 238-344 | per-connection client state | `chainsyncServerFindIntersect`, `chainsyncServerRequestNext` and its waiter | `ChainSyncServer`, refining `ChainFollow` |
| Chain store and iterator | not in `src/` (spec 4.3, 4.4) | chain, pending rollback per iterator | append, rollback, `GetIntersectPoint`, `Next` | environment of `ChainSyncServer` |
| ChainSync client | `byron.go` 203-236, 346-393 | start phase | `chainsyncClientStart`, `chainsyncClientRollBackward`, `chainsyncClientRollForward` | `ChainSyncClient` (and one failing step in `OutboundPeers`) |
| Event bus | not in `src/` (spec 4.1) | a bounded subscriber queue | `Publish` (drops when full) | inside `ChainSyncClient` |
| Local tx submission | `outbound.go` 365-399 | per-session handler | `localtxsubmissionServerSubmitTx` | `LocalTxSubmission` |
| Mempool | not in `src/` (spec 4.9) | entries by hash, capacity | `AddTransaction`, removal by blocks | inside `LocalTxSubmission` |
| Era descriptors | `byron.go` 28-151 | none (pure) | `PParamsUpdateAlonzo`, `HardForkAlonzo`, `CalculateEtaVAlonzo` | `Eras` |
| SQLite metadata store | `src/connmanager/event.go` 93-258 | db handle, `timerVacuum` | `New`, `init`, `runVacuum`, `scheduleDailyVacuum`, `Close`, writes | `MetadataStore` |
| npm publish workflow | `src/.github/workflows/` | - | - | not modelled (CI) |

### How the parts interact

- A worker goroutine per configured peer dials and registers the connection. Holding the `chainsyncState` lock, it then starts the ChainSync client on that connection if the primary slot is vacant.
- The client's handlers publish every RollBackward and RollForward as a ChainsyncEvent on the event bus. The chain-extension consumer applies those events to the local chain.
- Downstream peers reach the ChainSync server handlers. These read the ledger tip and `chainsyncState` while the chain grows and rolls back.
- Local clients submit transactions into the mempool.
- The metadata store runs a timer of its own. The ledger calls the era descriptors.

## Modules

### `OutboundPeers.tla` (+ `MCOutboundPeers.tla`)

- **State:**
  - `worker[w]`: one reconnect goroutine, with its pc, its peer and the connection it is building.
  - `connManager` and `connPeer`: the live connections and the peer each belongs to.
  - `outboundConns`.
  - `primary`: the client connection of `chainsyncState`.
  - Fault budgets.
- **Actions, in the code's order:**
  - `Dial` covers lines 141-248 (dial, handshake, `AddConnection`).
  - `Track` is the `outboundConns` insert.
  - `ClaimPrimary` is the lock section at 253-268, including the success or failure of `chainsyncClientStart` and `txsubmissionClientStart`.
  - `Backoff` and `NextDelay` model `reconnectOutboundConnection`. `DelayAfter(n)` iterates `NextDelay` from a fresh record.
  - `ConnectionClosed(c)` is taken from spec 5, because the handler is not in `src/`.

### `ChainSyncServer.tla` (+ `MCChainSyncServer.tla`)

- **State:**
  - the chain;
  - `clientState[c]`: cursor, `NeedsInitialRollback`, iterator position and pending rollback;
  - `phase[c]`;
  - `reqTip[c]`: the tip read at line 278;
  - `waiter[c]`: the AwaitReply goroutine;
  - `view[c]`: what the downstream peer holds after applying everything sent to it.
- **Actions:**
  - `FindIntersect` (238-272). The peer drops its chain after the returned point, because that point is its read pointer. With `ReIntersect = TRUE` a peer in `idle` may send FindIntersect again, offering its chain from any point (`Offer`), as a node-to-client follower restarting from an earlier point does;
  - `RequestNext`, the unlocked tip read (274-278);
  - `ServeRequestNext` (279-323);
  - `WaiterNext` and `WaiterSend` (324-342);
  - `AppendBlock` and `Rollback` for the chain environment, and `Disconnect`.
- **Refinement:** `Follow == INSTANCE ChainFollow WITH ...` maps each peer to its *committed* chain:
  - the view for a peer with no client state;
  - `Settled(c)` for a peer with client state. This is the view, or the pending rollback point's prefix once a rollback is owed.

  `FollowsChainSpec == Follow!Spec` is checked as a temporal property.

### `ChainFollow.tla`

The abstract promise of the ChainSync server, with no iterator, lock or goroutine:
- the node's chain grows or is cut back (`Grow`, `Shrink`);
- a connected follower's chain only takes the node's next block when it holds a prefix of the node's chain (`Extend`), or is cut back to a prefix the two chains share (`CutBack`);
- a follower that leaves is forgotten (`Leave`).

### `ChainSyncClient.tla` (+ `MCChainSyncClient.tla`)

- **Upstream peer (environment):** appends and rolls back at most `K` deep. It answers FindIntersect with the first candidate on its chain and opens with a RollBackward to it. After that it sends its next block, or a RollBackward to the point its chain still shares with what it sent.
- **Start:**
  - `Start` is `chainsyncClientStart`. It offers `RecentChainPoints(100)`: exponentially spaced stored points at offsets 0, 1, 2, 4, ... from the tip (spec 4.3, `ExpOffsets`), without the origin. With none stored it offers the configured points. When `intersectTip` is set and the store is empty, it reads the peer's tip first.
  - `SyncFromTip` is the `Sync` after `GetCurrentTip`, so the tip can be stale by then.
  - `StartFails` covers the error returns before `Sync`.
- **Handlers:** `HandleReply` is the two handlers. It publishes the reply as a ChainsyncEvent.
- **Event bus:** `Publish` appends to a queue of `QCap` events. An event that finds the queue full is dropped and `dropped` is set (spec 4.1).
- **Consumer:** `ApplyEvent` is the chain-extension consumer (spec 4.3, 4.7):
  - a rollback cuts the local chain back to the point;
  - a header is appended only if it links to the local tip;
  - an empty local chain hangs from the rollback point of a cold start (`anchor`).
- **History:** `seen` records every (height, hash) any chain here held.

### `LocalTxSubmission.tla`

Concurrent `localtxsubmissionServerSubmitTx` sessions.
- `Decode` includes the codec error.
- `Stamp` is `LastSeen: time.Now()`, taken outside the mempool lock.
- `Add` is `AddTransaction` and its error.
- The mempool follows spec 4.9. It keeps one entry per hash, refreshed in place. It is bounded by `Cap` and rejects with MempoolFull.
- `Consume` removes entries as blocks do.
- `Tick` advances the clock. `consumed` is a history variable.

### `Eras.tla` (+ `MCEras.tla`)

- **Descriptor functions:** `PParamsUpdateAlonzo`, `HardForkAlonzo` and `CalculateEtaVAlonzo` are operators with their type checks and error returns.
- **Conversions:**
  - `HexDecode` is `hex.DecodeString`. An odd length or a non-hex character is an error, and each pair of digits makes one byte.
  - A digest is the collision-free constructor `Hash(prev, vrf)`.
  - A nil slice (`NilBytes`) and an empty one (`Raw(<<>>)`) are distinct values with length 0, as in Go.
  - `CalculateRollingNonce` (gouroboros, spec 4.11) rejects a VRF output of the wrong length (`BadVrfs`), and `CalculateEtaVAlonzo` returns that error (`byron.go:143-149`).
- **Ledger driver:** a ledger modelled from spec 4.11 forks from Mary into Alonzo, applies parameter updates of either era, and rolls each Alonzo block's VRF output into the nonce.

### `MetadataStore.tla`

- **Owner goroutine:** `New` is split at its failure returns into `NewOpen` (data dir and open), `StoreInit` (`init`: tracing plugin, then `scheduleDailyVacuum`, for file and in-memory stores alike) and `Migrate` (the AutoMigrate calls). After that come `Write` and `Close`.
- **Timers:** each `time.AfterFunc` timer is a `TimerIds` element.
  - `Expire(t)` starts its callback in a goroutine.
  - `RunVacuum(t)` is `runVacuum`.
  - `Resched(t)` is the deferred `scheduleDailyVacuum`. It stops the timer in `timerVacuum` and arms a fresh one.

## Runs

| Run | Checks | Shows |
|---|---|---|
| outbound_safety | `PrimaryIsLiveOutbound`, `BackoffSchedule`, `PrimaryEventuallyHeld` | the primary slot only names a live, tracked connection; `NextDelay` iterated ten times gives spec 8.6's 1, 2, ..., 128, 128, 128, and every reconnect worker sleeps the delay of its retry count; a primary is always regained |
| outbound_duplicate_sessions (violation) | `AtMostOneSessionPerPeer` | finding 1 |
| chainsync_server_safety | `TypeOK`, `ClientFollowsChain`, `FollowsChainSpec`, `ClientsCatchUp` | peers' chains agree with the node's; the server refines `ChainFollow`; a requesting peer catches up |
| chainsync_server_stale_tip (violation) | `TipNotBehindBlock` | finding 2 |
| chainsync_server_reintersect (violation) | `ClientFollowsChain` with `ReIntersect = TRUE` | finding 6 |
| chainsync_client_safety | `LocalFromUpstream`, `LocalCatchesUpUnlessDropped` | with a lossy two-event queue, every local block sits where the upstream held it, and a drop is the only way to fall behind |
| chainsync_client_event_loss (violation) | `LocalCatchesUp` | finding 5 |
| localtx_ack | `AckMeansPooled` | a success reply means the transaction is pooled or already consumed |
| eras_nonce | `NonceIsRollingHash` | only blocks whose nonce can be computed are applied, and the nonce is the rolling hash seeded as spec 4.11 says (spec 8 invariant 7). The reference takes the genesis bytes from a literal table (`GenesisBytes`), not from `HexDecode`. It covers nil, empty and carried-over nonces, and a malformed genesis hash or VRF output rejects the block |
| metadata_vacuum | `VacuumRecurs` | while the store is open, an armed daily chain keeps running vacuums. A `Close` that stopped the timer also satisfies it |
| metadata_vacuum_reclaims (violation) | `VacuumReclaims` | finding 3 |
| metadata_close_timer (violation) | `NoVacuumAfterClose` | finding 4 |

Every property of a passing run has a mutant in `PROJECT.json`. Each mutant is a plausible bug in a mapped definition, and TLC finds it:
- a primary check without the connection lookup;
- a backoff cap test that lets the delay double once more at 128;
- a failure that ends the reconnect loop;
- an intersect registered at the tip;
- an initial rollback to the tip, or one that keeps its flag;
- message kinds swapped;
- a RollForward event carrying the tip's point;
- a start that ignores the stored points;
- an ignored AddTransaction error;
- a nonce seeded from a genesis hash whose decode error is ignored;
- a callback that never re-arms.

### Findings

1. **Duplicate sessions after a partial failure.** `createOutboundConnection` returns an error from `chainsyncClientStart` (`outbound.go:259`) or from `txsubmissionClientStart` (`:265`). By then it has already called `AddConnection` and the `outboundConns` insert, and it does not close the connection. The reconnect loop then dials again.
2. **Stale tip in replies.** `chainsyncServerRequestNext` reads `Tip()` without a lock, before the iterator advances (`byron.go:278`). The waiter does the same at `:329`.
3. **The vacuum never runs.** `runVacuum` builds `Raw("VACUUM")` but calls none of Exec, Scan or Row (`event.go:186`). gorm does not execute the statement, so nothing is reclaimed and the error branch is dead.
4. **The vacuum timer outlives the store.** `Close` (`event.go:219`) never stops `timerVacuum`. The callback keeps re-arming itself against a closed database.
5. **One dropped event stalls chain sync.** The client handlers publish to a best-effort bus (`byron.go:352`, `:376`). A RollForward dropped on a full queue makes the consumer reject every later header. The upstream counts the client as caught up and never resends.
6. **A second FindIntersect is not honoured.** `chainsyncServerFindIntersect` registers the caller only through `chainsyncState.AddClient` (`byron.go:260`). RequestNext uses the same call to fetch the existing state. Spec 4.5 says FindIntersect registers or refreshes the state with cursor = point and `NeedsInitialRollback` set. On a second FindIntersect the server answers IntersectFound(p) but keeps the old cursor. TLC's trace: a peer intersects at block 2, then again at Origin, and its next reply is RollBackward(2), a point it has dropped. If `AddClient` refreshed instead, RequestNext's `AddClient(tip)` would reset the cursor on every request. One call cannot serve both handlers.

## Bounds and why they suffice

- **OutboundPeers:**
  - Two peers, so two peers compete for the slot and a duplicate is visible.
  - Three worker slots and six connection ids.
  - One failure and two closes in the passing run. This is enough for a close racing the tracking insert, and for a failure after registration.
  - The duplicate run uses one failure and one close.
- **ChainSyncServer:**
  - Two peers, one on a fork, so the intersect falls back to the origin.
  - A chain of 2 blocks, with 3 more appended.
  - Two rollbacks of depth up to `K = 2`. That allows a rollback while a waiter holds an item, and a second rollback behind a pending one.
  - The re-intersect run uses the same bounds. Its counterexample needs only three steps.
- **ChainSyncClient:**
  - The upstream starts with 2 blocks and appends 3 more.
  - Two rollbacks of depth up to 2.
  - Local stores of 0, 1 or 2 blocks, and `intersectTip` both ways, which reaches every start path.
  - Three replies in flight against a queue of two events in the passing run, so drops are reachable while the queue also buffers. The loss run keeps a one-event queue and two replies in flight, which gives the shortest stalling trace.
  - The real `chainsyncIntersectPointCount` of 100.
- **LocalTxSubmission:**
  - Three sessions and two transactions, a one-entry mempool (so MempoolFull happens), and clock values 0..2. Two sessions then race on one hash while the third fills the slot or is refused.
- **Eras:**
  - Four genesis-hash strings: valid, empty, odd-length and non-hex.
  - Three starting nonces: nil, empty, and a carried-over Mary nonce.
  - Two VRF outputs, up to 3 blocks and 2 updates.
- **MetadataStore:**
  - Three timer identities. One is pending, one is running its callback, and a third is needed for the re-arm.

## Fairness

Each worker, handler and waiter goroutine of a connected session gets weak fairness. So do the chain-extension consumer, an expired timer's callback, and the upstream's answers to pipelined requests. The reasons are that the Go scheduler runs a runnable goroutine eventually, `time.Sleep` returns, and an expired `AfterFunc` fires.

The environment gets no fairness: injected failures and closes, appended blocks, rollbacks, and the owner's calls on the metadata store. Every fault budget is finite.

`CHECK_DEADLOCK FALSE` is used where the system really stops:
- the outbound manager is quiescent once every peer is connected;
- the ChainSync server and client wait once the chain stops changing;
- the metadata store is idle after a failed `New`;
- the Eras ledger stops when a malformed genesis hash makes every block fail.

`LocalTxSubmission` is checked for deadlock.

## Not modelled

- **Composition of OutboundPeers with ChainSyncServer.** The `chainsyncState` lock is held across `Sync`'s network I/O (`outbound.go:255`). Spec 5 puts client-state inserts under the same lock, so a downstream FindIntersect waits behind it. Two dingo nodes dialling each other can each hold their own lock while waiting for the other's IntersectFound. What ends that wait is the ChainSync intersect timeout and its effect on the connection, and both lie outside `src/` and the spec. A composed model would have to invent them, so the lock section stays one step in `OutboundPeers`.
- **RequestNext before any FindIntersect.** `AddClient(tip)` then creates a state at a tip read without a lock (`byron.go:279`). Whether the iterator creation fails for a tip rolled back in between depends on the chain store outside `src/`. Modelled peers always intersect first.
- **`EpochLengthByron`**, which is a lookup and `K*10`. Also the CBOR decoders `DecodePParamsAlonzo` and `DecodePParamsUpdateAlonzo`, which are codecs with no control flow beyond the decode error.
- **Last-seen order.** `LastSeen: time.Now()` is stamped before `AddTransaction` takes the mempool lock (`outbound.go:381`). Two submissions of one hash can therefore refresh last-seen out of stamp order. Spec 8 invariant 5 only constrains inserts with increasing timestamps, so no run checks that order.
- **Crash recovery of the metadata store.** The connection string asks for `_pragma=sync(OFF)` (`event.go:129`). SQLite has no pragma `sync`, so the request is ignored and the database keeps SQLite's default durability in WAL mode. Nothing in `src/` recovers after a crash, so no crash is modelled.
- **Two in-memory metadata stores.** Without a data dir, `New` opens `file::memory:?cache=shared` (`event.go:103`). Every such store in a process is then the same SQLite database. The module holds one store, and the sharing is a property of SQLite's URI handling, not of code in `src/`.
- **What is left.** The lines the map does not cover are license headers, imports, option tables (`chainsyncServerConnOpts`, `chainsyncClientConnOpts`, `localtxsubmissionServerConnOpts`), `outboundSocketControl` (socket options), the CBOR decoders and `EpochLengthByron`. None of them has control flow that a property could observe. The uncovered hazards above depend on code outside `src/`, namely the chain iterator's cancellation, `ConnectionId` construction, the ChainSync intersect timeout and SQLite's durability, or on a peer behaviour (RequestNext before FindIntersect) that the spec itself defines in a way no Ouroboros client follows. Modelling them would mean inventing that behaviour.
- **Left out:** address formatting, socket options, logging and tracing, CBOR encoding, and SQL. None of them changes control flow that a property observes.
