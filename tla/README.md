# TLA+ specifications of the Verathos validator

This directory specifies the parts of the Verathos subnet (Bittensor SN96) in
which several threads, durable stores, remote parties and epoch boundaries meet:
how the validator schedules and runs its canary tests, how one proof exchange
with a miner proceeds, how capacity audits are judged, how outcomes become
strikes, probation and recovery, and how miners keep their leases in the registry
contract. The modules are translated from the Python source under `src/neurons`
and `src/verallm` and the Solidity source under `src/contracts`; TLC checks them
on small instances and TLAPS proves the central invariants and a refinement for
every value of the constants.

Paths below are relative to the repository. V stands for
`src/neurons/validator.py`.

    tlc -workers 2 -config HardAuditRecovery.cfg HardAudit
    tlapm HardAuditProofs.tla

## 1. The system

Miners serve models over HTTP and lease entries in a registry contract.
Validators discover them at the start of every epoch (360 blocks), send secret
canary requests spread over the epoch, verify the proofs, close the epoch by
scoring every entry and set weights on chain. One validator is the *hard
auditor*; the others follow its signed verdicts.

### Inventory

| component | state | operations | hard behaviour | what makes it correct |
|---|---|---|---|---|
| hard-audit enforcement (V, `proof_v3_failure_strikes.py`, `scoring.py` ProbationTracker, `validator_db.py`) | strike ledger, probation file, probation columns, recovery ledger, reset generation | record strike, clean pass, enter/reset probation, count recovery, migrate index, score gate, model switch, identity change, generation reset, load and save | worker, close, setup and block-loop threads write the same entry; two stores without a transaction; restarts | stores agree, an epoch counts once, a failure always leads to probation, a saved ledger always loads, a reset is applied |
| canary scheduling and epoch boundary (V, `canary.py`) | scheduler, inventory, queued/in-flight/unfinished/cross-epoch books, seal | setup, plan, dispatch, execute, reschedule, requeue for an audit, seal, start epoch | setup thread, block loop and worker pool share it almost without locks; the boundary falls anywhere | every miss has a known cause, a test runs once, started work ends, a restart does not destroy work |
| epoch close: scores, EMA, weights (V `_close_epoch`, `scoring.py`) | EMA per entry, last closed epoch, weight update due | score, blend, set weights | retried after a failure half-way, overlaps the next epoch | an epoch is blended once |
| proof-v3 challenge session (`verallm/proof_v3/session.py`, `verallm/api/proof_v3_validator.py`) | session state, frozen transcript, deadlines | issue, accept precommit, reveal, verify, abort, expire | timeouts race late answers; both sides hold one-shot secrets | nonce revealed once and only after a precommit, one terminal outcome, blame has a cause, the exchange ends once the miner stops sending |
| shared verdicts (`verdict_follower.py`, `verdict_records.py`, `proof_v3_shared_hard.py`) | cursor, record files | poll, verify, apply | delayed, duplicated, reordered records | each verdict applied once, never a weaker one |
| receipts (`receipts.py`, `verallm/api/receipt_store.py`) | receipts per epoch | add, pull, expire | bounded store, pull races expiry | no receipt counted twice |
| capacity audit (V, `validator_db.py`, `capacity_audit*.py`) | windows, slots, receipts and payloads in executors, finalized penalties, drained entries | schedule, start, challenge, confirm, ingest receipt and payload, expire, charge, gate, drain | reorganisations, blocks observed late, at-least-once deliveries, restarts between two transactions | a penalty is applied once and for a final window, a miss was late, a commitment precedes its challenge |
| auto update (`auto_update.py`) | pending version, drain request | poll, drain, restart | restarts while work is running | no live work is lost |
| runtime configuration (`subnet_runtime_config.py`) | signed config, generation | fetch, validate, apply | changes in the middle of an epoch | generations only grow |
| discovery, network, shared state | miner list, JSON snapshot | enrich, write, read | stale snapshot | readers see whole snapshots |
| rate limiter, request signing | windows, nonces | admit, verify | bursts at a window's edge | limit never exceeded |
| miner neuron (`miner.py`, `verallm/chain`) | index and configuration, cached entries, subprocess | bind, look for an entry, register, renew, restart | lost receipts, cached lists, outages, kills, changed configurations | it renews its own entry, one per model and endpoint, and is listed again after an outage |
| miner registry (`MinerRegistry.sol`) | entries per address, endpoint owners, reports, UID bindings | register, renew, deactivate, move, report, clean up, bind, reset | swap-and-pop moves indices, UIDs are recycled | bindings are inverse, owners have entries, leases are kept |
| other contracts (`src/contracts/src`) | balances, checkpoints, confirmations, tables | deposit, withdraw, confirm, publish | | balances are conserved |
| proof cryptography, prover, verifier, TEE, engine plugin, plugins, scripts | | | arithmetic, hardware, I/O | outside TLC's reach or without protocol state |

The components call each other as follows. The block loop
(`on_finalized_block`) seals the old epoch, hands its frozen state to the close
worker and starts the next epoch's setup on the control executor; it submits due
tests to the worker pool. A worker's result goes into receipts and, for a
failure, straight into enforcement (`_record_hard_audit_failure`,
`_on_proof_failure`). The close worker reads receipts, inventory and shared
verdicts and writes strikes, probation and scores. Capacity audits drain
entries, which sends canary tests back to the scheduler, and their finalized
failures enter probation. A canary request is one proof exchange: its failure
class decides between a strike, a retry and a validator fault. The miner's
re-registrations are what moves an endpoint to another contract index. The owner's runtime configuration may ask for a reset
of all probation state.

`PROJECT.json` lists every component, modelled or not, and under "hazards" what
a test would hardly reach, with the properties aimed at each.

## 2. Modules

| module | what |
|---|---|
| `StrikeTracker` | pure operators of `HardProofStrikeTracker`: `RecordFailure`, `RecordCleanPass`, `Malformed` and `Reload` (`from_json`) |
| `HardAudit` | enforcement: state machine over the ledgers, both probation stores and the threads that write them |
| `HardAuditProofs` | TLAPS proofs about it |
| `CanaryEpochs` | canary tests across epoch boundaries |
| `CanaryEpochsProofs` | TLAPS proofs about it |
| `OneShotChallenge` | what a challenge promises: freeze, disclose once, accept only then |
| `ChallengeSession` | the operations of `ProofV3ChallengeSession`, each under its lock |
| `ProofExchange` | the validator's exchange over a session, miner, clock and other threads; implements `OneShotChallenge` |
| `ProofExchangeProofs` | TLAPS proofs about it, the refinement included |
| `CapacityAudit` | one audit window and slot, from selection to penalty and score gate |
| `CapacityAuditProofs` | TLAPS proofs about it |
| `MinerRegistry` | the registry contract |
| `MinerRegistryProofs` | TLAPS proofs about it |
| `MinerLease` | the miner's process, composed with `MinerRegistry` |
| `MinerLeaseProofs` | TLAPS proofs about it, over those about the contract |
| `MCCanaryEpochs`, `MCMinerRegistry`, `MCMinerLease` | symmetry sets and constant functions for TLC |

### HardAudit

One endpoint is followed; `Keys` are the contract indices it may be registered
under. `tracker` is the probation file, `db` the columns of `miner_entries`,
`strikes`/`strikesDb` and `ledger`/`ledgerDb` are the two ledgers in memory and
in `validator_meta`. A thread record `thr[t]` is a handler's program counter and
locals; the threads are the canary workers, the close worker (`closer`), the
block loop (`main`) and the epoch setup (`setup`). A handler is cut wherever it
releases a lock or commits a write:

* a result (`HardTestFails`, `LightTestFails`, `HardTestPasses`, ...) starts a
  handler; `RecordStrike`, `Publish`, `Gate`, `Branch`, `TrackerWrite`, `DbWrite`
  are `_record_hard_audit_failure` and `_on_proof_failure`;
* `StoreReceipt` and `ReconcileLateHardPass` are what a hard pass leaves;
  `RecoveryLedger`, `RecoveryTracker`, `RecoveryDb`, `RecoveryClear` are
  `_record_probation_recovery_source_pass` under its lock;
* `MigrateIndex` (the tracker), `MigrateStrikes` (the strike ledger and its save),
  `CloseHard`, `CloseObligations`, `CloseVerdict`, `CloseLifecycle`, `CloseEnterDb`,
  `CloseEnd` are the parts of `_close_epoch` that touch enforcement, and
  `CloseRetry` the exception that may leave it anywhere, between the two writes
  of probation too, and its retry;
* `CloseGate`, `GateTracker`, `GateDb` are the score gate's
  `_ensure_capacity_audit_entry_probation`;
* `StartNewEpoch`, then `UpsertEntry`: on a model switch `upsert_entry` clears the
  probation columns of the row and nothing else;
* `ClearIdentityDb`, `ClearIdentityTracker` clear both stores when the owner or the
  hotkey behind a UID has changed; an error of the first is swallowed;
* `CapacityDb`, `CapacityTracker` apply a finalized capacity penalty;
* `ResetBegin` to `ResetEffective` are the generation reset;
* `Crash` is a restart at any point: memory is reloaded from the stores.

Abstractions: whether a missing full obligation is deferred is any choice
(`deferred` in `CloseHard`). Left out: GPU deduplication, entries without a uid, EMA
and scores, and an exception between a change in memory and the write of its
durable copy.

Three histories say where agreement of the two stores is claimed. `disturbed`:
entries that two threads wrote at once, or whose writer a crash or an exception cut
off between its two writes. `moved`: indices a migration moved probation between.
`switched`: entries whose row a model switch cleared while the tracker lists them;
for these `Agree` only asks that a row on probation is listed with the same passes. Section 3 says how
each of these disagrees with a comment; the run `HardAuditRace` keeps the first.

### CanaryEpochs

A test is <<epoch planned, obligation>>, an execution <<epoch dispatched, test>>,
the pair the code keeps its books under. `setup`, `main` and `worker[w]` are the
setup thread, the block loop and the workers; `sched`, `queue`, `queued`,
`inflight`, `unfinished`, `cross` and `inventory` are the shared state, `frozen`
and `pardoned` what the close of an epoch is given. `_seal_canary_epoch_for_close`
is four steps (`SealFence`, `SealDrain`, `SealClassify`, `SealNeutralize`) and
`QueueEpochClose` the freeze, because workers run between them; the execution of
a test is cut at every check of the epoch and at every mark.

Abstractions: target blocks (any subset of the scheduled tests may be due), one
endpoint, no full-context pair barrier, prompts and proofs. The fixed set of
workers stands for the pool and what is left of the pool before it. The transport
retry is inside `MinerSettles`.

Three histories serve the properties. `answered`: executions the miner settled in
their epoch, or left a receipt for, a late pass of a hard test included
(`store_local_service_receipt` runs whatever the epoch, and the close counts it).
`late`: executions penalised after their epoch. `mislaid`: executions the validator
itself lost sight of, for one of five causes: a test put back, planned, or
registered after the seal had emptied the scheduler; one dispatched again while the
finally block of its earlier execution was still to run; one that a fault of the
validator's own ended after the seal, when its excuse is refused.

### ChallengeSession and ProofExchange

`ChallengeSession` has the session's fields as variables (`retained` stands for
nonce, binding, decision and envelope together; `deadline`, the stamps and `hold`
are the code's) and one operator per method. `verify_proof_bytes_once` is two,
`BeginVerify` and `EndVerify`, because it gives the lock up while the verifier
runs. `ProofExchange` adds the driver, `run_proof_v3_exchange_sync` and its
asynchronous twin: `pc` is where it is, the other variables are the fields of
`ProofV3ValidatorExchange`. `Classified` is `_raise_exchange_failure`. The miner
is any sequence of tokens, envelopes, done events and openings, sound or not, with
any number of uncounted lines in between; a transport may fail wherever the driver
waits (`Waits`). `Cancel` is the coroutine being cancelled, `LocalError` an exception
of the validator's own code (or a verifier that says it is unavailable),
`WrappedError` one that session or verifier turn into a verification error, and
`WallClockBack` a wall clock that stepped back under the stream, which
`record_stream_timing` reports as one; `slip` remembers the last two. `Intrude` is
another thread that expires, aborts or fails the session. In this commit no other
thread does; the session's lock and its second look at `VERIFYING` provide for it.

`OneShotChallenge` is the abstract specification: four phases on the way to one
of three ends, with the disclosure in the middle. `Phase` maps FAILED, EXPIRED and
ABORTED to VOID; everything else maps by name, and `OneShot` is the abstract
specification under this mapping.

Abstractions: stamps are ticks of one clock, 63-bit limits are `TimeLimit`;
envelopes, proofs and bindings are sound or not; the tier draw is an input.
`peerFault`, `intruded` and `slip` are history variables.

### CapacityAudit

`win` and `slot` are the rows of the database, and the first half of the module
its transactions, one operator each. The block thread (`pc`), the receipt and
proof executors (`finals`, `payloads`: what a task has read and not yet written)
and the threads that apply penalties (`applying`) interleave between
transactions. A block that is not final may be replaced, so the hash read for it
may be an orphan's; finality is `chain - FinalityLag`. The validator may be `MaxLag`
blocks behind. A restarted one (`Resumes`) replays from the start of the epoch, goes on
at the current block, or waits for the next epoch (`NextEpoch`). `WorkerFails` is a proof
worker that fails on any payload and records `verify_error`.

Abstractions: time is counted in blocks; drains, hardware grouping and the draw of
slots are left out; a confirmation reads all the anchors that are due or none;
excuse and gate of the close are one step; reaching the gate's threshold is
`counted`; the legacy protocol's grace window is closed; the miner's row exists.
`early` is `final_observed_block` being below the challenge block.

### MinerRegistry and MinerLease

`MinerRegistry` is the contract: the external functions that write bindings,
entries, endpoint owners or reports are actions with their `require`s as guards (a
reverting call changes nothing). Left out are `updateDemandScores`,
`registerTEEAttestation`, `revokeTEEAttestation` and the list `_modelProviders`: what they
write none of these functions reads. Indices start at 1. A member of
`Models` is a pair of model and quantization, `modelSpecRef` is left out; any address
may hold a valid signature for any UID, which is what recycled UIDs and moved
hotkeys need. `Lookup` is what the UID precompile answers.

`MinerLease` is the process of `miner.py` against it. `Bind` (with the checks of the
UID the address resolves to), `Read`, `Scan`, `Register` and `Index` are
`register_on_chain`, cut at every call of the chain; `Renew` is the heartbeat. In the
scan, `Move` is the `--update-endpoint` branch (the endpoints of an instance are ports of
one host, the only moves the code makes; `MoveFlags` says which processes have the flag) and
`DropOlder` the branch for a second match. When `register_on_chain` returns no index the process
goes on to its heartbeat or ends (`Exits`), as the strict mode of its capacity-audit
worker makes it. `reached` says whether a call gets to the chain; `Unseen` lets the
receipt of one that did be lost. `cache` is the client's list of entries, which lives
for a minute (`CacheExpires`) and which no call of the process invalidates. The
clock's unit is a fraction of the lease, so it stands still while the process
registers. `ModelId` gives the model of a pair: the scan takes entries of other
models off the endpoint and leaves another quantization of its own alone.

Histories: `disturbed`, an index of this address, or its binding, was taken away
while the process ran; `gaveUp`, a deactivation was given up after its retries, now
or by an earlier process; `moved`, `--update-endpoint` has moved an entry. After a move
two entries of one model and endpoint are possible (`updateEndpoint` accepts the pair
of an inactive or expired entry), so `UniqueEntry` is claimed before one and
`OneLiveEntry`, that never two are live, after it.

## 3. Runs

All passing runs bound epochs, events and attempts in guards, so behaviours end and
deadlock is not checked. Bounds are the smallest at which every action fires
and every case of the property occurs: three epochs and three events let an entry
fail, be cleared and fail again, or recover over two clean epochs; two workers are
needed for any race between workers and symmetric beyond that; two attempts are
`max(2, max_attempts)`, the least the code allows. In `ProofExchange` the clock can
pass each deadline at each wait; in `CapacityAudit` the chain goes past selection,
start and challenge with one block of finality to spare and the validator may lag
by two; nine calls bind, register, report, expire and clean up two entries of an
address; `MinerLease` has room for one entry of each of two models, a changed context
length, its expiry and cleanup. Another quantization of one model is a third member of
`Models`; with it the invariants hold too (3.4 million states, without liveness), and
the proofs cover any number. `MinerLeaseMove` needs two kills (an entry on each of two
ports, then a process that moves one onto the other) and a third slot beside them.

| run | instance | shows |
|---|---|---|
| `HardAuditRecovery` | 1 index, 1 worker, 3 epochs, 3 events, model switches, identity changes | types; the saved ledger loads; the stores agree but for what a model switch did; an epoch is counted once; a failure ends in probation with the count at zero |
| `HardAuditRestart` | 2 crashes, a reset, 2 epochs, 1 event | every published generation is applied in the end, whichever of the reset's writes a restart cuts off |
| `HardAuditFollower` | not the hard auditor, lower-case addresses, score gate, maintenance grace, 2 indices, 3 epochs, 1 event | the stores when outcomes come from shared verdicts and the endpoint moves |
| `CanaryBoundary` | a hard full-context obligation, 2 workers, 2 boundaries, quick setups, no drains or faults | types; what the close counts as missed the miner has settled; a started execution loses its mark if no miner holds its request for ever |
| `CanaryThreads` | slow and failing setups, drains, faults, 2 workers, 1 boundary | a miss is the miner's or mislaid in one of the five ways; no test runs twice at once; the updater sees the epoch's work |
| `ProofExchange` | deadlines of 1 or 2 ticks, 7 ticks, 2 tokens, all three kinds of intruder | the session implements the one-shot challenge; no retryable end after disclosure; terminal sessions are closed; verified is timely; blame has a cause; the exchange ends once the peer lets it |
| `CapacityAudit` | one window, 5 blocks, orphans, a receipt and a payload that may be refused and delivered again, one restart | a penalty once and for a started window; the gate counts what is final; a miss was late; commitment before challenge; an acknowledged payload is not missing |
| `MinerRegistry` | 2 addresses, 2 UIDs, 2 endpoints, 2 entries each, 9 calls | bindings inverse, owners have entries, reports counted once, leases kept |
| `MinerLease` | 2 models and 2 context lengths on an endpoint, 2 entries, a lease of 2 intervals, a kill, outages, a report, cleanup | the heartbeat has an index; one entry per model and endpoint; one model served; it wakes in time; it is listed again |
| `MinerLeaseMove` | 1 model on 2 ports, with and without `--update-endpoint`, 3 entries, 2 kills | the heartbeat's index is that of its own entry; two entries of one pair are never both live |

Two runs are expected to violate their property, a sentence of the repository's
comments; PROJECT.json "findings" explains the counterexamples:

| run | sentence | what happens |
|---|---|---|
| `HardAuditRace` | a proof failure immediately puts the miner on probation | a recovery between `is_on_probation` and `record_failure` lifts it, and the failure finds nothing to reset |
| `MinerLeaseIndex` | the retry finds the entry and returns its index | the list it looks in was cached before the call |

Larger instances that hold too and are not kept as runs: that of `HardAuditRecovery` with
the score gate (3 million states); `CountsOnce` and
`LedgerReloads` with a crash, a reset and two events (1.2 million states),
`LedgerReloads` for the follower; `IndexIsOwn` in the instance of `MinerLease` and
`HasIndex` in that of `MinerLeaseMove`;
`MissIsMinersFault` with two obligations and one boundary (3.5 million);
`StartedTerminates` with drains and faults (95 thousand); `Relisted` with
`--update-endpoint` and one kill (229 thousand; with two kills and two slots it fails
because the array is full).

`MissIsMinersFault` holds when the validator has no faults and no drains and its
setups succeed and end before the next block. These are the constants of
`CanaryBoundary`; TLC refutes it when any one is dropped (one obligation and two
epochs; three for a setup that fails):

* `Drains`: a test requeued for an audit (validator.py:7013) misses the seal's
  emptying of the scheduler, its worker's finally block runs before the
  classification, and the miner was never asked. validator.py:5852 says "Never-started
  local work and requests still running at the boundary are removed".
* `SetupFails`: a setup that raises before validator.py:7561 leaves the previous
  epoch's inventory to the next close.
* `SlowSetup`: a setup that registers its inventory after the seal has gone through
  the scheduler leaves obligations to the close that nothing pardoned.
* `Faults`: a test that an error of the validator's own ends between the fence and
  the classification is in no book by then, and its excuse is refused because the
  epoch is no longer active.

`MissIsExplained` is the general form, checked with all of them at once in
`CanaryThreads` and proved: a miss of one of the epoch's own obligations is the miner's or
`mislaid`. The obligations of another epoch that a setup which failed or came too late
leaves in the inventory are outside it.

Other places where the model's behaviour and a comment differ. Those
marked TLC were counterexamples of the sentence stated as a property; no run is
kept for them here:

* (TLC) validator_db.py:660 "If the entry exists but model_id has changed (model
  switch), the EMA score and probation are reset": only the row is. The tracker
  still lists the entry, and a later failure's `UPDATE` (validator_db.py:1115) reaches
  no row that is off probation.
* (TLC) validator.py:9795 "Also migrate in DB ... use tracker's side-effect to keep
  them in sync": no call follows, the row under the old index stays on probation and
  the new one off.
* (TLC) validator.py:9781 "Reconcile stale probation keys": the close passes the
  checksummed address to `migrate_index`, which compares it with lower-case keys;
  `HardAudit` with `LowerCase = FALSE`.
* (TLC) economic_model.md:101 "An endpoint returns after the configured number of
  clean epochs": the tracker counts to the configured number, the database row to
  its own column, whose default nothing updates (validator_db.py:1085); `HardAudit`
  with `Required` below `DbRequired`.
* (TLC) validator.py:5382 "Return whether restarting could destroy live validator
  work": requests of a sealed epoch are in none of the books it looks at.
* (TLC) validator.py:5856 "A running request remains active until its configured
  deadline": the configured value is an httpx timeout for each connect, read and write
  (client.py:1070), so a miner that keeps sending holds the request, its mark and
  the worker.
* (TLC) proof_v3_validator.py:152 "The selected miner failed a v3 protocol
  obligation": the class is also raised when the validator let the reveal window
  pass, when its wall clock stepped back under the stream (359), when its own
  exception was wrapped in the session (session.py:925, 970, 1071) or the verifier,
  and when another thread ended the session. `BlameIsExplained` lists these causes.
* (TLC) validator_db.py:2437 "hard-proof failures whose chain anchors are final": a
  window is confirmed when the anchors recorded so far are final, so a penalty can
  fall before the challenge block is known, and stands if that is reorganised.
* (TLC) validator_db.py:1740 "Such receipts are judged once the validator records its
  B_start observation time": a block handler that expires misses in between calls
  a receipt that came in time a no-show.
* (TLC) validator.py:3517 "A reorg is terminal evidence for this window": a proof
  worker that read the row before overwrites the verdict.
* (TLC) miner.py:1892 "Re-register to get a fresh entry and update model_index":
  `--update-endpoint` takes an entry for its own without looking at its lease, and
  within the life of the cached list the re-registration moves and returns the same
  expired entry; the heartbeat then sleeps an interval without a lease
  (`SleepsWithinLease` with `MoveFlags` both).
* MinerRegistry.sol:376 "Endpoint must not be claimed by another miner": an owner
  with two entries on an endpoint loses it with the first deactivation, and
  `renewModel` brings an entry back without claiming its endpoint.
* MinerRegistry.sol:245: two live entries of one model and endpoint are possible
  through `updateEndpoint` of an inactive entry and `renewModel`. The neuron deactivates
  the older of two matches (miner.py:1408); `OneLiveEntry` exempts the case that this
  is given up.
* MinerRegistry.sol:474 "Each validator can only report once per miner-model
  entry": reports are kept by index and survive `cleanup` and re-registration, so
  the next entry at the index inherits them.
* miner.py:1596 "Parsing the event is always correct": a new entry's index is
  taken to be the count of entries by then, which another process of the same
  address may have raised.
* miner.py:1349 "Only deactivates entries that match on model_id + endpoint + quant":
  the loop also deactivates entries of other models on the endpoint (miner.py:1376).
* A deactivation of its own entry with another context length that is given up
  (miner.py:1444) is not noticed: every `registerModel` that follows reverts and the
  heartbeat starts without an index. An expired entry of its own ends the scan
  (miner.py:1437) and leaves what comes after it to a later process. `HasIndex` and
  `OneModelServed` name both cases (`gaveUp`); an attempt to prove them without found
  them.
* After a `cleanup` that moved its entry, or a reset of its binding, the heartbeat
  gets a revert other than "Already expired" and tries the same index for ever.
* bittensor_integration.md:166 "100% proof success": the close counts an epoch
  whose hard failure was waived as a neutral strike.
* validator_miner_workflow.md:1049 "3 consecutive clean epochs": an epoch that
  ended before a light failure of the next one can close, and count, after it.
* validator.py:8069 "cannot misclassify this as unstarted work": a boundary
  between the dequeue and the mark does.
* validator.py:5908 "planned 2+1 obligations are never weakened": a test
  dispatched while `plan_epoch` is still running is missing from the inventory.

### Fairness

`HardAudit!LiveSpec`: weak fairness of the block loop's reset (configuration is
read again at every start and epoch start) and of a recovery that holds the lock
the reset needs (plain code without waits).

`CanaryEpochs!LiveSpec`: weak fairness of every worker's next step except while its
request runs. Timeouts are per read, so a miner may hold a request for as long as
it keeps sending; `StartedTerminates` is therefore conditional on every worker's
leaving `run` again and again. Nothing is assumed about blocks, the owner or crashes.

`ProofExchange!LiveSpec`: weak fairness of the driver's next step except in the waits
for the peer (`Waits`), for the same reason; `ExchangeEnds` is conditional on the driver
not staying in them for ever.

`MinerLease!LiveSpec`: weak fairness of the process's own steps, of time and of the
expiry of the cached list (60 seconds), and strong fairness of every call reaching the
chain, since the loops repeat a call for ever and an outage ends. A process manager
restarts the process.

## 4. Proofs

`HardAuditProofs` (for all keys, workers, thresholds, epochs, crashes, resets):

* `TypeCorrect`: `Spec => []TypeOK`.
* `LedgerAlwaysReloads`: `Spec => []LedgerReloads`. The inductive invariant is
  `StrikesWellFormed`, that every entry in memory *and* saved is well formed:
  the property speaks of the saved copy, which later comes from memory.
* `RecoveryCountedOnce`: `Spec => []CountsOnce`, by `CountedIsLedgered`: an epoch
  already counted is at or below the recovery ledger, in memory and saved. The
  saved half is what a crash needs, and it holds because the ledger is saved
  before the pass is counted.
* `StoresAgree`: `Spec => []DbTracksTracker`, and `FailureAlwaysLeavesProbation`, the
  action property `FailureLeavesProbation`, both if `Required = DbRequired`: with
  different counts the stores differ after the first recovery (section 3). Model
  switches, identity changes, the score gate and exceptions of the close are included:
  an entry a switch has cleared stays `switched` until the tracker drops it or its row
  is on probation again, and until then the theorems say what the tracker holds. The invariant `StoresInv` says for every
  thread between its two writes what the second one will find (`InStep`), and that
  an entry with two writers is `disturbed`; `OneThread` is the lemma that an undisturbed
  entry has one writer.

`CanaryEpochsProofs` (for all obligations, workers, epochs):

* `TypeCorrect`: `Spec => []TypeOK`, with `SealHasNext` (a seal is under way only
  before the last epoch) and `TypedWorkers` (a busy worker has an execution).
* `ExecutedOnce`: `Spec => []OneExecution`. The invariant is `InOnePlace` (a test
  is in the scheduler, in the queue or in one worker's hands) with `PlannedOnce`
  (no test of the current epoch is about unless the epoch has its scheduler, and
  what a setup still has to plan is nowhere). The second is needed because a
  setup may be started twice for an epoch and may outlive its epoch. Most actions
  only take tests away (`ShrinkKeepsPlaces`); `GiveBack` covers the two that put
  one back.
* `RunningWorkIsSeen`: `Spec => []EpochWorkIsBusy`. The markers are counters shared by
  all workers, so the invariant `CountInv` counts: until the seal classifies, there
  are at most as many workers running tests of the epoch as its counter says, and
  nothing runs under a later epoch. A late worker's decrement takes its own mark,
  not another's. The thread pool is finite (`CanaryAssumption`).
* `MissesAreExplained`: `Spec => []MissIsExplained`, without conditions on the constants.
  The invariant follows an obligation from the inventory to the close: every test
  owed and not settled is in the scheduler, the queue, a worker's hands or a book the
  seal pardons, at each of the seal's four steps, unless it was mislaid, and a close
  holds no other. `MissIsMinersFault`, which needs the quiet constants of section 3,
  is left to TLC.

`ProofExchangeProofs` (for all clocks, deadlines, budgets, tokens, intruders):

* `Refinement`: `Spec => OneShot`, the initial state and every step of session and
  driver map to a step of `OneShotChallenge` or a stutter.
* `Settled`, `Closed`, `Timely`, `Explained`, `TypeCorrect`: the run's invariants.
  The inductive invariant adds `Tracked` (the driver's place bounds the session's
  state, unless an intruder ended it), `Disclosure` (the nonce is disclosed exactly
  where the driver has sent it), `Forgotten`, `Read`, `Stamps` (the order of the
  stamps and the deadlines computed from them) and `Blame`.

`MinerRegistryProofs` (for all addresses, UIDs, endpoints, lease lengths):

* `Binding`, `Ownership`, `Reports`, `Leases`, `RegistryTypes`: the run's
  properties. They are inductive together with `FiniteReports` (the reporters of an
  index are finitely many, so that counting is possible) and `LeaseBound` (no lease
  ends later than now plus its length). `Ownership` needs a case for every way an
  entry leaves its place: replaced, moved, swapped by cleanup; `OwnersStep` is the
  lemma they share.

`MinerLeaseProofs` (for all models, entries, retries, leases, kills), over
`MinerRegistryProofs`, whose lemmas say what a call of the contract keeps:

* `LeaseTypeCorrect`: `LeaseTypeOK`, whatever the process, the others and the network do.
* `EntriesStayUnique`: `UniqueEntry`, up to the first move by `--update-endpoint`.
* `HeartbeatRenewsItsOwn`: `IndexIsOwn`, with lost receipts, moves and old lists. The
  invariant `Owned` says that every index the process holds is of an entry of its model
  and endpoint; a list it has read agrees with the array in models, and in endpoints
  but for entries moved to the process's own (`Follows`).
* `HeartbeatHasIndex`, `EndpointServesOneModel`, `NeuronWakesInTime`: `HasIndex`,
  `OneModelServed` and `SleepsWithinLease` if receipts are seen (`Unseen = FALSE`) and until
  an entry is moved; the run `MinerLeaseIndex` and section 3 show what happens
  otherwise. The invariant `Known` relates what the process believes to the contract at
  every place between two calls: the cached list (`CacheInv`), the list being scanned
  and how far (`ScanInv`), what a call just mined has written (`WrittenInv`), the index
  and the lease it computed its sleep from (`HeartbeatInv`), and what is active on the
  endpoint (`ServedInv`). It is claimed while the process is not `disturbed`.

`CapacityAuditProofs` (for all lags, finality depths, deliveries, tasks, restarts):

* `TypeCorrect`, `PenalisedOnce`, `PenalisedIsStarted`, `GateAlwaysStands`,
  `MissesAreLate`, `CommitsPrecedeChallenge` and the action property
  `AckedNeverMissing`: all the run's properties. The invariant has a half for the
  window (anchors are recorded once and in order, and what was confirmed on them
  stays) and one for the slot (a charge leaves its mark in the same transaction, a
  verdict was reached in one of a few ways and is kept, a receipt that came early is
  known to be, an acknowledged payload is settled or its window alive). A task holds
  what it read before, so the slot's half also speaks of what is in the executors.

The assumptions are the named ones of the modules (`HardAuditAssumption`,
`StrikeTracker`'s on its thresholds, `CanaryAssumption`, `LeaseAssumption` and those of
`ProofExchange`, `CapacityAudit` and `MinerRegistry`); TLC evaluates them in every run.

Only model-checked: the liveness properties (`ResetApplied`, `StartedTerminates`,
`ExchangeEnds`, `Relisted`), since fairness and ENABLED are outside the prover's reach,
`OneLiveEntry`, and `MissIsMinersFault` with its quiet constants. The other properties of
the passing runs are theorems.

## 5. Not modelled, and the plan

Most of the repository's lines are proof cryptography and its GPU and engine
integration (`verallm/proof_v2`, `proof_v3`, `quantization`, `vllm_plugin`,
`runtime`): arithmetic over large fields and tensors without protocol state, out of
TLC's reach. The specifications cover the control of the validator, the exchange,
the miner's registration and the registry contract.

* The full-context pair barrier (validator.py:175-336, 7891-7935, 8238-8470) cannot
  be reached in this commit: no plan creates a pair.
* The miner's proof coordinator and the relay are not in this repository.
* Scores, EMA and weights are floating-point arithmetic; what could be modelled is
  that an epoch is blended once under retries of its close.
* `VerathosMultisig`, `PaymentGateway`, `X402Gateway`, `UsageCheckpointRegistry`,
  `ModelRegistry`, `SubnetConfig` are sequential and small; `ValidatorRegistry` and
  `UsageCheckpointRegistry` bind UIDs with the code of `MinerRegistry.registerEvm`,
  so `Binding` speaks for them.
* TEE attestation, command line, wizard, client plugins and scripts.

Left to do, in this order:

1. Lemmas about the operators of `StrikeTracker` (what a failure and a clean pass do
   to a ledger) as theorems of their own; `DbTracksTracker` for a moved entry;
   a save that fails between a change in memory and its durable copy; `OneLiveEntry` as
   a theorem.
2. `EpochClose`: single flight, retries and the EMA blend, with `CanaryEpochs`.
3. `VerdictFollower`: the signed feed and its cursor, as the source of
   `CloseVerdict`; `ReceiptStore`, `RateLimiter`.
