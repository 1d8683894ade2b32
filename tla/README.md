# A TLA+ model of the Rift hypernode

The hypernode watches the Rift exchange contract for reservations and Bitcoin
for their payments, proves each payment to the contract, and releases the
liquidity when the challenge period of a proof is over. This directory models
it: what is shared, what runs concurrently, what may fail, and what must hold
all the same. Code references are to the Rust files of the repository
(`btc_indexer.rs:203` is `src/btc_indexer.rs`, line 203, in the crate).

## The system

| Component | State | Operations | Interacts with |
|---|---|---|---|
| Shared store (`core.rs`) | reservations with `btc_initial`, `btc_final`, `proof`; hashes of the contract's Bitcoin headers | `insert`, `remove`, `drop_expired_reservations`, `update_*`; each one critical section of `with_lock` | written by everybody below |
| Block listener (`btc_indexer.rs`) | `current_height`, `analyzed_height`, the batch, the block under analysis, copies taken out of the store | poll, concurrent download, search for payments, confirmation, download of the window | Bitcoin RPC, store, proof generation queue |
| Event listener (`evm_indexer.rs`) | start heights of a session, current heights, `processed_logs` | four event streams under one `select!`, retry after errors, restart when all streams have ended | contract, store, releaser |
| Startup (`node.rs`, `evm_indexer.rs`) | | search of the start heights, sync of reservations and headers, then `try_join!` of both listeners | all |
| Proof generation (`proof_builder.rs`) | channel, semaphore, workers | one worker per request, `update_proof_data` | store, proof broadcast queue |
| Proof broadcast (`proof_broadcast.rs`) | channel, one consumer | compare public inputs, submit the proof | store, contract |
| Releaser (`releaser.rs`) | requests behind a mutex | `add`; on every EVM block drain, broadcast what is due, put the rest back | event listener, contract |

The two listeners are two futures of one `try_join!`: an error or a panic of
one ends both. The two proof queues and the releaser are tasks of their own,
whose panics nobody notices. All share the store through `with_lock`, which is
never held across an await; so the unit of interleaving is the code between two
awaits, and what a component has read may be stale after each. Hard are:

* state copied out of the store before a dozen requests and used after them,
* blocks, events and answers that arrive in another order than they were made,
* Bitcoin reorganisations, of which the listener keeps no record,
* event sessions that fail and are replayed, streams that end one by one,
* the releaser's mutex, which *is* held across broadcasts,
* errors that are logged and forgotten, and panics that end one task only, two
  of them on the way of a transaction to the chain via Flashbots.

What makes each component correct:

* Block listener: blocks are analysed in order, each of them; a payment that
  is seen is recorded and stays recorded; a window is built around the payment,
  starts at a header of the contract and has the block of the payment as long
  as the best chain has it; a proof is asked for once; everything confirmed gets
  its window.
* Event listener and startup: once caught up, the store holds what is open on
  the contract, and it is never ahead of it; no event falls between sync and
  subscription or between two sessions, and the headers have no gap; duplicates
  do not undo progress.
* Releaser: one broadcast for what is asked until it is made, no request lost
  but by a panic, every due one broadcast and none that is not due.
* Proof queues: no permit is lost, a request is served once and in the end, what
  is submitted is what was proved, one bad entry does not stop the consumer.
* Height searches: no block that a living reservation can depend on is below the
  start height, the search ends, asks for no block twice, and does not go back
  further than it must.
* The node: from the Bitcoin chain to the contract, a submission names a payment
  that was seen, in a window that confirms it unless the reservation was paid
  again, and once for each time the reservation was stored.

## Modules

| Module | Models |
|---|---|
| `Store` | the operations of `Store`, as operators on a function from all ids to metadata or `None` |
| `BlockListener` | `block_listener` and its two analyses; the contract, the event listener and Bitcoin as environment |
| `EventListener` | `sync_reservations`, `download_safe_bitcoin_headers`, `exchange_event_listener`; the block listener as environment |
| `ProofPipeline` | `ProofGenerationQueue` and `ProofBroadcastQueue`; both listeners as environment |
| `Releaser` | `ReleaserQueue` |
| `ContractFeed` | no code: what store and releaser take from the contract, without log, streams and sessions; `EventListener` implements it |
| `ReleaseBook` | no code: what the releaser promises, without queue, drain and lock; `Releaser` implements it |
| `HeightSearch` | the two functions `find_block_height_from_time` |
| `SwapProver` | no code: what the node promises, without store, queues or tasks |
| `Hypernode` | block listener and proof queues in one process over one store; it implements `BlockListener`, `ProofPipeline` and `SwapProver` |
| `*Proofs` | the theorems about the module of that name; those about `Hypernode` are in `HypernodeProofs` and, on top of it, `NodePipelineProofs` |
| `MC*` | instances for TLC: transaction lists, payments, windows, chains |

`Store` is extended by every module that touches it, so all use the same
operations. A module on its own has the other components as environment
actions, which do to the store what the others do, at any moment, and under
weaker conditions than theirs (`InsertReservation`, `RemoveReservation`,
`AddHeader` in `BlockListener`, `FindPayment` in `EventListener`, `Listeners` in
`ProofPipeline`). `Hypernode` checks that assumption for the two parts that
meet in a channel: the composition's steps are steps of each part, or none.

Definitions headed "Variant" are mutated forms of the one that follows, each
with one plausible bug. Nothing uses them; putting one in the place of its
original must break the property that it is paired with in `PROJECT.json`.

### BlockListener and the code

`pc` is the await the future is at. Each action runs from there to the next.

| Action | Code |
|---|---|
| `Connect`, `Poll` | `get_block_count` at the start and when caught up; a lower tip is ignored |
| `StartDownload`, `FetchBlock(h)` | `buffer_unordered`: one of the first `MaxConcurrentRequests` missing heights answers with the block the best chain has now |
| `NextBlock`, `BatchDone` | the sorted batch, one block at a time; drops expired reservations |
| `ReadInscriptions` | the copy of the order nonces, before any transaction is looked at |
| `RecordPayment(id)`, `SkipTx` | one transaction: the inscription alone decides, and a later payment overwrites an earlier one |
| `ReadPending`, `ReadHeaders` | the copies of pending reservations and headers |
| `SelectWindow(p)` | the two binary searches |
| `FetchWindowBlock(h)` | `buffered(10)`, then chainwork and retarget block |
| `CommitWindow` | `update_btc_reservation_final` and the request for a proof |
| `ConfirmationsDone` | end of the loop |
| `RpcError`, `MissingEntryPanic`, `NoSafeHeightPanic` | a refused request; `unwrap` of a missing entry; `index - 1` with index 0 |

A transaction is told by whom it pays. A block is a height with a fork number
and the fork below; it stands for its hash. `Payable` keeps payments from naming
reservations that do not exist, and `RemoveReservation` needs a payment
`CONFIRMATION_HEIGHT_DELTA` deep, as the contract does. The set `sifted`, the
counters `inserts` and the heights `tracked_from` are history: no guard of the
code's actions reads them.

### EventListener and the code

The contract's log is a set of events with block numbers; a stream delivers the
events of its kind block by block, and nothing relates two streams. `Receive`
is the head of an arm of `select!` up to the download of the reservation,
`HandleReserved`, `HandleProofSubmitted`, `AddRelease` and `HandleBlocksAdded`
what follows, `ReceiveSwapComplete` the arm without a download. `ReceiveAgain`
is a second delivery. `SessionFails` and `Retry` are the `Err` case, `AllClosed`
the `else` arm and the `Ok` case. Startup is split at its two reads of the tip,
since events may come in between.

### Releaser and the code

The queue is counted per reservation. `lock` is the mutex when it is held over
an await, from `ProcessQueue` to `FinishBlock`; `Add` is `add()` once it has the
lock. A block that the subscription skips is a timestamp that is skipped.
`BroadcastPanics` is the `unwrap` of `as_builder()` in
`broadcast_transaction_via_flashbots` (`evm_indexer.rs:51`). Whether `fill`
returns a builder or an envelope is up to the provider's fillers, which are not
part of the repository, so with `Flashbots` the model has both. The panic ends
the task between the drain and the put-back: what was drained is gone, the mutex
of `futures` is released and not poisoned, and `add()` goes on filling a queue
that nobody empties.

### ProofPipeline and the code

Both channels carry ids only. `workers` is the sequence of all workers ever
spawned, each at one of its awaits or done; a panic ends a worker like an error
does, since the permit is dropped when its future is.

| Action | Code |
|---|---|
| `ReceiveRequest`, `SpawnWorker` | `recv`, then `acquire_owned` and `tokio::spawn` |
| `ReadEntry(n)`, `EntryNotProvable(n)` | the one copy of the entry; it is gone, or has no window or payment |
| `ProofMade(n)`, `PaymentOutsideWindow(n)`, `ProofFails(n)` | `build_transaction_proof_input` and the prover; an index outside of the window has no proof |
| `StoreProof(n)`, `StorePanics(n)` | `update_proof_data`: into whatever entry the id has, or `unwrap` of none |
| `QueueProof(n)` | `ProofBroadcastQueue::add`, which fails when the receiver is gone |
| `ReceiveProof`, `EntryNotComplete`, `IndexPanics` | the broadcaster's copy of the entry, an error for what it lacks, the panic of `blocks.index` |
| `ValidatePublicInputs`, `Mismatch` | `validate_public_inputs` |
| `SubmitProof`, `ContractRefuses` | `submitSwapProof`; an error is logged and the proof forgotten |
| `EnvelopePanics` | with `Flashbots`, the same `unwrap` of `as_builder()`: the broadcaster is over, with everything in its channel |

A proof is what it proves: reservation, payment and window. The contract's
public inputs are the same three, of the entry at submission. `submitted`,
`submissions`, `requests` and `repaid` are history.

### HeightSearch and the code

`Start` is the request for the tip with the arithmetic that follows, and each of
`EvmFound`, `EvmTooYoung`, `BtcFound`, `BtcTooYoung` one round of the loop.
`BtcClosest` is the exit of the `while`. The searches differ in where they stop:
at block 0 after looking at it, or without. `Skew` is how far a block may be
older than one before it; it is 0 on the EVM chain. The one plain subtraction,
of the duration from Bitcoin's timestamp, is why `Init` wants Bitcoin's tip to be
past the duration; an average of 0, which would divide by zero, is no argument.

### Hypernode and the code

`NodeListen` is a turn of the block listener. In two of its turns it meets the
queues: `ProvePayment` is `CommitWindow` with the `add` to the queue, which is
in the same turn, and `TakePayment` records in `repaid` what it means to a
reservation that has its window. Everything else (`ListenOnly`, `Around`) leaves
the queues alone. `Consumer`, `ProofWorker(n)` and `Broadcaster` are the tasks of
the queues, alive as long as the process is. The payments and windows that
`ProofPipeline` is given are those of the chain's blocks (`ChainPayments`,
`ChainWindows`), and its requests the ones the listener sends, one at most each
time a reservation is stored.

## Runs

| Run | Instance | Shows |
|---|---|---|
| `ListenerWindows` | 1 reservation, heights 1 to 4, a reorganisation of depth up to 2, 2 inserts, headers 2 and 3 at any time, clock to 2, requests refused | `TypeOK`, `OneProofPerInsert`, `FinalWindowHoldsPayment` |
| `ListenerPayments` | 2 reservations, blocks with 0 to 2 payments, heights to 3, no header at first | `PaymentsRecorded`, `AnalyzedInOrder`, `ProgressKept` |
| `EventsMirror` | 2 reservations, 3 EVM blocks, a failure, a duplicate | `TypeOK`, `StoreMirrorsContract`, `PaymentKeptInSession`, `FulfilledStaysRemoved`, `ImplementsContractFeed` |
| `EventsSessions` | 1 reservation, 3 EVM blocks, a failure, 4 closed streams | `HeadersNeverSkipped`, `EventsEventuallyApplied` |
| `NodeProofs` | 1 reservation, heights 1 to 4, headers 1 and 4, 2 inserts, 1 permit, 1 failure in the queues, Flashbots, refused requests, no reorganisation | `NodeTypeOK`, `SubmissionConfirmed`, `ImplementsListener`, `ImplementsPipeline`, `ImplementsSwapProver`, `BlocksEventuallySifted`, `PaymentEventuallyFinal`, `PaymentEventuallySubmitted` |
| `PipelineRequests` | 2 reservations, 2 payments and the 2 windows around them, 2 requests, 2 inserts, 1 permit, 1 failure, Flashbots | `TypeOK`, `PermitsConserved`, `SubmissionsProved`, `OneSubmissionPerRequest`, `OnlyRepaymentOrEnvelopePanics`, `RequestsEventuallyServed`, `PaidEventuallySubmitted` |
| `HeightSearches` | every chain of 6 blocks with timestamps 0 to 5 and a skew of 1, 2 ticks to the hour, a duration of 2 hours, averages 1 to 3 | `TypeOK`, `StartCoversDuration`, `StartIsTight`, `OneRequestPerStride`, `SearchEnds` |
| `ReleaserQueue` | 2 reservations, 2 requests each, 3 timestamps, a failure, Flashbots, the subscription may end | `TypeOK`, `OneBroadcastPerRequest`, `NoRequestLost`, `ImplementsReleaseBook`, `DueEventuallyBroadcast` |

Four runs look for a counterexample to something the repository says, and find
it:

| Run | Property | What happens |
|---|---|---|
| `ListenerRemovedEntry` | `EntryPresentAtCommit` | the reservation is removed on `SwapComplete` (another hypernode was faster) after its id was copied for confirmation and before its window is stored; `core.rs:203` unwraps `None` and the node ends |
| `ListenerReplacedBlock` | `BestChainEventuallySifted` | a block that replaces one already downloaded or analysed is never analysed: a temporal property under `FairSpec`, on a chain that comes to rest |
| `EventsZombie` | `FulfilledRemoved` | `ProofSubmitted` is taken after `SwapComplete` and puts the reservation back |
| `ReleaserFailedBroadcast` | `DueEventuallyReleased` | a release whose broadcast fails is forgotten |

### Bounds

With `CONFIRMATION_HEIGHT_DELTA = 1`, as in `constants.rs`, four heights hold a
safe block, a payment, its confirmation and one block more; three suffice where
no window is at stake. Two reservations are the least for one block with
payments of both and for an event of one between events of the other. Two
inserts are a download and its replay. A reorganisation of depth 2 replaces
blocks already analysed and blocks in the window being downloaded; each branch
has a number of its own, so a block that was replaced does not come back. Three EVM
blocks carry a reservation from `LiquidityReserved` to `SwapComplete`, and one
event of each kind. Four closings are what it takes to end a session. Two
requests in flight already arrive out of order; the window's `buffered(10)` is
wider than any window here and is a bound of its own (`WINDOW_REQUESTS`).
`MaxHeight`, `MaxReorgs`, `MaxReorgDepth`, `MaxTime`, `MaxInserts`, `MaxBlocks`,
`MaxCount`, `MaxFailures`, `MaxCloses`, `MaxDuplicates` and `MaxRequests` limit
the environment alone; no guard of the program depends on them. Symmetry is used
in runs without liveness. `Flashbots` is the argument of that name. The runs that
pass have it, since everything that can happen without it can happen with it;
`ReleaserFailedBroadcast` does without, so that what it shows is the failed
broadcast and not the panic.

In `ProofPipeline` two payments and two windows that do not share them are what a
second payment needs to leave the window; two requests over one permit make one
of them wait, and with two inserts the second is of a replaced entry.
`MaxRequests` of `NodeProofs` is as many as its inserts allow, which
`HypernodeAssumption` asks of every instance. `NodeProofs` has no reorganisation:
TLC enumerates `ChainWindows`, which with a second branch has too many members.
The theorems about `Hypernode` hold for any number of them. In `HeightSearches`
averages 1 and 2 give strides of 2 blocks and 1, average 3 the stride 0, and six
blocks are more than the estimate of four.

Deadlock is checked everywhere. A state in which the node has stopped or waits
for an environment that is done has an explicit stuttering action (`Stopped`,
`Quiet`).

### Fairness

`FairSpec` of each module is weak fairness of the component's own steps taken
together: the tokio runtime polls a future that is ready, and the requests it
waits for are answered. Nothing is assumed of the environment, of errors, nor of
who gets a mutex. In `ProofPipeline` and `Hypernode` the tasks are many: each
worker, the consumer, the broadcaster and the listener have weak fairness of
their own, since tokio polls each task that can go on, whatever the others do.
A proof that is being made ends, one way or the other. A refused request ends the
node, which `NodeProofs` allows for as an end (`status # "running"`); failed
sessions and failed proofs are bounded.

## Theorems

All are proved by TLAPS for any set of ids, any transactions and any values of
the constants that satisfy the named assumptions of the modules.

`BlockListenerProofs`

* `TypeCorrect`: `TypeOK`, which is inductive as it stands, thanks to the parts
  that say which local has a value at which await.
* `ProofsBounded`: `OneProofPerInsert`. Not inductive alone: that the copies in
  `pending` and `work` are of entries without a window, one for each id, has to
  be carried along (`ProofInv`). Only the listener itself makes a window, and a
  replaced entry starts without one, so old copies are harmless.
* `BlocksInOrder`: `AnalyzedInOrder`. The batch is, once complete, exactly the
  heights after `analyzed_height` up to `current_height`, each once (`BatchInv`).
* `NoPaymentLost`: `PaymentsRecorded`. While a block is sifted, every payment
  the cursor has passed is recorded, and a reservation that must be seen is in
  the copy of the inscriptions (`PaymentInv`, on top of `BatchInv`).
* `WindowHoldsPayment`: `FinalWindowHoldsPayment`. What is recorded was paid in a
  block that is sifted, or is being sifted (`SeenInv`); the window under way
  starts at a header, confirms such a payment and holds no block outside of it
  (`WorkInv`). A block that the listener holds was on the chain at its height
  (`Known`), and one that was replaced does not come back (`StaysReplaced`): so
  if the block of the payment is on the best chain, then it was when the window
  was downloaded, and is in it (`ChainInv`).
* The lemma `NextCopy` says why the listener may work from copies: nothing is
  recorded while it does, so an entry still has the payment that was copied, or
  has none. The composition needs it.
* `NoProgressLost`: `ProgressKept`, an action property. A payment is removed by
  the contract only `CONFIRMATION_HEIGHT_DELTA` deep, an expired entry by
  `NextBlock`, and a window is stored where there is none (`ProofInv`).
* The lemmas `NextHeights` and `NextOrigin`, that no height goes beyond the bound of
  the chain and that every block the listener holds was on the chain once, are
  for the composition.

`ProofPipelineProofs`. All is proved of `OpenNext`, which is `Next` without TLC's
bound on requests, so that the composition can use it.

* `TypeCorrect`: `TypeOK`.
* `PermitsKept`: `PermitsConserved`, with the set of busy workers finite.
* `SubmittedIsProved` and `BroadcasterSurvives`: `SubmissionsProved` and
  `OnlyRepaymentOrEnvelopePanics`, from `BroadcastInv`. An entry's payment is in
  its window unless it was paid again, and the broadcaster's copy is never
  changed. The second is an action property: the step that ends the broadcaster
  is the index panic over a reservation that was paid again, or the panic in
  sending via Flashbots (`PanicStep`).
* `ServedOnce`: `OneSubmissionPerRequest`. A request is in one place at a time:
  channel, consumer, worker, channel, broadcaster, and each step moves it to the
  next or ends it (`ServedInv`).
* The lemmas `InsertsStep` and `RequestedGrows`, what a step does to inserts and
  requests, are for the composition.

`HeightSearchProofs`, from one invariant of the loop (`Inv`): the search is at
most one stride below a block that it looked at and found too young, and what it
ends with is old enough or the first block.

* `SearchTypeCorrect`, `StartCovers` (`StartCoversDuration`) and `StartTight`
  (`StartIsTight`), for any chain of any length.
* `SearchDescends`: `OneRequestPerStride`. The block about to be asked for is a
  stride below all that were asked for, or it is the first one (`Descent`).

`HypernodeProofs`, about the composition. The theorems above are not proved
again: instances of their modules carry the lemmas over, `LB` with the store as
the listener sees it, without proofs, and `PB` with the requests the listener
sends.

* `NodeListener`: `ImplementsListener`. Leaving out the proofs commutes with
  every operation of the store (`StripStore`), so a step of the node is one of
  `BlockListener`, or none (`NodeListens`). In return the invariants of the
  listener make what it does to the store what `ProofPipeline` has it do
  (`NodePipes`): a window is stored where there is none, around the payment of
  the entry. Both sets of invariants hold in the node (`NodeInvariant`).
* `NodePipeline`: the node's steps are steps of `OpenNext`, or none, whatever the
  payments and windows and however many the requests.
* `NodeSwapProver`: `ImplementsSwapProver`. No height goes beyond the chain's bound
  (`HeightInv`), and every payment and window in an entry or with the broadcaster
  is one that was seen and is known to the contract (`KnownInv`). A submission
  is then one `SwapProver` allows: once for each insert by `ServedInv` (no more
  submissions than requests) with `OneProofPerInsert` (no more requests than
  inserts), and inside its window by `BroadcastInv`.
* `SubmissionsConfirmed`: `SubmissionConfirmed`, which is more: the window confirms
  the very payment it is submitted with. An entry has a window around its own
  payment or was paid again since (`ConfirmedInv`), because between the copy and
  the window nothing is recorded (`NextCopy`, `CopyInv`), and the broadcaster has
  its payment and its window from one copy of an entry.

`NodePipelineProofs`, which puts the bounds back.

* `NodeQueues`: `ImplementsPipeline`. Payments and windows are made of blocks that
  were on the chain (`OriginInv`, `ChainTypes`). Each request sent has its insert
  (`Asked` counts them as pairs), so that there are no more than the bound
  (`AskedBounded`, from `OneProofPerInsert` by cardinality). Together: `BoundInv`.
* `NodeTypesCorrect`: `NodeTypeOK`, both types at once. The part of the queues is that
  of `ProofPipelineProofs` with `NodeQueues`, the listener's is `LB!TypeOK`.

`EventListenerProofs`, all from one inductive invariant `IInv`, with one lemma per
action:

* `EventTypeCorrect`: `TypeOK`. Not inductive alone: that a download finds a
  reservation needs the log to hold a `LiquidityReserved` event for each one that
  has a `ProofSubmitted` event (`LogTellsStatus`).
* `NoHeaderSkipped`: `HeadersNeverSkipped`. A session delivers announcements in
  order, and all before its current height are applied (`Delivered`), so that
  the height it hands to the next session is safe.
* `StoreMirrors`: `StoreMirrorsContract`. What the startup read is applied
  (`SyncedApplied`), what a session delivered is applied (`Delivered`), and an
  applied event shows in the store as long as the contract has not gone on
  (`AppliedShows`, `LogTellsHeaders`). The part about reservations is stated for
  `closes = 0`: after a closed stream the index height may be ahead of events of
  the streams that were closed earlier, and they are skipped.
* `PaymentKept`: `PaymentKeptInSession`. A tracked open reservation has its
  `LiquidityReserved` event applied, there is one such event, and before any
  session ends an event is applied once unless it is in the block of
  `start_index` (`AppliedOnce`).
* `FulfilledGone`: `FulfilledStaysRemoved`, from the same: when all three events of
  a reservation are applied, none is left to put it back. What `EventsZombie`
  finds therefore takes two streams that deliver in the other order, or a replay.
* `ListenerFeeds`: `ImplementsContractFeed`. The log tells no more than the contract
  has come to (`LogTellsStatus`), and the announcements follow one another in it
  (`LogTellsHeaders`), so that one that is handled continues the headers of the
  store: all before it are handled, in this session (`Delivered`) or before it
  (`HeadersNeverSkipped`).

`ReleaserProofs`

* `TypeCorrect`, `NoDoubleRelease` (`OneBroadcastPerRequest`) and
  `RequestsKept` (`NoRequestLost`), from what the lock means: held, the queue is
  empty and the requests are with the task; free, the task has none. A request
  is one until its broadcast: a `ProofSubmitted` that is replayed after it asks
  once more and gets one more.
* `ReleaserIsBook`: `ImplementsReleaseBook`. What is booked is what is queued, held
  back or being broadcast (`Held`); what is being broadcast was due when the
  block came that the task works on, and time does not go back (`DueInv`). With
  one request for each reservation, a broadcast takes it off the book. A panic
  over a release that is due loses the book (`Lose`), and nothing is sent after.

Every safety property of the passing runs is a theorem, refinements and action
properties included, under the assumptions that the modules name about their
constants and no other. Model-checked only are the liveness properties, which
are out of the prover's reach: `BlocksEventuallySifted`, `PaymentEventuallyFinal`,
`PaymentEventuallySubmitted`, `RequestsEventuallyServed`, `PaidEventuallySubmitted`,
`SearchEnds`, `EventsEventuallyApplied` and `DueEventuallyBroadcast`. That an average
of 0 or a duration beyond the tip is never met is an assumption of `HeightSearch`,
not a result. With more than an hour between blocks the stride is 0, and the EVM
search asks for one block for ever unless that is old enough. `SearchEnds` leaves
that search out; `OneRequestPerStride` and `StartCoversDuration` claim nothing of
a stride of 0. The liveness properties excuse what the code gives up on: a failed proof or
broadcast, a broadcaster or releaser that has panicked, a subscription that is
over, a stream that is closed.

## Not modelled

* The event listener and the releaser in the composition: `Hypernode` has the
  event listener as its environment, as `BlockListener` does.
* The contents of scripts, blocks and proofs; chainwork and retarget block, which
  are fetched after the window and only passed on. The code stores the hash of
  the block under analysis as `confirmation_block_hash` even when the
  confirmation height is another one; the model does the same, and nothing in
  the repository reads it.
* Whether a payment's outputs match the reservation: the code does not look at
  them before it proves (`architecture.md:5` says it should), so the listener
  model has no such distinction; it belongs to the proof pipeline, where the
  circuit looks at them.
* Reorganisations of the EVM chain, and logs of the start block range: all logs
  are read. Expiry is modelled in `BlockListener`, not in `EventListener`.
* How a provider serves filters: a stream delivers every log from `from_block`
  on. A filter polled for changes only would deliver less.
* `StartHeight = 0`, where `saturating_sub(1)` leaves the genesis block out.
* Argument parsing, construction of providers, filling, signing and sending of
  transactions, error formatting: I/O without state of the node. The Bitcoin RPC
  client is an answer from the best chain or an error.
* `HEADER_LOOKBACK_LIMIT` of `download_safe_bitcoin_headers`: all headers of the
  contract fit it, so what is older than its range is not part of the model.
* What the circuit checks beyond the payment being in the window, and the
  contract's own checks: both may refuse (`ProofFails`, `ContractRefuses`).

One behaviour seen while modelling has no run of its own. A second payment to
the same reservation that is recorded after the window was built moves
`btc_initial`. If it lies outside of the window the broadcaster panics
(`OnlyRepaymentOrEnvelopePanics` says that nothing else makes it panic but the
sending itself). If it lies inside,
because the confirmation height is the contract's next header and that header
is further on, the node proves and submits it with fewer than
`CONFIRMATION_HEIGHT_DELTA` blocks after it in the window. `SwapProver` therefore
promises that *a* payment of the reservation is confirmed in the window, not that
the one named is; that it is without a second payment is `SubmissionConfirmed`.

## Plan

Done: `Store`, `BlockListener`, `EventListener`, `Releaser`, `ProofPipeline`,
`HeightSearch`, `SwapProver`, `ReleaseBook`, `ContractFeed` and `Hypernode`, their
runs, and all safety properties of the runs as theorems.

Left:

1. `EventListener` and `Releaser` as part of `Hypernode`, so that the lock the
   releaser holds during broadcasts and the end of one listener by the other are
   in one model. They meet the rest in the store and in one call, and each of
   them is as large as everything in `NodeProofs`: the instance has to be made
   smaller first.
2. `HEADER_LOOKBACK_LIMIT`, with headers of the contract older than it.
