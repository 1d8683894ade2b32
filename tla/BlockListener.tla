--------------------------- MODULE BlockListener ---------------------------
(***************************************************************************)
(* The Bitcoin side of the node: block_listener of src/btc_indexer.rs and  *)
(* the two analyses it runs on every block, over the shared store and a    *)
(* Bitcoin chain that only the environment extends.                        *)
(*                                                                         *)
(* The listener is one future, polled together with the event listener by  *)
(* the try_join! of src/node.rs.  It gives up control only at an .await,   *)
(* so an action below runs from one .await to the next, and everything     *)
(* the rest of the node does to the store falls between two actions.  A    *)
(* block is asked for by height and then by the hash that came back: only  *)
(* the first answer depends on the chain, so the two requests are one.     *)
(***************************************************************************)
EXTENDS Store, Sequences, FiniteSets

CONSTANTS
    CONFIRMATION_HEIGHT_DELTA,  \* src/constants.rs
    StartHeight,                \* start_block_height, found at startup
    MaxConcurrentRequests,      \* bound of buffer_unordered
    WINDOW_REQUESTS,            \* bound of buffered, 10 in the code
    RpcMayFail,                 \* may the Bitcoin node refuse a request?
    TxLists,                    \* what a mined block may hold: sequences of Tx
    InitialHeaders,             \* header heights downloaded at startup
    HeaderHeights,              \* header heights the contract may store
    MaxHeight, MaxReorgs, MaxReorgDepth, MaxTime, MaxInserts  \* bounds of the environment

\* A transaction is told by the reservation whose inscription it carries: the
\* other outputs are not looked at before the proof.
Tx == [pays : Ids]

\* Height and fork identify a block: a reorganisation starts a new fork.
\* parent is the fork of the block below, so a block stands for its own hash.
Block == [fork : Nat, parent : Nat, txs : Seq(Tx)]

BlockAt == [height : Nat, block : Block]

\* BitcoinReservationInProgress; a txid is the position in its block.
Initial == [height : Nat, hash : Block, txid : Nat]

\* BitcoinReservationFinalized without the chainwork and the retarget block;
\* blocks is the Vec of the window, each block with the height it was asked for.
Final == [safe : Nat, confirmation : Nat, confirmation_hash : Block,
          blocks : SUBSET BlockAt]

\* ReservationMetadata; no proof is made here.
Metadata == [timestamp : Nat, btc_initial : Initial \union {None},
             btc_final : Final \union {None}, proof : {None}]

\* The blocks there can be on a chain with at most MaxReorgs reorganisations.
ChainBlocks ==
    [fork : 0 .. MaxReorgs, parent : 0 .. MaxReorgs, txs : TxLists \union {<<>>}]

ASSUME ListenerAssumption ==
    /\ CONFIRMATION_HEIGHT_DELTA \in Nat
    /\ StartHeight \in Nat \ {0}
    /\ MaxConcurrentRequests \in Nat \ {0}
    /\ WINDOW_REQUESTS \in Nat \ {0}
    /\ RpcMayFail \in BOOLEAN
    /\ TxLists \subseteq Seq(Tx)
    /\ InitialHeaders \subseteq 1 .. MaxHeight
    /\ HeaderHeights \subseteq Nat \ {0}
    /\ MaxHeight \in Nat /\ StartHeight <= MaxHeight
    /\ MaxReorgs \in Nat /\ MaxReorgDepth \in Nat
    /\ MaxTime \in Nat /\ MaxInserts \in Nat

\* None is nothing else.
ASSUME NoneAssumption ==
    None \notin Initial /\ None \notin Final /\ None \notin Metadata

VARIABLES
    reservations,               \* Store.reservations
    safe_contract_block_hashes, \* the keys of Store.safe_contract_block_hashes
    proof_gen_queue,            \* requests sent on the channel, counted per id
    status,                     \* "running", "exited" (Err) or "panicked"
    pc,                         \* the .await the listener is at
    current_height, analyzed_height,
    batch,                      \* downloaded blocks still to be analysed
    block,                      \* the block under analysis
    expected,                   \* ids of expected_order_inscriptions
    cursor,                     \* next transaction to sift
    pending,                    \* pending_confirmation_reservations
    heights,                    \* available_btc_heights
    work,                       \* the reservation whose window is being built
    \* the environment
    chain,                      \* the best Bitcoin chain, from height 1
    reorgs, now,
    reserved,                   \* reservation timestamps on the contract
    \* history
    inserts,                    \* how often each id was inserted
    tracked_from,               \* first height whose payments must be seen
    sifted                      \* the blocks the listener has sifted

\* What only the environment changes, and the locals of the three loops.
contractSide == <<safe_contract_block_hashes, reserved, inserts, tracked_from>>
bitcoinSide == <<chain, reorgs, now>>
envSide == <<contractSide, bitcoinSide>>
polling == <<current_height, analyzed_height, batch>>
sifting == <<block, expected, cursor, sifted>>
confirming == <<pending, heights, work>>
output == <<reservations, proof_gen_queue>>
listenerSide == <<proof_gen_queue, status, pc, polling, sifting, confirming>>
vars == <<envSide, polling, sifting, confirming, output, status, pc>>

-----------------------------------------------------------------------------
Init ==
    /\ reservations = EmptyStore
    /\ safe_contract_block_hashes = InitialHeaders
    /\ proof_gen_queue = [id \in Ids |-> 0]
    /\ status = "running"
    /\ chain = [h \in 1 .. StartHeight |-> [fork |-> 0, parent |-> 0, txs |-> <<>>]]
    /\ reorgs = 0 /\ now = 0
    /\ reserved = [id \in Ids |-> None]
    /\ pc = "start"
    /\ current_height = 0
    /\ analyzed_height = StartHeight - 1
    /\ batch = {} /\ pending = {} /\ heights = {} /\ expected = {}
    /\ block = None /\ work = None /\ cursor = 1
    /\ inserts = [id \in Ids |-> 0]
    /\ tracked_from = [id \in Ids |-> StartHeight]
    /\ sifted = {}

Running(at) == status = "running" /\ pc = at

-----------------------------------------------------------------------------
(* The polling loop.                                                       *)

\* The first get_block_count.
Connect ==
    /\ Running("start")
    /\ current_height' = Len(chain)
    /\ pc' = "loop"
    /\ UNCHANGED <<sifting, confirming, output, envSide, status,
                   analyzed_height, batch>>

\* Variant: off by one at the tip.
KnownTipButLast ==
    IF Len(chain) > current_height + 1 THEN Len(chain) ELSE current_height

\* A tip that went back is ignored.
KnownTip == IF Len(chain) > current_height THEN Len(chain) ELSE current_height

\* Caught up: ask for the tip, then sleep and try again.
Poll ==
    /\ Running("loop") /\ current_height <= analyzed_height
    /\ current_height' = KnownTip
    /\ UNCHANGED <<sifting, confirming, output, envSide, status, pc,
                   analyzed_height, batch>>

\* Behind: start downloading the heights up to current_height.
StartDownload ==
    /\ Running("loop") /\ current_height > analyzed_height
    /\ pc' = "download"
    /\ UNCHANGED <<polling, sifting, confirming, output, envSide, status>>

HeightsOf(blocks) == {b.height : b \in blocks}

Missing == ((analyzed_height + 1) .. current_height) \ HeightsOf(batch)

\* buffer_unordered keeps the first MaxConcurrentRequests missing heights in
\* flight and yields whichever answers first.
InFlight(h) ==
    h \in Missing /\ Cardinality({g \in Missing : g < h}) < MaxConcurrentRequests

FetchBlock(h) ==
    /\ Running("download") /\ InFlight(h) /\ h \in DOMAIN chain
    /\ batch' = batch \union {[height |-> h, block |-> chain[h]]}
    /\ pc' = IF Missing = {h} THEN "block" ELSE "download"
    /\ UNCHANGED <<sifting, confirming, output, envSide, status,
                   current_height, analyzed_height>>

\* Variant: no sorting of the batch.
NextAsArrived(blocks) == blocks

\* sort_by_key on the height: the next block of the batch is the lowest one.
NextOfBatch(blocks) == {b \in blocks : \A c \in blocks : b.height <= c.height}

\* The next block; expired reservations go first.
NextBlock ==
    /\ Running("block") /\ batch # {}
    /\ \E b \in NextOfBatch(batch) :
          /\ batch' = batch \ {b}
          /\ analyzed_height' = b.height
          /\ block' = b.block
    /\ reservations' = drop_expired_reservations(reservations, now)
    /\ pc' = "inscriptions"
    /\ UNCHANGED <<confirming, envSide, proof_gen_queue, status, current_height,
                   expected, cursor, sifted>>

BatchDone ==
    /\ Running("block") /\ batch = {}
    /\ pc' = "loop"
    /\ UNCHANGED <<polling, sifting, confirming, output, envSide, status>>

-----------------------------------------------------------------------------
(* analyze_block_for_payments                                              *)

\* Variant: the coinbase is left out.
SecondTx == 2
\* Variant: counted from 0.
TxBeforeFirst == 0

\* Every transaction of the block is looked at, the coinbase included.
FirstTx == 1

\* The inscriptions to look for are copied out of the store once.
ReadInscriptions ==
    /\ Running("inscriptions")
    /\ expected' = Tracked(reservations)
    /\ cursor' = FirstTx
    /\ pc' = "sift"
    /\ UNCHANGED <<polling, confirming, output, envSide, status, block,
                   sifted>>

CurrentTx == block.txs[cursor]

\* The inscription alone decides; an earlier payment is overwritten.
PaymentFor(id) ==
    /\ Running("sift") /\ cursor <= Len(block.txs)
    /\ CurrentTx.pays = id /\ id \in expected

RecordPayment(id) ==
    /\ PaymentFor(id)
    /\ reservations[id] # None
    /\ reservations' = update_btc_reservation_initial(reservations, id,
            [height |-> analyzed_height, hash |-> block, txid |-> cursor])
    /\ cursor' = cursor + 1
    /\ UNCHANGED <<polling, confirming, envSide, proof_gen_queue, status, pc,
                   block, expected, sifted>>

SkipTx ==
    /\ Running("sift") /\ cursor <= Len(block.txs)
    /\ CurrentTx.pays \notin expected
    /\ cursor' = cursor + 1
    /\ UNCHANGED <<polling, confirming, output, envSide, status, pc, block,
                   expected, sifted>>

-----------------------------------------------------------------------------
(* analyze_reservations_for_sufficient_confirmations                       *)

\* Variant: finished reservations are picked up again.
HasPayment(metadata) == metadata # None /\ metadata.btc_initial # None

IsPending(metadata) ==
    /\ metadata # None
    /\ metadata.btc_initial # None
    /\ metadata.btc_final = None

\* The whole block is sifted: copy the reservations that wait for
\* confirmations, as they are now, out of the store.
ReadPending ==
    /\ Running("sift") /\ cursor > Len(block.txs)
    /\ sifted' = sifted \union {[height |-> analyzed_height, block |-> block]}
    /\ pending' = {[id |-> id, height |-> reservations[id].btc_initial.height] :
                      id \in {r \in Ids : IsPending(reservations[r])}}
    /\ pc' = "headers"
    /\ UNCHANGED <<polling, output, envSide, status, block, expected, cursor,
                   heights, work>>

ReadHeaders ==
    /\ Running("headers")
    /\ heights' = safe_contract_block_hashes
    /\ pc' = "confirm"
    /\ UNCHANGED <<polling, sifting, output, envSide, status, pending, work>>

\* Variant: the block of the payment counts as its last confirmation.
OwnHeight(p) == p.height

MinConfirmationHeight(p) == p.height + CONFIRMATION_HEIGHT_DELTA

\* Variant: one confirmation more than needed.
ConfirmedStrictly(p) == MinConfirmationHeight(p) < analyzed_height

Confirmed(p) == MinConfirmationHeight(p) <= analyzed_height

\* Variant: the block of the payment itself may be the safe one.
IsSafeOrEqualHeight(h, p) ==
    /\ h \in heights /\ h <= p.height
    /\ \A g \in heights : g <= p.height => g <= h

\* The greatest available height below the payment: index - 1 of the search.
IsSafeHeight(h, p) ==
    /\ h \in heights /\ h < p.height
    /\ \A g \in heights : g < p.height => g <= h

\* The least available height that confirms the payment, or that height
\* itself when the contract's headers do not reach so far.
IsConfirmationHeight(h, p) ==
    LET right == {g \in heights : g >= MinConfirmationHeight(p)}
    IN  IF right = {} THEN h = MinConfirmationHeight(p)
                      ELSE h \in right /\ \A g \in right : h <= g

SelectWindow(p) ==
    /\ Running("confirm") /\ p \in pending /\ Confirmed(p)
    /\ \E lo \in heights, hi \in heights \union {MinConfirmationHeight(p)} :
          /\ IsSafeHeight(lo, p) /\ IsConfirmationHeight(hi, p)
          /\ work' = [id |-> p.id, safe |-> lo, confirmation |-> hi,
                      blocks |-> {}]
    /\ pending' = pending \ {p}
    /\ pc' = "window"
    /\ UNCHANGED <<polling, sifting, output, envSide, status, heights>>

MissingOfWindow == (work.safe .. work.confirmation) \ HeightsOf(work.blocks)

\* buffered yields in order: no request runs ahead of the oldest open one by
\* WINDOW_REQUESTS or more.
InWindowFlight(h) ==
    h \in MissingOfWindow /\ \A g \in MissingOfWindow : h < g + WINDOW_REQUESTS

\* The blocks of the window are downloaded again, by height.
FetchWindowBlock(h) ==
    /\ Running("window") /\ InWindowFlight(h) /\ h \in DOMAIN chain
    /\ work' = [work EXCEPT !.blocks =
                   @ \union {[height |-> h, block |-> chain[h]]}]
    /\ pc' = IF MissingOfWindow = {h} THEN "commit" ELSE "window"
    /\ UNCHANGED <<polling, sifting, output, envSide, status, pending,
                   heights>>

\* The result goes into whatever entry the id has by now.  The hash stored
\* next to the confirmation height is that of the block under analysis.
CommitWindow ==
    /\ Running("commit")
    /\ reservations[work.id] # None
    /\ reservations' = update_btc_reservation_final(reservations, work.id,
            [safe |-> work.safe, confirmation |-> work.confirmation,
             confirmation_hash |-> block, blocks |-> work.blocks])
    /\ proof_gen_queue' = [proof_gen_queue EXCEPT ![work.id] = @ + 1]
    /\ work' = None
    /\ pc' = "confirm"
    /\ UNCHANGED <<polling, sifting, envSide, status, pending, heights>>

\* Nothing left that is confirmed: on to the next block of the batch.
ConfirmationsDone ==
    /\ Running("confirm") /\ \A p \in pending : ~Confirmed(p)
    /\ pending' = {} /\ heights' = {} /\ expected' = {}
    /\ block' = None /\ cursor' = 1
    /\ pc' = "block"
    /\ UNCHANGED <<polling, output, envSide, status, work, sifted>>

-----------------------------------------------------------------------------
(* The ways the listener stops, and the process with it.                   *)

\* A refused request makes block_listener return Err, and try_join! with it.
RpcError ==
    /\ RpcMayFail /\ status = "running"
    /\ \/ pc \in {"start", "download", "window"}
       \/ pc = "loop" /\ current_height <= analyzed_height
    /\ status' = "exited"
    /\ UNCHANGED <<polling, sifting, confirming, output, envSide, pc>>

\* get_mut(&id).unwrap() on an entry that is gone since it was read.
MissingEntry ==
    \/ \E id \in Ids : PaymentFor(id) /\ reservations[id] = None
    \/ Running("commit") /\ reservations[work.id] = None

MissingEntryPanic ==
    /\ MissingEntry
    /\ status' = "panicked"
    /\ UNCHANGED <<polling, sifting, confirming, output, envSide, pc>>

\* index - 1 with index = 0: no available header below the payment.
NoSafeHeightPanic ==
    /\ Running("confirm")
    /\ \E p \in pending :
          Confirmed(p) /\ \A h \in heights : h >= p.height
    /\ status' = "panicked"
    /\ UNCHANGED <<polling, sifting, confirming, output, envSide, pc>>

\* main has returned or unwound.
Stopped == status # "running" /\ UNCHANGED vars

-----------------------------------------------------------------------------
(* The environment: Bitcoin, the clock, the exchange contract, and what    *)
(* the event listener does to the store.                                   *)

\* A payment can only name a reservation that exists.
Payable(txs) == \A i \in DOMAIN txs : reserved[txs[i].pays] # None

TipFork == chain[Len(chain)].fork

Mine(txs) ==
    /\ status = "running" /\ Len(chain) < MaxHeight /\ Payable(txs)
    /\ chain' = Append(chain, [fork |-> reorgs, parent |-> TipFork, txs |-> txs])
    /\ UNCHANGED <<reservations, listenerSide, contractSide, reorgs, now>>

\* The last depth blocks give way to a branch that is one block longer.
Reorg(depth, txs) ==
    LET first == Len(chain) - depth + 1
        branch(h) == [fork |-> reorgs + 1,
                      parent |-> IF h = first THEN chain[h - 1].fork ELSE reorgs + 1,
                      txs |-> IF h = first THEN txs ELSE <<>>]
    IN
    /\ status = "running" /\ reorgs < MaxReorgs /\ Payable(txs)
    /\ first > StartHeight /\ Len(chain) < MaxHeight
    /\ reorgs' = reorgs + 1
    /\ chain' = [h \in 1 .. Len(chain) + 1 |->
                    IF h < first THEN chain[h] ELSE branch(h)]
    /\ UNCHANGED <<reservations, listenerSide, contractSide, now>>

Tick ==
    /\ status = "running" /\ now < MaxTime
    /\ now' = now + 1
    /\ UNCHANGED <<reservations, listenerSide, contractSide, chain, reorgs>>

Reserve(id) ==
    /\ status = "running" /\ reserved[id] = None
    /\ reserved' = [reserved EXCEPT ![id] = now]
    /\ UNCHANGED <<reservations, listenerSide, bitcoinSide,
                   safe_contract_block_hashes, inserts, tracked_from>>

\* The event listener stores a fresh download: at the LiquidityReserved event,
\* at the ProofSubmitted event, and at each replay of either.
InsertReservation(id) ==
    /\ status = "running" /\ reserved[id] # None /\ inserts[id] < MaxInserts
    /\ inserts' = [inserts EXCEPT ![id] = @ + 1]
    /\ reservations' = insert(reservations, id, NewMetadata(reserved[id]))
    /\ tracked_from' = [tracked_from EXCEPT ![id] =
            IF pc = "inscriptions" THEN analyzed_height ELSE analyzed_height + 1]
    /\ UNCHANGED <<listenerSide, bitcoinSide, safe_contract_block_hashes,
                   reserved>>

\* A payment the contract would accept a proof of, from any hypernode.
PaidOnChain(id) ==
    \E h \in DOMAIN chain : \E i \in DOMAIN chain[h].txs :
        /\ chain[h].txs[i].pays = id
        /\ h + CONFIRMATION_HEIGHT_DELTA <= Len(chain)

\* The SwapComplete event.
RemoveReservation(id) ==
    /\ status = "running" /\ reservations[id] # None /\ PaidOnChain(id)
    /\ reservations' = remove(reservations, id)
    /\ UNCHANGED <<listenerSide, envSide>>

\* The BlocksAdded event.
AddHeader(h) ==
    /\ status = "running" /\ h \in DOMAIN chain
    /\ h \notin safe_contract_block_hashes
    /\ safe_contract_block_hashes' = safe_contract_block_hashes \union {h}
    /\ UNCHANGED <<reservations, listenerSide, bitcoinSide, reserved, inserts,
                   tracked_from>>

-----------------------------------------------------------------------------
\* One turn of the listener, up to the next .await or to its end.
Listen ==
    \/ Connect \/ Poll \/ StartDownload \/ (\E h \in Missing : FetchBlock(h))
    \/ NextBlock \/ BatchDone
    \/ ReadInscriptions \/ (\E id \in Ids : RecordPayment(id)) \/ SkipTx
    \/ ReadPending \/ ReadHeaders
    \/ (\E p \in pending : SelectWindow(p))
    \/ (\E h \in DOMAIN chain : FetchWindowBlock(h)) \/ CommitWindow
    \/ ConfirmationsDone
    \/ MissingEntryPanic \/ NoSafeHeightPanic

Environment ==
    \/ (\E txs \in TxLists : Mine(txs))
    \/ (\E depth \in 1 .. MaxReorgDepth, txs \in TxLists : Reorg(depth, txs))
    \/ Tick
    \/ \E id \in Ids : Reserve(id) \/ InsertReservation(id) \/ RemoveReservation(id)
    \/ \E h \in HeaderHeights : AddHeader(h)

Next == Listen \/ RpcError \/ Environment \/ Stopped

Spec == Init /\ [][Next]_vars

\* The runtime keeps polling the future, and every request is answered.
FairSpec == Spec /\ WF_vars(Listen)

-----------------------------------------------------------------------------
(* Properties                                                              *)

Work == [id : Ids, safe : Nat, confirmation : Nat, blocks : SUBSET BlockAt]

\* The types, and which locals are initialised at which .await.
TypeOK ==
    /\ reservations \in [Ids -> Metadata \union {None}]
    /\ safe_contract_block_hashes \subseteq Nat
    /\ proof_gen_queue \in [Ids -> Nat]
    /\ status \in {"running", "exited", "panicked"}
    /\ pc \in {"start", "loop", "download", "block", "inscriptions", "sift",
               "headers", "confirm", "window", "commit"}
    /\ current_height \in Nat /\ analyzed_height \in Nat
    /\ batch \subseteq BlockAt
    /\ block \in Block \union {None} /\ work \in Work \union {None}
    /\ pc \in {"inscriptions", "sift", "headers", "confirm", "window", "commit"}
          => block \in Block
    /\ pc \in {"window", "commit"} => work \in Work
    /\ expected \subseteq Ids /\ cursor \in Nat \ {0}
    /\ pending \subseteq [id : Ids, height : Nat] /\ heights \subseteq Nat
    /\ chain \in Seq(Block) /\ chain # <<>>
    /\ reorgs \in Nat /\ now \in Nat
    /\ reserved \in [Ids -> Nat \union {None}]
    /\ inserts \in [Ids -> Nat] /\ tracked_from \in [Ids -> Nat]
    /\ sifted \subseteq BlockAt

\* An entry whose window is still to be built.
Open(id) == reservations[id] # None /\ reservations[id].btc_final = None

\* A proof is generated at most once for each time a reservation enters the
\* store: the copy in pending_confirmation_reservations is old by the time it
\* is committed, and still never starts a second proof of the same entry.
OneProofPerInsert ==
    \A id \in Ids :
        proof_gen_queue[id] + (IF Open(id) THEN 1 ELSE 0) <= inserts[id]

Pays(b, id) == \E i \in DOMAIN b.block.txs : b.block.txs[i].pays = id

\* A block that is on the best chain now: a replaced one does not come back.
OnBestChain(b) == b.height \in DOMAIN chain /\ chain[b.height] = b.block

\* A window the prover is given starts at a header the contract has, spans
\* consecutive heights, and has in its inside, DELTA blocks deep, the height of
\* a block with a payment for the reservation.  That very block is among the
\* downloaded ones as long as it is on the best chain, whatever blocks around
\* it were replaced before, during or after the download of the window.
FinalWindowHoldsPayment ==
    \A id \in Ids :
        reservations[id] # None /\ reservations[id].btc_final # None =>
            LET final == reservations[id].btc_final
            IN  /\ final.safe \in safe_contract_block_hashes
                /\ HeightsOf(final.blocks) = final.safe .. final.confirmation
                /\ \E s \in sifted :
                      /\ Pays(s, id)
                      /\ final.safe < s.height
                      /\ s.height + CONFIRMATION_HEIGHT_DELTA <= final.confirmation
                      /\ OnBestChain(s) => s \in final.blocks

\* Every payment in a block that was sifted while the reservation was in the
\* store is recorded, or a later one is, whatever was inserted, removed or
\* dropped while the block was being sifted.
PaymentsRecorded ==
    \A id \in Ids, s \in sifted :
        /\ reservations[id] # None
        /\ s.height >= tracked_from[id]
        /\ Pays(s, id)
        => /\ reservations[id].btc_initial # None
           /\ reservations[id].btc_initial.height >= s.height

\* Blocks are analysed one height after the other from StartHeight on, although
\* they arrive in any order: none is skipped, none analysed twice.
AnalyzedInOrder ==
    [][analyzed_height' # analyzed_height => analyzed_height' = analyzed_height + 1]_vars

\* A reservation leaves the store only when it has expired or its payment is
\* confirmed, and a window once stored stays until the entry is replaced.
ProgressKept ==
    [][\A id \in Ids :
          reservations[id] # None /\ inserts'[id] = inserts[id] =>
              \/ /\ reservations'[id] = None
                 /\ IsExpired(reservations[id], now) \/ PaidOnChain(id)
              \/ /\ reservations'[id] # None
                 /\ reservations[id].btc_initial # None =>
                       reservations'[id].btc_initial # None
                 /\ reservations[id].btc_final # None =>
                       reservations'[id].btc_final = reservations[id].btc_final
      ]_vars

\* Every block from the start height on is analysed in the end, however many
\* requests are in flight and however the answers are ordered.
BlocksEventuallySifted ==
    \A h \in StartHeight .. MaxHeight :
        h <= Len(chain) ~> h \in HeightsOf(sifted) \/ status # "running"

PaymentRecorded(id, h) ==
    /\ reservations[id] # None
    /\ reservations[id].btc_initial # None
    /\ reservations[id].btc_initial.height = h

\* A recorded payment that is deep enough in the chain gets its window, unless
\* the entry leaves the store or is replaced, a later payment takes the place
\* of this one, or the node stops.
PaymentEventuallyFinal ==
    \A id \in Ids, h \in StartHeight .. MaxHeight :
        PaymentRecorded(id, h) /\ h + CONFIRMATION_HEIGHT_DELTA <= Len(chain) ~>
            \/ status # "running"
            \/ ~PaymentRecorded(id, h)
            \/ reservations[id].btc_final # None

-----------------------------------------------------------------------------
(* What the repository says and the code does not do                       *)

\* core.rs:203 unwraps the entry that gets its window, as if it could not be
\* gone after the downloads (architecture.md:12 has the event listener remove it
\* when it is fulfilled).
EntryPresentAtCommit == Running("commit") => reservations[work.id] # None

\* btc_indexer.rs:297: every block of the range is analysed.  So every block
\* that comes to be on the best chain is sifted in the end, unless it leaves the
\* chain again before that.
BestChainEventuallySifted ==
    \A h \in StartHeight .. MaxHeight :
        h \in DOMAIN chain ~>
            \/ status # "running"
            \/ h \in DOMAIN chain /\ [height |-> h, block |-> chain[h]] \in sifted

=============================================================================
