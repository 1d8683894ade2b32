--------------------------- MODULE EventListener ---------------------------
(***************************************************************************)
(* The EVM side of the node: the startup of src/node.rs (sync_reservations *)
(* and download_safe_bitcoin_headers), then exchange_event_listener of     *)
(* src/evm_indexer.rs, over the shared store and the event log of the      *)
(* exchange contract.                                                      *)
(*                                                                         *)
(* The log is the set of all events emitted so far, each with the EVM      *)
(* block it is in; a block is complete when it is mined.  The four event   *)
(* streams deliver independently: nothing orders an event of one against   *)
(* an event of another.  An action runs to the next .await that depends on *)
(* something outside the listener.                                         *)
(***************************************************************************)
EXTENDS Store, FiniteSets

CONSTANTS
    Paid,           \* what the block listener stores for a payment it found
    MaxBlocks,      \* EVM blocks mined
    MaxCount,       \* Bitcoin headers one BlocksAdded event may announce
    MaxFailures,    \* errors of the event listener
    MaxCloses,      \* event streams closed by the provider
    MaxDuplicates   \* events delivered once more in a session

ASSUME EventAssumption ==
    /\ MaxBlocks \in Nat /\ MaxCount \in Nat /\ MaxFailures \in Nat
    /\ MaxCloses \in Nat /\ MaxDuplicates \in Nat
    /\ Paid # None

IndexKinds == {"LiquidityReserved", "ProofSubmitted", "SwapComplete"}
Kinds == IndexKinds \union {"BlocksAdded"}

\* id is None for BlocksAdded, which announces the Bitcoin heights
\* start + 1 .. start + count instead.
Event == [block : Nat, kind : Kinds, id : Ids \union {None},
          start : Nat, count : Nat]

Metadata == [timestamp : Nat, btc_initial : {Paid, None}, btc_final : {None},
             proof : {None}]

ASSUME NoneAssumption == None \notin Event /\ None \notin Metadata

VARIABLES
    reservations,               \* Store.reservations
    safe_contract_block_hashes, \* the keys of Store.safe_contract_block_hashes
    release_requests,           \* ids handed to ReleaserQueue::add so far
    phase,                      \* the .await the startup or the listener is at
    start_index, start_header,  \* start heights of the next session
    current_index, current_header,
    open,                       \* kinds whose stream has not ended
    processed,                  \* processed_logs of this session
    handling,                   \* the event being handled
    \* the contract and the provider
    log, evm_height,
    contract,                   \* status of each reservation
    contract_tip,               \* currentHeight() of the header contract
    failures, closes, duplicates,
    \* history
    applied                     \* events whose handler or sync has finished

contractSide == <<log, evm_height, contract, contract_tip>>
session == <<current_index, current_header, open, processed>>
starts == <<start_index, start_header>>
budget == <<failures, closes, duplicates>>
vars == <<reservations, safe_contract_block_hashes, release_requests, phase,
          starts, session, handling, contractSide, budget, applied>>

Init ==
    /\ reservations = EmptyStore
    /\ safe_contract_block_hashes = {}
    /\ release_requests = {}
    /\ phase = "sync"
    /\ start_index = 0 /\ start_header = 0
    /\ current_index = 0 /\ current_header = 0
    /\ open = {} /\ processed = {} /\ handling = None
    /\ log = {} /\ evm_height = 0
    /\ contract = [id \in Ids |-> "free"]
    /\ contract_tip = 0
    /\ failures = 0 /\ closes = 0 /\ duplicates = 0
    /\ applied = {}

-----------------------------------------------------------------------------
(* Startup: sync_reservations and download_safe_bitcoin_headers.           *)

\* get_block_number: the logs are read up to this block.
SyncTip ==
    /\ phase = "sync"
    /\ start_index' = evm_height
    /\ phase' = "sync_logs"
    /\ UNCHANGED <<reservations, safe_contract_block_hashes, release_requests,
                   start_header, session, handling, contractSide, budget, applied>>

SyncedEvents == {e \in log : e.kind \in IndexKinds /\ e.block <= start_index}

Seen(kind) == {e.id : e \in {f \in SyncedEvents : f.kind = kind}}

\* Variant: every reservation that is not complete is in challenge.
InChallengeOrActive == Seen("LiquidityReserved") \ Seen("SwapComplete")

\* active_reservations_set and reservations_in_challenge: the events of one
\* reservation are in the log in the order of its life.
Active == Seen("LiquidityReserved") \ (Seen("ProofSubmitted") \union Seen("SwapComplete"))
InChallenge == Seen("ProofSubmitted") \ Seen("SwapComplete")

\* The contract's answer to download_reservation: the timestamp is that of
\* the block the reservation was made in.
ReservedAt(id) ==
    (CHOOSE e \in log : e.kind = "LiquidityReserved" /\ e.id = id).block

Downloaded(id) == NewMetadata(ReservedAt(id))

\* The logs are folded, the reservations downloaded, the active ones stored
\* and the ones in challenge queued for release.
SyncReservations ==
    /\ phase = "sync_logs"
    /\ reservations' = [id \in Ids |-> IF id \in Active THEN Downloaded(id)
                                                        ELSE reservations[id]]
    /\ release_requests' = release_requests \union InChallenge
    /\ applied' = applied \union SyncedEvents
    /\ phase' = "header_tip"
    /\ UNCHANGED <<safe_contract_block_hashes, starts, session, handling,
                   contractSide, budget>>

\* get_block_number comes first, so what is added meanwhile is seen again.
HeaderTip ==
    /\ phase = "header_tip"
    /\ start_header' = evm_height
    /\ phase' = "headers"
    /\ UNCHANGED <<reservations, safe_contract_block_hashes, release_requests,
                   start_index, session, handling, contractSide, budget, applied>>

\* The last HEADER_LOOKBACK_LIMIT headers: all there are, in the model.
SyncHeaders ==
    /\ phase = "headers"
    /\ safe_contract_block_hashes' = 1 .. contract_tip
    /\ applied' = applied \union {e \in log : e.kind = "BlocksAdded"}
    /\ phase' = "subscribe"
    /\ UNCHANGED <<reservations, release_requests, starts, session, handling,
                   contractSide, budget>>

-----------------------------------------------------------------------------
(* try_exchange_event_listener                                             *)

\* Variant: processed_logs outlives its session.
SubscribeKeepingLog ==
    /\ phase = "subscribe"
    /\ open' = Kinds /\ UNCHANGED processed
    /\ current_index' = start_index /\ current_header' = start_header
    /\ phase' = "select"
    /\ UNCHANGED <<reservations, safe_contract_block_hashes, release_requests,
                   starts, handling, contractSide, budget, applied>>

\* The filters are created and turned into streams.
Subscribe ==
    /\ phase = "subscribe"
    /\ open' = Kinds /\ processed' = {}
    /\ current_index' = start_index /\ current_header' = start_header
    /\ phase' = "select"
    /\ UNCHANGED <<reservations, safe_contract_block_hashes, release_requests,
                   starts, handling, contractSide, budget, applied>>

\* from_block of the filter.
From(kind) == IF kind = "BlocksAdded" THEN start_header ELSE start_index

Undelivered(kind) ==
    {e \in log : e.kind = kind /\ e.block >= From(kind) /\ e \notin processed}

\* A stream delivers its events block by block.
NextOf(kind) ==
    {e \in Undelivered(kind) : \A f \in Undelivered(kind) : e.block <= f.block}

\* Variant: one height for all streams.
AdvanceBoth(e) == current_header' = e.block /\ current_index' = e.block

\* The height assigned after every event, handled now or before.
Advance(e) ==
    IF e.kind = "BlocksAdded"
      THEN current_header' = e.block /\ UNCHANGED current_index
      ELSE current_index' = e.block /\ UNCHANGED current_header

\* A new event of one of the three kinds that need a download first.
Receive(e) ==
    /\ phase = "select" /\ e.kind # "SwapComplete"
    /\ processed' = processed \union {e}
    /\ handling' = e
    /\ phase' = "handle"
    /\ UNCHANGED <<reservations, safe_contract_block_hashes, release_requests,
                   starts, current_index, current_header, open, contractSide,
                   budget, applied>>

\* A new SwapComplete is handled at once.
ReceiveSwapComplete(e) ==
    /\ phase = "select" /\ e.kind = "SwapComplete"
    /\ processed' = processed \union {e}
    /\ reservations' = remove(reservations, e.id)
    /\ applied' = applied \union {e}
    /\ Advance(e)
    /\ UNCHANGED <<safe_contract_block_hashes, release_requests, phase, starts,
                   open, handling, contractSide, budget>>

\* Variant: no test against processed_logs.
ReceiveAgainUnchecked(e) ==
    /\ phase = "select" /\ duplicates < MaxDuplicates
    /\ e \in processed /\ e.kind \in open \ {"SwapComplete"}
    /\ duplicates' = duplicates + 1
    /\ handling' = e /\ phase' = "handle"
    /\ UNCHANGED <<reservations, safe_contract_block_hashes, release_requests,
                   starts, session, contractSide, failures, closes, applied>>

\* An event already in processed_logs only moves the height.
ReceiveAgain(e) ==
    /\ phase = "select" /\ duplicates < MaxDuplicates
    /\ e \in processed /\ e.kind \in open
    /\ duplicates' = duplicates + 1
    /\ Advance(e)
    /\ UNCHANGED <<reservations, safe_contract_block_hashes, release_requests,
                   phase, starts, open, processed, handling, contractSide,
                   failures, closes, applied>>

HandleReserved ==
    /\ phase = "handle" /\ handling.kind = "LiquidityReserved"
    /\ reservations' = insert(reservations, handling.id, Downloaded(handling.id))
    /\ applied' = applied \union {handling}
    /\ Advance(handling)
    /\ handling' = None /\ phase' = "select"
    /\ UNCHANGED <<safe_contract_block_hashes, release_requests, starts, open,
                   processed, contractSide, budget>>

HandleProofSubmitted ==
    /\ phase = "handle" /\ handling.kind = "ProofSubmitted"
    /\ reservations' = insert(reservations, handling.id, Downloaded(handling.id))
    /\ phase' = "release"
    /\ UNCHANGED <<safe_contract_block_hashes, release_requests, starts, session,
                   handling, contractSide, budget, applied>>

\* ReleaserQueue::add waits for the lock of the release queue.
AddRelease ==
    /\ phase = "release"
    /\ release_requests' = release_requests \union {handling.id}
    /\ applied' = applied \union {handling}
    /\ Advance(handling)
    /\ handling' = None /\ phase' = "select"
    /\ UNCHANGED <<reservations, safe_contract_block_hashes, starts, open,
                   processed, contractSide, budget>>

\* Variant: start_block_height counted in.
HeadersFromStart(e) == e.start .. (e.start + e.count)

\* end_block_height and the count - 1 heights before it.
HeadersOf(e) == (e.start + 1) .. (e.start + e.count)

HandleBlocksAdded ==
    /\ phase = "handle" /\ handling.kind = "BlocksAdded"
    /\ safe_contract_block_hashes' =
          safe_contract_block_hashes \union HeadersOf(handling)
    /\ applied' = applied \union {handling}
    /\ Advance(handling)
    /\ handling' = None /\ phase' = "select"
    /\ UNCHANGED <<reservations, release_requests, starts, open, processed,
                   contractSide, budget>>

\* The else branch of select!: Ok with the heights of the last events.
AllClosed ==
    /\ phase = "select" /\ open = {}
    /\ start_index' = current_index /\ start_header' = current_header
    /\ phase' = "subscribe"
    /\ UNCHANGED <<reservations, safe_contract_block_hashes, release_requests,
                   session, handling, contractSide, budget, applied>>

\* Any error ends the session; the start heights stay.
SessionFails ==
    /\ phase \in {"subscribe", "select", "handle"} /\ failures < MaxFailures
    /\ failures' = failures + 1
    /\ handling' = None
    /\ phase' = "retry"
    /\ UNCHANGED <<reservations, safe_contract_block_hashes, release_requests,
                   starts, session, contractSide, closes, duplicates, applied>>

\* Variant: an error moves the start heights too.
RetryFromCurrent ==
    /\ phase = "retry"
    /\ start_index' = current_index /\ start_header' = current_header
    /\ phase' = "subscribe"
    /\ UNCHANGED <<reservations, safe_contract_block_hashes, release_requests,
                   session, handling, contractSide, budget, applied>>

\* RETRY_DELAY is over.
Retry ==
    /\ phase = "retry"
    /\ phase' = "subscribe"
    /\ UNCHANGED <<reservations, safe_contract_block_hashes, release_requests,
                   starts, session, handling, contractSide, budget, applied>>

-----------------------------------------------------------------------------
(* The environment                                                         *)

NextStatus == [free |-> "reserved", reserved |-> "proved", proved |-> "complete"]
EventOf == [free |-> "LiquidityReserved", reserved |-> "ProofSubmitted",
            proved |-> "SwapComplete"]

\* An EVM block in which some reservations go on to their next status; a proof
\* brings count Bitcoin headers with it.
MineEvm(ids, count) ==
    LET block == evm_height + 1
        proves == \E id \in ids : contract[id] = "reserved"
        added == IF proves /\ count > 0
                   THEN {[block |-> block, kind |-> "BlocksAdded", id |-> None,
                          start |-> contract_tip, count |-> count]}
                   ELSE {}
    IN
    /\ phase # "exited" /\ evm_height < MaxBlocks
    /\ \A id \in ids : contract[id] # "complete"
    /\ evm_height' = block
    /\ log' = log \union added \union
          {[block |-> block, kind |-> EventOf[contract[id]], id |-> id,
            start |-> 0, count |-> 0] : id \in ids}
    /\ contract' = [id \in Ids |-> IF id \in ids THEN NextStatus[contract[id]]
                                                 ELSE contract[id]]
    /\ contract_tip' = IF proves THEN contract_tip + count ELSE contract_tip
    /\ UNCHANGED <<reservations, safe_contract_block_hashes, release_requests,
                   phase, starts, session, handling, budget, applied>>

\* The provider ends a stream, whatever it had still to deliver.
CloseStream(kind) ==
    /\ phase = "select" /\ closes < MaxCloses /\ kind \in open
    /\ open' = open \ {kind}
    /\ closes' = closes + 1
    /\ UNCHANGED <<reservations, safe_contract_block_hashes, release_requests,
                   phase, starts, current_index, current_header, processed,
                   handling, contractSide, failures, duplicates, applied>>

\* What the block listener does meanwhile: it finds a payment.
FindPayment(id) ==
    /\ phase \in {"subscribe", "select", "handle", "release", "retry"}
    /\ reservations[id] # None /\ reservations[id].btc_initial = None
    /\ reservations' = update_btc_reservation_initial(reservations, id, Paid)
    /\ UNCHANGED <<safe_contract_block_hashes, release_requests, phase, starts,
                   session, handling, contractSide, budget, applied>>

\* A request of the startup is refused: run returns Err.
StartupFails ==
    /\ phase \in {"sync", "sync_logs", "header_tip", "headers"}
    /\ failures < MaxFailures
    /\ failures' = failures + 1
    /\ phase' = "exited"
    /\ UNCHANGED <<reservations, safe_contract_block_hashes, release_requests,
                   starts, session, handling, contractSide, closes, duplicates,
                   applied>>

\* The node has exited, or waits for events of a contract that is done.
Quiet ==
    /\ \/ phase = "exited"
       \/ /\ phase = "select" /\ evm_height = MaxBlocks
          /\ \A kind \in open : NextOf(kind) = {}
    /\ UNCHANGED vars

-----------------------------------------------------------------------------
Startup == SyncTip \/ SyncReservations \/ HeaderTip \/ SyncHeaders

Listen ==
    \/ Subscribe \/ Retry \/ AllClosed
    \/ \E kind \in open : \E e \in NextOf(kind) : Receive(e) \/ ReceiveSwapComplete(e)
    \/ HandleReserved \/ HandleProofSubmitted \/ AddRelease \/ HandleBlocksAdded

Environment ==
    \/ \E ids \in SUBSET Ids, count \in 0 .. MaxCount : MineEvm(ids, count)
    \/ \E kind \in Kinds : CloseStream(kind)
    \/ \E e \in processed : ReceiveAgain(e)
    \/ \E id \in Ids : FindPayment(id)
    \/ SessionFails \/ StartupFails

Next == Startup \/ Listen \/ Environment \/ Quiet

Spec == Init /\ [][Next]_vars

\* The startup and the listener are polled, and what they wait for answers.
FairSpec == Spec /\ WF_vars(Startup \/ Listen)

-----------------------------------------------------------------------------
(* Properties                                                              *)

TypeOK ==
    /\ reservations \in [Ids -> Metadata \union {None}]
    /\ safe_contract_block_hashes \subseteq Nat \ {0}
    /\ release_requests \subseteq Ids
    /\ phase \in {"sync", "sync_logs", "header_tip", "headers", "subscribe",
                  "select", "handle", "release", "retry", "exited"}
    /\ start_index \in Nat /\ start_header \in Nat
    /\ current_index \in Nat /\ current_header \in Nat
    /\ open \subseteq Kinds /\ processed \subseteq log
    /\ handling \in log \union {None}
    /\ handling # None <=> phase \in {"handle", "release"}
    /\ log \subseteq Event /\ applied \subseteq log
    /\ evm_height \in Nat /\ contract_tip \in Nat
    /\ contract \in [Ids -> {"free", "reserved", "proved", "complete"}]
    /\ failures \in Nat /\ closes \in Nat /\ duplicates \in Nat

\* Every stream is drained.
CaughtUp == phase = "select" /\ \A kind \in Kinds : Undelivered(kind) = {}

\* Once caught up, and however often sessions failed and were replayed before,
\* the headers are those of the contract, and, unless the provider closed
\* streams, the store tracks every reservation still open on the contract and
\* the releaser was told of every proved one.
StoreMirrorsContract ==
    CaughtUp =>
        /\ safe_contract_block_hashes = 1 .. contract_tip
        /\ closes = 0 => \A id \in Ids :
              /\ contract[id] = "reserved" => id \in Tracked(reservations)
              /\ contract[id] = "proved" => id \in release_requests

\* The headers have a start height of their own, so closed streams and failed
\* sessions never make the listener skip headers the contract announced.
HeadersNeverSkipped ==
    phase \in {"subscribe", "select", "handle", "release", "retry"} =>
        \A e \in log :
            e.kind = "BlocksAdded" /\ e.block < start_header => e \in applied

HasPayment(id) == reservations[id] # None /\ reservations[id].btc_initial = Paid

\* The payment of an open reservation is forgotten only where events are
\* replayed: after a session that failed or whose streams were closed, or in
\* the block the sync ended with.
\* A duplicate within a session is harmless.
PaymentKeptInSession ==
    [][\A id \in Ids :
          HasPayment(id) /\ ~HasPayment(id)' =>
              \/ contract[id] # "reserved"
              \/ failures > 0 \/ closes > 0
              \/ handling.block = start_index]_vars

AllApplied(id) ==
    \A kind \in IndexKinds : \E e \in applied : e.id = id /\ e.kind = kind

\* A reservation whose three events have all been handled, in whatever order the
\* streams brought them, does not come back to the store: a duplicate does no
\* harm.  As for payments, the exceptions are the replays.
FulfilledStaysRemoved ==
    [][\A id \in Ids :
          reservations[id] = None /\ AllApplied(id) /\ reservations'[id] # None =>
              \/ failures > 0 \/ closes > 0
              \/ handling.block = start_index]_vars

F == INSTANCE ContractFeed
     WITH tracked <- Tracked(reservations), headers <- safe_contract_block_hashes

\* Whatever sessions, streams and replays do, the store and the releaser are never
\* ahead of the contract, and the headers in the store have no gap.
ImplementsContractFeed == F!Spec

\* Every event of the contract is applied to the store in the end, whatever
\* sessions fail on the way, unless the node fails to start or the provider
\* closes a stream: select! goes on without it until all four are closed, and
\* the next session starts after the last event of any of three kinds.
EventsEventuallyApplied ==
    \A id \in Ids, kind \in IndexKinds :
        (\E e \in log : e.id = id /\ e.kind = kind) ~>
            \/ phase = "exited" \/ closes > 0
            \/ \E e \in applied : e.id = id /\ e.kind = kind

-----------------------------------------------------------------------------
(* What the repository says and the code does not do                       *)

\* architecture.md:12: a reservation that is fulfilled is removed from the
\* list of active reservations.
FulfilledRemoved ==
    CaughtUp => \A id \in Ids : contract[id] = "complete" => reservations[id] = None

=============================================================================
