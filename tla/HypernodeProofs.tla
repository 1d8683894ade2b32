--------------------------- MODULE HypernodeProofs ---------------------------
(***************************************************************************)
(* Proofs about the whole node: it is its listener, it is its queues, and  *)
(* it keeps the promise of SwapProver.                                     *)
(*                                                                         *)
(* The invariants of the two parts, proved where each part is alone, are   *)
(* carried over by instances: LB sees the store without the proofs, PB the *)
(* channel's counter and any payments and windows.  Each part's steps are  *)
(* steps of the other's environment (NodeListens, NodePipes), under the    *)
(* invariants of both; so both hold (NodeInvariant).  For the promise,     *)
(* KnownInv says that what the entries and the broadcaster hold has been   *)
(* seen on the chain, and ConfirmedInv, at the end, that a window in an    *)
(* entry confirms the payment next to it.                                  *)
(***************************************************************************)
EXTENDS Hypernode, TLAPS

LB == INSTANCE BlockListenerProofs
      WITH reservations <- [id \in Ids |-> ProofLess(reservations[id])]

PB == INSTANCE ProofPipelineProofs
      WITH requests <- proof_gen_queue, Timestamps <- Nat,
           Payments <- Initial, Windows <- Final

USE DurationAssumption, ListenerAssumption, NoneAssumption, HypernodeAssumption,
    NodeNoneAssumption

Strip(store) == [id \in Ids |-> ProofLess(store[id])]

Stores == [Ids -> NodeMetadata \union {None}]

\* An entry without its proof differs in nothing else.
LEMMA ProofLessEntry ==
    ASSUME NEW metadata \in NodeMetadata
    PROVE  /\ ProofLess(metadata) \in LB!Metadata
           /\ ProofLess(metadata) # None
           /\ ProofLess(metadata).timestamp = metadata.timestamp
           /\ ProofLess(metadata).btc_initial = metadata.btc_initial
           /\ ProofLess(metadata).btc_final = metadata.btc_final
  BY DEF ProofLess, NodeMetadata, LB!Metadata, LB!Initial, LB!Final, LB!Block,
         LB!BlockAt, LB!Tx, Initial, Final, Block, BlockAt, Tx

\* No entry stays no entry.
LEMMA ProofLessNone == ProofLess(None) = None
  BY DEF ProofLess

\* The operations of the store commute with leaving out the proofs.
LEMMA StripStore ==
    ASSUME NEW store \in Stores
    PROVE  /\ \A t \in Nat : Strip(drop_expired_reservations(store, t))
                                = drop_expired_reservations(Strip(store), t)
           /\ \A id \in Ids : Strip(remove(store, id)) = remove(Strip(store), id)
           /\ \A id \in Ids, t \in Nat :
                 Strip(insert(store, id, NewMetadata(t)))
                    = insert(Strip(store), id, NewMetadata(t))
           /\ \A id \in Ids : store[id] # None =>
                 /\ \A initial \in Initial :
                       Strip(update_btc_reservation_initial(store, id, initial))
                          = update_btc_reservation_initial(Strip(store), id, initial)
                 /\ \A final \in Final :
                       Strip(update_btc_reservation_final(store, id, final))
                          = update_btc_reservation_final(Strip(store), id, final)
                 /\ \A proof \in NodeProof :
                       Strip(update_proof_data(store, id, proof)) = Strip(store)
<1>0. \A id \in Ids : store[id] \in NodeMetadata \union {None}
  BY DEF Stores
<1>1. \A t \in Nat : Strip(drop_expired_reservations(store, t))
                        = drop_expired_reservations(Strip(store), t)
  BY <1>0, ProofLessEntry, ProofLessNone
  DEF Strip, drop_expired_reservations, IsExpired
<1>2. \A id \in Ids : Strip(remove(store, id)) = remove(Strip(store), id)
  BY <1>0, ProofLessNone DEF Strip, Stores, remove
<1>3. ASSUME NEW id \in Ids, NEW t \in Nat
      PROVE  Strip(insert(store, id, NewMetadata(t)))
                = insert(Strip(store), id, NewMetadata(t))
  <2>1. ProofLess(NewMetadata(t)) = NewMetadata(t)
    BY DEF ProofLess, NewMetadata
  <2> QED BY <2>1 DEF Strip, Stores, insert
<1>4. ASSUME NEW id \in Ids, store[id] # None
      PROVE  /\ \A initial \in Initial :
                   Strip(update_btc_reservation_initial(store, id, initial))
                      = update_btc_reservation_initial(Strip(store), id, initial)
             /\ \A final \in Final :
                   Strip(update_btc_reservation_final(store, id, final))
                      = update_btc_reservation_final(Strip(store), id, final)
             /\ \A proof \in NodeProof :
                   Strip(update_proof_data(store, id, proof)) = Strip(store)
  <2>0. store[id] \in NodeMetadata
    BY <1>0, <1>4
  <2>1. ASSUME NEW initial \in Initial
        PROVE  ProofLess([store[id] EXCEPT !.btc_initial = initial])
                  = [ProofLess(store[id]) EXCEPT !.btc_initial = initial]
    BY <2>0 DEF ProofLess, NodeMetadata
  <2>2. ASSUME NEW final \in Final
        PROVE  ProofLess([store[id] EXCEPT !.btc_final = final])
                  = [ProofLess(store[id]) EXCEPT !.btc_final = final]
    BY <2>0 DEF ProofLess, NodeMetadata
  <2>3. ASSUME NEW proof \in NodeProof
        PROVE  ProofLess([store[id] EXCEPT !.proof = proof]) = ProofLess(store[id])
    BY <2>0 DEF ProofLess, NodeMetadata
  <2> QED BY <2>1, <2>2, <2>3
      DEF Strip, Stores, update_btc_reservation_initial,
          update_btc_reservation_final, update_proof_data
<1> QED BY <1>1, <1>2, <1>3, <1>4

\* Every instance has operations and a Cardinality of its own.
LEMMA OneStore ==
    \A store :
       /\ \A t : LB!drop_expired_reservations(store, t) = drop_expired_reservations(store, t)
       /\ \A id : LB!remove(store, id) = remove(store, id)
       /\ \A id, t : LB!insert(store, id, LB!NewMetadata(t)) = insert(store, id, NewMetadata(t))
       /\ \A id, initial : LB!update_btc_reservation_initial(store, id, initial)
                             = update_btc_reservation_initial(store, id, initial)
       /\ \A id, final : LB!update_btc_reservation_final(store, id, final)
                           = update_btc_reservation_final(store, id, final)
  BY DEF LB!drop_expired_reservations, drop_expired_reservations, LB!IsExpired,
         IsExpired, LB!remove, remove, LB!insert, insert, LB!NewMetadata, NewMetadata,
         LB!update_btc_reservation_initial, update_btc_reservation_initial,
         LB!update_btc_reservation_final, update_btc_reservation_final

\* The same for the sizes of sets.
LEMMA OneCardinality == \A S : LB!Cardinality(S) = Cardinality(S)
  BY DEF Cardinality, LB!Cardinality

-----------------------------------------------------------------------------
(* The node does to the store, but for the proofs, what the listener does  *)

NodeEntriesOK == reservations \in Stores

\* The turns of the listener that do not change the store.
LEMMA ListenOnlyStep ==
    ASSUME NodeEntriesOK, LB!TypeOK, ListenOnly, ~NextBlock, pc # "sift"
    PROVE  LB!Listen
<1> USE DEF vars, envSide, contractSide, bitcoinSide, polling, sifting,
            confirming, output, listenerSide, Running,
            LB!vars, LB!envSide, LB!contractSide, LB!bitcoinSide, LB!polling,
            LB!sifting, LB!confirming, LB!output, LB!listenerSide, LB!Running
<1>1. CASE Connect
  BY <1>1 DEF Connect, LB!Connect, LB!Listen
<1>2. CASE Poll
  BY <1>2 DEF Poll, LB!Poll, KnownTip, LB!KnownTip, LB!Listen
<1>3. CASE StartDownload
  BY <1>3 DEF StartDownload, LB!StartDownload, LB!Listen
<1>4. ASSUME NEW h \in Missing, FetchBlock(h) PROVE LB!Listen
  <2>1. LB!Missing = Missing
    BY DEF Missing, LB!Missing, HeightsOf, LB!HeightsOf
  <2>a. {g \in LB!Missing : g < h} = {g \in Missing : g < h}
    BY <2>1
  <2>2. LB!InFlight(h)
    BY <1>4, <2>1, <2>a, OneCardinality DEF FetchBlock, InFlight, LB!InFlight
  <2>3. LB!FetchBlock(h)
    BY <1>4, <2>1, <2>2 DEF FetchBlock, LB!FetchBlock
  <2> QED BY <2>1, <2>3 DEF LB!Listen
<1>5. CASE BatchDone
  BY <1>5 DEF BatchDone, LB!BatchDone, LB!Listen
<1>6. CASE ReadInscriptions
  <2>1. LB!Tracked([id \in Ids |-> ProofLess(reservations[id])]) = Tracked(reservations)
    BY ProofLessEntry, ProofLessNone DEF LB!Tracked, Tracked, NodeEntriesOK, Stores
  <2> QED BY <1>6, <2>1 DEF ReadInscriptions, LB!ReadInscriptions, FirstTx,
                            LB!FirstTx, LB!Listen
<1>7. CASE ReadHeaders
  BY <1>7 DEF ReadHeaders, LB!ReadHeaders, LB!Listen
<1>8. ASSUME NEW p \in pending, SelectWindow(p) PROVE LB!Listen
  BY <1>8 DEF SelectWindow, LB!SelectWindow, LB!Listen, Confirmed, LB!Confirmed,
     IsSafeHeight, LB!IsSafeHeight, IsConfirmationHeight, LB!IsConfirmationHeight,
     MinConfirmationHeight, LB!MinConfirmationHeight
<1>9. ASSUME NEW h \in DOMAIN chain, FetchWindowBlock(h) PROVE LB!Listen
  <2>1. LB!MissingOfWindow = MissingOfWindow
    BY DEF MissingOfWindow, LB!MissingOfWindow, HeightsOf, LB!HeightsOf
  <2>2. LB!InWindowFlight(h)
    BY <1>9, <2>1 DEF FetchWindowBlock, InWindowFlight, LB!InWindowFlight
  <2>3. LB!FetchWindowBlock(h)
    BY <1>9, <2>1, <2>2 DEF FetchWindowBlock, LB!FetchWindowBlock
  <2> QED BY <2>3 DEF LB!Listen
<1>10. CASE ConfirmationsDone
  BY <1>10 DEF ConfirmationsDone, LB!ConfirmationsDone, LB!Listen, Confirmed,
     LB!Confirmed, MinConfirmationHeight, LB!MinConfirmationHeight
<1>11. CASE NoSafeHeightPanic
  BY <1>11 DEF NoSafeHeightPanic, LB!NoSafeHeightPanic, LB!Listen, Confirmed,
     LB!Confirmed, MinConfirmationHeight, LB!MinConfirmationHeight
<1>12. CASE MissingEntryPanic
  <2>1. Running("commit") /\ reservations[work.id] = None
    BY <1>12 DEF MissingEntryPanic, MissingEntry, PaymentFor
  <2>2. work.id \in Ids
    BY <2>1 DEF LB!TypeOK, LB!Work
  <2>3. ProofLess(reservations[work.id]) = None
    BY <2>1, ProofLessNone
  <2>4. LB!MissingEntry
    BY <2>1, <2>2, <2>3 DEF LB!MissingEntry
  <2> QED BY <1>12, <2>4 DEF MissingEntryPanic, LB!MissingEntryPanic, LB!Listen
<1> QED
  BY <1>1, <1>2, <1>3, <1>4, <1>5, <1>6, <1>7, <1>8, <1>9, <1>10, <1>11, <1>12
  DEF ListenOnly, SkipTx, ReadPending

\* The turns that read the entries or write them.
LEMMA StoreStep ==
    ASSUME NodeEntriesOK, LB!TypeOK,
           \/ NextBlock \/ (\E id \in Ids : RecordPayment(id)) \/ SkipTx
           \/ ReadPending \/ CommitWindow \/ (pc = "sift" /\ MissingEntryPanic)
    PROVE  LB!Listen
<1> USE DEF vars, envSide, contractSide, bitcoinSide, polling, sifting,
            confirming, output, listenerSide, Running,
            LB!vars, LB!envSide, LB!contractSide, LB!bitcoinSide, LB!polling,
            LB!sifting, LB!confirming, LB!output, LB!listenerSide, LB!Running
<1>0. reservations \in Stores
  BY DEF NodeEntriesOK
<1>e. ASSUME NEW id \in Ids
      PROVE  /\ Strip(reservations)[id] = None <=> reservations[id] = None
             /\ reservations[id] # None =>
                  /\ Strip(reservations)[id].btc_initial = reservations[id].btc_initial
                  /\ Strip(reservations)[id].btc_final = reservations[id].btc_final
  BY <1>0, ProofLessEntry, ProofLessNone DEF Strip, Stores
<1>s. /\ Strip(reservations) = [id \in Ids |-> ProofLess(reservations[id])]
      /\ Strip(reservations)' = [id \in Ids |-> ProofLess(reservations[id])]'
  BY DEF Strip
<1>1. CASE NextBlock
  <2>1. now \in Nat
    BY DEF LB!TypeOK
  <2>2. Strip(reservations)'
           = LB!drop_expired_reservations(Strip(reservations), now)
    BY <1>0, <1>1, <2>1, StripStore, OneStore DEF NextBlock
  <2>3. LB!NextBlock
    BY <1>1, <1>s, <2>2 DEF NextBlock, LB!NextBlock, NextOfBatch, LB!NextOfBatch
  <2> QED BY <2>3 DEF LB!Listen
<1>2. ASSUME NEW id \in Ids, RecordPayment(id) PROVE LB!Listen
  <2> DEFINE initial == [height |-> analyzed_height, hash |-> block, txid |-> cursor]
  <2>1. initial \in Initial
    BY <1>2 DEF RecordPayment, PaymentFor, LB!TypeOK, Initial, LB!Block, LB!Tx,
                Block, Tx
  <2>2. /\ reservations[id] # None
        /\ reservations' = update_btc_reservation_initial(reservations, id, initial)
    BY <1>2 DEF RecordPayment
  <2> HIDE DEF initial
  <2>3. Strip(reservations)'
           = LB!update_btc_reservation_initial(Strip(reservations), id, initial)
    BY <1>0, <2>1, <2>2, StripStore, OneStore
  <2>4. LB!RecordPayment(id)
    BY <1>2, <1>e, <1>s, <2>3
    DEF RecordPayment, LB!RecordPayment, PaymentFor, LB!PaymentFor, CurrentTx,
        LB!CurrentTx, initial
  <2> QED BY <2>4 DEF LB!Listen
<1>3. CASE SkipTx
  BY <1>3 DEF SkipTx, LB!SkipTx, CurrentTx, LB!CurrentTx, LB!Listen
<1>4. CASE ReadPending
  <2>1. {r \in Ids : IsPending(reservations[r])}
           = {r \in Ids : LB!IsPending(Strip(reservations)[r])}
    BY <1>e DEF IsPending, LB!IsPending
  <2>2. {[id |-> id, height |-> reservations[id].btc_initial.height] :
            id \in {r \in Ids : IsPending(reservations[r])}}
         = {[id |-> id, height |-> Strip(reservations)[id].btc_initial.height] :
            id \in {r \in Ids : LB!IsPending(Strip(reservations)[r])}}
    BY <1>e, <2>1 DEF IsPending
  <2>3. LB!ReadPending
    BY <1>4, <1>s, <2>2 DEF ReadPending, LB!ReadPending
  <2> QED BY <2>3 DEF LB!Listen
<1>5. CASE CommitWindow
  <2> DEFINE final == [safe |-> work.safe, confirmation |-> work.confirmation,
                       confirmation_hash |-> block, blocks |-> work.blocks]
  <2>1. final \in Final /\ work.id \in Ids
    BY <1>5 DEF CommitWindow, LB!TypeOK, LB!Work, Final, LB!Block, LB!Tx,
                LB!BlockAt, Block, BlockAt, Tx
  <2>2. /\ reservations[work.id] # None
        /\ reservations' = update_btc_reservation_final(reservations, work.id, final)
    BY <1>5 DEF CommitWindow
  <2> HIDE DEF final
  <2>3. Strip(reservations)'
           = LB!update_btc_reservation_final(Strip(reservations), work.id, final)
    BY <1>0, <2>1, <2>2, StripStore, OneStore
  <2>4. LB!CommitWindow
    BY <1>5, <1>e, <1>s, <2>1, <2>3 DEF CommitWindow, LB!CommitWindow, final
  <2> QED BY <2>4 DEF LB!Listen
<1>6. CASE pc = "sift" /\ MissingEntryPanic
  <2>1. PICK id \in Ids : PaymentFor(id) /\ reservations[id] = None
    BY <1>6 DEF MissingEntryPanic, MissingEntry
  <2>2. LB!PaymentFor(id)
    BY <2>1 DEF PaymentFor, LB!PaymentFor, CurrentTx, LB!CurrentTx
  <2>3. LB!MissingEntry
    BY <1>e, <1>s, <2>1, <2>2 DEF LB!MissingEntry
  <2> QED BY <1>6, <2>3 DEF MissingEntryPanic, LB!MissingEntryPanic, LB!Listen
<1> QED BY <1>1, <1>2, <1>3, <1>4, <1>5, <1>6

\* What happens around the listener.
LEMMA AroundStep ==
    ASSUME NodeEntriesOK, LB!TypeOK, RpcError \/ Environment
    PROVE  LB!Next
<1> USE DEF vars, envSide, contractSide, bitcoinSide, polling, sifting,
            confirming, output, listenerSide, Running,
            LB!vars, LB!envSide, LB!contractSide, LB!bitcoinSide, LB!polling,
            LB!sifting, LB!confirming, LB!output, LB!listenerSide, LB!Running
<1>0. reservations \in Stores
  BY DEF NodeEntriesOK
<1>s. /\ Strip(reservations) = [id \in Ids |-> ProofLess(reservations[id])]
      /\ Strip(reservations)' = [id \in Ids |-> ProofLess(reservations[id])]'
  BY DEF Strip
<1>1. CASE RpcError
  BY <1>1 DEF RpcError, LB!RpcError, LB!Next
<1>2. ASSUME NEW txs \in TxLists, Mine(txs) PROVE LB!Environment
  BY <1>2 DEF Mine, LB!Mine, Payable, LB!Payable, TipFork, LB!TipFork,
              LB!Environment
<1>3. ASSUME NEW depth \in 1 .. MaxReorgDepth, NEW txs \in TxLists, Reorg(depth, txs)
      PROVE  LB!Environment
  <2>1. LB!Reorg(depth, txs)
    BY <1>3 DEF Reorg, LB!Reorg, Payable, LB!Payable
  <2> QED BY <2>1 DEF LB!Environment
<1>4. CASE Tick
  <2>1. LB!Tick
    BY <1>4 DEF Tick, LB!Tick
  <2> QED BY <2>1 DEF LB!Environment, LB!Next
<1>5. ASSUME NEW id \in Ids, Reserve(id) PROVE LB!Environment
  BY <1>5 DEF Reserve, LB!Reserve, LB!Environment
<1>6. ASSUME NEW id \in Ids, InsertReservation(id) PROVE LB!Environment
  <2>1. reserved[id] \in Nat
    BY <1>6 DEF InsertReservation, LB!TypeOK
  <2>2. Strip(reservations)'
           = LB!insert(Strip(reservations), id, LB!NewMetadata(reserved[id]))
    BY <1>0, <1>6, <2>1, StripStore, OneStore DEF InsertReservation
  <2>3. LB!InsertReservation(id)
    BY <1>6, <1>s, <2>2 DEF InsertReservation, LB!InsertReservation
  <2> QED BY <2>3 DEF LB!Environment
<1>7. ASSUME NEW id \in Ids, RemoveReservation(id) PROVE LB!Environment
  <2>1. Strip(reservations)[id] # None
    BY <1>0, <1>7, ProofLessEntry DEF RemoveReservation, Strip, Stores
  <2>2. Strip(reservations)' = LB!remove(Strip(reservations), id)
    BY <1>0, <1>7, StripStore, OneStore DEF RemoveReservation
  <2>3. LB!RemoveReservation(id)
    BY <1>7, <1>s, <2>1, <2>2 DEF RemoveReservation, LB!RemoveReservation,
                                  PaidOnChain, LB!PaidOnChain
  <2> QED BY <2>3 DEF LB!Environment
<1>8. ASSUME NEW h \in HeaderHeights, AddHeader(h) PROVE LB!Environment
  BY <1>8 DEF AddHeader, LB!AddHeader, LB!Environment
<1> QED BY <1>1, <1>2, <1>3, <1>4, <1>5, <1>6, <1>7, <1>8 DEF Environment, LB!Next

\* The queues keep to the store, and change an entry by a proof only.
LEMMA TaskStep ==
    ASSUME PB!TypeOK,
           Consumer \/ (\E n \in DOMAIN workers : ProofWorker(n)) \/ Broadcaster
    PROVE  UNCHANGED LB!vars
<1> USE DEF P!generation, P!broadcast, P!history
<1>0. reservations \in Stores
  BY DEF PB!TypeOK, Stores, NodeMetadata, NodeProof, PB!Metadata, PB!Proof
<1>1. /\ UNCHANGED listenerOnly /\ UNCHANGED proof_gen_queue /\ UNCHANGED inserts
  BY DEF Consumer, ProofWorker, Broadcaster, Alive, P!Consume, P!Work, P!Broadcast,
     P!ReceiveRequest, P!SpawnWorker, P!ReadEntry, P!EntryNotProvable, P!ProofMade,
     P!PaymentOutsideWindow, P!ProofFails, P!StoreProof, P!StorePanics,
     P!QueueProof, P!ReceiveProof, P!EntryNotComplete, P!IndexPanics, P!EnvelopePanics,
     P!ValidatePublicInputs, P!Mismatch, P!SubmitProof, P!ContractRefuses, P!Dropped
<1>2. Strip(reservations)' = Strip(reservations)
  <2>1. ASSUME NEW n \in DOMAIN workers, P!StoreProof(n)
        PROVE  Strip(reservations)' = Strip(reservations)
    <3>1. workers[n] \in PB!Worker /\ workers[n].proof \in NodeProof
      BY <2>1 DEF P!StoreProof, P!At, PB!TypeOK, NodeProof, PB!Proof
    <3>2. workers[n].id \in Ids
      BY <3>1 DEF PB!Worker
    <3>3. /\ reservations[workers[n].id] # None
          /\ reservations' = update_proof_data(reservations, workers[n].id, workers[n].proof)
      BY <2>1 DEF P!StoreProof, P!EntryOf, P!update_proof_data, update_proof_data
    <3> QED BY <1>0, <3>1, <3>2, <3>3, StripStore
  <2>2. CASE UNCHANGED reservations
    BY <2>2 DEF Strip
  <2> QED BY <2>1, <2>2
    DEF Consumer, ProofWorker, Broadcaster, Alive, P!Consume, P!Work, P!Broadcast,
     P!ReceiveRequest, P!SpawnWorker, P!ReadEntry, P!EntryNotProvable, P!ProofMade,
     P!PaymentOutsideWindow, P!ProofFails, P!StorePanics,
     P!QueueProof, P!ReceiveProof, P!EntryNotComplete, P!IndexPanics, P!EnvelopePanics,
     P!ValidatePublicInputs, P!Mismatch, P!SubmitProof, P!ContractRefuses, P!Dropped
<1>3. UNCHANGED [id \in Ids |-> ProofLess(reservations[id])]
  BY <1>2 DEF Strip
<1> QED BY <1>1, <1>3 DEF listenerOnly, bitcoinSide, polling, sifting, confirming,
     LB!vars, LB!envSide, LB!contractSide, LB!bitcoinSide, LB!polling,
     LB!sifting, LB!confirming, LB!output

\* A step of the node is one of the listener and its environment, or no step.
LEMMA NodeListens ==
    LB!TypeOK /\ PB!TypeOK /\ [NodeNext]_nodeVars => [LB!Next]_LB!vars
<1> SUFFICES ASSUME LB!TypeOK, PB!TypeOK, [NodeNext]_nodeVars
             PROVE  [LB!Next]_LB!vars
  OBVIOUS
<1>0. NodeEntriesOK
  BY DEF PB!TypeOK, NodeEntriesOK, Stores, NodeMetadata, NodeProof, PB!Metadata, PB!Proof
<1>1. CASE NodeListen
  <2>1. ListenOnly \/ CommitWindow \/ \E id \in Ids : RecordPayment(id)
    BY <1>1 DEF NodeListen, ProvePayment, TakePayment
  <2>2. pc = "sift" /\ ListenOnly => SkipTx \/ ReadPending \/ MissingEntryPanic
    BY DEF ListenOnly, Running, Connect, Poll, StartDownload, FetchBlock, NextBlock,
       BatchDone, ReadInscriptions, ReadHeaders, SelectWindow, FetchWindowBlock,
       ConfirmationsDone, NoSafeHeightPanic
  <2>3. LB!Listen
    BY <1>0, <2>1, <2>2, ListenOnlyStep, StoreStep
  <2> QED BY <2>3 DEF LB!Next
<1>2. CASE Around
  BY <1>0, <1>2, AroundStep DEF Around
<1>3. CASE Consumer \/ (\E n \in DOMAIN workers : ProofWorker(n)) \/ Broadcaster
  BY <1>3, TaskStep
<1>4. CASE UNCHANGED nodeVars
  BY <1>4 DEF nodeVars, vars, envSide, contractSide, bitcoinSide, polling, sifting,
     confirming, output, LB!vars, LB!envSide, LB!contractSide, LB!bitcoinSide,
     LB!polling, LB!sifting, LB!confirming, LB!output
<1> QED BY <1>1, <1>2, <1>3, <1>4 DEF NodeNext, NodeStopped

-----------------------------------------------------------------------------
(* The listener does to the queues what the pipeline has its listeners do  *)

\* The queues' own steps.
LEMMA TaskPipes ==
    ASSUME Consumer \/ (\E n \in DOMAIN workers : ProofWorker(n)) \/ Broadcaster
    PROVE  PB!OpenNext
<1> USE DEF P!generation, P!broadcast, P!history, PB!generation, PB!broadcast,
            PB!history, P!Moved, PB!Moved, P!Ends, PB!Ends, P!At, PB!At, P!EntryOf,
            PB!EntryOf, P!Covers, PB!Covers, P!Provable, PB!Provable,
            P!PublicInputs, PB!PublicInputs, P!Dropped, PB!Dropped
<1>1. CASE Consumer
  BY <1>1 DEF Consumer, Alive, P!Consume, P!ReceiveRequest, P!SpawnWorker,
     PB!Consume, PB!ReceiveRequest, PB!SpawnWorker, PB!OpenNext
<1>2. ASSUME NEW n \in DOMAIN workers, ProofWorker(n) PROVE PB!OpenNext
  <2>1. PB!Work(n)
    BY <1>2 DEF ProofWorker, Alive, P!Work, P!ReadEntry, P!EntryNotProvable,
       P!ProofMade, P!PaymentOutsideWindow, P!ProofFails, P!StoreProof,
       P!StorePanics, P!QueueProof, P!update_proof_data,
       PB!Work, PB!ReadEntry, PB!EntryNotProvable,
       PB!ProofMade, PB!PaymentOutsideWindow, PB!ProofFails, PB!StoreProof,
       PB!StorePanics, PB!QueueProof, PB!update_proof_data
  <2> QED BY <2>1 DEF PB!OpenNext
<1>3. CASE Broadcaster
  <2>1. PB!Broadcast
    BY <1>3 DEF Broadcaster, Alive, P!Broadcast, P!ReceiveProof,
       P!EntryNotComplete, P!IndexPanics, P!EnvelopePanics, P!ValidatePublicInputs, P!Mismatch,
       P!SubmitProof, P!ContractRefuses, P!NextEntry, P!Complete, P!Matches,
       PB!Broadcast, PB!ReceiveProof, PB!EntryNotComplete, PB!IndexPanics, PB!EnvelopePanics,
       PB!ValidatePublicInputs, PB!Mismatch, PB!SubmitProof, PB!ContractRefuses,
       PB!NextEntry, PB!Complete, PB!Matches
  <2> QED BY <2>1 DEF PB!OpenNext
<1> QED BY <1>1, <1>2, <1>3

\* Leaving entries out of the store is what the pipeline calls a drop.
LEMMA DropPipes ==
    ASSUME NodeEntriesOK, NEW ids \in SUBSET Ids,
           reservations' = [id \in Ids |-> IF id \in ids THEN None ELSE reservations[id]],
           UNCHANGED <<queueSide, repaid, proof_gen_queue, inserts>>
    PROVE  [PB!OpenListeners]_PB!vars
<1> DEFINE gone == ids \intersect Tracked(reservations)
<1>1. reservations' = [id \in Ids |-> IF id \in gone THEN None ELSE reservations[id]]
  BY DEF NodeEntriesOK, Stores, Tracked
<1>2. CASE gone = {}
  <2>1. reservations' = reservations
    BY <1>1, <1>2 DEF NodeEntriesOK, Stores
  <2> QED BY <2>1 DEF queueSide, genSide, broadcastSide, PB!vars, PB!generation,
                      PB!broadcast, PB!history
<1>3. CASE gone # {}
  <2>1. gone \in SUBSET Ids /\ gone \subseteq PB!Tracked(reservations)
    BY DEF Tracked, PB!Tracked
  <2> HIDE DEF gone
  <2>2. PB!Drop(gone)
    BY <1>1, <1>3, <2>1 DEF PB!Drop, queueSide, genSide, broadcastSide,
       PB!generation, PB!broadcast, PB!history
  <2> QED BY <2>1, <2>2 DEF PB!OpenListeners
<1> QED BY <1>2, <1>3

\* The window that is stored is around the payment the entry has, if any.
LEMMA CommitPipes ==
    ASSUME NodeEntriesOK, LB!TypeOK, LB!ProofInv, LB!CopyInv, ProvePayment
    PROVE  PB!OpenListeners
<1> DEFINE final == [safe |-> work.safe, confirmation |-> work.confirmation,
                     confirmation_hash |-> block, blocks |-> work.blocks]
<1>1. /\ pc = "commit" /\ reservations[work.id] # None
      /\ reservations' = update_btc_reservation_final(reservations, work.id, final)
      /\ proof_gen_queue' = [proof_gen_queue EXCEPT ![work.id] = @ + 1]
      /\ gen_channel' = Append(gen_channel, work.id)
      /\ UNCHANGED <<inserts, acquiring, permits, workers, broadcastSide, failures, repaid>>
  BY DEF ProvePayment, CommitWindow, Running, envSide, contractSide
<1>2. /\ work \in LB!Work /\ work.id \in Ids /\ final \in Final
      /\ final.safe = work.safe /\ final.confirmation = work.confirmation
      /\ work.safe \in Nat /\ work.confirmation \in Nat /\ analyzed_height \in Nat
  BY <1>1 DEF LB!TypeOK, LB!Work, Final, LB!Block, LB!Tx, LB!BlockAt, Block, BlockAt, Tx
<1>3. /\ reservations[work.id] \in NodeMetadata
      /\ ProofLess(reservations[work.id]).btc_initial = reservations[work.id].btc_initial
      /\ ProofLess(reservations[work.id]).btc_final = reservations[work.id].btc_final
      /\ ProofLess(reservations[work.id]) # None
  BY <1>1, <1>2, ProofLessEntry DEF NodeEntriesOK, Stores
<1>4. reservations[work.id].btc_final = None
  BY <1>1, <1>2, <1>3 DEF LB!ProofInv, LB!PendingUnfinished, LB!Unfinished
<1>5. ASSUME reservations[work.id].btc_initial # None
      PROVE  PB!Covers(final, reservations[work.id].btc_initial)
  <2>1. PICK s \in sifted : LB!BuiltAround(s)
    BY <1>1 DEF LB!CopyInv, LB!Building
  <2>2. s.height \in Nat
    BY DEF LB!TypeOK, LB!BlockAt
  <2>3. LB!PaidAt(work.id, reservations[work.id].btc_initial.height)
    BY <1>2, <1>3, <1>5 DEF LB!PaidAt
  <2>4. /\ s.height = reservations[work.id].btc_initial.height
        /\ work.safe < s.height
        /\ s.height + CONFIRMATION_HEIGHT_DELTA <= work.confirmation
    BY <2>1, <2>3 DEF LB!BuiltAround
  <2> QED BY <1>2, <2>2, <2>4 DEF PB!Covers
<1> HIDE DEF final
<1>6. PB!CommitWindow(work.id, final)
  BY <1>1, <1>4, <1>5 DEF PB!CommitWindow, PB!update_btc_reservation_final,
                          update_btc_reservation_final
<1>7. PB!RequestProof(work.id)
  BY <1>1 DEF PB!RequestProof, broadcastSide, PB!broadcast
<1> QED BY <1>2, <1>6, <1>7 DEF PB!OpenListeners

\* The listener, and what is around it, are to the queues their listeners.
LEMMA ListenerPipes ==
    ASSUME LB!TypeOK, LB!ProofInv, LB!CopyInv, PB!TypeOK,
           NodeListen \/ Around \/ UNCHANGED nodeVars
    PROVE  [PB!OpenListeners]_PB!vars
<1> USE DEF queueSide, genSide, broadcastSide, PB!vars, PB!generation, PB!broadcast,
            PB!history, vars, envSide, contractSide, output, listenerSide
<1>0. NodeEntriesOK
  BY DEF PB!TypeOK, NodeEntriesOK, Stores, NodeMetadata, NodeProof, PB!Metadata, PB!Proof
<1>1. CASE ProvePayment
  BY <1>0, <1>1, CommitPipes
<1>2. ASSUME NEW id \in Ids, TakePayment(id) PROVE [PB!OpenListeners]_PB!vars
  <2> DEFINE initial == [height |-> analyzed_height, hash |-> block, txid |-> cursor]
  <2>1. initial \in Initial
    BY <1>2 DEF TakePayment, RecordPayment, PaymentFor, Running, LB!TypeOK, Initial,
                LB!Block, LB!Tx, Block, Tx
  <2>2. PB!RecordPayment(id, initial)
    BY <1>2 DEF TakePayment, RecordPayment, PB!RecordPayment,
       PB!update_btc_reservation_initial, update_btc_reservation_initial
  <2> HIDE DEF initial
  <2> QED BY <2>1, <2>2 DEF PB!OpenListeners
<1>3. CASE NextBlock /\ UNCHANGED <<queueSide, repaid>>
  <2> DEFINE ids == {id \in Ids : reservations[id] # None /\ IsExpired(reservations[id], now)}
  <2>1. reservations' = [id \in Ids |-> IF id \in ids THEN None ELSE reservations[id]]
    BY <1>3 DEF NextBlock, drop_expired_reservations
  <2>2. ids \in SUBSET Ids /\ UNCHANGED <<queueSide, repaid, proof_gen_queue, inserts>>
    BY <1>3 DEF NextBlock
  <2> HIDE DEF ids
  <2> QED BY <1>0, <2>1, <2>2, DropPipes
<1>4. CASE ListenOnly /\ ~NextBlock /\ UNCHANGED <<queueSide, repaid>>
  BY <1>4 DEF ListenOnly, Connect, Poll, StartDownload, FetchBlock, BatchDone,
     ReadInscriptions, SkipTx, ReadPending, ReadHeaders, SelectWindow,
     FetchWindowBlock, ConfirmationsDone, MissingEntryPanic, NoSafeHeightPanic
<1>5. ASSUME NEW id \in Ids, InsertReservation(id), UNCHANGED <<queueSide, repaid>>
      PROVE  [PB!OpenListeners]_PB!vars
  <2>1. reserved[id] \in Nat
    BY <1>5 DEF InsertReservation, LB!TypeOK
  <2>2. PB!Insert(id, reserved[id])
    BY <1>5 DEF InsertReservation, PB!Insert, insert, PB!insert, NewMetadata, PB!NewMetadata
  <2> QED BY <2>1, <2>2 DEF PB!OpenListeners
<1>6. ASSUME NEW id \in Ids, RemoveReservation(id), UNCHANGED <<queueSide, repaid>>
      PROVE  [PB!OpenListeners]_PB!vars
  <2>1. reservations' = [r \in Ids |-> IF r \in {id} THEN None ELSE reservations[r]]
    BY <1>0, <1>6 DEF RemoveReservation, remove, NodeEntriesOK, Stores
  <2>2. {id} \in SUBSET Ids /\ UNCHANGED <<queueSide, repaid, proof_gen_queue, inserts>>
    BY <1>6 DEF RemoveReservation
  <2> QED BY <1>0, <2>1, <2>2, DropPipes
<1>7. CASE /\ \/ RpcError \/ (\E txs \in TxLists : Mine(txs))
              \/ (\E depth \in 1 .. MaxReorgDepth, txs \in TxLists : Reorg(depth, txs))
              \/ Tick \/ (\E id \in Ids : Reserve(id)) \/ \E h \in HeaderHeights : AddHeader(h)
           /\ UNCHANGED <<queueSide, repaid>>
  BY <1>7 DEF RpcError, Mine, Reorg, Tick, Reserve, AddHeader
<1>8. CASE UNCHANGED nodeVars
  BY <1>8 DEF nodeVars
<1> QED BY <1>1, <1>2, <1>3, <1>4, <1>5, <1>6, <1>7, <1>8
    DEF NodeListen, Around, Environment

\* A step of the node is one of the queues and their listeners, or no step.
LEMMA NodePipes ==
    LB!TypeOK /\ LB!ProofInv /\ LB!CopyInv /\ PB!TypeOK /\ [NodeNext]_nodeVars
        => [PB!OpenNext]_PB!vars
  BY ListenerPipes, TaskPipes DEF NodeNext, NodeStopped, PB!OpenNext

-----------------------------------------------------------------------------
(* What was proved of the parts holds in the node                          *)

ListenerInv ==
    /\ LB!TypeOK /\ LB!ProofInv /\ LB!BatchInv
    /\ LB!SeenInv /\ LB!CopyInv /\ LB!WorkInv

QueuesInv == PB!TypeOK /\ PB!BroadcastInv /\ PB!ServedInv

\* The node starts as its listener and its queues do.
LEMMA NodeInitParts == NodeInit => LB!Init /\ PB!Init
<1> SUFFICES ASSUME NodeInit PROVE LB!Init /\ PB!Init
  OBVIOUS
<1>1. [id \in Ids |-> ProofLess(reservations[id])] = EmptyStore
  BY ProofLessNone DEF NodeInit, Init, EmptyStore
<1>2. LB!Init
  BY <1>1 DEF NodeInit, Init, LB!Init, EmptyStore, LB!EmptyStore
<1>3. PB!Init
  BY DEF NodeInit, Init, P!Init, PB!Init, EmptyStore, PB!EmptyStore
<1> QED BY <1>2, <1>3

\* The lemmas about the listener, in the node.
LEMMA ListenerKeeps ==
    /\ LB!Init => ListenerInv
    /\ ListenerInv /\ [LB!Next]_LB!vars => ListenerInv'
  BY LB!InitType, LB!InitProof, LB!InitBatch, LB!InitSeen, LB!InitCopy, LB!InitWork,
     LB!NextType, LB!NextProof, LB!NextBatch, LB!NextSeen, LB!NextCopy, LB!NextWork
  DEF ListenerInv, Tx, LB!Tx, Initial, LB!Initial, Final, LB!Final, Block, LB!Block,
      BlockAt, LB!BlockAt, Metadata, LB!Metadata

\* The lemmas about the queues, in the node.
LEMMA QueuesKeep ==
    /\ PB!Init => QueuesInv
    /\ QueuesInv /\ [PB!OpenNext]_PB!vars => QueuesInv'
  BY PB!InitTypes, PB!InitBroadcast, PB!InitServed,
     PB!TypeStep, PB!BroadcastStep, PB!ServedStep
  DEF QueuesInv, Initial, Final, NodeProof, PB!Proof, NodeMetadata, PB!Metadata,
      PB!Item

-----------------------------------------------------------------------------
(* The instance of the listener's module in Hypernode, and the one with its *)
(* proofs, are the same state machine.                                      *)

\* One action after the other.
LEMMA SameListener == L!Init /\ [][L!Next]_L!vars <=> LB!Init /\ [][LB!Next]_LB!vars
<1> USE DEF L!contractSide, LB!contractSide, L!bitcoinSide, LB!bitcoinSide,
   L!envSide, LB!envSide, L!polling, LB!polling, L!sifting, LB!sifting,
   L!confirming, LB!confirming, L!output, LB!output, L!listenerSide,
   LB!listenerSide, L!vars, LB!vars, L!Running, LB!Running
<1>0. L!vars = LB!vars
  OBVIOUS
<1>i. L!Init <=> LB!Init
  BY DEF L!Init, LB!Init, L!EmptyStore, LB!EmptyStore
<1>m. L!Missing = LB!Missing
  BY DEF L!Missing, LB!Missing, L!HeightsOf, LB!HeightsOf
<1>c. \A S : L!Cardinality(S) = LB!Cardinality(S)
  BY DEF L!Cardinality, LB!Cardinality
<1>1. L!Connect <=> LB!Connect
  BY DEF L!Connect, LB!Connect
<1>2. L!Poll <=> LB!Poll
  BY DEF L!Poll, LB!Poll, L!KnownTip, LB!KnownTip
<1>3. L!StartDownload <=> LB!StartDownload
  BY DEF L!StartDownload, LB!StartDownload
<1>4. \A h : L!FetchBlock(h) <=> LB!FetchBlock(h)
  <2>1. ASSUME NEW h PROVE L!InFlight(h) <=> LB!InFlight(h)
    <3>1. {g \in L!Missing : g < h} = {g \in LB!Missing : g < h}
      BY <1>m
    <3> QED BY <1>m, <1>c, <3>1 DEF L!InFlight, LB!InFlight
  <2> QED BY <1>m, <2>1 DEF L!FetchBlock, LB!FetchBlock
<1>5. L!NextBlock <=> LB!NextBlock
  BY DEF L!NextBlock, LB!NextBlock, L!IsExpired, LB!IsExpired, L!NextOfBatch,
     LB!NextOfBatch, L!drop_expired_reservations, LB!drop_expired_reservations
<1>6. L!BatchDone <=> LB!BatchDone
  BY DEF L!BatchDone, LB!BatchDone
<1>7. L!ReadInscriptions <=> LB!ReadInscriptions
  BY DEF L!ReadInscriptions, LB!ReadInscriptions, L!FirstTx, LB!FirstTx,
     L!Tracked, LB!Tracked
<1>8. \A h : L!RecordPayment(h) <=> LB!RecordPayment(h)
  BY DEF L!RecordPayment, LB!RecordPayment, L!CurrentTx, LB!CurrentTx,
     L!PaymentFor, LB!PaymentFor, L!update_btc_reservation_initial,
     LB!update_btc_reservation_initial
<1>9. L!SkipTx <=> LB!SkipTx
  BY DEF L!SkipTx, LB!SkipTx, L!CurrentTx, LB!CurrentTx
<1>10. L!ReadPending <=> LB!ReadPending
  BY DEF L!ReadPending, LB!ReadPending, L!IsPending, LB!IsPending
<1>11. L!ReadHeaders <=> LB!ReadHeaders
  BY DEF L!ReadHeaders, LB!ReadHeaders
<1>12. \A h : L!SelectWindow(h) <=> LB!SelectWindow(h)
  BY DEF L!SelectWindow, LB!SelectWindow, L!Confirmed, LB!Confirmed,
     L!IsConfirmationHeight, LB!IsConfirmationHeight, L!IsSafeHeight,
     LB!IsSafeHeight, L!MinConfirmationHeight, LB!MinConfirmationHeight
<1>13. \A h : L!FetchWindowBlock(h) <=> LB!FetchWindowBlock(h)
  BY DEF L!FetchWindowBlock, LB!FetchWindowBlock, L!HeightsOf, LB!HeightsOf,
     L!InWindowFlight, LB!InWindowFlight, L!MissingOfWindow,
     LB!MissingOfWindow
<1>14. L!CommitWindow <=> LB!CommitWindow
  BY DEF L!CommitWindow, LB!CommitWindow, L!update_btc_reservation_final,
     LB!update_btc_reservation_final
<1>15. L!ConfirmationsDone <=> LB!ConfirmationsDone
  BY DEF L!ConfirmationsDone, LB!ConfirmationsDone, L!Confirmed, LB!Confirmed,
     L!MinConfirmationHeight, LB!MinConfirmationHeight
<1>16. L!MissingEntryPanic <=> LB!MissingEntryPanic
  BY DEF L!MissingEntryPanic, LB!MissingEntryPanic, L!CurrentTx, LB!CurrentTx,
     L!MissingEntry, LB!MissingEntry, L!PaymentFor, LB!PaymentFor
<1>17. L!NoSafeHeightPanic <=> LB!NoSafeHeightPanic
  BY DEF L!NoSafeHeightPanic, LB!NoSafeHeightPanic, L!Confirmed, LB!Confirmed,
     L!MinConfirmationHeight, LB!MinConfirmationHeight
<1>18. \A h : L!Mine(h) <=> LB!Mine(h)
  BY DEF L!Mine, LB!Mine, L!Payable, LB!Payable, L!TipFork, LB!TipFork
<1>19. \A d, h : L!Reorg(d, h) <=> LB!Reorg(d, h)
  BY DEF L!Reorg, LB!Reorg, L!Payable, LB!Payable
<1>20. L!Tick <=> LB!Tick
  BY DEF L!Tick, LB!Tick
<1>21. \A h : L!Reserve(h) <=> LB!Reserve(h)
  BY DEF L!Reserve, LB!Reserve
<1>22. \A h : L!InsertReservation(h) <=> LB!InsertReservation(h)
  BY DEF L!InsertReservation, LB!InsertReservation, L!NewMetadata,
     LB!NewMetadata, L!insert, LB!insert
<1>23. \A h : L!RemoveReservation(h) <=> LB!RemoveReservation(h)
  BY DEF L!RemoveReservation, LB!RemoveReservation, L!PaidOnChain,
     LB!PaidOnChain, L!remove, LB!remove
<1>24. \A h : L!AddHeader(h) <=> LB!AddHeader(h)
  BY DEF L!AddHeader, LB!AddHeader
<1>25. L!RpcError <=> LB!RpcError
  BY DEF L!RpcError, LB!RpcError
<1>26. L!Stopped <=> LB!Stopped
  BY DEF L!Stopped, LB!Stopped
<1>a. L!Listen <=> LB!Listen
  BY <1>m, <1>1, <1>2, <1>3, <1>4, <1>5, <1>6, <1>7, <1>8, <1>9, <1>10, <1>11,
     <1>12, <1>13, <1>14, <1>15, <1>16, <1>17 DEF L!Listen, LB!Listen
<1>b. L!Environment <=> LB!Environment
  BY <1>18, <1>19, <1>20, <1>21, <1>22, <1>23, <1>24 DEF L!Environment,
     LB!Environment
<1>d. [L!Next]_L!vars <=> [LB!Next]_LB!vars
  BY <1>0, <1>a, <1>b, <1>25, <1>26 DEF L!Next, LB!Next
<1> QED BY <1>i, <1>d, PTL

-----------------------------------------------------------------------------
(* The node implements its listener, and keeps what the parts keep          *)

NodeInv == ListenerInv /\ QueuesInv

\* The parts keep each other's invariants.
LEMMA NodeInvariant == NodeSpec => []NodeInv
<1>1. NodeInit => NodeInv
  BY NodeInitParts, ListenerKeeps, QueuesKeep DEF NodeInv
<1>2. NodeInv /\ [NodeNext]_nodeVars => NodeInv'
  BY NodeListens, NodePipes, ListenerKeeps, QueuesKeep
  DEF NodeInv, ListenerInv, QueuesInv
<1> QED BY <1>1, <1>2, PTL DEF NodeSpec

\* With the provers and the broadcaster at work on the same store, the listener
\* is the one that was modelled alone.
THEOREM NodeListener == NodeSpec => ImplementsListener
<1>1. NodeInv /\ [NodeNext]_nodeVars => [LB!Next]_LB!vars
  BY NodeListens DEF NodeInv, ListenerInv, QueuesInv
<1>2. NodeSpec => LB!Init /\ [][LB!Next]_LB!vars
  BY <1>1, NodeInitParts, NodeInvariant, PTL DEF NodeSpec
<1> QED BY <1>2, SameListener DEF ImplementsListener, L!Spec

\* With the listener at work on the same store, the queues meet only what they
\* were modelled with, a window stored once around its payment and its request
\* sent with it; no bound is set here on requests, payments or windows.
THEOREM NodePipeline == NodeSpec => PB!Init /\ [][PB!OpenNext]_PB!vars
<1>1. NodeInv /\ [NodeNext]_nodeVars => [PB!OpenNext]_PB!vars
  BY NodePipes DEF NodeInv, ListenerInv, QueuesInv
<1> QED BY <1>1, NodeInitParts, NodeInvariant, PTL DEF NodeSpec

-----------------------------------------------------------------------------
(* Heights: what is needed of the types, and that the bound of the chain is *)
(* kept.                                                                    *)

HeightTypes ==
    /\ analyzed_height \in Nat /\ batch \subseteq BlockAt /\ sifted \subseteq BlockAt
    /\ cursor \in Nat \ {0} /\ heights \subseteq safe_contract_block_hashes
    /\ pending \subseteq [id : Ids, height : Nat]
    /\ chain \in Seq(Block)
    /\ pc \in {"inscriptions", "sift"} => block \in Block
    /\ pc \in {"window", "commit"} => work \in Work

\* What is needed of the types.
LEMMA ListenerHeightTypes == ListenerInv => HeightTypes
  BY DEF ListenerInv, LB!TypeOK, LB!WorkInv, HeightTypes, Block, BlockAt, Tx, Work,
         LB!Block, LB!BlockAt, LB!Tx, LB!Work

-----------------------------------------------------------------------------
(* From the chain to the contract: what the entries and the broadcaster    *)
(* hold has been seen.                                                     *)

PaymentSeen(id, initial) ==
    /\ initial.height \in 0 .. MaxHeight
    /\ [id |-> id, height |-> initial.height] \in SeenPayments

WindowKnown(id, final) ==
    /\ final.safe \in safe_contract_block_hashes
    /\ final.confirmation \in 0 .. MaxHeight
    /\ \E payment \in SeenPayments :
          /\ payment.id = id /\ payment.height \in Nat /\ final.safe < payment.height
          /\ payment.height + CONFIRMATION_HEIGHT_DELTA <= final.confirmation
          /\ payment.height + CONFIRMATION_HEIGHT_DELTA <= analyzed_height

EntryKnown(id) ==
    reservations[id] # None =>
        /\ \A initial : reservations[id].btc_initial = initial /\ initial # None
                           => PaymentSeen(id, initial)
        /\ \A final : reservations[id].btc_final = final /\ final # None
                         => WindowKnown(id, final)

ItemKnown ==
    \A public : broadcaster \in {"validating", "sending"} /\ public = item.public =>
        PaymentSeen(public.id, public.initial) /\ WindowKnown(public.id, public.final)

KnownInv == (\A id \in Ids : EntryKnown(id)) /\ ItemKnown

\* What is seen stays seen.
LEMMA KnownStays ==
    ASSUME SeenPayments \subseteq SeenPayments',
           safe_contract_block_hashes \subseteq safe_contract_block_hashes',
           analyzed_height \in Nat, analyzed_height' \in Nat,
           analyzed_height <= analyzed_height'
    PROVE  /\ \A id, initial : PaymentSeen(id, initial) => PaymentSeen(id, initial)'
           /\ \A id, final : WindowKnown(id, final) => WindowKnown(id, final)'
  BY DEF PaymentSeen, WindowKnown

\* A step that keeps the sifted blocks and the cursor sees nothing new.
LEMMA SeenSame ==
    ASSUME UNCHANGED <<sifted, analyzed_height>>,
           pc = "sift" <=> pc' = "sift",
           pc = "sift" => UNCHANGED <<block, cursor>>
    PROVE  SeenPayments' = SeenPayments
  BY DEF SeenPayments, PaymentsIn

\* The next transaction adds its payment.
LEMMA SeenTx ==
    ASSUME HeightTypes, SkipTx \/ \E id \in Ids : RecordPayment(id)
    PROVE  /\ CurrentTx.pays \in Ids
           /\ SeenPayments' =
                 SeenPayments \union {[id |-> CurrentTx.pays, height |-> analyzed_height]}
<1> USE DEF polling, sifting, Running
<1>1. /\ pc = "sift" /\ pc' = "sift" /\ cursor <= Len(block.txs) /\ cursor' = cursor + 1
      /\ UNCHANGED <<sifted, analyzed_height, block>>
  BY DEF SkipTx, RecordPayment, PaymentFor
<1>2. cursor \in Nat \ {0} /\ block.txs \in Seq(Tx) /\ Len(block.txs) \in Nat
  BY <1>1 DEF HeightTypes, Block
<1>3. CurrentTx.pays \in Ids
  <2>1. block.txs[cursor] \in Tx
    BY <1>1, <1>2
  <2> QED BY <2>1 DEF CurrentTx, Tx
<1>4. 1 .. cursor' - 1 = (1 .. cursor - 1) \union {cursor}
  <2>1. \A n \in Nat \ {0} : 1 .. (n + 1) - 1 = (1 .. n - 1) \union {n}
    <3>1. ASSUME NEW n \in Nat \ {0}, NEW m \in Int
          PROVE  m >= 1 /\ m <= (n + 1) - 1 <=> (m >= 1 /\ m <= n - 1) \/ m = n
      OBVIOUS
    <3> QED BY <3>1
  <2>2. cursor' = cursor + 1
    BY <1>1
  <2> QED BY <1>2, <2>1, <2>2
<1>5. PaymentsIn(analyzed_height, block.txs, cursor - 1)'
         = PaymentsIn(analyzed_height, block.txs, cursor - 1)
              \union {[id |-> CurrentTx.pays, height |-> analyzed_height]}
  BY <1>1, <1>4 DEF PaymentsIn, CurrentTx
<1> DEFINE whole == UNION {PaymentsIn(b.height, b.block.txs, Len(b.block.txs)) : b \in sifted}
           part == PaymentsIn(analyzed_height, block.txs, cursor - 1)
<1>6. whole' = whole
  BY <1>1 DEF PaymentsIn
<1>7. SeenPayments = whole \union part /\ SeenPayments' = whole' \union part'
  BY <1>1 DEF SeenPayments
<1> HIDE DEF whole, part
<1>8. part' = part \union {[id |-> CurrentTx.pays, height |-> analyzed_height]}
  BY <1>5 DEF part
<1> QED BY <1>3, <1>6, <1>7, <1>8

\* The block that is sifted through is handed on to the sifted blocks.
LEMMA SeenBlock ==
    ASSUME HeightTypes, LB!HeightInv, ReadPending
    PROVE  SeenPayments' = SeenPayments
<1> USE DEF polling, Running
<1> DEFINE new == [height |-> analyzed_height, block |-> block]
           All(b) == PaymentsIn(b.height, b.block.txs, Len(b.block.txs))
<1>1. /\ pc = "sift" /\ pc' = "headers" /\ cursor > Len(block.txs)
      /\ sifted' = sifted \union {new}
  BY DEF ReadPending
<1>2. cursor \in Nat \ {0} /\ Len(block.txs) \in Nat
  BY <1>1 DEF HeightTypes, Block
<1>3. cursor - 1 = Len(block.txs)
  BY <1>1, <1>2 DEF LB!HeightInv
<1>4. All(new) = PaymentsIn(analyzed_height, block.txs, cursor - 1)
  BY <1>3
<1>5. SeenPayments = (UNION {All(b) : b \in sifted}) \union All(new)
  BY <1>1, <1>4 DEF SeenPayments
<1>6. SeenPayments' = UNION {All(b) : b \in sifted'}
  BY <1>1 DEF SeenPayments, PaymentsIn
<1> HIDE DEF All, new
<1>7. UNION {All(b) : b \in sifted \union {new}} = (UNION {All(b) : b \in sifted}) \union All(new)
  <2>1. ASSUME NEW x
        PROVE  x \in UNION {All(b) : b \in sifted \union {new}}
                 <=> x \in UNION {All(b) : b \in sifted} \/ x \in All(new)
    OBVIOUS
  <2> QED BY <2>1
<1> QED BY <1>1, <1>5, <1>6, <1>7

\* The analysis of a block starts in front of its first transaction.
LEMMA SeenStart ==
    ASSUME NextBlock \/ ReadInscriptions
    PROVE  SeenPayments' = SeenPayments
<1> USE DEF polling, sifting, Running
<1>1. CASE NextBlock
  BY <1>1 DEF NextBlock, SeenPayments, PaymentsIn
<1>2. CASE ReadInscriptions
  <2>1. pc = "inscriptions" /\ pc' = "sift" /\ cursor' = 1 /\ UNCHANGED sifted
    BY <1>2 DEF ReadInscriptions, FirstTx
  <2>2. 1 .. cursor' - 1 = {}
    BY <2>1
  <2>3. PaymentsIn(analyzed_height, block.txs, cursor - 1)' = {}
    BY <2>2 DEF PaymentsIn
  <2> QED BY <2>1, <2>3 DEF SeenPayments, PaymentsIn
<1> QED BY <1>1, <1>2

\* What the node's other steps do on the chain's side of its promise.
ChainSide ==
    \/ /\ analyzed_height' \in {analyzed_height, analyzed_height + 1}
       /\ UNCHANGED <<safe_contract_block_hashes, SeenPayments, inserts>>
    \/ /\ \E id \in Ids : SeenPayments' =
              SeenPayments \union {[id |-> id, height |-> analyzed_height]}
       /\ UNCHANGED <<analyzed_height, safe_contract_block_hashes, inserts>>
    \/ /\ \E id \in Ids : inserts' = [inserts EXCEPT ![id] = @ + 1]
       /\ UNCHANGED <<analyzed_height, safe_contract_block_hashes, SeenPayments>>
    \/ /\ \E h \in 1 .. MaxHeight : safe_contract_block_hashes' =
              safe_contract_block_hashes \union {h}
       /\ UNCHANGED <<analyzed_height, SeenPayments, inserts>>

\* One turn of the listener, or of what is around it.
LEMMA ListenSide ==
    ASSUME ListenerInv, LB!HeightInv, [LB!Next]_LB!vars, Listen \/ RpcError \/ Environment
    PROVE  ChainSide
<1> USE DEF vars, envSide, contractSide, bitcoinSide, polling, sifting,
            confirming, output, listenerSide, Running
<1>0. HeightTypes
  BY ListenerHeightTypes
<1>1. CASE NextBlock
  <2>1. analyzed_height' \in {analyzed_height, analyzed_height + 1}
    BY LB!OnlyNextBlockAnalyzes, LB!NextOfBatchIsNext
    DEF ListenerInv, Tx, LB!Tx, Initial, LB!Initial, Final, LB!Final, Block,
        LB!Block, BlockAt, LB!BlockAt, Metadata, LB!Metadata
  <2> QED BY <1>1, <2>1, SeenStart DEF NextBlock, ChainSide
<1>2. CASE ReadInscriptions
  BY <1>2, SeenStart DEF ReadInscriptions, ChainSide
<1>3. CASE SkipTx \/ \E id \in Ids : RecordPayment(id)
  BY <1>0, <1>3, SeenTx DEF SkipTx, RecordPayment, ChainSide
<1>4. CASE ReadPending
  BY <1>0, <1>4, SeenBlock DEF ReadPending, ChainSide
<1>5. CASE \/ Connect \/ Poll \/ StartDownload \/ (\E h \in Missing : FetchBlock(h))
           \/ BatchDone \/ ReadHeaders \/ (\E p \in pending : SelectWindow(p))
           \/ (\E h \in DOMAIN chain : FetchWindowBlock(h)) \/ CommitWindow
           \/ ConfirmationsDone \/ MissingEntryPanic \/ NoSafeHeightPanic \/ RpcError
           \/ (\E txs \in TxLists : Mine(txs))
           \/ (\E depth \in 1 .. MaxReorgDepth, txs \in TxLists : Reorg(depth, txs))
           \/ Tick \/ (\E id \in Ids : Reserve(id) \/ RemoveReservation(id))
  <2>1. /\ UNCHANGED <<sifted, analyzed_height, safe_contract_block_hashes, inserts>>
        /\ pc = "sift" <=> pc' = "sift"
        /\ pc = "sift" => UNCHANGED <<block, cursor>>
    BY <1>5 DEF Connect, Poll, StartDownload, FetchBlock, BatchDone, ReadHeaders,
       SelectWindow, FetchWindowBlock, CommitWindow, ConfirmationsDone,
       MissingEntryPanic, NoSafeHeightPanic, RpcError, Mine, Reorg, Tick, Reserve,
       RemoveReservation
  <2> QED BY <2>1, SeenSame DEF ChainSide
<1>6. ASSUME NEW id \in Ids, InsertReservation(id) PROVE ChainSide
  <2>1. UNCHANGED SeenPayments
    BY <1>6, SeenSame DEF InsertReservation
  <2> QED BY <1>6, <2>1 DEF InsertReservation, ChainSide
<1>7. ASSUME NEW h \in HeaderHeights, AddHeader(h) PROVE ChainSide
  <2>1. UNCHANGED SeenPayments
    BY <1>7, SeenSame DEF AddHeader
  <2>2. h \in 1 .. Len(chain) /\ Len(chain) \in Nat
    BY <1>0, <1>7 DEF AddHeader, HeightTypes
  <2>3. h \in 1 .. MaxHeight
    BY <2>2 DEF LB!HeightInv
  <2> QED BY <1>7, <2>1, <2>3 DEF AddHeader, ChainSide
<1> QED BY <1>1, <1>2, <1>3, <1>4, <1>5, <1>6, <1>7 DEF Listen, Environment

TasksOnly == Consumer \/ (\E n \in DOMAIN workers : ProofWorker(n)) \/ Broadcaster

\* The tasks of the queues do nothing on that side.
LEMMA TaskSide ==
    ASSUME TasksOnly
    PROVE  /\ UNCHANGED <<analyzed_height, safe_contract_block_hashes, SeenPayments, inserts>>
           /\ Broadcaster \/ UNCHANGED <<broadcaster, item, submitted, submissions>>
<1>1. UNCHANGED listenerOnly /\ UNCHANGED inserts
  BY DEF TasksOnly, Consumer, ProofWorker, Broadcaster, Alive, P!Consume, P!Work,
     P!Broadcast, P!ReceiveRequest, P!SpawnWorker, P!ReadEntry, P!EntryNotProvable,
     P!ProofMade, P!PaymentOutsideWindow, P!ProofFails, P!StoreProof, P!StorePanics,
     P!QueueProof, P!ReceiveProof, P!EntryNotComplete, P!IndexPanics, P!EnvelopePanics,
     P!ValidatePublicInputs, P!Mismatch, P!SubmitProof, P!ContractRefuses, P!Dropped
<1>2. Broadcaster \/ UNCHANGED <<broadcaster, item, submitted, submissions>>
  BY DEF TasksOnly, Consumer, ProofWorker, Alive, P!Consume, P!Work,
     P!ReceiveRequest, P!SpawnWorker, P!ReadEntry, P!EntryNotProvable,
     P!ProofMade, P!PaymentOutsideWindow, P!ProofFails, P!StoreProof, P!StorePanics,
     P!QueueProof, P!broadcast, P!history
<1>3. UNCHANGED SeenPayments
  BY <1>1, SeenSame DEF listenerOnly, polling, sifting
<1> QED BY <1>1, <1>2, <1>3 DEF listenerOnly, polling

\* A step of the node is on one of the two sides.
LEMMA NodeSides ==
    ASSUME NodeInv, LB!HeightInv, [NodeNext]_nodeVars
    PROVE  \/ ChainSide /\ UNCHANGED <<broadcaster, item, submitted, submissions>>
           \/ /\ Broadcaster
              /\ UNCHANGED <<analyzed_height, safe_contract_block_hashes, SeenPayments, inserts>>
<1>0. [LB!Next]_LB!vars
  BY NodeListens DEF NodeInv, ListenerInv, QueuesInv
<1>1. CASE NodeListen \/ Around
  <2>1. Listen \/ RpcError \/ Environment
    BY <1>1 DEF NodeListen, ProvePayment, TakePayment, ListenOnly, Around, Listen
  <2>2. UNCHANGED <<broadcaster, item, submitted, submissions>>
    BY <1>1 DEF NodeListen, ProvePayment, TakePayment, Around, queueSide, broadcastSide
  <2> QED BY <1>0, <2>1, <2>2, ListenSide DEF NodeInv
<1>2. CASE TasksOnly
  BY <1>2, TaskSide DEF ChainSide
<1>3. CASE UNCHANGED nodeVars
  <2>1. UNCHANGED <<analyzed_height, safe_contract_block_hashes, inserts, broadcaster, item,
                    submitted, submissions, sifted, pc, block, cursor>>
    BY <1>3 DEF nodeVars, vars, envSide, contractSide, polling, sifting, queueSide,
       broadcastSide
  <2>2. UNCHANGED SeenPayments
    BY <2>1, SeenSame
  <2> QED BY <2>1, <2>2 DEF ChainSide
<1> QED BY <1>1, <1>2, <1>3 DEF NodeNext, NodeStopped, TasksOnly

\* Nothing that was seen is forgotten.
LEMMA SidesGrow ==
    ASSUME NodeInv, NodeInv', LB!HeightInv, [NodeNext]_nodeVars
    PROVE  /\ \A id, initial : PaymentSeen(id, initial) => PaymentSeen(id, initial)'
           /\ \A id, final : WindowKnown(id, final) => WindowKnown(id, final)'
<1>1. analyzed_height \in Nat /\ analyzed_height' \in Nat
  BY DEF NodeInv, ListenerInv, LB!TypeOK
<1>2. /\ SeenPayments \subseteq SeenPayments'
      /\ safe_contract_block_hashes \subseteq safe_contract_block_hashes'
      /\ analyzed_height <= analyzed_height'
  BY <1>1, NodeSides DEF ChainSide
<1> QED BY <1>1, <1>2, KnownStays

\* Every part of an entry is an old one.
EntryKept(id) ==
    reservations'[id] # None =>
        /\ reservations'[id].btc_initial # None =>
              /\ reservations[id] # None
              /\ reservations'[id].btc_initial = reservations[id].btc_initial
        /\ reservations'[id].btc_final # None =>
              /\ reservations[id] # None
              /\ reservations'[id].btc_final = reservations[id].btc_final

\* What is old was known.
LEMMA KeptKnown ==
    ASSUME NodeInv, NodeInv', LB!HeightInv, KnownInv, [NodeNext]_nodeVars,
           NEW id \in Ids, EntryKept(id)
    PROVE  EntryKnown(id)'
  BY SidesGrow DEF KnownInv, EntryKnown, EntryKept

\* The store keeps the parts it is not about.
LEMMA StoreKeeps ==
    ASSUME NEW store \in Stores, NEW id \in Ids
    PROVE  /\ \A t : \A r \in Ids : drop_expired_reservations(store, t)[r] \in {None, store[r]}
           /\ \A r \in Ids : remove(store, id)[r] \in {None, store[r]}
           /\ \A metadata : /\ insert(store, id, metadata)[id] = metadata
                            /\ \A r \in Ids \ {id} : insert(store, id, metadata)[r] = store[r]
           /\ store[id] # None =>
                 /\ \A initial : LET new == update_btc_reservation_initial(store, id, initial)
                                 IN  /\ new[id].btc_initial = initial
                                     /\ new[id].btc_final = store[id].btc_final
                                     /\ \A r \in Ids \ {id} : new[r] = store[r]
                 /\ \A final : LET new == update_btc_reservation_final(store, id, final)
                               IN  /\ new[id].btc_initial = store[id].btc_initial
                                   /\ new[id].btc_final = final
                                   /\ \A r \in Ids \ {id} : new[r] = store[r]
                 /\ \A proof : LET new == P!update_proof_data(store, id, proof)
                               IN  /\ new[id].btc_initial = store[id].btc_initial
                                   /\ new[id].btc_final = store[id].btc_final
                                   /\ \A r \in Ids \ {id} : new[r] = store[r]
<1>1. \A r \in Ids : store[r] \in NodeMetadata \union {None}
  BY DEF Stores
<1>2. DOMAIN store = Ids
  BY DEF Stores
<1>3. /\ \A t : \A r \in Ids : drop_expired_reservations(store, t)[r] \in {None, store[r]}
      /\ \A r \in Ids : remove(store, id)[r] \in {None, store[r]}
      /\ \A metadata : /\ insert(store, id, metadata)[id] = metadata
                       /\ \A r \in Ids \ {id} : insert(store, id, metadata)[r] = store[r]
  BY <1>2 DEF drop_expired_reservations, remove, insert
<1>4. ASSUME store[id] # None, NEW initial
      PROVE  LET new == update_btc_reservation_initial(store, id, initial)
             IN  /\ new[id].btc_initial = initial
                 /\ new[id].btc_final = store[id].btc_final
                 /\ \A r \in Ids \ {id} : new[r] = store[r]
  BY <1>1, <1>2, <1>4 DEF update_btc_reservation_initial, NodeMetadata
<1>5. ASSUME store[id] # None, NEW final
      PROVE  LET new == update_btc_reservation_final(store, id, final)
             IN  /\ new[id].btc_initial = store[id].btc_initial
                 /\ new[id].btc_final = final
                 /\ \A r \in Ids \ {id} : new[r] = store[r]
  BY <1>1, <1>2, <1>5 DEF update_btc_reservation_final, NodeMetadata
<1>6. ASSUME store[id] # None, NEW proof
      PROVE  LET new == P!update_proof_data(store, id, proof)
             IN  /\ new[id].btc_initial = store[id].btc_initial
                 /\ new[id].btc_final = store[id].btc_final
                 /\ \A r \in Ids \ {id} : new[r] = store[r]
  BY <1>1, <1>2, <1>6 DEF P!update_proof_data, NodeMetadata
<1> QED BY <1>3, <1>4, <1>5, <1>6

\* A payment that is taken into an entry was just seen.
LEMMA PaymentKnown ==
    ASSUME NodeInv, NodeInv', LB!HeightInv, KnownInv, NEW id \in Ids, TakePayment(id)
    PROVE  \A r \in Ids : EntryKnown(r)'
<1> DEFINE initial == [height |-> analyzed_height, hash |-> block, txid |-> cursor]
<1>0. HeightTypes /\ [NodeNext]_nodeVars
  BY ListenerHeightTypes DEF NodeInv, NodeNext, NodeListen
<1>1. /\ CurrentTx.pays = id /\ reservations[id] # None
      /\ reservations' = update_btc_reservation_initial(reservations, id, initial)
  BY DEF TakePayment, RecordPayment, PaymentFor
<1>2. reservations \in Stores
  BY DEF NodeInv, QueuesInv, PB!TypeOK, Stores, NodeMetadata, NodeProof, PB!Metadata,
         PB!Proof
<1>3. /\ \A r \in Ids \ {id} : reservations'[r] = reservations[r]
      /\ reservations'[id].btc_initial = initial
      /\ reservations'[id].btc_final = reservations[id].btc_final
  BY <1>1, <1>2, StoreKeeps
<1>4. ASSUME NEW r \in Ids \ {id} PROVE EntryKnown(r)'
  BY <1>0, <1>3, <1>4, KeptKnown DEF EntryKept
<1>5. EntryKnown(id)'
  <2>1. [id |-> id, height |-> analyzed_height] \in SeenPayments'
    BY <1>0, <1>1, SeenTx DEF TakePayment
  <2>2. initial.height = analyzed_height /\ analyzed_height \in 0 .. MaxHeight
    BY <1>0 DEF LB!HeightInv, HeightTypes
  <2>3. \A other : reservations'[id].btc_initial = other => PaymentSeen(id, other)'
    BY <1>3, <2>1, <2>2 DEF PaymentSeen
  <2>4. \A final : reservations'[id].btc_final = final /\ final # None
                      => WindowKnown(id, final)'
    <3>1. \A final : reservations[id].btc_final = final /\ final # None
                        => WindowKnown(id, final)
      BY <1>1 DEF KnownInv, EntryKnown
    <3> QED BY <1>0, <1>3, <3>1, SidesGrow
  <2> QED BY <2>3, <2>4 DEF EntryKnown
<1> QED BY <1>4, <1>5

\* A window that is stored confirms a payment that was seen.
LEMMA CommitKnown ==
    ASSUME NodeInv, NodeInv', LB!HeightInv, KnownInv, ProvePayment
    PROVE  \A r \in Ids : EntryKnown(r)'
<1> DEFINE final == [safe |-> work.safe, confirmation |-> work.confirmation,
                     confirmation_hash |-> block, blocks |-> work.blocks]
<1>0. HeightTypes /\ [NodeNext]_nodeVars
  BY ListenerHeightTypes DEF NodeInv, NodeNext, NodeListen
<1>1. /\ pc = "commit" /\ reservations[work.id] # None
      /\ reservations' = update_btc_reservation_final(reservations, work.id, final)
  BY DEF ProvePayment, CommitWindow, Running
<1>2. reservations \in Stores
  BY DEF NodeInv, QueuesInv, PB!TypeOK, Stores, NodeMetadata, NodeProof, PB!Metadata,
         PB!Proof
<1>3. work.id \in Ids /\ work.confirmation \in 0 .. MaxHeight /\ work.safe \in Nat
  BY <1>0, <1>1 DEF HeightTypes, LB!HeightInv, Work
<1>4. /\ \A r \in Ids \ {work.id} : reservations'[r] = reservations[r]
      /\ reservations'[work.id].btc_initial = reservations[work.id].btc_initial
      /\ reservations'[work.id].btc_final = final
  BY <1>1, <1>2, <1>3, StoreKeeps
<1>5. ASSUME NEW r \in Ids \ {work.id} PROVE EntryKnown(r)'
  BY <1>0, <1>4, <1>5, KeptKnown DEF EntryKept
<1>6. WindowKnown(work.id, final)
  <2>1. work.safe \in safe_contract_block_hashes
    BY <1>1 DEF NodeInv, ListenerInv, LB!WorkInv, LB!Building
  <2>2. PICK s \in sifted : LB!BuiltAround(s)
    BY <1>1 DEF NodeInv, ListenerInv, LB!CopyInv, LB!Building
  <2>3. s \in BlockAt /\ s.height \in Nat /\ s.block.txs \in Seq(Tx)
    BY <1>0 DEF HeightTypes, BlockAt, Block
  <2>4. PICK i \in 1 .. Len(s.block.txs) : s.block.txs[i].pays = work.id
    <3>1. DOMAIN s.block.txs = 1 .. Len(s.block.txs)
      BY <2>3
    <3> QED BY <2>2, <3>1 DEF LB!BuiltAround, LB!Pays
  <2> DEFINE payment == [id |-> work.id, height |-> s.height]
  <2>5. payment \in PaymentsIn(s.height, s.block.txs, Len(s.block.txs))
    BY <2>4 DEF PaymentsIn
  <2>6. payment \in SeenPayments
    BY <1>1, <2>5 DEF SeenPayments
  <2>7. /\ payment.id = work.id /\ payment.height = s.height
        /\ final.safe = work.safe /\ final.confirmation = work.confirmation
    OBVIOUS
  <2>8. /\ work.safe < s.height
        /\ s.height + CONFIRMATION_HEIGHT_DELTA <= work.confirmation
        /\ s.height + CONFIRMATION_HEIGHT_DELTA <= analyzed_height
    BY <2>2 DEF LB!BuiltAround
  <2> HIDE DEF payment, final
  <2> QED BY <1>3, <2>1, <2>3, <2>6, <2>7, <2>8 DEF WindowKnown
<1> HIDE DEF final
<1>7. \A id : id = work.id => EntryKnown(id)'
  <2> SUFFICES ASSUME NEW id, id = work.id PROVE EntryKnown(id)'
    OBVIOUS
  <2>1. WindowKnown(id, final)
    BY <1>6
  <2>2. \A f : f = final => WindowKnown(id, f)'
    BY <1>0, <2>1, SidesGrow
  <2>3. \A f : reservations'[id].btc_final = f => WindowKnown(id, f)'
    BY <1>4, <2>2
  <2>4. \A initial : reservations'[id].btc_initial = initial /\ initial # None
                        => PaymentSeen(id, initial)'
    BY <1>0, <1>1, <1>3, <1>4, SidesGrow DEF KnownInv, EntryKnown
  <2> QED BY <2>3, <2>4 DEF EntryKnown
<1> QED BY <1>5, <1>7

\* No other step puts anything new into an entry.
LEMMA OthersKeep ==
    ASSUME NodeInv, [NodeNext]_nodeVars, ~ProvePayment, \A id \in Ids : ~TakePayment(id),
           NEW r \in Ids
    PROVE  EntryKept(r)
<1> USE DEF output, listenerSide
<1>1. reservations \in Stores
  BY DEF NodeInv, QueuesInv, PB!TypeOK, Stores, NodeMetadata, NodeProof, PB!Metadata,
         PB!Proof
<1>a. ASSUME reservations'[r] \in {None, reservations[r]} PROVE EntryKept(r)
  BY <1>a DEF EntryKept
<1>2. CASE NextBlock
  BY <1>1, <1>2, <1>a, StoreKeeps DEF NextBlock
<1>3. CASE ListenOnly /\ ~NextBlock
  <2>1. UNCHANGED reservations
    BY <1>3 DEF ListenOnly, Connect, Poll, StartDownload, FetchBlock, BatchDone,
     ReadInscriptions, SkipTx, ReadPending, ReadHeaders, SelectWindow,
     FetchWindowBlock, ConfirmationsDone, MissingEntryPanic, NoSafeHeightPanic
  <2> QED BY <1>a, <2>1
<1>4. ASSUME NEW id \in Ids, InsertReservation(id) PROVE EntryKept(r)
  <2>1. /\ \A other \in Ids \ {id} : reservations'[other] = reservations[other]
        /\ reservations'[id] = NewMetadata(reserved[id])
    BY <1>1, <1>4, StoreKeeps DEF InsertReservation
  <2>2. CASE r = id
    BY <2>1, <2>2 DEF EntryKept, NewMetadata
  <2>3. CASE r # id
    BY <1>a, <2>1, <2>3
  <2> QED BY <2>2, <2>3
<1>5. ASSUME NEW id \in Ids, RemoveReservation(id) PROVE EntryKept(r)
  BY <1>1, <1>5, <1>a, StoreKeeps DEF RemoveReservation
<1>6. CASE \/ RpcError \/ (\E txs \in TxLists : Mine(txs))
           \/ (\E depth \in 1 .. MaxReorgDepth, txs \in TxLists : Reorg(depth, txs))
           \/ Tick \/ (\E id \in Ids : Reserve(id)) \/ \E h \in HeaderHeights : AddHeader(h)
  <2>1. UNCHANGED reservations
    BY <1>6 DEF RpcError, Mine, Reorg, Tick, Reserve, AddHeader
  <2> QED BY <1>a, <2>1
<1>7. ASSUME NEW n \in DOMAIN workers, P!StoreProof(n) PROVE EntryKept(r)
  <2> DEFINE id == workers[n].id
  <2>1. id \in Ids
    <3>1. workers \in Seq(PB!Worker)
      BY DEF NodeInv, QueuesInv, PB!TypeOK
    <3>2. workers[n] \in PB!Worker
      BY <3>1
    <3> QED BY <3>2 DEF PB!Worker
  <2>2. /\ reservations[id] # None
        /\ reservations' = P!update_proof_data(reservations, id, workers[n].proof)
    BY <1>7 DEF P!StoreProof, P!EntryOf
  <2> HIDE DEF id
  <2>3. /\ \A other \in Ids \ {id} : reservations'[other] = reservations[other]
        /\ reservations'[id].btc_initial = reservations[id].btc_initial
        /\ reservations'[id].btc_final = reservations[id].btc_final
    BY <1>1, <2>1, <2>2, StoreKeeps
  <2>4. CASE r = id
    BY <2>2, <2>3, <2>4 DEF EntryKept
  <2>5. CASE r # id
    BY <1>a, <2>3, <2>5
  <2> QED BY <2>4, <2>5
<1>8. CASE TasksOnly /\ \A n \in DOMAIN workers : ~P!StoreProof(n)
  <2>1. UNCHANGED reservations
    BY <1>8
    DEF TasksOnly, Consumer, ProofWorker, Broadcaster, Alive, P!Consume, P!Work, P!Broadcast,
     P!ReceiveRequest, P!SpawnWorker, P!ReadEntry, P!EntryNotProvable, P!ProofMade,
     P!PaymentOutsideWindow, P!ProofFails, P!StorePanics,
     P!QueueProof, P!ReceiveProof, P!EntryNotComplete, P!IndexPanics, P!EnvelopePanics,
     P!ValidatePublicInputs, P!Mismatch, P!SubmitProof, P!ContractRefuses, P!Dropped
  <2> QED BY <1>a, <2>1
<1>9. CASE UNCHANGED nodeVars
  <2>1. UNCHANGED reservations
    BY <1>9 DEF nodeVars, vars
  <2> QED BY <1>a, <2>1
<1> QED
  BY <1>2, <1>3, <1>4, <1>5, <1>6, <1>7, <1>8, <1>9
  DEF NodeNext, NodeListen, Around, Environment, NodeStopped, TasksOnly

\* The broadcaster copies a known entry, and keeps the copy.
LEMMA ItemStaysKnown ==
    ASSUME NodeInv, NodeInv', LB!HeightInv, KnownInv, [NodeNext]_nodeVars
    PROVE  ItemKnown'
<1>a. ASSUME broadcaster' \in {"validating", "sending"} =>
                broadcaster \in {"validating", "sending"} /\ UNCHANGED item
      PROVE  ItemKnown'
  BY <1>a, SidesGrow DEF KnownInv, ItemKnown
<1>1. CASE UNCHANGED <<broadcaster, item>>
  BY <1>1, <1>a
<1>2. CASE P!ReceiveProof
  <2> DEFINE id == Head(broadcast_channel)
  <2>1. /\ reservations[id] # None
        /\ reservations[id].btc_initial # None /\ reservations[id].btc_final # None
        /\ item'.public.id = id
        /\ item'.public.initial = reservations[id].btc_initial
        /\ item'.public.final = reservations[id].btc_final
    BY <1>2 DEF P!ReceiveProof, P!NextEntry, P!Complete, P!Provable, P!PublicInputs
  <2>2. id \in Ids
    <3>1. broadcast_channel \in Seq(Ids) /\ broadcast_channel # <<>>
      BY <1>2 DEF NodeInv, QueuesInv, PB!TypeOK, P!ReceiveProof
    <3> QED BY <3>1
  <2> HIDE DEF id
  <2>3. \A initial : reservations[id].btc_initial = initial /\ initial # None
                        => PaymentSeen(id, initial)
    BY <2>1, <2>2 DEF KnownInv, EntryKnown
  <2>4. \A final : reservations[id].btc_final = final /\ final # None
                      => WindowKnown(id, final)
    BY <2>1, <2>2 DEF KnownInv, EntryKnown
  <2>5. \A r, initial, final :
           r = id /\ initial = reservations[id].btc_initial /\ final = reservations[id].btc_final
              => PaymentSeen(r, initial) /\ WindowKnown(r, final)
    BY <2>1, <2>3, <2>4
  <2>6. \A r, initial, final :
           r = id /\ initial = reservations[id].btc_initial /\ final = reservations[id].btc_final
              => PaymentSeen(r, initial)' /\ WindowKnown(r, final)'
    BY <2>5, SidesGrow
  <2>7. ASSUME NEW public, public = item'.public
        PROVE  PaymentSeen(public.id, public.initial)' /\ WindowKnown(public.id, public.final)'
    BY <2>1, <2>6, <2>7
  <2> QED BY <2>7 DEF ItemKnown
<1>3. CASE Broadcaster /\ ~P!ReceiveProof
  BY <1>3, <1>a
  DEF Broadcaster, Alive, P!Broadcast, P!EntryNotComplete, P!IndexPanics, P!EnvelopePanics,
     P!ValidatePublicInputs, P!Mismatch, P!SubmitProof, P!ContractRefuses, P!Dropped
<1> QED BY <1>1, <1>2, <1>3, NodeSides

\* From the chain to the contract, nothing is made up.
LEMMA KnownStep ==
    ASSUME NodeInv, NodeInv', LB!HeightInv, KnownInv, [NodeNext]_nodeVars
    PROVE  KnownInv'
<1>1. \A id \in Ids : EntryKnown(id)'
  BY PaymentKnown, CommitKnown, OthersKeep, KeptKnown
<1> QED BY <1>1, ItemStaysKnown DEF KnownInv

-----------------------------------------------------------------------------
(* The node implements its promise                                         *)

\* A step of the node is one of the listener or around it, or changes nothing
\* that only these change.
LEMMA NodeHeights ==
    NodeInv /\ LB!HeightInv /\ [NodeNext]_nodeVars => LB!HeightInv'
  BY NodeListens, LB!NextHeights
  DEF NodeInv, ListenerInv, QueuesInv, Tx, LB!Tx, Initial, LB!Initial, Final, LB!Final,
      Block, LB!Block, BlockAt, LB!BlockAt, Metadata, LB!Metadata

\* The node starts with nothing seen, taken in or submitted.
LEMMA InitPromise == NodeInit => LB!HeightInv /\ KnownInv /\ A!Init
<1> SUFFICES ASSUME NodeInit PROVE LB!HeightInv /\ KnownInv /\ A!Init
  OBVIOUS
<1>1. LB!HeightInv
  BY NodeInitParts, LB!InitHeights
  DEF Tx, LB!Tx, Initial, LB!Initial, Final, LB!Final, Block, LB!Block, BlockAt, LB!BlockAt,
      Metadata, LB!Metadata
<1>2. KnownInv
  BY DEF NodeInit, Init, P!Init, KnownInv, EntryKnown, ItemKnown, EmptyStore
<1>3. SeenPayments = {}
  BY DEF NodeInit, Init, SeenPayments
<1>4. {Submitted(s.public) : s \in submitted} = {}
  BY DEF NodeInit, P!Init
<1>5. analyzed_height \in 0 .. MaxHeight /\ safe_contract_block_hashes \subseteq 0 .. MaxHeight
  BY DEF NodeInit, Init
<1> QED BY <1>1, <1>2, <1>3, <1>4, <1>5 DEF A!Init, NodeInit, Init, P!Init

\* What the broadcaster sends is what may be submitted.
LEMMA SubmitPromised ==
    ASSUME NodeInv, LB!HeightInv, KnownInv, P!SubmitProof,
           UNCHANGED <<analyzed_height, safe_contract_block_hashes, SeenPayments, inserts>>
    PROVE  A!Next
<1> DEFINE public == item.public
           s == Submitted(public)
<1>0. /\ broadcaster = "sending" /\ submitted' = submitted \union {item}
      /\ submissions' = [submissions EXCEPT ![public.id] = @ + 1]
  BY DEF P!SubmitProof
<1>1. /\ item \in PB!Item /\ public \in NodeProof /\ public.id \in Ids
      /\ public.initial.height \in Nat /\ public.final.safe \in Nat
      /\ public.final.confirmation \in Nat
  BY <1>0 DEF NodeInv, QueuesInv, PB!TypeOK, PB!Item, PB!Proof, NodeProof, Initial, Final
<1>2. item # None
  BY <1>1 DEF PB!Item, PB!Proof, NodeProof
<1>3. submissions[public.id] < inserts[public.id]
  <2>1. submissions[public.id] < proof_gen_queue[public.id]
    BY <1>1, <1>2, PB!SubmissionRequested
    DEF NodeInv, QueuesInv, Initial, Final, NodeProof, PB!Proof, NodeMetadata,
        PB!Metadata, PB!Item
  <2>2. proof_gen_queue[public.id] + (IF LB!Open(public.id) THEN 1 ELSE 0)
           <= inserts[public.id]
    BY <1>1 DEF NodeInv, ListenerInv, LB!ProofInv, LB!OneProofPerInsert
  <2>3. /\ submissions[public.id] \in Nat /\ proof_gen_queue[public.id] \in Nat
        /\ inserts[public.id] \in Nat
    BY <1>1 DEF NodeInv, QueuesInv, PB!TypeOK
  <2>4. proof_gen_queue[public.id] <= inserts[public.id]
    <3> HIDE DEF public
    <3>1. CASE LB!Open(public.id)
      BY <2>2, <2>3, <3>1
    <3>2. CASE ~LB!Open(public.id)
      BY <2>2, <2>3, <3>2
    <3> QED BY <3>1, <3>2
  <2>5. \A a, b, c \in Nat : a < b /\ b <= c => a < c
    OBVIOUS
  <2> QED BY ONLY <2>1, <2>3, <2>4, <2>5
<1>4. public.initial.height \in public.final.safe .. public.final.confirmation
  BY <1>0 DEF NodeInv, QueuesInv, PB!BroadcastInv, PB!Covers
<1>5. PaymentSeen(public.id, public.initial) /\ WindowKnown(public.id, public.final)
  BY <1>0 DEF KnownInv, ItemKnown
<1>6. /\ s.id = public.id /\ s.height = public.initial.height
      /\ s.safe = public.final.safe /\ s.confirmation = public.final.confirmation
      /\ s = [id |-> public.id, height |-> public.initial.height,
              safe |-> public.final.safe, confirmation |-> public.final.confirmation]
  BY DEF Submitted
<1>7. {Submitted(t.public) : t \in submitted}' = {Submitted(t.public) : t \in submitted} \union {s}
  BY <1>0
<1> HIDE DEF public, s
<1>8. s \in A!Submission
  <2>1. public.final.safe \in 0 .. MaxHeight
    BY <1>5 DEF WindowKnown, LB!HeightInv
  <2> QED BY <1>1, <1>5, <1>6, <2>1 DEF A!Submission, PaymentSeen, WindowKnown
<1>9. A!Payment(s.id, s.height) \in SeenPayments
  BY <1>5, <1>6 DEF A!Payment, PaymentSeen
<1>10. \E payment \in SeenPayments : A!ConfirmedIn(s, payment)
  BY <1>5, <1>6 DEF A!ConfirmedIn, WindowKnown
<1>11. s.safe <= s.height /\ s.height <= s.confirmation /\ s.safe \in safe_contract_block_hashes
  BY <1>1, <1>4, <1>5, <1>6 DEF WindowKnown
<1>12. submissions' = [submissions EXCEPT ![s.id] = @ + 1] /\ submissions[s.id] < inserts[s.id]
  BY <1>0, <1>3, <1>6
<1>13. A!Submit(s)
  BY <1>7, <1>9, <1>10, <1>11, <1>12 DEF A!Submit
<1> QED BY <1>8, <1>13 DEF A!Next

\* Every step keeps the promise.
LEMMA StepPromised ==
    ASSUME NodeInv, LB!HeightInv, KnownInv, [NodeNext]_nodeVars
    PROVE  [A!Next]_A!vars
<1>1. CASE ChainSide /\ UNCHANGED <<submitted, submissions>>
  <2>0. UNCHANGED {Submitted(s.public) : s \in submitted}
    BY <1>1
  <2>1. CASE /\ analyzed_height' \in {analyzed_height, analyzed_height + 1}
             /\ UNCHANGED <<safe_contract_block_hashes, SeenPayments, inserts>>
    BY <1>1, <2>0, <2>1 DEF A!vars, A!Next, A!LookAtNextBlock
  <2>2. ASSUME NEW id \in Ids,
               SeenPayments' = SeenPayments \union {[id |-> id, height |-> analyzed_height]},
               UNCHANGED <<analyzed_height, safe_contract_block_hashes, inserts>>
        PROVE  A!Next
    <3>1. {A!Payment(r, analyzed_height) : r \in {id}}
             = {[id |-> id, height |-> analyzed_height]}
      BY DEF A!Payment
    <3>2. A!SeePayments({id})
      BY <1>1, <2>0, <2>2, <3>1 DEF A!SeePayments
    <3>3. {id} \in SUBSET Ids
      OBVIOUS
    <3> QED BY <3>2, <3>3 DEF A!Next
  <2>3. ASSUME NEW id \in Ids, inserts' = [inserts EXCEPT ![id] = @ + 1],
               UNCHANGED <<analyzed_height, safe_contract_block_hashes, SeenPayments>>
        PROVE  A!Next
    <3>1. A!TakeIn(id)
      BY <1>1, <2>0, <2>3 DEF A!TakeIn
    <3> QED BY <3>1 DEF A!Next
  <2>4. ASSUME NEW h \in 1 .. MaxHeight,
               safe_contract_block_hashes' = safe_contract_block_hashes \union {h},
               UNCHANGED <<analyzed_height, SeenPayments, inserts>>
        PROVE  A!Next
    <3>1. A!AddHeader(h) /\ h \in 0 .. MaxHeight
      BY <1>1, <2>0, <2>4 DEF A!AddHeader
    <3> QED BY <3>1 DEF A!Next
  <2> QED BY <1>1, <2>1, <2>2, <2>3, <2>4 DEF ChainSide
<1>2. CASE /\ Broadcaster
           /\ UNCHANGED <<analyzed_height, safe_contract_block_hashes, SeenPayments, inserts>>
  <2>1. CASE P!SubmitProof
    BY <1>2, <2>1, SubmitPromised
  <2>2. CASE ~P!SubmitProof
    <3>1. UNCHANGED <<submitted, submissions>>
      BY <1>2, <2>2 DEF Broadcaster, Alive, P!Broadcast, P!ReceiveProof,
         P!EntryNotComplete, P!IndexPanics, P!EnvelopePanics, P!ValidatePublicInputs, P!Mismatch,
         P!ContractRefuses, P!Dropped, P!history
    <3> QED BY <1>2, <3>1 DEF A!vars
  <2> QED BY <2>1, <2>2
<1> QED BY <1>1, <1>2, NodeSides

\* What the node submits to the contract is a payment it has seen, in a window
\* that starts at a block the contract knows and confirms a payment of that
\* reservation, and once for each time the reservation was taken in: whatever
\* the chain, the event listener, the provers and the contract do meanwhile.
THEOREM NodeSwapProver == NodeSpec => ImplementsSwapProver
<1>1. NodeInv /\ NodeInv' /\ LB!HeightInv /\ KnownInv /\ [NodeNext]_nodeVars
         => LB!HeightInv' /\ KnownInv'
  BY NodeHeights, KnownStep
<1>2. NodeSpec => [](LB!HeightInv /\ KnownInv)
  BY <1>1, InitPromise, NodeInvariant, PTL DEF NodeSpec
<1>3. NodeInv /\ LB!HeightInv /\ KnownInv /\ [NodeNext]_nodeVars => [A!Next]_A!vars
  BY StepPromised
<1> QED BY <1>2, <1>3, InitPromise, NodeInvariant, PTL
    DEF NodeSpec, ImplementsSwapProver, A!Spec


-----------------------------------------------------------------------------
(* A submission and the window that was built for it                       *)

EntryConfirmed(id) ==
    \A initial, final :
        /\ reservations[id] # None
        /\ reservations[id].btc_initial = initial /\ initial # None
        /\ reservations[id].btc_final = final /\ final # None
        => id \in repaid \/ Confirms(final, initial)

ItemConfirmed ==
    \A public : broadcaster \in {"validating", "sending"} /\ public = item.public =>
        public.id \in repaid \/ Confirms(public.final, public.initial)

ConfirmedInv == (\A id \in Ids : EntryConfirmed(id)) /\ ItemConfirmed /\ SubmissionConfirmed

\* There is no entry and no submission at the start.
LEMMA InitConfirmed == NodeInit => ConfirmedInv
  BY DEF NodeInit, Init, P!Init, ConfirmedInv, EntryConfirmed, ItemConfirmed,
         SubmissionConfirmed, EmptyStore

\* Who was paid twice stays so, and only the listener's turn tells.
LEMMA RepaidGrows ==
    ASSUME NodeInv, [NodeNext]_nodeVars
    PROVE  repaid \subseteq repaid'
<1>1. [PB!OpenNext]_PB!vars
  BY NodePipes DEF NodeInv, ListenerInv, QueuesInv
<1>2. CASE UNCHANGED PB!vars
  BY <1>2 DEF PB!vars, PB!history
<1>3. CASE PB!OpenListeners
  BY <1>3 DEF PB!OpenListeners, PB!Insert, PB!Drop, PB!RecordPayment, PB!RequestProof,
     PB!history
<1>4. CASE PB!Consume \/ \E n \in DOMAIN workers : PB!Work(n)
  BY <1>4 DEF PB!Consume, PB!ReceiveRequest, PB!SpawnWorker, PB!Work, PB!ReadEntry,
     PB!EntryNotProvable, PB!ProofMade, PB!PaymentOutsideWindow, PB!ProofFails,
     PB!StoreProof, PB!StorePanics, PB!QueueProof, PB!history
<1>5. CASE PB!Broadcast \/ PB!Quiet
  BY <1>5 DEF PB!Broadcast, PB!ReceiveProof, PB!EntryNotComplete, PB!IndexPanics, PB!EnvelopePanics,
     PB!ValidatePublicInputs, PB!Mismatch, PB!SubmitProof, PB!ContractRefuses,
     PB!Dropped, PB!Quiet, PB!vars, PB!history
<1> QED BY <1>1, <1>2, <1>3, <1>4, <1>5 DEF PB!OpenNext

\* A payment comes to an entry without window, or is told by repaid.
LEMMA PaymentConfirmed ==
    ASSUME NodeInv, ConfirmedInv, NEW id \in Ids, TakePayment(id)
    PROVE  \A r \in Ids : EntryConfirmed(r)'
<1> DEFINE initial == [height |-> analyzed_height, hash |-> block, txid |-> cursor]
<1>1. /\ reservations[id] # None
      /\ reservations' = update_btc_reservation_initial(reservations, id, initial)
      /\ repaid \subseteq repaid'
      /\ reservations[id].btc_final # None => id \in repaid'
  BY DEF TakePayment, RecordPayment
<1>2. reservations \in Stores
  BY DEF NodeInv, QueuesInv, PB!TypeOK, Stores, NodeMetadata, NodeProof, PB!Metadata,
         PB!Proof
<1>3. /\ \A r \in Ids \ {id} : reservations'[r] = reservations[r]
      /\ reservations'[id].btc_final = reservations[id].btc_final
  BY <1>1, <1>2, StoreKeeps
<1>4. ASSUME NEW r \in Ids \ {id} PROVE EntryConfirmed(r)'
  BY <1>1, <1>3 DEF ConfirmedInv, EntryConfirmed
<1>5. EntryConfirmed(id)'
  BY <1>1, <1>3 DEF EntryConfirmed
<1> QED BY <1>4, <1>5

\* A window comes to the payment that it was built around, or to an entry that
\* has no payment.
LEMMA CommitConfirmed ==
    ASSUME NodeInv, ConfirmedInv, ProvePayment
    PROVE  \A r \in Ids : EntryConfirmed(r)'
<1> DEFINE final == [safe |-> work.safe, confirmation |-> work.confirmation,
                     confirmation_hash |-> block, blocks |-> work.blocks]
<1>1. /\ pc = "commit" /\ reservations[work.id] # None /\ repaid' = repaid
      /\ reservations' = update_btc_reservation_final(reservations, work.id, final)
  BY DEF ProvePayment, CommitWindow, Running
<1>2. reservations \in Stores
  BY DEF NodeInv, QueuesInv, PB!TypeOK, Stores, NodeMetadata, NodeProof, PB!Metadata,
         PB!Proof
<1>3. work.id \in Ids
  BY <1>1 DEF NodeInv, ListenerInv, LB!TypeOK, LB!Work
<1>4. /\ \A r \in Ids \ {work.id} : reservations'[r] = reservations[r]
      /\ reservations'[work.id].btc_initial = reservations[work.id].btc_initial
      /\ reservations'[work.id].btc_final = final
  BY <1>1, <1>2, <1>3, StoreKeeps
<1>5. ASSUME NEW r \in Ids \ {work.id} PROVE EntryConfirmed(r)'
  BY <1>1, <1>4 DEF ConfirmedInv, EntryConfirmed
<1>6. PICK s \in sifted : LB!BuiltAround(s)
  BY <1>1 DEF NodeInv, ListenerInv, LB!CopyInv, LB!Building
<1>7. ASSUME NEW initial, reservations[work.id].btc_initial = initial, initial # None
      PROVE  Confirms(final, initial)
  <2>1. ProofLess(reservations[work.id]) # None
        /\ ProofLess(reservations[work.id]).btc_initial = initial
    BY <1>1, <1>2, <1>3, <1>7, ProofLessEntry DEF Stores
  <2>2. LB!PaidAt(work.id, initial.height)
    BY <1>3, <1>7, <2>1 DEF LB!PaidAt
  <2>3. initial.height = s.height
    BY <1>6, <2>2 DEF LB!BuiltAround
  <2>4. final.safe = work.safe /\ final.confirmation = work.confirmation
    OBVIOUS
  <2> HIDE DEF final
  <2> QED BY <1>6, <2>3, <2>4 DEF LB!BuiltAround, Confirms
<1> HIDE DEF final
<1>8. \A r : r = work.id => EntryConfirmed(r)'
  BY <1>4, <1>7 DEF EntryConfirmed
<1> QED BY <1>5, <1>8

\* The broadcaster copies an entry, and submits the copy.
LEMMA ItemStaysConfirmed ==
    ASSUME NodeInv, ConfirmedInv, [NodeNext]_nodeVars, LB!HeightInv
    PROVE  ItemConfirmed' /\ SubmissionConfirmed'
<1>0. repaid \subseteq repaid'
  BY RepaidGrows
<1>1. CASE UNCHANGED <<broadcaster, item, submitted>>
  BY <1>0, <1>1 DEF ConfirmedInv, ItemConfirmed, SubmissionConfirmed
<1>2. CASE P!ReceiveProof
  <2> DEFINE id == Head(broadcast_channel)
  <2>1. /\ reservations[id] # None /\ submitted' = submitted
        /\ reservations[id].btc_initial # None /\ reservations[id].btc_final # None
        /\ item'.public.id = id
        /\ item'.public.initial = reservations[id].btc_initial
        /\ item'.public.final = reservations[id].btc_final
    BY <1>2 DEF P!ReceiveProof, P!NextEntry, P!Complete, P!Provable, P!PublicInputs, P!history
  <2>2. id \in Ids
    <3>1. broadcast_channel \in Seq(Ids) /\ broadcast_channel # <<>>
      BY <1>2 DEF NodeInv, QueuesInv, PB!TypeOK, P!ReceiveProof
    <3> QED BY <3>1
  <2> HIDE DEF id
  <2>3. id \in repaid \/ Confirms(reservations[id].btc_final, reservations[id].btc_initial)
    BY <2>1, <2>2 DEF ConfirmedInv, EntryConfirmed
  <2>4. ASSUME NEW public, public = item'.public
        PROVE  public.id \in repaid' \/ Confirms(public.final, public.initial)
    BY <1>0, <2>1, <2>3, <2>4
  <2> QED BY <1>0, <2>1, <2>4 DEF ConfirmedInv, ItemConfirmed, SubmissionConfirmed
<1>3. CASE P!SubmitProof
  <2>1. /\ broadcaster = "sending" /\ broadcaster' = "receiving"
        /\ submitted' = submitted \union {item}
    BY <1>3 DEF P!SubmitProof
  <2>2. item.public.id \in repaid \/ Confirms(item.public.final, item.public.initial)
    BY <2>1 DEF ConfirmedInv, ItemConfirmed
  <2> QED BY <1>0, <2>1, <2>2 DEF ConfirmedInv, ItemConfirmed, SubmissionConfirmed
<1>4. CASE Broadcaster /\ ~P!ReceiveProof /\ ~P!SubmitProof
  <2>1. /\ submitted' = submitted
        /\ broadcaster' \in {"validating", "sending"} =>
              broadcaster \in {"validating", "sending"} /\ UNCHANGED item
    BY <1>4 DEF Broadcaster, Alive, P!Broadcast, P!EntryNotComplete, P!IndexPanics, P!EnvelopePanics,
       P!ValidatePublicInputs, P!Mismatch, P!ContractRefuses, P!Dropped, P!history
  <2> QED BY <1>0, <2>1 DEF ConfirmedInv, ItemConfirmed, SubmissionConfirmed
<1> QED BY <1>1, <1>2, <1>3, <1>4, NodeSides

\* From the copy of the listener to the contract, the two stay together.
LEMMA ConfirmedStep ==
    ASSUME NodeInv, LB!HeightInv, ConfirmedInv, [NodeNext]_nodeVars
    PROVE  ConfirmedInv'
<1>1. ASSUME NEW r \in Ids, EntryKept(r) PROVE EntryConfirmed(r)'
  BY <1>1, RepaidGrows DEF ConfirmedInv, EntryConfirmed, EntryKept
<1>2. \A r \in Ids : EntryConfirmed(r)'
  BY <1>1, PaymentConfirmed, CommitConfirmed, OthersKeep
<1> QED BY <1>2, ItemStaysConfirmed DEF ConfirmedInv

\* What is submitted to the contract is a payment that its own window confirms,
\* with a block of the contract below it, although the window was built from a
\* copy of the entry, during awaits in which the entry could be removed and
\* inserted again: a second payment after the window is the one exception.
THEOREM SubmissionsConfirmed == NodeSpec => []SubmissionConfirmed
<1>1. NodeInv /\ LB!HeightInv /\ ConfirmedInv /\ [NodeNext]_nodeVars
         => LB!HeightInv' /\ ConfirmedInv'
  BY NodeHeights, ConfirmedStep
<1>2. NodeInit => LB!HeightInv /\ ConfirmedInv
  BY InitPromise, InitConfirmed
<1>3. ConfirmedInv => SubmissionConfirmed
  BY DEF ConfirmedInv
<1> QED BY <1>1, <1>2, <1>3, NodeInvariant, PTL DEF NodeSpec

=============================================================================
