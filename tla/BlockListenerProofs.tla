------------------------ MODULE BlockListenerProofs ------------------------
(***************************************************************************)
(* Proofs about the block listener, for every number of reservations, any  *)
(* transactions and any bound on the environment.                          *)
(***************************************************************************)
EXTENDS BlockListener, TLAPS

USE DurationAssumption, ListenerAssumption

\* The store operations keep the type of the store.
LEMMA StoreTypes ==
    ASSUME reservations \in [Ids -> Metadata \union {None}]
    PROVE  /\ \A id \in Ids, t \in Nat :
                insert(reservations, id, NewMetadata(t))
                    \in [Ids -> Metadata \union {None}]
           /\ \A id \in Ids :
                remove(reservations, id) \in [Ids -> Metadata \union {None}]
           /\ \A t \in Nat :
                drop_expired_reservations(reservations, t)
                    \in [Ids -> Metadata \union {None}]
           /\ \A id \in Ids, initial \in Initial : reservations[id] # None =>
                update_btc_reservation_initial(reservations, id, initial)
                    \in [Ids -> Metadata \union {None}]
           /\ \A id \in Ids, final \in Final : reservations[id] # None =>
                update_btc_reservation_final(reservations, id, final)
                    \in [Ids -> Metadata \union {None}]
<1>1. \A id \in Ids, t \in Nat : insert(reservations, id, NewMetadata(t))
                                    \in [Ids -> Metadata \union {None}]
  BY DEF insert, NewMetadata, Metadata
<1>2. \A id \in Ids : remove(reservations, id) \in [Ids -> Metadata \union {None}]
  BY DEF remove
<1>3. \A t \in Nat : drop_expired_reservations(reservations, t)
                        \in [Ids -> Metadata \union {None}]
  BY DEF drop_expired_reservations
<1>4. \A id \in Ids, initial \in Initial : reservations[id] # None =>
         update_btc_reservation_initial(reservations, id, initial)
             \in [Ids -> Metadata \union {None}]
  BY DEF update_btc_reservation_initial, Metadata
<1>5. \A id \in Ids, final \in Final : reservations[id] # None =>
         update_btc_reservation_final(reservations, id, final)
             \in [Ids -> Metadata \union {None}]
  BY DEF update_btc_reservation_final, Metadata
<1> QED BY <1>1, <1>2, <1>3, <1>4, <1>5

\* A mined block makes the chain longer and keeps its type.
LEMMA MineType ==
    ASSUME chain \in Seq(Block), chain # <<>>, reorgs \in Nat,
           NEW txs \in TxLists, Mine(txs)
    PROVE  chain' \in Seq(Block) /\ chain' # <<>>
<1>1. chain[Len(chain)] \in Block
  OBVIOUS
<1>2. TipFork \in Nat
  BY <1>1 DEF TipFork, Block
<1>3. [fork |-> reorgs, parent |-> TipFork, txs |-> txs] \in Block
  BY <1>2 DEF Block
<1>4. chain' = Append(chain, [fork |-> reorgs, parent |-> TipFork, txs |-> txs])
  BY DEF Mine
<1> QED BY <1>3, <1>4

\* So does a reorganisation, whatever its depth.
LEMMA ReorgType ==
    ASSUME chain \in Seq(Block), chain # <<>>, reorgs \in Nat,
           NEW depth \in 1 .. MaxReorgDepth, NEW txs \in TxLists,
           Reorg(depth, txs)
    PROVE  chain' \in Seq(Block) /\ chain' # <<>>
<1> DEFINE first == Len(chain) - depth + 1
           branch(h) == [fork |-> reorgs + 1,
                         parent |-> IF h = first THEN chain[h - 1].fork
                                                 ELSE reorgs + 1,
                         txs |-> IF h = first THEN txs ELSE <<>>]
<1>1. first \in Int /\ first - 1 \in 1 .. Len(chain) /\ Len(chain) \in Nat
  BY DEF Reorg
<1>2. chain' = [h \in 1 .. Len(chain) + 1 |->
                  IF h < first THEN chain[h] ELSE branch(h)]
  BY DEF Reorg
<1>3. chain[first - 1].fork \in Nat
  <2>1. chain[first - 1] \in Block
    BY <1>1
  <2> QED BY <2>1 DEF Block
<1>4. txs \in Seq(Tx) /\ <<>> \in Seq(Tx)
  OBVIOUS
<1>5. ASSUME NEW h \in Nat PROVE branch(h) \in Block
  BY <1>3, <1>4 DEF Block
<1>6. ASSUME NEW h \in 1 .. Len(chain) + 1, h < first PROVE chain[h] \in Block
  BY <1>1, <1>6
<1> HIDE DEF branch, first
<1>7. chain' \in [1 .. Len(chain) + 1 -> Block]
  BY <1>1, <1>2, <1>5, <1>6
<1>8. Len(chain) + 1 \in Nat /\ Len(chain) + 1 # 0
  BY <1>1
<1>9. chain' \in Seq(Block)
  BY <1>7, <1>8
<1>10. chain' # <<>>
  BY <1>7, <1>8
<1> QED BY <1>9, <1>10

\* At btc_indexer.rs:308-315 every local has its type.
LEMMA InitType == Init => TypeOK
<1> SUFFICES ASSUME Init PROVE TypeOK
  OBVIOUS
<1>1. chain \in Seq(Block) /\ chain # <<>>
  BY DEF Init, Block
<1>2. reservations \in [Ids -> Metadata \union {None}]
  BY DEF Init, EmptyStore
<1> QED BY <1>1, <1>2 DEF Init, TypeOK

\* Every step preserves the types: one step per action, grouped by the part of
\* the state it changes.
LEMMA NextType == TypeOK /\ [Next]_vars => TypeOK'
<1> USE DEF vars, envSide, contractSide, bitcoinSide, polling, sifting,
            confirming, output, listenerSide, Running
<1> SUFFICES ASSUME TypeOK, [Next]_vars PROVE TypeOK'
  OBVIOUS
<1>1. CASE Connect
  BY <1>1 DEF Connect, TypeOK
<1>2. CASE Poll
  BY <1>2 DEF Poll, KnownTip, TypeOK
<1>3. CASE StartDownload
  BY <1>3 DEF StartDownload, TypeOK
<1>4. ASSUME NEW h \in Missing, FetchBlock(h) PROVE TypeOK'
  <2>1. [height |-> h, block |-> chain[h]] \in BlockAt
    BY <1>4 DEF FetchBlock, Missing, BlockAt, TypeOK
  <2> QED BY <1>4, <2>1 DEF FetchBlock, TypeOK
<1>5. CASE NextBlock
  <2> PICK b \in NextOfBatch(batch) :
         /\ batch' = batch \ {b}
         /\ analyzed_height' = b.height
         /\ block' = b.block
    BY <1>5 DEF NextBlock, TypeOK
  <2>1. b \in BlockAt
    BY DEF NextOfBatch, TypeOK
  <2>2. analyzed_height' \in Nat /\ block' \in Block /\ batch' \subseteq BlockAt
    BY <2>1 DEF BlockAt, TypeOK
  <2>3. reservations' \in [Ids -> Metadata \union {None}]
    BY <1>5, StoreTypes DEF NextBlock, TypeOK
  <2> QED BY <1>5, <2>2, <2>3 DEF NextBlock, TypeOK
<1>6. CASE BatchDone
  BY <1>6 DEF BatchDone, TypeOK
<1>7. CASE ReadInscriptions
  BY <1>7 DEF ReadInscriptions, Tracked, FirstTx, TypeOK
<1>8. ASSUME NEW id \in Ids, RecordPayment(id) PROVE TypeOK'
  <2> DEFINE initial == [height |-> analyzed_height, hash |-> block, txid |-> cursor]
  <2>1. initial \in Initial
    BY <1>8 DEF RecordPayment, PaymentFor, Initial, TypeOK
  <2>2. reservations' \in [Ids -> Metadata \union {None}]
    <3> HIDE DEF initial, TypeOK
    <3>1. reservations' = update_btc_reservation_initial(reservations, id, initial)
      BY <1>8 DEF RecordPayment, initial, TypeOK
    <3>2. reservations[id] # None
      BY <1>8 DEF RecordPayment, TypeOK
    <3> QED BY <2>1, <3>1, <3>2, StoreTypes DEF TypeOK
  <2> QED BY <1>8, <2>2 DEF RecordPayment, PaymentFor, TypeOK
<1>9. CASE SkipTx
  BY <1>9 DEF SkipTx, TypeOK
<1>10. CASE ReadPending
  <2>1. [height |-> analyzed_height, block |-> block] \in BlockAt
    BY <1>10 DEF ReadPending, BlockAt, TypeOK
  <2>2. pending' \subseteq [id : Ids, height : Nat]
    <3>1. ASSUME NEW id \in Ids, IsPending(reservations[id])
          PROVE  reservations[id].btc_initial.height \in Nat
      <4>1. reservations[id] \in Metadata
        BY <3>1 DEF TypeOK, IsPending
      <4>2. reservations[id].btc_initial \in Initial
        BY <3>1, <4>1 DEF IsPending, Metadata, TypeOK
      <4> QED BY <4>2 DEF Initial, TypeOK
    <3>2. pending' = {[id |-> id, height |-> reservations[id].btc_initial.height] :
                        id \in {r \in Ids : IsPending(reservations[r])}}
      BY <1>10 DEF ReadPending, TypeOK
    <3> QED BY <3>1, <3>2
  <2> QED BY <1>10, <2>1, <2>2 DEF ReadPending, TypeOK
<1>11. CASE ReadHeaders
  BY <1>11 DEF ReadHeaders, TypeOK
<1>12. ASSUME NEW p \in pending, SelectWindow(p) PROVE TypeOK'
  <2>1. work' \in Work
    BY <1>12 DEF SelectWindow, MinConfirmationHeight, Work, TypeOK
  <2> QED BY <1>12, <2>1 DEF SelectWindow, TypeOK
<1>13. ASSUME NEW h \in DOMAIN chain, FetchWindowBlock(h) PROVE TypeOK'
  <2>1. [height |-> h, block |-> chain[h]] \in BlockAt
    BY <1>13 DEF FetchWindowBlock, BlockAt, TypeOK
  <2>2. work' \in Work
    BY <1>13, <2>1 DEF FetchWindowBlock, Work, TypeOK
  <2> QED BY <1>13, <2>2 DEF FetchWindowBlock, TypeOK
<1>14. CASE CommitWindow
  <2> DEFINE final == [safe |-> work.safe, confirmation |-> work.confirmation,
                       confirmation_hash |-> block, blocks |-> work.blocks]
  <2>1. final \in Final /\ work.id \in Ids
    BY <1>14 DEF CommitWindow, Work, Final, TypeOK
  <2>2. reservations' \in [Ids -> Metadata \union {None}]
    <3> HIDE DEF final, TypeOK
    <3>1. reservations' = update_btc_reservation_final(reservations, work.id, final)
      BY <1>14 DEF CommitWindow, final, TypeOK
    <3>2. reservations[work.id] # None
      BY <1>14 DEF CommitWindow, TypeOK
    <3> QED BY <2>1, <3>1, <3>2, StoreTypes DEF TypeOK
  <2>3. proof_gen_queue' \in [Ids -> Nat]
    BY <1>14, <2>1 DEF CommitWindow, TypeOK
  <2> QED BY <1>14, <2>2, <2>3 DEF CommitWindow, TypeOK
<1>15. CASE ConfirmationsDone
  BY <1>15 DEF ConfirmationsDone, TypeOK
<1>16. CASE MissingEntryPanic \/ NoSafeHeightPanic \/ RpcError
  BY <1>16 DEF MissingEntryPanic, NoSafeHeightPanic, RpcError, TypeOK
<1>17. ASSUME NEW txs \in TxLists, Mine(txs) PROVE TypeOK'
  <2>1. chain' \in Seq(Block) /\ chain' # <<>>
    BY <1>17, MineType DEF TypeOK
  <2> QED BY <1>17, <2>1 DEF Mine, TypeOK
<1>18. ASSUME NEW depth \in 1 .. MaxReorgDepth, NEW txs \in TxLists,
              Reorg(depth, txs)
       PROVE  TypeOK'
  <2>1. chain' \in Seq(Block) /\ chain' # <<>>
    BY <1>18, ReorgType DEF TypeOK
  <2>2. /\ reorgs' = reorgs + 1
        /\ UNCHANGED <<reservations, listenerSide, contractSide, now>>
    BY <1>18 DEF Reorg
  <2> QED BY <2>1, <2>2 DEF TypeOK
<1>19. CASE Tick
  BY <1>19 DEF Tick, TypeOK
<1>20. ASSUME NEW id \in Ids, Reserve(id) PROVE TypeOK'
  BY <1>20 DEF Reserve, TypeOK
<1>21. ASSUME NEW id \in Ids, InsertReservation(id) PROVE TypeOK'
  <2>1. reserved[id] \in Nat
    BY <1>21 DEF InsertReservation, TypeOK
  <2>2. reservations' \in [Ids -> Metadata \union {None}]
    BY <1>21, <2>1, StoreTypes DEF InsertReservation, TypeOK
  <2>3. inserts' \in [Ids -> Nat] /\ tracked_from' \in [Ids -> Nat]
    BY <1>21 DEF InsertReservation, TypeOK
  <2> QED BY <1>21, <2>2, <2>3 DEF InsertReservation, TypeOK
<1>22. ASSUME NEW id \in Ids, RemoveReservation(id) PROVE TypeOK'
  <2>1. reservations' \in [Ids -> Metadata \union {None}]
    BY <1>22, StoreTypes DEF RemoveReservation, TypeOK
  <2> QED BY <1>22, <2>1 DEF RemoveReservation, TypeOK
<1>23. ASSUME NEW h \in HeaderHeights, AddHeader(h) PROVE TypeOK'
  BY <1>23 DEF AddHeader, TypeOK
<1>24. CASE Stopped \/ UNCHANGED vars
  BY <1>24 DEF Stopped, TypeOK
<1> QED
  BY <1>1, <1>2, <1>3, <1>4, <1>5, <1>6, <1>7, <1>8, <1>9, <1>10, <1>11, <1>12,
     <1>13, <1>14, <1>15, <1>16, <1>17, <1>18, <1>19, <1>20, <1>21, <1>22,
     <1>23, <1>24
  DEF Next, Listen, Environment

\* The listener and the store never hold anything but what their types say,
\* and no local is read at an .await before it was given a value.
THEOREM TypeCorrect == Spec => []TypeOK
<1>1. QED BY InitType, NextType, PTL DEF Spec

-----------------------------------------------------------------------------
(* At most one proof per insert.  The bound alone is not inductive: the     *)
(* copies the listener works from must still be of entries without a        *)
(* window, each id must be copied once, and the one in hand not twice.      *)

Unfinished(id) == reservations[id] # None => reservations[id].btc_final = None

PendingUnfinished ==
    /\ \A p \in pending : Unfinished(p.id)
    /\ \A p, q \in pending : p.id = q.id => p = q
    /\ pc \in {"window", "commit"} =>
          /\ Unfinished(work.id)
          /\ \A p \in pending : p.id # work.id

ProofInv == PendingUnfinished /\ OneProofPerInsert

\* No operation but the commit of a window touches the window of an entry.
LEMMA StoreFinals ==
    ASSUME reservations \in [Ids -> Metadata \union {None}], NEW id \in Ids
    PROVE  /\ \A t \in Nat :
                drop_expired_reservations(reservations, t)[id]
                    \in {None, reservations[id]}
           /\ \A r \in Ids, initial \in Initial : reservations[r] # None =>
                LET new == update_btc_reservation_initial(reservations, r, initial)
                IN  /\ reservations[id] = None => new[id] = None
                    /\ new[id] # None =>
                          new[id].btc_final = reservations[id].btc_final
           /\ \A r \in Ids, final \in Final : reservations[r] # None =>
                LET new == update_btc_reservation_final(reservations, r, final)
                IN  /\ id # r => new[id] = reservations[id]
                    /\ new[r].btc_final = final
<1>1. \A t \in Nat : drop_expired_reservations(reservations, t)[id]
                        \in {None, reservations[id]}
  BY DEF drop_expired_reservations
<1>2. ASSUME NEW r \in Ids, NEW initial \in Initial, reservations[r] # None
      PROVE  LET new == update_btc_reservation_initial(reservations, r, initial)
             IN  /\ reservations[id] = None => new[id] = None
                 /\ new[id] # None =>
                       new[id].btc_final = reservations[id].btc_final
  <2>1. reservations[r] \in Metadata
    BY <1>2
  <2> QED BY <1>2, <2>1 DEF update_btc_reservation_initial, Metadata
<1>3. ASSUME NEW r \in Ids, NEW final \in Final, reservations[r] # None
      PROVE  LET new == update_btc_reservation_final(reservations, r, final)
             IN  /\ id # r => new[id] = reservations[id]
                 /\ new[r].btc_final = final
  <2>1. reservations[r] \in Metadata
    BY <1>3
  <2> QED BY <1>3, <2>1 DEF update_btc_reservation_final, Metadata
<1> QED BY <1>1, <1>2, <1>3

\* No proof is asked for, and nothing is pending, at the start.
LEMMA InitProof == Init => ProofInv
BY DEF Init, EmptyStore, ProofInv, PendingUnfinished, OneProofPerInsert, Open,
       Unfinished

\* Only CommitWindow asks for a proof, and it finishes the entry it finds; all
\* other steps leave the count alone.  One step per action.
LEMMA NextProof == TypeOK /\ ProofInv /\ [Next]_vars => ProofInv'
<1> USE DEF vars, envSide, contractSide, bitcoinSide, polling, sifting,
            confirming, output, listenerSide, Running
<1> SUFFICES ASSUME TypeOK, ProofInv, [Next]_vars PROVE ProofInv'
  OBVIOUS
<1>0. /\ reservations \in [Ids -> Metadata \union {None}]
      /\ proof_gen_queue \in [Ids -> Nat] /\ inserts \in [Ids -> Nat]
      /\ pending \subseteq [id : Ids, height : Nat] /\ now \in Nat
  BY DEF TypeOK
<1>a. ASSUME UNCHANGED <<proof_gen_queue, inserts, pending, work>>,
             pc' \in {"window", "commit"} => pc \in {"window", "commit"},
             \A id \in Ids : /\ Unfinished(id) => Unfinished(id)'
                             /\ Open(id)' => Open(id)
      PROVE  ProofInv'
  <2>1. PendingUnfinished'
    <3>1. \A p \in pending : p.id \in Ids
      BY <1>0
    <3>2. pc \in {"window", "commit"} => work.id \in Ids
      BY DEF TypeOK, Work
    <3> QED BY <1>a, <3>1, <3>2 DEF ProofInv, PendingUnfinished
  <2>2. OneProofPerInsert'
    BY <1>a, <1>0 DEF ProofInv, OneProofPerInsert
  <2> QED BY <2>1, <2>2 DEF ProofInv
<1>b. ASSUME UNCHANGED <<reservations, proof_gen_queue, inserts, pending, work>>,
             pc' \in {"window", "commit"} => pc \in {"window", "commit"}
      PROVE  ProofInv'
  BY <1>a, <1>b DEF Unfinished, Open
<1>1. CASE \/ Connect \/ Poll \/ StartDownload \/ (\E h \in Missing : FetchBlock(h))
           \/ BatchDone \/ ReadInscriptions \/ SkipTx \/ ReadHeaders
  BY <1>1, <1>b DEF Connect, Poll, StartDownload, FetchBlock, BatchDone,
                    ReadInscriptions, SkipTx, ReadHeaders
<1>2. CASE NextBlock
  <2>1. \A id \in Ids : reservations'[id] \in {None, reservations[id]}
    BY <1>0, <1>2, StoreFinals DEF NextBlock
  <2> QED BY <1>2, <1>a, <2>1 DEF NextBlock, Unfinished, Open
<1>3. ASSUME NEW id \in Ids, RecordPayment(id) PROVE ProofInv'
  <2> DEFINE initial == [height |-> analyzed_height, hash |-> block, txid |-> cursor]
  <2>1. initial \in Initial
    BY <1>3 DEF RecordPayment, PaymentFor, Initial, TypeOK
  <2>2. reservations' = update_btc_reservation_initial(reservations, id, initial)
    BY <1>3 DEF RecordPayment
  <2>3. reservations[id] # None
    BY <1>3 DEF RecordPayment
  <2> HIDE DEF initial
  <2>4. ASSUME NEW r \in Ids
        PROVE  /\ reservations[r] = None => reservations'[r] = None
               /\ reservations'[r] # None =>
                     reservations'[r].btc_final = reservations[r].btc_final
    BY <1>0, <2>1, <2>2, <2>3, StoreFinals
  <2>5. /\ UNCHANGED <<proof_gen_queue, inserts, pending, work>>
        /\ pc' = pc
    BY <1>3 DEF RecordPayment
  <2> QED BY <1>a, <2>4, <2>5 DEF Unfinished, Open
<1>4. CASE ReadPending
  <2>1. PendingUnfinished'
    BY <1>4 DEF ReadPending, PendingUnfinished, IsPending, Unfinished
  <2>2. OneProofPerInsert'
    BY <1>4 DEF ReadPending, ProofInv, OneProofPerInsert, Open
  <2> QED BY <2>1, <2>2 DEF ProofInv
<1>5. ASSUME NEW p \in pending, SelectWindow(p) PROVE ProofInv'
  <2>1. work'.id = p.id /\ pending' = pending \ {p} /\ UNCHANGED reservations
    BY <1>5 DEF SelectWindow
  <2>2. PendingUnfinished'
    BY <2>1 DEF ProofInv, PendingUnfinished, Unfinished
  <2>3. OneProofPerInsert'
    BY <1>5 DEF SelectWindow, ProofInv, OneProofPerInsert, Open
  <2> QED BY <2>2, <2>3 DEF ProofInv
<1>6. ASSUME NEW h \in DOMAIN chain, FetchWindowBlock(h) PROVE ProofInv'
  <2>1. work' = [work EXCEPT !.blocks =
                   work.blocks \union {[height |-> h, block |-> chain[h]]}]
    BY <1>6 DEF FetchWindowBlock
  <2>2. work'.id = work.id
    BY <1>6, <2>1 DEF FetchWindowBlock, TypeOK, Work
  <2>3. PendingUnfinished'
    BY <1>6, <2>2 DEF FetchWindowBlock, ProofInv, PendingUnfinished, Unfinished
  <2>4. OneProofPerInsert'
    BY <1>6 DEF FetchWindowBlock, ProofInv, OneProofPerInsert, Open
  <2> QED BY <2>3, <2>4 DEF ProofInv
<1>7. CASE CommitWindow
  <2> DEFINE final == [safe |-> work.safe, confirmation |-> work.confirmation,
                       confirmation_hash |-> block, blocks |-> work.blocks]
  <2>1. final \in Final /\ work.id \in Ids
    BY <1>7 DEF CommitWindow, Work, Final, TypeOK
  <2>2. reservations' = update_btc_reservation_final(reservations, work.id, final)
    BY <1>7 DEF CommitWindow
  <2>3. reservations[work.id] # None
    BY <1>7 DEF CommitWindow
  <2> HIDE DEF final
  <2>4. /\ \A r \in Ids : r # work.id => reservations'[r] = reservations[r]
        /\ reservations'[work.id].btc_final = final
    BY <1>0, <2>1, <2>2, <2>3, StoreFinals
  <2> PICK id \in Ids : id = work.id
    BY <2>1
  <2>5. Open(id) /\ ~Open(id)'
    <3>1. Unfinished(id)
      BY <1>7 DEF CommitWindow, ProofInv, PendingUnfinished, Unfinished
    <3>2. reservations'[id].btc_final # None
      BY <2>1, <2>4, NoneAssumption
    <3> QED BY <2>3, <3>1, <3>2 DEF Open, Unfinished
  <2>6. PendingUnfinished'
    BY <1>0, <1>7, <2>4 DEF CommitWindow, ProofInv, PendingUnfinished, Unfinished
  <2>7. OneProofPerInsert'
    <3>1. /\ proof_gen_queue' = [proof_gen_queue EXCEPT ![id] = proof_gen_queue[id] + 1]
          /\ inserts' = inserts
      BY <1>7 DEF CommitWindow
    <3>2. \A r \in Ids : r # id => (Open(r)' <=> Open(r))
      BY <2>4 DEF Open
    <3> QED BY <1>0, <2>5, <3>1, <3>2 DEF ProofInv, OneProofPerInsert
  <2> QED BY <2>6, <2>7 DEF ProofInv
<1>8. CASE ConfirmationsDone
  BY <1>8 DEF ConfirmationsDone, ProofInv, PendingUnfinished, OneProofPerInsert,
              Open, Unfinished
<1>9. CASE MissingEntryPanic \/ NoSafeHeightPanic \/ RpcError \/ Stopped
           \/ UNCHANGED vars
  BY <1>9, <1>b DEF MissingEntryPanic, NoSafeHeightPanic, RpcError, Stopped
<1>10. CASE \/ \E txs \in TxLists : Mine(txs)
            \/ Tick
            \/ \E id \in Ids : Reserve(id)
            \/ \E h \in HeaderHeights : AddHeader(h)
  BY <1>10, <1>b DEF Mine, Tick, Reserve, AddHeader
<1>11. ASSUME NEW depth \in 1 .. MaxReorgDepth, NEW txs \in TxLists,
              Reorg(depth, txs)
       PROVE  ProofInv'
  <2>1. UNCHANGED <<reservations, listenerSide, contractSide, now>>
    BY <1>11 DEF Reorg
  <2> QED BY <2>1, <1>b
<1>12. ASSUME NEW id \in Ids, InsertReservation(id) PROVE ProofInv'
  <2>1. /\ inserts' = [inserts EXCEPT ![id] = inserts[id] + 1]
        /\ UNCHANGED <<pc, pending, work, proof_gen_queue>>
    BY <1>12 DEF InsertReservation
  <2>2. /\ \A r \in Ids : r # id => reservations'[r] = reservations[r]
        /\ reservations'[id].btc_final = None
    BY <1>0, <1>12 DEF InsertReservation, insert, NewMetadata
  <2>3. \A r \in Ids : Unfinished(r) => Unfinished(r)'
    BY <2>2 DEF Unfinished
  <2>4. PendingUnfinished'
    <3>1. \A p \in pending : p.id \in Ids
      BY <1>0
    <3>2. pc \in {"window", "commit"} => work.id \in Ids
      BY DEF TypeOK, Work
    <3> QED BY <2>1, <2>3, <3>1, <3>2 DEF ProofInv, PendingUnfinished, Unfinished
  <2>5. OneProofPerInsert'
    <3>1. \A r \in Ids : r # id => (Open(r)' <=> Open(r))
      BY <2>2 DEF Open
    <3> QED BY <1>0, <2>1, <3>1 DEF ProofInv, OneProofPerInsert
  <2> QED BY <2>4, <2>5 DEF ProofInv
<1>13. ASSUME NEW id \in Ids, RemoveReservation(id) PROVE ProofInv'
  <2>1. \A r \in Ids : reservations'[r] \in {None, reservations[r]}
    BY <1>0, <1>13 DEF RemoveReservation, remove
  <2> QED BY <1>13, <1>a, <2>1 DEF RemoveReservation, Unfinished, Open
<1> QED
  BY <1>1, <1>2, <1>3, <1>4, <1>5, <1>6, <1>7, <1>8, <1>9, <1>10, <1>11, <1>12,
     <1>13
  DEF Next, Listen, Environment

\* However the event listener inserts, replaces and removes entries while the
\* block listener is between two awaits, the number of proofs asked for a
\* reservation never exceeds the number of times it was inserted.
THEOREM ProofsBounded == Spec => []OneProofPerInsert
<1>1. ProofInv => OneProofPerInsert
  BY DEF ProofInv
<1> QED BY <1>1, InitProof, NextProof, TypeCorrect, PTL DEF Spec

-----------------------------------------------------------------------------
(* The order of the blocks.  The batch holds one block per height, and      *)
(* exactly the heights between the last analysed one and the tip once the  *)
(* download is complete.                                                   *)

InBatch == {"block", "inscriptions", "sift", "headers", "confirm", "window",
            "commit"}

BatchInv ==
    /\ \A b, c \in batch : b.height = c.height => b = c
    /\ pc \in {"start", "loop"} => batch = {}
    /\ pc = "download" =>
          \A b \in batch : analyzed_height < b.height /\ b.height <= current_height
    /\ pc \in InBatch =>
          \A h \in Nat :
              (\E b \in batch : b.height = h)
                  <=> analyzed_height < h /\ h <= current_height

\* There is no batch before the first download.
LEMMA InitBatch == Init => BatchInv
BY DEF Init, BatchInv, InBatch

\* The block taken from a complete batch is the next height, and what is left
\* is a complete batch.
LEMMA NextOfBatchIsNext ==
    ASSUME TypeOK, BatchInv, NextBlock
    PROVE  analyzed_height' = analyzed_height + 1 /\ BatchInv'
<1> PICK b \in NextOfBatch(batch) :
       /\ batch' = batch \ {b}
       /\ analyzed_height' = b.height
  BY DEF NextBlock
<1>1. /\ b \in batch
      /\ \A c \in batch : b.height <= c.height
      /\ \A c \in batch : c.height \in Nat
      /\ analyzed_height \in Nat /\ current_height \in Nat
  BY DEF NextOfBatch, TypeOK, BlockAt
<1>2. \A h \in Nat : (\E c \in batch : c.height = h)
                        <=> analyzed_height < h /\ h <= current_height
  BY DEF NextBlock, Running, BatchInv, InBatch
<1>3. b.height = analyzed_height + 1
  <2>1. analyzed_height < b.height /\ b.height <= current_height
    BY <1>1, <1>2
  <2>2. \E c \in batch : c.height = analyzed_height + 1
    BY <1>1, <1>2, <2>1
  <2> QED BY <1>1, <2>1, <2>2
<1>4. \A c, d \in batch : c.height = d.height => c = d
  BY DEF BatchInv
<1>5. \A h \in Nat : (\E c \in batch' : c.height = h)
                        <=> analyzed_height' < h /\ h <= current_height
  BY <1>1, <1>2, <1>3, <1>4
<1>6. pc' = "inscriptions" /\ current_height' = current_height
  BY DEF NextBlock
<1> QED BY <1>3, <1>4, <1>5, <1>6 DEF BatchInv, InBatch

\* A batch grows only while it is downloaded and shrinks from its lower end.
LEMMA NextBatch == TypeOK /\ BatchInv /\ [Next]_vars => BatchInv'
<1> USE DEF vars, envSide, contractSide, bitcoinSide, polling, sifting,
            confirming, output, listenerSide, Running
<1> SUFFICES ASSUME TypeOK, BatchInv, [Next]_vars PROVE BatchInv'
  OBVIOUS
<1>a. ASSUME UNCHANGED <<batch, analyzed_height, current_height>>,
             \/ pc' = pc
             \/ pc \in InBatch /\ pc' \in InBatch
      PROVE  BatchInv'
  BY <1>a DEF BatchInv, InBatch
<1>1. CASE Connect \/ Poll \/ StartDownload
  BY <1>1 DEF Connect, Poll, StartDownload, BatchInv, InBatch
<1>2. ASSUME NEW h \in Missing, FetchBlock(h) PROVE BatchInv'
  <2> DEFINE new == [height |-> h, block |-> chain[h]]
  <2>1. /\ batch' = batch \union {new}
        /\ new.height = h
        /\ UNCHANGED <<current_height, analyzed_height>>
    BY <1>2 DEF FetchBlock
  <2>2. /\ h \in Nat /\ analyzed_height < h /\ h <= current_height
        /\ \A b \in batch : b.height # h
        /\ analyzed_height \in Nat /\ current_height \in Nat
    BY DEF Missing, HeightsOf, TypeOK
  <2>3. \A b \in batch : analyzed_height < b.height /\ b.height <= current_height
    BY <1>2 DEF FetchBlock, BatchInv
  <2> HIDE DEF new
  <2>4. \A b, c \in batch' : b.height = c.height => b = c
    BY <2>1, <2>2 DEF BatchInv
  <2>5. \A b \in batch' : analyzed_height < b.height /\ b.height <= current_height
    BY <2>1, <2>2, <2>3
  <2>6. CASE Missing = {h}
    <3>1. \A g \in Nat : analyzed_height < g /\ g <= current_height =>
             g = h \/ \E b \in batch : b.height = g
      BY <2>2, <2>6 DEF Missing, HeightsOf
    <3>2. pc' = "block"
      BY <1>2, <2>6 DEF FetchBlock
    <3> QED BY <2>1, <2>4, <2>5, <3>1, <3>2 DEF BatchInv, InBatch
  <2>7. CASE Missing # {h}
    <3>1. pc' = "download"
      BY <1>2, <2>7 DEF FetchBlock
    <3> QED BY <2>1, <2>4, <2>5, <3>1 DEF BatchInv, InBatch
  <2> QED BY <2>6, <2>7
<1>3. CASE NextBlock
  BY <1>3, NextOfBatchIsNext
<1>4. CASE BatchDone
  BY <1>4 DEF BatchDone, BatchInv, InBatch
<1>5. CASE \/ ReadInscriptions \/ (\E id \in Ids : RecordPayment(id)) \/ SkipTx
           \/ ReadPending \/ ReadHeaders \/ (\E p \in pending : SelectWindow(p))
           \/ (\E h \in DOMAIN chain : FetchWindowBlock(h))
           \/ CommitWindow \/ ConfirmationsDone
  BY <1>5, <1>a DEF ReadInscriptions, RecordPayment, PaymentFor, SkipTx,
     ReadPending, ReadHeaders, SelectWindow, FetchWindowBlock, CommitWindow,
     ConfirmationsDone, InBatch
<1>6. CASE MissingEntryPanic \/ NoSafeHeightPanic \/ RpcError \/ Stopped
           \/ UNCHANGED vars
  BY <1>6, <1>a DEF MissingEntryPanic, NoSafeHeightPanic, RpcError, Stopped
<1>7. CASE Environment
  BY <1>7, <1>a DEF Environment, Mine, Reorg, Tick, Reserve, InsertReservation,
                    RemoveReservation, AddHeader
<1> QED
  BY <1>1, <1>2, <1>3, <1>4, <1>5, <1>6, <1>7 DEF Next, Listen

\* analyzed_height is assigned at btc_indexer.rs:364 only.
LEMMA OnlyNextBlockAnalyzes ==
    ASSUME [Next]_vars, analyzed_height' # analyzed_height
    PROVE  NextBlock
<1> USE DEF vars, envSide, contractSide, bitcoinSide, polling, sifting,
            confirming, output, listenerSide
<1> QED
  BY DEF Next, Listen, Environment, Connect, Poll, StartDownload, FetchBlock,
         BatchDone, ReadInscriptions, RecordPayment, SkipTx, ReadPending,
         ReadHeaders, SelectWindow, FetchWindowBlock, CommitWindow,
         ConfirmationsDone, MissingEntryPanic, NoSafeHeightPanic, RpcError,
         Stopped, Mine, Reorg, Tick, Reserve, InsertReservation,
         RemoveReservation, AddHeader

\* Whatever the number of requests in flight and the order of the answers,
\* the listener analyses the heights one after the other.
THEOREM BlocksInOrder == Spec => AnalyzedInOrder
<1> DEFINE Step == analyzed_height' # analyzed_height
                      => analyzed_height' = analyzed_height + 1
<1>1. TypeOK /\ BatchInv /\ [Next]_vars => [Step]_vars
  BY OnlyNextBlockAnalyzes, NextOfBatchIsNext
<1> QED BY <1>1, InitBatch, NextBatch, TypeCorrect, PTL DEF Spec, AnalyzedInOrder

-----------------------------------------------------------------------------
(* No payment is lost.  While a block is being sifted, the copied list of   *)
(* inscriptions still covers every reservation that was in the store when  *)
(* the copy was made, and the transactions already passed are recorded.    *)

HasPaymentFrom(id, h) ==
    reservations[id].btc_initial # None /\ reservations[id].btc_initial.height >= h

\* The reservations whose payment in the block under analysis must be found.
Awaited(id) == reservations[id] # None /\ tracked_from[id] <= analyzed_height

SiftedBelow ==
    \A s \in sifted :
        /\ s.height <= analyzed_height
        /\ pc \in {"inscriptions", "sift"} => s.height < analyzed_height

SiftInv ==
    pc = "sift" =>
        \A id \in Ids : Awaited(id) =>
            /\ id \in expected
            /\ \A i \in DOMAIN block.txs :
                  i < cursor /\ block.txs[i].pays = id
                      => HasPaymentFrom(id, analyzed_height)

PaymentInv == SiftedBelow /\ SiftInv /\ PaymentsRecorded

\* Only the insertion of a fresh entry forgets a payment.
LEMMA StoreInitials ==
    ASSUME reservations \in [Ids -> Metadata \union {None}], NEW id \in Ids
    PROVE  /\ \A r \in Ids, initial \in Initial : reservations[r] # None =>
                LET new == update_btc_reservation_initial(reservations, r, initial)
                IN  /\ id # r => new[id] = reservations[id]
                    /\ new[r].btc_initial = initial
           /\ \A r \in Ids, final \in Final : reservations[r] # None =>
                LET new == update_btc_reservation_final(reservations, r, final)
                IN  /\ id # r => new[id] = reservations[id]
                    /\ new[r].btc_initial = reservations[r].btc_initial
<1>1. ASSUME NEW r \in Ids, NEW initial \in Initial, reservations[r] # None
      PROVE  LET new == update_btc_reservation_initial(reservations, r, initial)
             IN  /\ id # r => new[id] = reservations[id]
                 /\ new[r].btc_initial = initial
  <2>1. reservations[r] \in Metadata
    BY <1>1
  <2> QED BY <1>1, <2>1 DEF update_btc_reservation_initial, Metadata
<1>2. ASSUME NEW r \in Ids, NEW final \in Final, reservations[r] # None
      PROVE  LET new == update_btc_reservation_final(reservations, r, final)
             IN  /\ id # r => new[id] = reservations[id]
                 /\ new[r].btc_initial = reservations[r].btc_initial
  <2>1. reservations[r] \in Metadata
    BY <1>2
  <2> QED BY <1>2, <2>1 DEF update_btc_reservation_final, Metadata
<1> QED BY <1>1, <1>2

\* No block is sifted at the start.
LEMMA InitPayment == Init => PaymentInv
BY DEF Init, PaymentInv, SiftedBelow, SiftInv, PaymentsRecorded

\* Every payment passed by the cursor of the block under analysis is recorded,
\* which ReadPending turns into the property when the block is sifted.
LEMMA NextPayment ==
    TypeOK /\ BatchInv /\ PaymentInv /\ [Next]_vars => PaymentInv'
<1> USE DEF vars, envSide, contractSide, bitcoinSide, polling, sifting,
            confirming, output, listenerSide, Running
<1> SUFFICES ASSUME TypeOK, BatchInv, PaymentInv, [Next]_vars PROVE PaymentInv'
  OBVIOUS
<1>0. /\ reservations \in [Ids -> Metadata \union {None}]
      /\ tracked_from \in [Ids -> Nat] /\ analyzed_height \in Nat
      /\ now \in Nat /\ cursor \in Nat
      /\ \A s \in sifted : s.height \in Nat
  BY DEF TypeOK, BlockAt
<1>a. ASSUME UNCHANGED <<sifted, analyzed_height, tracked_from, block>>,
             pc' \in {"inscriptions", "sift"} =>
                 pc' = pc /\ UNCHANGED <<expected, cursor>>,
             \A id \in Ids :
                 reservations'[id] # None =>
                     /\ reservations[id] # None
                     /\ reservations'[id].btc_initial = reservations[id].btc_initial
      PROVE  PaymentInv'
  <2>1. SiftedBelow'
    BY <1>a DEF PaymentInv, SiftedBelow
  <2>2. SiftInv'
    BY <1>a DEF PaymentInv, SiftInv, Awaited, HasPaymentFrom
  <2>3. PaymentsRecorded'
    BY <1>a DEF PaymentInv, PaymentsRecorded, Pays
  <2> QED BY <2>1, <2>2, <2>3 DEF PaymentInv
<1>1. CASE \/ Connect \/ Poll \/ StartDownload \/ (\E h \in Missing : FetchBlock(h))
           \/ BatchDone \/ ReadHeaders \/ (\E p \in pending : SelectWindow(p))
           \/ (\E h \in DOMAIN chain : FetchWindowBlock(h))
  BY <1>1, <1>a DEF Connect, Poll, StartDownload, FetchBlock, BatchDone,
                    ReadHeaders, SelectWindow, FetchWindowBlock
<1>2. CASE NextBlock
  <2>1. analyzed_height' = analyzed_height + 1
    BY <1>2, NextOfBatchIsNext
  <2>2. \A id \in Ids : reservations'[id] \in {None, reservations[id]}
    BY <1>0, <1>2, StoreFinals DEF NextBlock
  <2>3. pc' = "inscriptions" /\ UNCHANGED <<sifted, tracked_from>>
    BY <1>2 DEF NextBlock
  <2>4. SiftedBelow'
    BY <1>0, <2>1, <2>3 DEF PaymentInv, SiftedBelow
  <2>5. PaymentsRecorded'
    BY <2>2, <2>3 DEF PaymentInv, PaymentsRecorded, Pays
  <2> QED BY <2>3, <2>4, <2>5 DEF PaymentInv, SiftInv
<1>3. CASE ReadInscriptions
  <2>1. /\ expected' = Tracked(reservations) /\ cursor' = 1
        /\ pc = "inscriptions" /\ pc' = "sift"
        /\ UNCHANGED <<reservations, sifted, analyzed_height, tracked_from, block>>
    BY <1>3 DEF ReadInscriptions, FirstTx
  <2>2. SiftedBelow'
    BY <2>1 DEF PaymentInv, SiftedBelow
  <2>3. SiftInv'
    <3>1. block.txs \in Seq(Tx)
      BY <2>1 DEF TypeOK, Block
    <3>2. \A i \in DOMAIN block.txs : ~(i < 1)
      BY <3>1
    <3> QED BY <2>1, <3>2 DEF SiftInv, Awaited, Tracked
  <2>4. PaymentsRecorded'
    BY <2>1 DEF PaymentInv, PaymentsRecorded, Pays
  <2> QED BY <2>2, <2>3, <2>4 DEF PaymentInv
<1>4. ASSUME NEW id \in Ids, RecordPayment(id) PROVE PaymentInv'
  <2> DEFINE initial == [height |-> analyzed_height, hash |-> block, txid |-> cursor]
  <2>1. initial \in Initial /\ initial.height = analyzed_height
    BY <1>4 DEF RecordPayment, PaymentFor, Initial, TypeOK
  <2>2. initial # None
    BY <2>1, NoneAssumption
  <2>3. /\ reservations' = update_btc_reservation_initial(reservations, id, initial)
        /\ reservations[id] # None
        /\ block.txs[cursor].pays = id
        /\ cursor' = cursor + 1 /\ pc = "sift" /\ pc' = "sift"
        /\ UNCHANGED <<sifted, analyzed_height, tracked_from, block, expected>>
    BY <1>4 DEF RecordPayment, PaymentFor, CurrentTx
  <2> HIDE DEF initial
  <2>4. /\ \A r \in Ids : r # id => reservations'[r] = reservations[r]
        /\ reservations'[id].btc_initial = initial
    BY <1>0, <2>1, <2>3, StoreInitials
  <2>5. SiftedBelow'
    BY <2>3 DEF PaymentInv, SiftedBelow
  <2>6. SiftInv'
    <3> SUFFICES ASSUME NEW r \in Ids, Awaited(r)'
                 PROVE  /\ r \in expected
                        /\ \A i \in DOMAIN block.txs :
                              i < cursor + 1 /\ block.txs[i].pays = r
                                  => HasPaymentFrom(r, analyzed_height)'
      BY <2>3 DEF SiftInv, HasPaymentFrom
    <3>1. CASE r = id
      <4>1. HasPaymentFrom(r, analyzed_height)'
        BY <1>0, <2>1, <2>2, <2>3, <2>4, <3>1 DEF HasPaymentFrom
      <4>2. Awaited(r)
        BY <2>3, <3>1 DEF Awaited
      <4> QED BY <2>3, <4>1, <4>2 DEF PaymentInv, SiftInv
    <3>2. CASE r # id
      <4>1. Awaited(r)
        BY <2>3, <2>4, <3>2 DEF Awaited
      <4>2. \A i \in DOMAIN block.txs :
               i < cursor + 1 /\ block.txs[i].pays = r => i < cursor
        <5>1. block.txs \in Seq(Tx)
          BY <2>3 DEF TypeOK, Block
        <5> QED BY <1>0, <2>3, <3>2, <5>1
      <4> QED BY <2>3, <2>4, <3>2, <4>1, <4>2 DEF PaymentInv, SiftInv, HasPaymentFrom
    <3> QED BY <3>1, <3>2
  <2>7. PaymentsRecorded'
    <3> SUFFICES ASSUME NEW r \in Ids, NEW s \in sifted,
                        reservations'[r] # None, s.height >= tracked_from[r],
                        Pays(s, r)
                 PROVE  /\ reservations'[r].btc_initial # None
                        /\ reservations'[r].btc_initial.height >= s.height
      BY <2>3 DEF PaymentsRecorded, Pays
    <3>1. CASE r = id
      BY <1>0, <2>1, <2>2, <2>4, <3>1 DEF PaymentInv, SiftedBelow
    <3>2. CASE r # id
      BY <2>4, <3>2 DEF PaymentInv, PaymentsRecorded
    <3> QED BY <3>1, <3>2
  <2> QED BY <2>5, <2>6, <2>7 DEF PaymentInv
<1>5. CASE SkipTx
  <2>1. /\ block.txs[cursor].pays \notin expected
        /\ cursor' = cursor + 1 /\ pc = "sift" /\ pc' = "sift"
        /\ UNCHANGED <<reservations, sifted, analyzed_height, tracked_from, block,
                       expected>>
    BY <1>5 DEF SkipTx, CurrentTx
  <2>2. SiftedBelow'
    BY <2>1 DEF PaymentInv, SiftedBelow
  <2>3. SiftInv'
    <3>1. block.txs \in Seq(Tx)
      BY <2>1 DEF TypeOK, Block
    <3>2. \A id \in Ids, i \in DOMAIN block.txs :
             id \in expected /\ i < cursor + 1 /\ block.txs[i].pays = id => i < cursor
      BY <1>0, <2>1, <3>1
    <3> QED BY <2>1, <3>2 DEF PaymentInv, SiftInv, Awaited, HasPaymentFrom
  <2>4. PaymentsRecorded'
    BY <2>1 DEF PaymentInv, PaymentsRecorded, Pays
  <2> QED BY <2>2, <2>3, <2>4 DEF PaymentInv
<1>6. CASE ReadPending
  <2> DEFINE new == [height |-> analyzed_height, block |-> block]
  <2>1. /\ sifted' = sifted \union {new}
        /\ cursor > Len(block.txs) /\ pc = "sift" /\ pc' = "headers"
        /\ UNCHANGED <<reservations, analyzed_height, tracked_from, block>>
    BY <1>6 DEF ReadPending
  <2>2. SiftedBelow'
    BY <1>0, <2>1 DEF PaymentInv, SiftedBelow
  <2>3. SiftInv'
    BY <2>1 DEF SiftInv
  <2>4. PaymentsRecorded'
    <3> SUFFICES ASSUME NEW id \in Ids, NEW s \in sifted', reservations[id] # None,
                        s.height >= tracked_from[id], Pays(s, id)
                 PROVE  HasPaymentFrom(id, s.height)
      BY <2>1 DEF PaymentsRecorded, HasPaymentFrom, Pays
    <3>1. CASE s \in sifted
      BY <3>1 DEF PaymentInv, PaymentsRecorded, HasPaymentFrom
    <3>2. CASE s = new
      <4>1. s.height = analyzed_height /\ s.block = block
        BY <3>2
      <4>2. Awaited(id)
        BY <1>0, <4>1 DEF Awaited
      <4>3. PICK i \in DOMAIN block.txs : block.txs[i].pays = id
        BY <4>1 DEF Pays
      <4>4. i < cursor
        <5>1. block.txs \in Seq(Tx)
          BY <2>1 DEF TypeOK, Block
        <5> QED BY <1>0, <2>1, <5>1
      <4> QED BY <2>1, <4>1, <4>2, <4>3, <4>4 DEF PaymentInv, SiftInv
    <3> QED BY <2>1, <3>1, <3>2
  <2> QED BY <2>2, <2>3, <2>4 DEF PaymentInv
<1>7. CASE CommitWindow
  <2> DEFINE final == [safe |-> work.safe, confirmation |-> work.confirmation,
                       confirmation_hash |-> block, blocks |-> work.blocks]
  <2>1. final \in Final /\ work.id \in Ids
    BY <1>7 DEF CommitWindow, Work, Final, TypeOK
  <2>2. /\ reservations' = update_btc_reservation_final(reservations, work.id, final)
        /\ reservations[work.id] # None
    BY <1>7 DEF CommitWindow
  <2> HIDE DEF final
  <2>3. /\ \A r \in Ids : r # work.id => reservations'[r] = reservations[r]
        /\ reservations'[work.id].btc_initial = reservations[work.id].btc_initial
    BY <1>0, <2>1, <2>2, StoreInitials
  <2> QED BY <1>7, <1>a, <2>2, <2>3 DEF CommitWindow
<1>8. CASE ConfirmationsDone
  <2>1. /\ pc' = "block"
        /\ UNCHANGED <<reservations, sifted, analyzed_height, tracked_from>>
    BY <1>8 DEF ConfirmationsDone
  <2>2. SiftedBelow'
    BY <2>1 DEF PaymentInv, SiftedBelow
  <2>3. PaymentsRecorded'
    BY <2>1 DEF PaymentInv, PaymentsRecorded, Pays
  <2> QED BY <2>1, <2>2, <2>3 DEF PaymentInv, SiftInv
<1>9. CASE MissingEntryPanic \/ NoSafeHeightPanic \/ RpcError \/ Stopped
           \/ UNCHANGED vars
  BY <1>9, <1>a DEF MissingEntryPanic, NoSafeHeightPanic, RpcError, Stopped
<1>10. CASE \/ \E txs \in TxLists : Mine(txs)
            \/ \E depth \in 1 .. MaxReorgDepth, txs \in TxLists : Reorg(depth, txs)
            \/ Tick
            \/ \E id \in Ids : Reserve(id)
            \/ \E h \in HeaderHeights : AddHeader(h)
  <2>1. /\ UNCHANGED <<reservations, listenerSide, tracked_from>>
    BY <1>10 DEF Mine, Reorg, Tick, Reserve, AddHeader
  <2> QED BY <1>a, <2>1
<1>11. ASSUME NEW id \in Ids, InsertReservation(id) PROVE PaymentInv'
  <2>1. /\ UNCHANGED <<sifted, analyzed_height, block, pc, expected, cursor>>
        /\ tracked_from' = [tracked_from EXCEPT ![id] =
             IF pc = "inscriptions" THEN analyzed_height ELSE analyzed_height + 1]
        /\ \A r \in Ids : r # id => reservations'[r] = reservations[r]
    BY <1>0, <1>11 DEF InsertReservation, insert
  <2>2. /\ \A r \in Ids : r # id => tracked_from'[r] = tracked_from[r]
        /\ tracked_from'[id] = IF pc = "inscriptions" THEN analyzed_height
                                                      ELSE analyzed_height + 1
    BY <1>0, <2>1
  <2>3. SiftedBelow'
    BY <2>1 DEF PaymentInv, SiftedBelow
  <2>4. SiftInv'
    <3> SUFFICES ASSUME pc = "sift", NEW r \in Ids, Awaited(r)'
                 PROVE  /\ r \in expected
                        /\ \A i \in DOMAIN block.txs :
                              i < cursor /\ block.txs[i].pays = r
                                  => HasPaymentFrom(r, analyzed_height)'
      BY <2>1 DEF SiftInv, HasPaymentFrom
    <3>1. r # id
      BY <1>0, <2>1, <2>2 DEF Awaited
    <3> QED BY <2>1, <2>2, <3>1 DEF PaymentInv, SiftInv, Awaited, HasPaymentFrom
  <2>5. PaymentsRecorded'
    <3> SUFFICES ASSUME NEW r \in Ids, NEW s \in sifted, reservations'[r] # None,
                        s.height >= tracked_from'[r], Pays(s, r)
                 PROVE  /\ reservations'[r].btc_initial # None
                        /\ reservations'[r].btc_initial.height >= s.height
      BY <2>1 DEF PaymentsRecorded, Pays
    <3>1. r # id
      BY <1>0, <2>2 DEF PaymentInv, SiftedBelow
    <3> QED BY <2>1, <2>2, <3>1 DEF PaymentInv, PaymentsRecorded
  <2> QED BY <2>3, <2>4, <2>5 DEF PaymentInv
<1>12. ASSUME NEW id \in Ids, RemoveReservation(id) PROVE PaymentInv'
  <2>1. \A r \in Ids : reservations'[r] \in {None, reservations[r]}
    BY <1>0, <1>12 DEF RemoveReservation, remove
  <2> QED BY <1>12, <1>a, <2>1 DEF RemoveReservation
<1> QED
  BY <1>1, <1>2, <1>3, <1>4, <1>5, <1>6, <1>7, <1>8, <1>9, <1>10, <1>11, <1>12
  DEF Next, Listen, Environment

\* No interleaving with the event listener makes the block listener miss or
\* forget a payment made after the reservation entered the store.
THEOREM NoPaymentLost == Spec => []PaymentsRecorded
<1>1. PaymentInv => PaymentsRecorded
  BY DEF PaymentInv
<1> QED BY <1>1, InitPayment, InitBatch, NextPayment, NextBatch, TypeCorrect, PTL
        DEF Spec

-----------------------------------------------------------------------------
(* A window confirms a payment.  Three invariants lead there: a block in    *)
(* hand that is no longer on the best chain never comes back to it, so what *)
(* the window has at the height of a sifted block is that block, or the     *)
(* block is gone for good; what is recorded or pending was found in a       *)
(* sifted block; and the window being built is around such a block and has  *)
(* only its heights.                                                        *)

InBlock == {"inscriptions", "sift", "headers", "confirm", "window", "commit"}
Building == {"window", "commit"}

\* A block of a branch there has been, no higher than the chain is.
Known(height, b) == height \in DOMAIN chain /\ b.fork <= reorgs

ChainInv ==
    /\ \A h \in DOMAIN chain : Known(h, chain[h])
    /\ \A b \in sifted \union batch : Known(b.height, b.block)
    /\ pc \in InBlock => Known(analyzed_height, block)
    /\ pc \in Building =>
          \A s \in sifted, b \in work.blocks :
             s.height = b.height /\ OnBestChain(s) => b.block = s.block

\* The first blocks are all of the first branch.
LEMMA InitChain == Init => ChainInv
BY DEF Init, ChainInv, Known, InBlock, Building

\* The chain changes at its end, or by a branch with a number of its own.
ChainStep ==
    /\ reorgs \in Nat /\ reorgs' \in Nat /\ reorgs <= reorgs'
    /\ DOMAIN chain \subseteq DOMAIN chain'
    /\ \A h \in DOMAIN chain' :
          \/ h \in DOMAIN chain /\ chain'[h] = chain[h]
          \/ chain'[h].fork = reorgs' /\ (h \notin DOMAIN chain \/ reorgs < reorgs')

\* A mined block is put on top of the chain.
LEMMA MineSteps == ASSUME TypeOK, NEW txs \in TxLists, Mine(txs) PROVE ChainStep
<1>1. chain' = Append(chain, [fork |-> reorgs, parent |-> TipFork, txs |-> txs])
      /\ reorgs' = reorgs
  BY DEF Mine
<1>2. chain \in Seq(Block) /\ reorgs \in Nat
  BY DEF TypeOK
<1> QED BY <1>1, <1>2 DEF ChainStep

\* A reorganisation replaces blocks by those of a branch of its own.
LEMMA ReorgSteps ==
    ASSUME TypeOK, NEW depth \in 1 .. MaxReorgDepth, NEW txs \in TxLists,
           Reorg(depth, txs)
    PROVE  ChainStep
<1> DEFINE first == Len(chain) - depth + 1
           branch(h) == [fork |-> reorgs + 1,
                         parent |-> IF h = first THEN chain[h - 1].fork ELSE reorgs + 1,
                         txs |-> IF h = first THEN txs ELSE <<>>]
<1>1. /\ reorgs' = reorgs + 1
      /\ chain' = [h \in 1 .. Len(chain) + 1 |-> IF h < first THEN chain[h] ELSE branch(h)]
  BY DEF Reorg
<1>2. \A h : branch(h).fork = reorgs + 1
  OBVIOUS
<1>3. /\ reorgs \in Nat /\ chain \in Seq(Block) /\ Len(chain) \in Nat
      /\ DOMAIN chain = 1 .. Len(chain)
  BY DEF TypeOK
<1>4. first \in Int /\ first <= Len(chain)
  BY <1>3
<1> HIDE DEF first, branch
<1>5. DOMAIN chain' = 1 .. Len(chain) + 1
  BY <1>1
<1>6. ASSUME NEW h \in DOMAIN chain'
      PROVE  \/ h \in DOMAIN chain /\ chain'[h] = chain[h]
             \/ chain'[h].fork = reorgs'
  <2>1. CASE h < first
    BY <1>1, <1>3, <1>4, <1>5, <2>1
  <2>2. CASE ~(h < first)
    BY <1>1, <1>2, <1>5, <2>2
  <2> QED BY <2>1, <2>2
<1> QED BY <1>1, <1>3, <1>5, <1>6 DEF ChainStep

\* Nothing else changes it.
LEMMA NextSteps == ASSUME TypeOK, [Next]_vars PROVE ChainStep
<1>1. CASE \E txs \in TxLists : Mine(txs)
  BY <1>1, MineSteps
<1>2. CASE \E depth \in 1 .. MaxReorgDepth, txs \in TxLists : Reorg(depth, txs)
  BY <1>2, ReorgSteps
<1>3. CASE UNCHANGED <<chain, reorgs>>
  BY <1>3 DEF TypeOK, ChainStep
<1> QED
  BY <1>1, <1>2, <1>3
  DEF Next, Listen, Environment, vars, envSide, bitcoinSide, RpcError, Stopped,
      Connect, Poll, StartDownload, FetchBlock, NextBlock, BatchDone,
      ReadInscriptions, RecordPayment, SkipTx, ReadPending, ReadHeaders,
      SelectWindow, FetchWindowBlock, CommitWindow, ConfirmationsDone,
      MissingEntryPanic, NoSafeHeightPanic, Tick, Reserve, InsertReservation,
      RemoveReservation, AddHeader

\* A known block that is on the chain after a step was on it before.
LEMMA StaysReplaced ==
    ASSUME ChainStep, NEW b \in BlockAt, Known(b.height, b.block), OnBestChain(b)'
    PROVE  OnBestChain(b)
<1>1. b.block.fork \in Nat
  BY DEF BlockAt, Block
<1> QED BY <1>1 DEF ChainStep, Known, OnBestChain

\* What is known stays known.
LEMMA StaysKnown ==
    ASSUME ChainStep
    PROVE  \A height : \A b \in Block : Known(height, b) => Known(height, b)'
<1>1. \A b \in Block : b.fork \in Nat
  BY DEF Block
<1> QED BY <1>1 DEF ChainStep, Known

\* Blocks come from the chain and are handed on unchanged.
LEMMA NextChain == TypeOK /\ ChainInv /\ [Next]_vars => ChainInv'
<1> USE DEF vars, envSide, contractSide, bitcoinSide, polling, sifting,
            confirming, output, listenerSide, Running
<1> SUFFICES ASSUME TypeOK, ChainInv, [Next]_vars PROVE ChainInv'
  OBVIOUS
<1>t. /\ sifted \subseteq BlockAt /\ batch \subseteq BlockAt
      /\ \A b \in BlockAt : b.height \in Nat /\ b.block \in Block
      /\ pc \in InBlock => block \in Block
      /\ chain \in Seq(Block) /\ reorgs \in Nat
      /\ work \in Work => work.blocks \subseteq BlockAt
  BY DEF TypeOK, BlockAt, InBlock, Work
<1>n. ChainStep
  BY NextSteps
<1>c. \A h \in DOMAIN chain' : chain'[h].fork <= reorgs'
  <2>1. ASSUME NEW h \in DOMAIN chain
        PROVE  chain[h].fork \in Nat /\ chain[h].fork <= reorgs
    <3>1. chain[h] \in Block
      BY <1>t
    <3> QED BY <3>1 DEF Block, ChainInv, Known
  <2> QED BY <1>n, <2>1 DEF ChainStep
<1>k. \A height : \A b \in Block : Known(height, b) => Known(height, b)'
  BY <1>n, StaysKnown
<1>s. \A s \in sifted : OnBestChain(s)' => OnBestChain(s)
  BY <1>n, <1>t, StaysReplaced DEF ChainInv
<1>b. ASSUME UNCHANGED <<sifted, work>>, pc' \in Building => pc \in Building,
             \A b \in batch' : b \in batch \/ Known(b.height, b.block)',
             pc' \in InBlock => Known(analyzed_height, block)'
      PROVE  ChainInv'
  <2>1. \A h \in DOMAIN chain' : Known(h, chain[h])'
    BY <1>c DEF Known
  <2>2. \A b \in sifted' \union batch' : Known(b.height, b.block)'
    BY <1>b, <1>k, <1>t DEF ChainInv
  <2>3. ASSUME pc' \in Building, NEW s \in sifted', NEW b \in work'.blocks,
               s.height = b.height, OnBestChain(s)'
        PROVE  b.block = s.block
    BY <1>b, <1>s, <2>3 DEF ChainInv
  <2> QED BY <1>b, <2>1, <2>2, <2>3 DEF ChainInv
<1>a. ASSUME UNCHANGED <<sifted, batch, analyzed_height, block, work>>,
             pc' \in InBlock => pc \in InBlock,
             pc' \in Building => pc \in Building
      PROVE  ChainInv'
  <2>1. pc' \in InBlock => Known(analyzed_height, block)'
    BY <1>a, <1>k, <1>t DEF ChainInv, Known
  <2> QED BY <1>a, <1>b, <2>1
<1>1. CASE \/ Connect \/ Poll \/ StartDownload \/ BatchDone
           \/ ReadInscriptions \/ (\E id \in Ids : RecordPayment(id)) \/ SkipTx
           \/ ReadHeaders
  BY <1>1, <1>a DEF Connect, Poll, StartDownload, BatchDone, ReadInscriptions,
     RecordPayment, PaymentFor, SkipTx, ReadHeaders, InBlock, Building
<1>2. ASSUME NEW h \in Missing, FetchBlock(h) PROVE ChainInv'
  <2>1. /\ batch' = batch \union {[height |-> h, block |-> chain[h]]}
        /\ h \in DOMAIN chain /\ pc' \in {"block", "download"}
        /\ UNCHANGED <<sifted, work, chain, reorgs>>
    BY <1>2 DEF FetchBlock
  <2>2. Known(h, chain[h])'
    BY <1>c, <2>1 DEF Known
  <2>3. \A b \in batch' : b \in batch \/ Known(b.height, b.block)'
    BY <2>1, <2>2 DEF Known
  <2> QED BY <1>b, <2>1, <2>3 DEF InBlock, Building
<1>3. CASE NextBlock
  <2>1. PICK b \in batch : /\ batch' = batch \ {b}
                           /\ analyzed_height' = b.height
                           /\ block' = b.block
    BY <1>3 DEF NextBlock, NextOfBatch
  <2>2. pc' = "inscriptions" /\ UNCHANGED <<sifted, work, chain, reorgs>>
    BY <1>3 DEF NextBlock
  <2>3. Known(analyzed_height, block)'
    BY <2>1, <2>2 DEF ChainInv, Known
  <2> QED BY <1>b, <2>1, <2>2, <2>3 DEF Building
<1>4. CASE ReadPending
  <2>1. /\ sifted' = sifted \union {[height |-> analyzed_height, block |-> block]}
        /\ pc = "sift" /\ pc' = "headers"
        /\ UNCHANGED <<batch, chain, reorgs, analyzed_height, block>>
    BY <1>4 DEF ReadPending
  <2> QED BY <2>1 DEF ChainInv, Known, InBlock, Building
<1>5. ASSUME NEW p \in pending, SelectWindow(p) PROVE ChainInv'
  <2>1. /\ work'.blocks = {} /\ pc = "confirm" /\ pc' = "window"
        /\ UNCHANGED <<sifted, batch, chain, reorgs, analyzed_height, block>>
    BY <1>5 DEF SelectWindow
  <2> QED BY <2>1 DEF ChainInv, Known, InBlock, Building
<1>6. ASSUME NEW h \in DOMAIN chain, FetchWindowBlock(h) PROVE ChainInv'
  <2>1. work \in Work /\ pc = "window" /\ pc' \in {"window", "commit"}
    BY <1>6 DEF FetchWindowBlock, TypeOK
  <2>2. work'.blocks = work.blocks \union {[height |-> h, block |-> chain[h]]}
    BY <1>6, <2>1 DEF FetchWindowBlock, Work
  <2>3. UNCHANGED <<sifted, batch, chain, reorgs, analyzed_height, block>>
    BY <1>6 DEF FetchWindowBlock
  <2> QED BY <2>1, <2>2, <2>3 DEF ChainInv, Known, OnBestChain, InBlock, Building
<1>7. CASE CommitWindow \/ ConfirmationsDone
  <2>1. pc' \notin Building /\ UNCHANGED <<sifted, batch, chain, reorgs, analyzed_height>>
    BY <1>7 DEF CommitWindow, ConfirmationsDone, Building
  <2>2. pc' \in InBlock => pc \in InBlock /\ UNCHANGED block
    BY <1>7 DEF CommitWindow, ConfirmationsDone, InBlock
  <2> QED BY <2>1, <2>2 DEF ChainInv, Known
<1>8. CASE MissingEntryPanic \/ NoSafeHeightPanic \/ RpcError \/ Stopped
           \/ UNCHANGED vars
  BY <1>8, <1>a DEF MissingEntryPanic, NoSafeHeightPanic, RpcError, Stopped
<1>9. CASE Environment
  <2>1. UNCHANGED listenerSide
    BY <1>9 DEF Environment, Mine, Reorg, Tick, Reserve, InsertReservation,
                RemoveReservation, AddHeader
  <2> QED BY <1>a, <2>1
<1> QED
  BY <1>1, <1>2, <1>3, <1>4, <1>5, <1>6, <1>7, <1>8, <1>9 DEF Next, Listen

-----------------------------------------------------------------------------
\* A block with a payment is sifted, or is being sifted.
PaidIn(id, h) == \E s \in sifted : s.height = h /\ Pays(s, id)

PaidNow(id, h) ==
    pc = "sift" /\ h = analyzed_height /\ \E i \in DOMAIN block.txs : block.txs[i].pays = id

PaidAt(id, h) ==
    /\ reservations[id] # None /\ reservations[id].btc_initial # None
    /\ reservations[id].btc_initial.height = h

SeenInv ==
    /\ \A id \in Ids : \A h : PaidAt(id, h) => PaidIn(id, h) \/ PaidNow(id, h)
    /\ \A p \in pending : PaidIn(p.id, p.height)

\* The store is empty at the start.
LEMMA InitSeen == Init => SeenInv
BY DEF Init, EmptyStore, SeenInv, PaidAt

\* What is recorded or pending was found in a block.
LEMMA NextSeen == TypeOK /\ SeenInv /\ [Next]_vars => SeenInv'
<1> USE DEF vars, envSide, contractSide, bitcoinSide, polling, sifting,
            confirming, output, listenerSide, Running
<1> SUFFICES ASSUME TypeOK, SeenInv, [Next]_vars PROVE SeenInv'
  OBVIOUS
<1>0. reservations \in [Ids -> Metadata \union {None}] /\ now \in Nat
  BY DEF TypeOK
<1>a. ASSUME UNCHANGED <<sifted, analyzed_height, block>>,
             pc = "sift" => pc' = "sift",
             pending' \subseteq pending,
             \A id \in Ids :
                 reservations'[id] # None /\ reservations'[id].btc_initial # None =>
                     /\ reservations[id] # None
                     /\ reservations'[id].btc_initial = reservations[id].btc_initial
      PROVE  SeenInv'
  BY <1>a DEF SeenInv, PaidAt, PaidIn, PaidNow
<1>1. CASE \/ Connect \/ Poll \/ StartDownload \/ (\E h \in Missing : FetchBlock(h))
           \/ BatchDone \/ ReadInscriptions \/ SkipTx \/ ReadHeaders
           \/ (\E p \in pending : SelectWindow(p))
           \/ (\E h \in DOMAIN chain : FetchWindowBlock(h))
  BY <1>1, <1>a DEF Connect, Poll, StartDownload, FetchBlock, BatchDone,
     ReadInscriptions, SkipTx, ReadHeaders, SelectWindow, FetchWindowBlock
<1>2. CASE NextBlock
  <2>1. \A id \in Ids : reservations'[id] \in {None, reservations[id]}
    BY <1>0, <1>2, StoreFinals DEF NextBlock
  <2>2. pc = "block" /\ UNCHANGED <<sifted, pending>>
    BY <1>2 DEF NextBlock
  <2> QED BY <2>1, <2>2 DEF SeenInv, PaidAt, PaidIn, PaidNow
<1>3. ASSUME NEW id \in Ids, RecordPayment(id) PROVE SeenInv'
  <2> DEFINE initial == [height |-> analyzed_height, hash |-> block, txid |-> cursor]
  <2>1. initial \in Initial /\ initial.height = analyzed_height
    BY <1>3 DEF RecordPayment, PaymentFor, Initial, TypeOK
  <2>2. /\ reservations' = update_btc_reservation_initial(reservations, id, initial)
        /\ reservations[id] # None
        /\ cursor <= Len(block.txs) /\ block.txs[cursor].pays = id
        /\ pc = "sift" /\ pc' = "sift"
        /\ UNCHANGED <<sifted, analyzed_height, block, pending>>
    BY <1>3 DEF RecordPayment, PaymentFor, CurrentTx
  <2>3. cursor \in DOMAIN block.txs
    <3>1. block.txs \in Seq(Tx) /\ cursor \in Nat \ {0}
      BY <2>2 DEF TypeOK, Block
    <3> QED BY <2>2, <3>1
  <2> HIDE DEF initial
  <2>4. /\ \A r \in Ids : r # id => reservations'[r] = reservations[r]
        /\ reservations'[id].btc_initial = initial
    BY <1>0, <2>1, <2>2, StoreInitials
  <2>5. \E i \in DOMAIN block.txs : block.txs[i].pays = id
    BY <2>2, <2>3
  <2>6. ASSUME NEW r \in Ids, NEW h, PaidAt(r, h)'
        PROVE  PaidIn(r, h)' \/ PaidNow(r, h)'
    <3>1. CASE r = id
      <4>1. h = analyzed_height
        BY <2>1, <2>4, <2>6, <3>1 DEF PaidAt
      <4> QED BY <2>2, <2>5, <3>1, <4>1 DEF PaidNow
    <3>2. CASE r # id
      <4>1. PaidAt(r, h)
        BY <2>4, <2>6, <3>2 DEF PaidAt
      <4> QED BY <2>2, <4>1 DEF SeenInv, PaidIn, PaidNow
    <3> QED BY <3>1, <3>2
  <2>7. \A p \in pending' : PaidIn(p.id, p.height)'
    BY <2>2 DEF SeenInv, PaidIn
  <2> QED BY <2>6, <2>7 DEF SeenInv
<1>4. CASE ReadPending
  <2> DEFINE new == [height |-> analyzed_height, block |-> block]
  <2>1. /\ sifted' = sifted \union {new}
        /\ pending' = {[id |-> id, height |-> reservations[id].btc_initial.height] :
                          id \in {r \in Ids : IsPending(reservations[r])}}
        /\ UNCHANGED reservations
    BY <1>4 DEF ReadPending
  <2>2. ASSUME NEW id \in Ids, NEW h, PaidIn(id, h) \/ PaidNow(id, h)
        PROVE  PaidIn(id, h)'
    <3>1. CASE PaidIn(id, h)
      BY <2>1, <3>1 DEF PaidIn
    <3>2. CASE PaidNow(id, h)
      <4>1. new \in sifted' /\ new.height = h
        BY <2>1, <3>2 DEF PaidNow
      <4>2. Pays(new, id)
        BY <3>2 DEF PaidNow, Pays
      <4> HIDE DEF new
      <4> QED BY <4>1, <4>2 DEF PaidIn
    <3> QED BY <2>2, <3>1, <3>2
  <2>3. \A id \in Ids : \A h : PaidAt(id, h) => PaidIn(id, h)'
    BY <2>2 DEF SeenInv
  <2>4. \A p \in pending' : p.id \in Ids /\ PaidAt(p.id, p.height)
    BY <2>1 DEF IsPending, PaidAt
  <2>5. \A p \in pending' : PaidIn(p.id, p.height)'
    BY <2>3, <2>4
  <2>6. \A id \in Ids : \A h : PaidAt(id, h)' => PaidAt(id, h)
    BY <2>1 DEF PaidAt
  <2> QED BY <2>3, <2>5, <2>6 DEF SeenInv
<1>5. CASE CommitWindow
  <2> DEFINE final == [safe |-> work.safe, confirmation |-> work.confirmation,
                       confirmation_hash |-> block, blocks |-> work.blocks]
  <2>1. final \in Final /\ work.id \in Ids
    BY <1>5 DEF CommitWindow, Work, Final, TypeOK
  <2>2. /\ reservations' = update_btc_reservation_final(reservations, work.id, final)
        /\ reservations[work.id] # None
    BY <1>5 DEF CommitWindow
  <2> HIDE DEF final
  <2>3. /\ \A r \in Ids : r # work.id => reservations'[r] = reservations[r]
        /\ reservations'[work.id].btc_initial = reservations[work.id].btc_initial
    BY <1>0, <2>1, <2>2, StoreInitials
  <2> QED BY <1>5, <1>a, <2>2, <2>3 DEF CommitWindow
<1>6. CASE ConfirmationsDone
  <2>1. pc = "confirm" /\ pending' = {} /\ UNCHANGED <<reservations, sifted>>
    BY <1>6 DEF ConfirmationsDone
  <2> QED BY <2>1 DEF SeenInv, PaidAt, PaidIn, PaidNow
<1>7. CASE MissingEntryPanic \/ NoSafeHeightPanic \/ RpcError \/ Stopped
           \/ UNCHANGED vars
  BY <1>7, <1>a DEF MissingEntryPanic, NoSafeHeightPanic, RpcError, Stopped
<1>8. CASE \/ \E txs \in TxLists : Mine(txs)
           \/ \E depth \in 1 .. MaxReorgDepth, txs \in TxLists : Reorg(depth, txs)
           \/ Tick
           \/ \E id \in Ids : Reserve(id)
           \/ \E h \in HeaderHeights : AddHeader(h)
  <2>1. UNCHANGED <<reservations, listenerSide>>
    BY <1>8 DEF Mine, Reorg, Tick, Reserve, AddHeader
  <2> QED BY <1>a, <2>1
<1>9. ASSUME NEW id \in Ids, InsertReservation(id) PROVE SeenInv'
  <2>1. /\ \A r \in Ids : r # id => reservations'[r] = reservations[r]
        /\ reservations'[id].btc_initial = None
    BY <1>0, <1>9 DEF InsertReservation, insert, NewMetadata
  <2> QED BY <1>9, <1>a, <2>1 DEF InsertReservation
<1>10. ASSUME NEW id \in Ids, RemoveReservation(id) PROVE SeenInv'
  <2>1. \A r \in Ids : reservations'[r] \in {None, reservations[r]}
    BY <1>0, <1>10 DEF RemoveReservation, remove
  <2> QED BY <1>10, <1>a, <2>1 DEF RemoveReservation
<1> QED
  BY <1>1, <1>2, <1>3, <1>4, <1>5, <1>6, <1>7, <1>8, <1>9, <1>10
  DEF Next, Listen, Environment

ConfirmsPayment(id, safe, confirmation) ==
    \E s \in sifted :
        Pays(s, id) /\ safe < s.height /\ s.height + CONFIRMATION_HEIGHT_DELTA <= confirmation

WorkInv ==
    /\ heights \subseteq safe_contract_block_hashes
    /\ pc \in Building =>
          /\ work.safe \in safe_contract_block_hashes
          /\ ConfirmsPayment(work.id, work.safe, work.confirmation)
          /\ HeightsOf(work.blocks) \subseteq work.safe .. work.confirmation
    /\ pc = "commit" => HeightsOf(work.blocks) = work.safe .. work.confirmation

\* No window is being built at the start.
LEMMA InitWork == Init => WorkInv
BY DEF Init, WorkInv, Building

\* A window is chosen around a pending payment, filled with its heights, and
\* complete when it is committed.
LEMMA NextWork == TypeOK /\ SeenInv /\ WorkInv /\ [Next]_vars => WorkInv'
<1> USE DEF vars, envSide, contractSide, bitcoinSide, polling, sifting,
            confirming, output, listenerSide, Running
<1> SUFFICES ASSUME TypeOK, SeenInv, WorkInv, [Next]_vars PROVE WorkInv'
  OBVIOUS
<1>a. ASSUME sifted \subseteq sifted',
             safe_contract_block_hashes \subseteq safe_contract_block_hashes',
             heights' \subseteq heights,
             pc' \in Building => pc = pc' /\ UNCHANGED work
      PROVE  WorkInv'
  BY <1>a DEF WorkInv, ConfirmsPayment, Building
<1>1. CASE \/ Connect \/ Poll \/ StartDownload \/ (\E h \in Missing : FetchBlock(h))
           \/ NextBlock \/ BatchDone \/ ReadInscriptions
           \/ (\E id \in Ids : RecordPayment(id)) \/ SkipTx \/ ReadPending
           \/ CommitWindow \/ ConfirmationsDone
  BY <1>1, <1>a DEF Connect, Poll, StartDownload, FetchBlock, NextBlock, BatchDone,
     ReadInscriptions, RecordPayment, PaymentFor, SkipTx, ReadPending,
     CommitWindow, ConfirmationsDone, Building
<1>2. CASE ReadHeaders
  BY <1>2 DEF ReadHeaders, WorkInv, Building
<1>3. ASSUME NEW p \in pending, SelectWindow(p) PROVE WorkInv'
  <2>1. PICK lo \in heights, hi \in heights \union {MinConfirmationHeight(p)} :
           /\ IsSafeHeight(lo, p) /\ IsConfirmationHeight(hi, p)
           /\ work' = [id |-> p.id, safe |-> lo, confirmation |-> hi, blocks |-> {}]
    BY <1>3 DEF SelectWindow
  <2>2. p.height \in Nat /\ heights \subseteq Nat
    BY DEF TypeOK
  <2>3. lo < p.height /\ MinConfirmationHeight(p) <= hi
    BY <2>1, <2>2 DEF IsSafeHeight, IsConfirmationHeight, MinConfirmationHeight
  <2>4. ConfirmsPayment(p.id, lo, hi)
    <3>1. PICK s \in sifted : s.height = p.height /\ Pays(s, p.id)
      BY DEF SeenInv, PaidIn
    <3> QED BY <2>3, <3>1 DEF ConfirmsPayment, MinConfirmationHeight
  <2>5. pc' = "window" /\ UNCHANGED <<heights, safe_contract_block_hashes, sifted>>
    BY <1>3 DEF SelectWindow
  <2> QED BY <2>1, <2>4, <2>5 DEF WorkInv, ConfirmsPayment, HeightsOf
<1>4. ASSUME NEW h \in DOMAIN chain, FetchWindowBlock(h) PROVE WorkInv'
  <2> DEFINE new == [height |-> h, block |-> chain[h]]
  <2>1. work \in Work /\ pc = "window"
    BY <1>4 DEF FetchWindowBlock, TypeOK
  <2>2. /\ work'.id = work.id /\ work'.safe = work.safe
        /\ work'.confirmation = work.confirmation
        /\ work'.blocks = work.blocks \union {new}
    BY <1>4, <2>1 DEF FetchWindowBlock, Work
  <2>3. HeightsOf(work.blocks)' = HeightsOf(work.blocks) \union {h}
    <3>1. new.height = h
      OBVIOUS
    <3> HIDE DEF new
    <3> QED BY <2>2, <3>1 DEF HeightsOf
  <2>4. /\ h \in (work.safe .. work.confirmation) \ HeightsOf(work.blocks)
        /\ pc' = "commit" =>
              (work.safe .. work.confirmation) \ HeightsOf(work.blocks) = {h}
        /\ UNCHANGED <<heights, safe_contract_block_hashes, sifted>>
    BY <1>4 DEF FetchWindowBlock, InWindowFlight, MissingOfWindow
  <2>5. HeightsOf(work.blocks) \subseteq work.safe .. work.confirmation
    BY <2>1 DEF WorkInv, Building
  <2>6. pc' = "commit" => HeightsOf(work.blocks)' = (work.safe .. work.confirmation)'
    BY <2>2, <2>3, <2>4, <2>5
  <2>7. /\ work.safe \in safe_contract_block_hashes
        /\ ConfirmsPayment(work.id, work.safe, work.confirmation)
    BY <2>1 DEF WorkInv, Building
  <2> QED BY <2>2, <2>3, <2>4, <2>5, <2>6, <2>7 DEF WorkInv, ConfirmsPayment
<1>5. CASE MissingEntryPanic \/ NoSafeHeightPanic \/ RpcError \/ Stopped
           \/ UNCHANGED vars
  BY <1>5, <1>a DEF MissingEntryPanic, NoSafeHeightPanic, RpcError, Stopped
<1>6. CASE Environment
  BY <1>6, <1>a DEF Environment, Mine, Reorg, Tick, Reserve, InsertReservation,
                    RemoveReservation, AddHeader
<1> QED BY <1>1, <1>2, <1>3, <1>4, <1>5, <1>6 DEF Next, Listen

HasFinal(id, final) ==
    /\ reservations[id] # None /\ reservations[id].btc_final # None
    /\ reservations[id].btc_final = final

Holds(id, final) ==
    /\ final.safe \in safe_contract_block_hashes
    /\ HeightsOf(final.blocks) = final.safe .. final.confirmation
    /\ \E s \in sifted :
          /\ Pays(s, id)
          /\ final.safe < s.height
          /\ s.height + CONFIRMATION_HEIGHT_DELTA <= final.confirmation
          /\ OnBestChain(s) => s \in final.blocks

\* No window is stored at the start.
LEMMA InitFinal == Init => FinalWindowHoldsPayment
BY DEF Init, EmptyStore, FinalWindowHoldsPayment

\* A window is stored complete, and what makes it one does not go away: a
\* block that was replaced does not come back.
LEMMA NextFinal ==
    TypeOK /\ ChainInv /\ WorkInv /\ FinalWindowHoldsPayment /\ [Next]_vars
        => FinalWindowHoldsPayment'
<1> USE DEF vars, envSide, contractSide, bitcoinSide, polling, sifting,
            confirming, output, listenerSide, Running
<1> SUFFICES ASSUME TypeOK, ChainInv, WorkInv, FinalWindowHoldsPayment, [Next]_vars
             PROVE  FinalWindowHoldsPayment'
  OBVIOUS
<1>0. reservations \in [Ids -> Metadata \union {None}] /\ now \in Nat
  BY DEF TypeOK
<1>s. \A s \in sifted : OnBestChain(s)' => OnBestChain(s)
  <2>1. sifted \subseteq BlockAt
    BY DEF TypeOK
  <2> QED BY <2>1, NextSteps, StaysReplaced DEF ChainInv
<1>b. ASSUME sifted \subseteq sifted',
             safe_contract_block_hashes \subseteq safe_contract_block_hashes',
             NEW id, NEW final, Holds(id, final)
      PROVE  Holds(id, final)'
  BY <1>b, <1>s DEF Holds
<1>c. FinalWindowHoldsPayment <=>
         \A id \in Ids : \A final : HasFinal(id, final) => Holds(id, final)
  BY DEF FinalWindowHoldsPayment, HasFinal, Holds
<1>d. FinalWindowHoldsPayment' <=>
         \A id \in Ids : \A final : HasFinal(id, final)' => Holds(id, final)'
  BY DEF FinalWindowHoldsPayment, HasFinal, Holds
<1>a. ASSUME sifted \subseteq sifted',
             safe_contract_block_hashes \subseteq safe_contract_block_hashes',
             \A id \in Ids :
                 reservations'[id] # None /\ reservations'[id].btc_final # None =>
                     /\ reservations[id] # None
                     /\ reservations'[id].btc_final = reservations[id].btc_final
      PROVE  FinalWindowHoldsPayment'
  <2> SUFFICES ASSUME NEW id \in Ids, NEW final, HasFinal(id, final)'
               PROVE  Holds(id, final)'
    BY <1>d
  <2>1. HasFinal(id, final)
    BY <1>a DEF HasFinal
  <2> QED BY <1>a, <1>b, <1>c, <2>1
<1>1. CASE \/ Connect \/ Poll \/ StartDownload \/ (\E h \in Missing : FetchBlock(h))
           \/ BatchDone \/ ReadInscriptions \/ SkipTx \/ ReadPending \/ ReadHeaders
           \/ (\E p \in pending : SelectWindow(p))
           \/ (\E h \in DOMAIN chain : FetchWindowBlock(h)) \/ ConfirmationsDone
  BY <1>1, <1>a DEF Connect, Poll, StartDownload, FetchBlock, BatchDone,
     ReadInscriptions, SkipTx, ReadPending, ReadHeaders, SelectWindow,
     FetchWindowBlock, ConfirmationsDone
<1>2. CASE NextBlock
  <2>1. \A id \in Ids : reservations'[id] \in {None, reservations[id]}
    BY <1>0, <1>2, StoreFinals DEF NextBlock
  <2> QED BY <1>2, <1>a, <2>1 DEF NextBlock
<1>3. ASSUME NEW id \in Ids, RecordPayment(id) PROVE FinalWindowHoldsPayment'
  <2> DEFINE initial == [height |-> analyzed_height, hash |-> block, txid |-> cursor]
  <2>1. initial \in Initial
    BY <1>3 DEF RecordPayment, PaymentFor, Initial, TypeOK
  <2>2. /\ reservations' = update_btc_reservation_initial(reservations, id, initial)
        /\ reservations[id] # None
    BY <1>3 DEF RecordPayment
  <2> HIDE DEF initial
  <2>3. ASSUME NEW r \in Ids
        PROVE  /\ reservations[r] = None => reservations'[r] = None
               /\ reservations'[r] # None =>
                     reservations'[r].btc_final = reservations[r].btc_final
    BY <1>0, <2>1, <2>2, StoreFinals
  <2>4. UNCHANGED <<sifted, safe_contract_block_hashes>>
    BY <1>3 DEF RecordPayment
  <2> QED BY <1>a, <2>3, <2>4
<1>4. CASE CommitWindow
  <2> DEFINE final == [safe |-> work.safe, confirmation |-> work.confirmation,
                       confirmation_hash |-> block, blocks |-> work.blocks]
  <2>1. /\ final \in Final /\ work.id \in Ids /\ work \in Work
        /\ final.safe = work.safe /\ final.confirmation = work.confirmation
        /\ final.blocks = work.blocks
    BY <1>4 DEF CommitWindow, Work, Final, TypeOK
  <2>2. /\ reservations' = update_btc_reservation_final(reservations, work.id, final)
        /\ reservations[work.id] # None
        /\ pc = "commit" /\ UNCHANGED <<sifted, safe_contract_block_hashes>>
    BY <1>4 DEF CommitWindow
  <2> HIDE DEF final
  <2>3. /\ \A r \in Ids : r # work.id => reservations'[r] = reservations[r]
        /\ reservations'[work.id].btc_final = final
    BY <1>0, <2>1, <2>2, StoreFinals
  <2>4. PICK s \in sifted :
           /\ Pays(s, work.id) /\ work.safe < s.height
           /\ s.height + CONFIRMATION_HEIGHT_DELTA <= work.confirmation
    BY <2>2 DEF WorkInv, Building, ConfirmsPayment
  <2>5. /\ work.safe \in safe_contract_block_hashes
        /\ HeightsOf(work.blocks) = work.safe .. work.confirmation
    BY <2>2 DEF WorkInv, Building
  <2>6. OnBestChain(s) => s \in work.blocks
    <3> SUFFICES ASSUME OnBestChain(s) PROVE s \in work.blocks
      OBVIOUS
    <3>1. s \in BlockAt /\ s.height \in Nat /\ work.blocks \subseteq BlockAt
      BY <2>1 DEF TypeOK, BlockAt, Work
    <3>2. s.height \in HeightsOf(work.blocks)
      BY <2>1, <2>4, <2>5, <3>1 DEF Work
    <3>3. PICK b \in work.blocks : b.height = s.height
      BY <3>2 DEF HeightsOf
    <3>4. b.block = s.block
      BY <2>2, <3>3 DEF ChainInv, Building
    <3>5. b = s
      BY <3>1, <3>3, <3>4 DEF BlockAt
    <3> QED BY <3>5
  <2>7. Holds(work.id, final)
    BY <2>1, <2>4, <2>5, <2>6 DEF Holds
  <2>8. \A r \in Ids : \A f : r = work.id /\ f = final => Holds(r, f)'
    BY <1>b, <2>2, <2>7
  <2>9. ASSUME NEW r \in Ids, NEW f, HasFinal(r, f)'
        PROVE  Holds(r, f)'
    <3>1. CASE r = work.id
      BY <2>3, <2>8, <2>9, <3>1 DEF HasFinal
    <3>2. CASE r # work.id
      <4>1. HasFinal(r, f)
        BY <2>3, <2>9, <3>2 DEF HasFinal
      <4> QED BY <1>b, <1>c, <2>2, <4>1
    <3> QED BY <3>1, <3>2
  <2> QED BY <1>d, <2>9
<1>5. CASE MissingEntryPanic \/ NoSafeHeightPanic \/ RpcError \/ Stopped
           \/ UNCHANGED vars
  BY <1>5, <1>a DEF MissingEntryPanic, NoSafeHeightPanic, RpcError, Stopped
<1>6. CASE \/ \E txs \in TxLists : Mine(txs)
           \/ \E depth \in 1 .. MaxReorgDepth, txs \in TxLists : Reorg(depth, txs)
           \/ Tick
           \/ \E id \in Ids : Reserve(id)
           \/ \E h \in HeaderHeights : AddHeader(h)
  BY <1>6, <1>a DEF Mine, Reorg, Tick, Reserve, AddHeader
<1>7. ASSUME NEW id \in Ids, InsertReservation(id) PROVE FinalWindowHoldsPayment'
  <2>1. /\ \A r \in Ids : r # id => reservations'[r] = reservations[r]
        /\ reservations'[id].btc_final = None
    BY <1>0, <1>7 DEF InsertReservation, insert, NewMetadata
  <2> QED BY <1>7, <1>a, <2>1 DEF InsertReservation
<1>8. ASSUME NEW id \in Ids, RemoveReservation(id) PROVE FinalWindowHoldsPayment'
  <2>1. \A r \in Ids : reservations'[r] \in {None, reservations[r]}
    BY <1>0, <1>8 DEF RemoveReservation, remove
  <2> QED BY <1>8, <1>a, <2>1 DEF RemoveReservation
<1> QED
  BY <1>1, <1>2, <1>3, <1>4, <1>5, <1>6, <1>7, <1>8 DEF Next, Listen, Environment

\* Every window the prover is given confirms a payment of its reservation, for
\* any depth of confirmation, any headers the contract has, any number of
\* requests in flight, and whatever the chain and the event listener do: it has
\* the block of that payment for as long as the best chain has it.
THEOREM WindowHoldsPayment == Spec => []FinalWindowHoldsPayment
<1> QED
  BY InitChain, InitSeen, InitWork, InitFinal, NextChain, NextSeen, NextWork,
     NextFinal, TypeCorrect, PTL DEF Spec

-----------------------------------------------------------------------------
(* The copies the listener works from while it waits for windows still      *)
(* agree with the store: nothing is recorded meanwhile, so an entry has the *)
(* payment that was copied, or is gone, or is a fresh one without payment.  *)

Copied == {"headers", "confirm", "window", "commit"}

\* The payment the window is built around, with its confirmations, and the
\* only one the entry can have.
BuiltAround(s) ==
    /\ Pays(s, work.id) /\ work.safe < s.height
    /\ s.height + CONFIRMATION_HEIGHT_DELTA <= work.confirmation
    /\ s.height + CONFIRMATION_HEIGHT_DELTA <= analyzed_height
    /\ \A h : PaidAt(work.id, h) => h = s.height

CopyInv ==
    /\ pc \notin Copied => pending = {}
    /\ \A p \in pending : \A h : PaidAt(p.id, h) => h = p.height
    /\ pc \in Building => \E s \in sifted : BuiltAround(s)

\* Nothing is copied at the start.
LEMMA InitCopy == Init => CopyInv
BY DEF Init, CopyInv, Copied, Building

\* Copies are made and used between two payments.
LEMMA NextCopy == TypeOK /\ SeenInv /\ CopyInv /\ [Next]_vars => CopyInv'
<1> USE DEF vars, envSide, contractSide, bitcoinSide, polling, sifting,
            confirming, output, listenerSide, Running
<1> SUFFICES ASSUME TypeOK, SeenInv, CopyInv, [Next]_vars PROVE CopyInv'
  OBVIOUS
<1>0. reservations \in [Ids -> Metadata \union {None}] /\ now \in Nat
  BY DEF TypeOK
<1>a. ASSUME sifted \subseteq sifted', pending' \subseteq pending,
             \A id, h : PaidAt(id, h)' => PaidAt(id, h),
             pc' \notin Copied => pending' = {},
             pc' \in Building => pc \in Building /\ UNCHANGED analyzed_height
                /\ UNCHANGED <<work.id, work.safe, work.confirmation>>
      PROVE  CopyInv'
  <2>1. \A p \in pending' : \A h : PaidAt(p.id, h)' => h = p.height
    BY <1>a DEF CopyInv
  <2>2. ASSUME pc' \in Building PROVE \E s \in sifted' : BuiltAround(s)'
    <3>1. PICK s \in sifted : BuiltAround(s)
      BY <1>a, <2>2 DEF CopyInv
    <3>2. \A id, h : id = work'.id /\ PaidAt(id, h)' => h = s.height
      BY <1>a, <2>2, <3>1 DEF BuiltAround
    <3>3. BuiltAround(s)'
      BY <1>a, <2>2, <3>1, <3>2 DEF BuiltAround
    <3> QED BY <1>a, <3>3
  <2> QED BY <1>a, <2>1, <2>2 DEF CopyInv
<1>b. ASSUME UNCHANGED reservations PROVE \A id, h : PaidAt(id, h)' => PaidAt(id, h)
  BY <1>b DEF PaidAt
<1>1. CASE \/ Connect \/ Poll \/ StartDownload \/ (\E h \in Missing : FetchBlock(h))
           \/ BatchDone \/ ReadInscriptions \/ SkipTx
           \/ ReadHeaders \/ ConfirmationsDone
  BY <1>1, <1>a, <1>b DEF Connect, Poll, StartDownload, FetchBlock, BatchDone,
     ReadInscriptions, SkipTx, ReadHeaders, ConfirmationsDone, CopyInv, Copied,
     Building
<1>2. CASE NextBlock
  <2>1. \A id \in Ids : reservations'[id] \in {None, reservations[id]}
    BY <1>0, <1>2, StoreFinals DEF NextBlock
  <2>2. pc = "block" /\ pc' = "inscriptions" /\ UNCHANGED pending
    BY <1>2 DEF NextBlock
  <2> QED BY <2>2 DEF CopyInv, Copied, Building
<1>3. CASE \E id \in Ids : RecordPayment(id)
  <2>1. pc = "sift" /\ pc' = "sift" /\ UNCHANGED pending
    BY <1>3 DEF RecordPayment, PaymentFor
  <2> QED BY <2>1 DEF CopyInv, Copied, Building
<1>4. CASE ReadPending
  <2>1. /\ pending' = {[id |-> id, height |-> reservations[id].btc_initial.height] :
                          id \in {r \in Ids : IsPending(reservations[r])}}
        /\ pc' = "headers" /\ UNCHANGED reservations
    BY <1>4 DEF ReadPending
  <2>2. \A p \in pending' : \A h : PaidAt(p.id, h)' => h = p.height
    BY <2>1 DEF PaidAt
  <2> QED BY <2>1, <2>2 DEF CopyInv, Copied, Building
<1>5. ASSUME NEW p \in pending, SelectWindow(p) PROVE CopyInv'
  <2>1. PICK lo \in heights, hi \in heights \union {MinConfirmationHeight(p)} :
           /\ IsSafeHeight(lo, p) /\ IsConfirmationHeight(hi, p)
           /\ work' = [id |-> p.id, safe |-> lo, confirmation |-> hi, blocks |-> {}]
    BY <1>5 DEF SelectWindow
  <2>2. p.height \in Nat /\ heights \subseteq Nat
    BY DEF TypeOK
  <2>3. lo < p.height /\ MinConfirmationHeight(p) <= hi
    BY <2>1, <2>2 DEF IsSafeHeight, IsConfirmationHeight, MinConfirmationHeight
  <2>4. PICK s \in sifted : s.height = p.height /\ Pays(s, p.id)
    BY DEF SeenInv, PaidIn
  <2>5. /\ pc' = "window" /\ pending' = pending \ {p} /\ Confirmed(p)
        /\ UNCHANGED <<reservations, analyzed_height, sifted>>
    BY <1>5 DEF SelectWindow
  <2>6. \A id, h : PaidAt(id, h)' => PaidAt(id, h)
    BY <1>b, <2>5
  <2>7. \A id, h : id = work'.id /\ PaidAt(id, h)' => h = s.height
    BY <2>1, <2>4, <2>6 DEF CopyInv
  <2>8. BuiltAround(s)'
    BY <2>1, <2>3, <2>4, <2>5, <2>7
    DEF BuiltAround, Confirmed, MinConfirmationHeight, Pays
  <2>9. \A q \in pending' : \A h : PaidAt(q.id, h)' => h = q.height
    BY <2>5, <2>6 DEF CopyInv
  <2> QED BY <2>4, <2>5, <2>8, <2>9 DEF CopyInv, Copied
<1>6. ASSUME NEW h \in DOMAIN chain, FetchWindowBlock(h) PROVE CopyInv'
  <2>1. /\ UNCHANGED <<work.id, work.safe, work.confirmation>>
        /\ pc \in Building /\ pc' \in Building
        /\ UNCHANGED <<reservations, analyzed_height, sifted, pending>>
    BY <1>6 DEF FetchWindowBlock, Work, TypeOK, Building
  <2> QED BY <1>a, <1>b, <2>1 DEF Copied, Building
<1>7. CASE CommitWindow
  <2> DEFINE final == [safe |-> work.safe, confirmation |-> work.confirmation,
                       confirmation_hash |-> block, blocks |-> work.blocks]
  <2>1. final \in Final /\ work.id \in Ids
    BY <1>7 DEF CommitWindow, Work, Final, TypeOK
  <2>2. /\ reservations' = update_btc_reservation_final(reservations, work.id, final)
        /\ reservations[work.id] # None
        /\ pc' = "confirm" /\ UNCHANGED <<sifted, pending>>
    BY <1>7 DEF CommitWindow
  <2> HIDE DEF final
  <2>3. /\ \A r \in Ids : r # work.id => reservations'[r] = reservations[r]
        /\ reservations'[work.id].btc_initial = reservations[work.id].btc_initial
    BY <1>0, <2>1, <2>2, StoreInitials
  <2>4. \A r \in Ids : \A h : PaidAt(r, h)' => PaidAt(r, h)
    BY <2>1, <2>2, <2>3 DEF PaidAt
  <2>5. \A p \in pending : p.id \in Ids
    BY DEF TypeOK
  <2> QED BY <2>2, <2>4, <2>5 DEF CopyInv, Copied, Building
<1>8. CASE MissingEntryPanic \/ NoSafeHeightPanic \/ RpcError \/ Stopped
           \/ UNCHANGED vars
  BY <1>8, <1>a, <1>b DEF MissingEntryPanic, NoSafeHeightPanic, RpcError, Stopped,
     CopyInv
<1>9. CASE \/ \E txs \in TxLists : Mine(txs)
           \/ \E depth \in 1 .. MaxReorgDepth, txs \in TxLists : Reorg(depth, txs)
           \/ Tick
           \/ \E id \in Ids : Reserve(id)
           \/ \E h \in HeaderHeights : AddHeader(h)
  <2>1. UNCHANGED <<reservations, listenerSide>>
    BY <1>9 DEF Mine, Reorg, Tick, Reserve, AddHeader
  <2> QED BY <1>a, <1>b, <2>1 DEF CopyInv
<1>10. ASSUME NEW id \in Ids,
              InsertReservation(id) \/ RemoveReservation(id)
       PROVE  CopyInv'
  <2>1. \A r \in Ids : \/ reservations'[r] = reservations[r]
                       \/ reservations'[r] = None \/ reservations'[r].btc_initial = None
    BY <1>0, <1>10 DEF InsertReservation, RemoveReservation, remove, insert, NewMetadata
  <2>2. \A r \in Ids : \A h : PaidAt(r, h)' => PaidAt(r, h)
    BY <2>1 DEF PaidAt
  <2>3. \A p \in pending : p.id \in Ids
    BY DEF TypeOK
  <2>4. pc \in Building => work.id \in Ids
    BY DEF TypeOK, Work, Building
  <2>5. UNCHANGED <<listenerSide>>
    BY <1>10 DEF InsertReservation, RemoveReservation
  <2>6. ASSUME pc \in Building PROVE \E s \in sifted' : BuiltAround(s)'
    <3>1. PICK s \in sifted : BuiltAround(s)
      BY <2>6 DEF CopyInv
    <3>2. \A r, h : r = work'.id /\ PaidAt(r, h)' => h = s.height
      BY <2>2, <2>4, <2>5, <2>6, <3>1 DEF BuiltAround
    <3>3. BuiltAround(s)'
      BY <2>5, <3>1, <3>2 DEF BuiltAround
    <3> QED BY <2>5, <3>3
  <2> QED BY <2>2, <2>3, <2>5, <2>6 DEF CopyInv
<1> QED
  BY <1>1, <1>2, <1>3, <1>4, <1>5, <1>6, <1>7, <1>8, <1>9, <1>10
  DEF Next, Listen, Environment


-----------------------------------------------------------------------------
(* Progress of an entry                                                    *)

\* What one step may do to the entry of id, as ProgressKept has it.
Progress(id) ==
    reservations[id] # None /\ inserts'[id] = inserts[id] =>
        \/ /\ reservations'[id] = None
           /\ IsExpired(reservations[id], now) \/ PaidOnChain(id)
        \/ /\ reservations'[id] # None
           /\ reservations[id].btc_initial # None =>
                 reservations'[id].btc_initial # None
           /\ reservations[id].btc_final # None =>
                 reservations'[id].btc_final = reservations[id].btc_final

\* A payment recorded in an entry takes nothing from it.
LEMMA PaymentProgress ==
    ASSUME TypeOK, NEW id \in Ids, RecordPayment(id), NEW r \in Ids
    PROVE  Progress(r)
<1> DEFINE initial == [height |-> analyzed_height, hash |-> block, txid |-> cursor]
<1>0. reservations \in [Ids -> Metadata \union {None}]
  BY DEF TypeOK
<1>1. initial \in Initial /\ initial # None
  BY NoneAssumption DEF RecordPayment, PaymentFor, Running, TypeOK, Initial
<1>2. /\ reservations[id] # None
      /\ reservations' = update_btc_reservation_initial(reservations, id, initial)
  BY DEF RecordPayment
<1> HIDE DEF initial
<1>3. /\ r # id => reservations'[r] = reservations[r]
      /\ reservations'[id].btc_initial = initial
      /\ reservations'[r] # None => reservations'[r].btc_final = reservations[r].btc_final
  BY <1>0, <1>1, <1>2, StoreFinals, StoreInitials
<1>4. reservations'[id] # None
  <2>1. reservations[id] \in Metadata
    BY <1>0, <1>2
  <2>2. reservations'[id] = [reservations[id] EXCEPT !.btc_initial = initial]
    BY <1>0, <1>2 DEF update_btc_reservation_initial
  <2>3. reservations'[id] \in Metadata
    BY <1>1, <2>1, <2>2 DEF Metadata
  <2> QED BY <2>3, NoneAssumption DEF Metadata
<1> QED BY <1>1, <1>3, <1>4 DEF Progress

\* A window is stored where there is none, whatever was done to the entry since
\* it was copied.
LEMMA CommitProgress ==
    ASSUME TypeOK, ProofInv, CommitWindow, NEW r \in Ids
    PROVE  Progress(r)
<1> DEFINE final == [safe |-> work.safe, confirmation |-> work.confirmation,
                     confirmation_hash |-> block, blocks |-> work.blocks]
<1>0. reservations \in [Ids -> Metadata \union {None}]
  BY DEF TypeOK
<1>1. final \in Final /\ work.id \in Ids /\ pc = "commit"
  BY DEF CommitWindow, Running, Work, Final, TypeOK
<1>2. /\ reservations[work.id] # None
      /\ reservations' = update_btc_reservation_final(reservations, work.id, final)
  BY DEF CommitWindow
<1>3. reservations[work.id].btc_final = None
  BY <1>1, <1>2 DEF ProofInv, PendingUnfinished, Unfinished
<1> HIDE DEF final
<1>4. /\ r # work.id => reservations'[r] = reservations[r]
      /\ reservations'[work.id].btc_initial = reservations[work.id].btc_initial
  BY <1>0, <1>1, <1>2, StoreInitials
<1>5. reservations'[work.id] # None
  <2>1. reservations[work.id] \in Metadata
    BY <1>0, <1>1, <1>2
  <2>2. reservations'[work.id] = [reservations[work.id] EXCEPT !.btc_final = final]
    BY <1>0, <1>1, <1>2 DEF update_btc_reservation_final
  <2>3. reservations'[work.id] \in Metadata
    BY <1>1, <2>1, <2>2 DEF Metadata
  <2> QED BY <2>3, NoneAssumption DEF Metadata
<1> QED BY <1>2, <1>3, <1>4, <1>5 DEF Progress

\* No step takes anything else from an entry.
LEMMA NextProgress ==
    ASSUME TypeOK, ProofInv, [Next]_vars, NEW r \in Ids
    PROVE  Progress(r)
<1> USE DEF vars, envSide, contractSide, bitcoinSide, output, listenerSide
<1>0. reservations \in [Ids -> Metadata \union {None}]
  BY DEF TypeOK
<1>a. ASSUME reservations'[r] = reservations[r] PROVE Progress(r)
  BY <1>a DEF Progress
<1>1. CASE \E id \in Ids : RecordPayment(id)
  BY <1>1, PaymentProgress
<1>2. CASE CommitWindow
  BY <1>2, CommitProgress
<1>3. CASE NextBlock
  <2>1. reservations'[r] = IF reservations[r] # None /\ IsExpired(reservations[r], now)
                           THEN None ELSE reservations[r]
    BY <1>3 DEF NextBlock, drop_expired_reservations
  <2> QED BY <2>1 DEF Progress
<1>4. ASSUME NEW id \in Ids, InsertReservation(id) PROVE Progress(r)
  <2>1. CASE r = id
    <3>1. inserts'[r] = inserts[r] + 1 /\ inserts[r] \in Nat
      BY <1>4, <2>1 DEF InsertReservation, TypeOK
    <3> QED BY <3>1 DEF Progress
  <2>2. CASE r # id
    BY <1>0, <1>4, <1>a, <2>2 DEF InsertReservation, insert
  <2> QED BY <2>1, <2>2
<1>5. ASSUME NEW id \in Ids, RemoveReservation(id) PROVE Progress(r)
  <2>1. CASE r = id
    BY <1>0, <1>5, <2>1 DEF RemoveReservation, remove, Progress
  <2>2. CASE r # id
    BY <1>0, <1>5, <1>a, <2>2 DEF RemoveReservation, remove
  <2> QED BY <2>1, <2>2
<1>6. CASE \/ Connect \/ Poll \/ StartDownload \/ (\E h \in Missing : FetchBlock(h))
           \/ BatchDone \/ ReadInscriptions \/ SkipTx \/ ReadPending \/ ReadHeaders
           \/ (\E p \in pending : SelectWindow(p))
           \/ (\E h \in DOMAIN chain : FetchWindowBlock(h)) \/ ConfirmationsDone
           \/ MissingEntryPanic \/ NoSafeHeightPanic \/ RpcError \/ Stopped
           \/ (\E txs \in TxLists : Mine(txs))
           \/ (\E depth \in 1 .. MaxReorgDepth, txs \in TxLists : Reorg(depth, txs))
           \/ Tick \/ (\E id \in Ids : Reserve(id))
           \/ (\E h \in HeaderHeights : AddHeader(h)) \/ UNCHANGED vars
  <2>1. UNCHANGED reservations
    BY <1>6 DEF Connect, Poll, StartDownload, FetchBlock, BatchDone, ReadInscriptions,
       SkipTx, ReadPending, ReadHeaders, SelectWindow, FetchWindowBlock,
       ConfirmationsDone, MissingEntryPanic, NoSafeHeightPanic, RpcError, Stopped,
       Mine, Reorg, Tick, Reserve, AddHeader
  <2> QED BY <1>a, <2>1
<1> QED
  BY <1>1, <1>2, <1>3, <1>4, <1>5, <1>6 DEF Next, Listen, Environment

\* A reservation leaves the store only when it has expired or its payment is
\* confirmed, a payment is never taken out of its entry again, and a window once
\* stored stays until the entry is replaced: at every line of core.rs that writes
\* to the store, and however old the copy is that the listener writes from.
THEOREM NoProgressLost == Spec => ProgressKept
<1>1. TypeOK /\ ProofInv /\ [Next]_vars => \A id \in Ids : Progress(id)
  BY NextProgress
<1>2. (\A id \in Ids : Progress(id)) =>
         [\A id \in Ids :
             reservations[id] # None /\ inserts'[id] = inserts[id] =>
                \/ /\ reservations'[id] = None
                   /\ IsExpired(reservations[id], now) \/ PaidOnChain(id)
                \/ /\ reservations'[id] # None
                   /\ reservations[id].btc_initial # None =>
                         reservations'[id].btc_initial # None
                   /\ reservations[id].btc_final # None =>
                         reservations'[id].btc_final = reservations[id].btc_final]_vars
  BY DEF Progress
<1> QED BY <1>1, <1>2, InitProof, NextProof, TypeCorrect, PTL DEF Spec, ProgressKept

-----------------------------------------------------------------------------
(* Heights: nothing is higher than the chain gets, and the cursor stops     *)
(* right behind the last transaction.                                       *)

HeightInv ==
    /\ Len(chain) <= MaxHeight /\ analyzed_height <= MaxHeight
    /\ safe_contract_block_hashes \subseteq 1 .. MaxHeight
    /\ \A b \in batch \union sifted : b.height <= MaxHeight
    /\ pc \in {"window", "commit"} => work.confirmation <= MaxHeight
    /\ pc = "sift" => cursor <= Len(block.txs) + 1

\* The chain starts below its bound.
LEMMA InitHeights == Init => HeightInv
  BY DEF Init, HeightInv

\* The chain grows up to its bound, and everything else comes from it.
LEMMA NextHeights ==
    TypeOK /\ WorkInv /\ HeightInv /\ [Next]_vars => HeightInv'
<1> USE DEF vars, envSide, contractSide, bitcoinSide, polling, sifting,
            confirming, output, listenerSide, Running
<1> SUFFICES ASSUME TypeOK, WorkInv, HeightInv, [Next]_vars PROVE HeightInv'
  OBVIOUS
<1>a. ASSUME UNCHANGED <<chain, analyzed_height, safe_contract_block_hashes, sifted, block,
                         cursor, work>>,
             batch' \subseteq batch,
             pc' \in {"window", "commit", "sift"} => pc' = pc
      PROVE  HeightInv'
  BY <1>a DEF HeightInv
<1>1. CASE \/ Connect \/ Poll \/ StartDownload \/ BatchDone \/ ReadHeaders
           \/ MissingEntryPanic \/ NoSafeHeightPanic \/ RpcError \/ Stopped \/ UNCHANGED vars
  BY <1>1, <1>a DEF Connect, Poll, StartDownload, BatchDone, ReadHeaders,
     MissingEntryPanic, NoSafeHeightPanic, RpcError, Stopped
<1>2. ASSUME NEW h \in Missing, FetchBlock(h) PROVE HeightInv'
  <2>1. /\ batch' = batch \union {[height |-> h, block |-> chain[h]]}
        /\ h \in 1 .. Len(chain) /\ Len(chain) \in Nat /\ pc' \in {"block", "download"}
        /\ UNCHANGED <<chain, analyzed_height, safe_contract_block_hashes, sifted>>
    BY <1>2 DEF FetchBlock, TypeOK
  <2>2. h <= MaxHeight
    BY <2>1 DEF HeightInv
  <2> QED BY <2>1, <2>2 DEF HeightInv
<1>3. CASE NextBlock
  <2>1. PICK b \in batch : batch' = batch \ {b} /\ analyzed_height' = b.height
    BY <1>3 DEF NextBlock, NextOfBatch
  <2> QED BY <1>3, <2>1 DEF NextBlock, HeightInv
<1>4. CASE ReadInscriptions
  <2>1. Len(block.txs) \in Nat
    BY <1>4 DEF ReadInscriptions, TypeOK, Block
  <2> QED BY <1>4, <2>1 DEF ReadInscriptions, FirstTx, HeightInv
<1>5. CASE SkipTx \/ \E id \in Ids : RecordPayment(id)
  <2>1. /\ cursor <= Len(block.txs) /\ cursor' = cursor + 1 /\ pc = "sift"
        /\ UNCHANGED <<chain, analyzed_height, safe_contract_block_hashes, sifted, block,
                       batch, pc>>
    BY <1>5 DEF SkipTx, RecordPayment, PaymentFor
  <2>2. Len(block.txs) \in Nat /\ cursor \in Nat
    BY <2>1 DEF TypeOK, Block
  <2> QED BY <2>1, <2>2 DEF HeightInv
<1>6. CASE ReadPending
  BY <1>6 DEF ReadPending, HeightInv
<1>7. ASSUME NEW p \in pending, SelectWindow(p) PROVE HeightInv'
  <2>1. PICK lo \in heights, hi \in heights \union {MinConfirmationHeight(p)} :
           work' = [id |-> p.id, safe |-> lo, confirmation |-> hi, blocks |-> {}]
    BY <1>7 DEF SelectWindow
  <2>2. MinConfirmationHeight(p) <= analyzed_height /\ MinConfirmationHeight(p) \in Nat
    BY <1>7 DEF SelectWindow, Confirmed, MinConfirmationHeight, TypeOK
  <2>3. hi <= MaxHeight
    BY <2>2 DEF HeightInv, TypeOK, WorkInv
  <2> QED BY <1>7, <2>1, <2>3 DEF SelectWindow, HeightInv
<1>8. ASSUME NEW h \in DOMAIN chain, FetchWindowBlock(h) PROVE HeightInv'
  <2>1. work'.confirmation = work.confirmation
    BY <1>8 DEF FetchWindowBlock, TypeOK, Work
  <2> QED BY <1>8, <2>1 DEF FetchWindowBlock, HeightInv
<1>9. CASE CommitWindow \/ ConfirmationsDone
  BY <1>9 DEF CommitWindow, ConfirmationsDone, HeightInv
<1>10. ASSUME NEW txs \in TxLists, Mine(txs) PROVE HeightInv'
  <2>1. Len(chain') = Len(chain) + 1 /\ Len(chain) < MaxHeight /\ Len(chain) \in Nat
    BY <1>10 DEF Mine, TypeOK
  <2> QED BY <1>10, <2>1 DEF Mine, HeightInv
<1>11. ASSUME NEW depth \in 1 .. MaxReorgDepth, NEW txs \in TxLists, Reorg(depth, txs)
       PROVE  HeightInv'
  <2>1. Len(chain) < MaxHeight /\ Len(chain) \in Nat
    BY <1>11 DEF Reorg, TypeOK
  <2> DEFINE first == Len(chain) - depth + 1
             branch(h) == [fork |-> reorgs + 1,
                           parent |-> IF h = first THEN chain[h - 1].fork
                                                   ELSE reorgs + 1,
                           txs |-> IF h = first THEN txs ELSE <<>>]
             longer == [h \in 1 .. Len(chain) + 1 |->
                           IF h < first THEN chain[h] ELSE branch(h)]
  <2>2. chain' = longer
    BY <1>11 DEF Reorg
  <2> HIDE DEF branch, first
  <2>a. Len(longer) = Len(chain) + 1
    BY <2>1
  <2> HIDE DEF longer
  <2>3. Len(chain') = Len(chain) + 1
    BY <2>2, <2>a
  <2> QED BY <1>11, <2>1, <2>3 DEF Reorg, HeightInv
<1>12. CASE \/ Tick \/ (\E id \in Ids : Reserve(id) \/ InsertReservation(id))
            \/ \E id \in Ids : RemoveReservation(id)
  BY <1>12, <1>a DEF Tick, Reserve, InsertReservation, RemoveReservation
<1>13. ASSUME NEW h \in HeaderHeights, AddHeader(h) PROVE HeightInv'
  <2>1. h \in 1 .. Len(chain) /\ Len(chain) \in Nat
    BY <1>13 DEF AddHeader, TypeOK
  <2>2. h \in 1 .. MaxHeight
    BY <2>1 DEF HeightInv
  <2> QED BY <1>13, <2>2 DEF AddHeader, HeightInv
<1> QED
  BY <1>1, <1>2, <1>3, <1>4, <1>5, <1>6, <1>7, <1>8, <1>9, <1>10, <1>11, <1>12, <1>13
  DEF Next, Listen, Environment

-----------------------------------------------------------------------------
(* Where the entries come from: every payment and every window in the store *)
(* is made of blocks that were on the chain, a window of one block for each *)
(* height between two headers of the contract.                              *)

PaymentFromChain(initial) ==
    /\ initial.height \in 1 .. MaxHeight /\ initial.hash \in ChainBlocks
    /\ initial.txid \in DOMAIN initial.hash.txs

OnePerHeight(blocks) ==
    /\ \A b \in blocks : b.block \in ChainBlocks
    /\ \A b, c \in blocks : b.height = c.height => b = c

WindowFromChain(final) ==
    /\ final.safe \in 1 .. MaxHeight /\ final.confirmation \in 1 .. MaxHeight
    /\ final.safe < final.confirmation /\ final.confirmation_hash \in ChainBlocks
    /\ OnePerHeight(final.blocks)
    /\ HeightsOf(final.blocks) = final.safe .. final.confirmation

EntryFromChain(metadata) ==
    metadata # None =>
        /\ metadata.timestamp \in 0 .. MaxTime
        /\ metadata.btc_initial # None => PaymentFromChain(metadata.btc_initial)
        /\ metadata.btc_final # None => WindowFromChain(metadata.btc_final)

OriginInv ==
    /\ reorgs <= MaxReorgs /\ now <= MaxTime
    /\ \A h \in DOMAIN chain : chain[h] \in ChainBlocks
    /\ \A id \in Ids : reserved[id] # None => reserved[id] <= MaxTime
    /\ \A b \in batch : b.height > 0 /\ b.block \in ChainBlocks
    /\ pc \in InBlock => analyzed_height > 0 /\ block \in ChainBlocks
    /\ pc \in Building => OnePerHeight(work.blocks)
    /\ \A id \in Ids : EntryFromChain(reservations[id])

\* Nothing but the first blocks of the chain at the start.
LEMMA InitOrigin == Init => OriginInv
  BY DEF Init, OriginInv, ChainBlocks, EmptyStore, EntryFromChain, InBlock, Building

\* The chain grows by blocks of that kind.
LEMMA ChainGrows ==
    ASSUME TypeOK, OriginInv,
           \/ \E txs \in TxLists : Mine(txs)
           \/ \E depth \in 1 .. MaxReorgDepth, txs \in TxLists : Reorg(depth, txs)
    PROVE  reorgs' <= MaxReorgs /\ \A h \in DOMAIN chain' : chain'[h] \in ChainBlocks
<1>0. reorgs \in 0 .. MaxReorgs /\ chain \in Seq(Block) /\ chain # <<>>
  BY DEF TypeOK, OriginInv
<1>1. ASSUME NEW h \in DOMAIN chain PROVE chain[h] \in ChainBlocks /\ chain[h].fork \in 0 .. MaxReorgs
  BY DEF OriginInv, ChainBlocks
<1>2. ASSUME NEW txs \in TxLists, Mine(txs)
      PROVE  reorgs' <= MaxReorgs /\ \A h \in DOMAIN chain' : chain'[h] \in ChainBlocks
  <2> DEFINE new == [fork |-> reorgs, parent |-> TipFork, txs |-> txs]
  <2>1. chain' = Append(chain, new) /\ reorgs' = reorgs
    BY <1>2 DEF Mine
  <2>2. TipFork \in 0 .. MaxReorgs
    BY <1>0, <1>1 DEF TipFork
  <2>3. new \in ChainBlocks
    BY <1>0, <2>2 DEF ChainBlocks
  <2> HIDE DEF new
  <2> QED BY <1>0, <1>1, <2>1, <2>3
<1>3. ASSUME NEW depth \in 1 .. MaxReorgDepth, NEW txs \in TxLists, Reorg(depth, txs)
      PROVE  reorgs' <= MaxReorgs /\ \A h \in DOMAIN chain' : chain'[h] \in ChainBlocks
  <2> DEFINE first == Len(chain) - depth + 1
             branch(h) == [fork |-> reorgs + 1,
                           parent |-> IF h = first THEN chain[h - 1].fork ELSE reorgs + 1,
                           txs |-> IF h = first THEN txs ELSE <<>>]
  <2>1. /\ chain' = [h \in 1 .. Len(chain) + 1 |-> IF h < first THEN chain[h] ELSE branch(h)]
        /\ reorgs' = reorgs + 1 /\ reorgs < MaxReorgs
        /\ first \in Int /\ first - 1 \in 1 .. Len(chain) /\ Len(chain) \in Nat
    BY <1>0, <1>3 DEF Reorg
  <2>2. reorgs + 1 \in 0 .. MaxReorgs
    BY <1>0, <2>1
  <2>3. chain[first - 1].fork \in 0 .. MaxReorgs
    BY <1>0, <1>1, <2>1
  <2>4. ASSUME NEW h \in 1 .. Len(chain) + 1 PROVE branch(h) \in ChainBlocks
    BY <2>2, <2>3 DEF ChainBlocks
  <2>5. \A h \in 1 .. Len(chain) + 1 : h < first => h \in DOMAIN chain
    BY <1>0, <2>1
  <2> HIDE DEF branch, first
  <2>6. \A h \in 1 .. Len(chain) + 1 : chain'[h] \in ChainBlocks
    BY <1>1, <2>1, <2>4, <2>5
  <2>7. DOMAIN chain' = 1 .. Len(chain) + 1
    BY <2>1
  <2> QED BY <2>1, <2>2, <2>6, <2>7
<1> QED BY <1>2, <1>3

\* What core.rs writes to the store comes from the chain if what it is given does.
LEMMA StoreOrigins ==
    ASSUME NEW store \in [Ids -> Metadata \union {None}], NEW id \in Ids,
           \A r \in Ids : EntryFromChain(store[r])
    PROVE  /\ \A t : \A r \in Ids : EntryFromChain(drop_expired_reservations(store, t)[r])
           /\ \A r \in Ids : EntryFromChain(remove(store, id)[r])
           /\ \A t \in 0 .. MaxTime :
                 \A r \in Ids : EntryFromChain(insert(store, id, NewMetadata(t))[r])
           /\ store[id] # None =>
                 /\ \A initial : PaymentFromChain(initial) =>
                       \A r \in Ids :
                          EntryFromChain(update_btc_reservation_initial(store, id, initial)[r])
                 /\ \A final : WindowFromChain(final) =>
                       \A r \in Ids :
                          EntryFromChain(update_btc_reservation_final(store, id, final)[r])
<1>1. /\ \A t : \A r \in Ids : drop_expired_reservations(store, t)[r] \in {None, store[r]}
      /\ \A r \in Ids : remove(store, id)[r] \in {None, store[r]}
  BY DEF drop_expired_reservations, remove
<1>2. EntryFromChain(None)
  BY DEF EntryFromChain
<1>3. ASSUME NEW t \in 0 .. MaxTime, NEW r \in Ids
      PROVE  EntryFromChain(insert(store, id, NewMetadata(t))[r])
  <2>1. EntryFromChain(NewMetadata(t))
    BY DEF EntryFromChain, NewMetadata
  <2>2. insert(store, id, NewMetadata(t))[r] \in {NewMetadata(t), store[r]}
    BY DEF insert
  <2> QED BY <2>1, <2>2
<1>4. ASSUME store[id] # None, NEW initial, PaymentFromChain(initial), NEW r \in Ids
      PROVE  EntryFromChain(update_btc_reservation_initial(store, id, initial)[r])
  <2> DEFINE new == [store[id] EXCEPT !.btc_initial = initial]
  <2>1. store[id] \in Metadata
    BY <1>4
  <2>2. /\ new.timestamp = store[id].timestamp /\ new.btc_initial = initial
        /\ new.btc_final = store[id].btc_final
    BY <2>1 DEF Metadata
  <2>3. update_btc_reservation_initial(store, id, initial)[r] \in {new, store[r]}
    BY <1>4 DEF update_btc_reservation_initial
  <2> HIDE DEF new
  <2>4. EntryFromChain(new)
    BY <1>4, <2>2 DEF EntryFromChain
  <2> QED BY <2>3, <2>4
<1>5. ASSUME store[id] # None, NEW final, WindowFromChain(final), NEW r \in Ids
      PROVE  EntryFromChain(update_btc_reservation_final(store, id, final)[r])
  <2> DEFINE new == [store[id] EXCEPT !.btc_final = final]
  <2>1. store[id] \in Metadata
    BY <1>5
  <2>2. /\ new.timestamp = store[id].timestamp /\ new.btc_final = final
        /\ new.btc_initial = store[id].btc_initial
    BY <2>1 DEF Metadata
  <2>3. update_btc_reservation_final(store, id, final)[r] \in {new, store[r]}
    BY <1>5 DEF update_btc_reservation_final
  <2> HIDE DEF new
  <2>4. EntryFromChain(new)
    BY <1>5, <2>2 DEF EntryFromChain
  <2> QED BY <2>3, <2>4
<1> QED BY <1>1, <1>2, <1>3, <1>4, <1>5

\* A block that is downloaded for a window was missing in it.
LEMMA WindowBlock ==
    ASSUME TypeOK, OriginInv, NEW h \in DOMAIN chain, FetchWindowBlock(h)
    PROVE  OnePerHeight(work.blocks)'
<1> DEFINE new == [height |-> h, block |-> chain[h]]
<1>1. work \in Work /\ pc = "window"
  BY DEF FetchWindowBlock, Running, TypeOK
<1>2. work'.blocks = work.blocks \union {new}
  BY <1>1 DEF FetchWindowBlock, Work
<1>3. h \notin HeightsOf(work.blocks)
  BY DEF FetchWindowBlock, InWindowFlight, MissingOfWindow
<1>4. new.height = h /\ new.block \in ChainBlocks
  BY DEF OriginInv
<1>5. OnePerHeight(work.blocks)
  BY <1>1 DEF OriginInv, Building
<1> HIDE DEF new
<1> QED BY <1>2, <1>3, <1>4, <1>5 DEF OnePerHeight, HeightsOf

\* Blocks, payments and windows are handed on as they were read.
LEMMA NextOrigin ==
    TypeOK /\ WorkInv /\ HeightInv /\ OriginInv /\ [Next]_vars => OriginInv'
<1> USE DEF vars, envSide, contractSide, bitcoinSide, polling, sifting,
            confirming, output, listenerSide, Running
<1> SUFFICES ASSUME TypeOK, WorkInv, HeightInv, OriginInv, [Next]_vars PROVE OriginInv'
  OBVIOUS
<1>0. /\ reservations \in [Ids -> Metadata \union {None}]
      /\ \A id \in Ids : EntryFromChain(reservations[id])
      /\ now \in 0 .. MaxTime
  BY DEF TypeOK, OriginInv
<1>a. ASSUME UNCHANGED <<chain, reorgs, now, reserved>>,
             batch' \subseteq batch,
             pc' \in InBlock => pc \in InBlock /\ UNCHANGED <<block, analyzed_height>>,
             pc' \in Building => pc \in Building /\ UNCHANGED work,
             \A id \in Ids : EntryFromChain(reservations'[id])
      PROVE  OriginInv'
  BY <1>a DEF OriginInv
<1>1. CASE \/ Connect \/ Poll \/ StartDownload \/ BatchDone
           \/ ReadInscriptions \/ SkipTx \/ ReadPending \/ ReadHeaders \/ ConfirmationsDone
           \/ MissingEntryPanic \/ NoSafeHeightPanic \/ RpcError \/ Stopped
           \/ (\E h \in HeaderHeights : AddHeader(h)) \/ UNCHANGED vars
  BY <1>0, <1>1, <1>a DEF Connect, Poll, StartDownload, BatchDone, ReadInscriptions,
     SkipTx, ReadPending, ReadHeaders, ConfirmationsDone, MissingEntryPanic,
     NoSafeHeightPanic, RpcError, Stopped, AddHeader, InBlock, Building
<1>2. ASSUME NEW h \in Missing, FetchBlock(h) PROVE OriginInv'
  <2>1. /\ batch' = batch \union {[height |-> h, block |-> chain[h]]}
        /\ h \in DOMAIN chain /\ chain[h] \in ChainBlocks /\ h > 0
        /\ pc' \in {"block", "download"}
        /\ UNCHANGED <<chain, reorgs, now, reserved, reservations>>
    BY <1>2 DEF FetchBlock, OriginInv, TypeOK
  <2> QED BY <2>1 DEF OriginInv, InBlock, Building
<1>3. CASE NextBlock
  <2>1. PICK b \in batch : /\ batch' = batch \ {b}
                           /\ analyzed_height' = b.height
                           /\ block' = b.block
    BY <1>3 DEF NextBlock, NextOfBatch
  <2>2. \A id \in Ids : EntryFromChain(reservations'[id])
    BY <1>0, <1>3, StoreOrigins DEF NextBlock
  <2>3. pc' = "inscriptions" /\ UNCHANGED <<chain, reorgs, now, reserved>>
    BY <1>3 DEF NextBlock
  <2> QED BY <2>1, <2>2, <2>3 DEF OriginInv, Building
<1>4. ASSUME NEW id \in Ids, RecordPayment(id) PROVE OriginInv'
  <2> DEFINE initial == [height |-> analyzed_height, hash |-> block, txid |-> cursor]
  <2>1. /\ reservations[id] # None
        /\ reservations' = update_btc_reservation_initial(reservations, id, initial)
        /\ pc = "sift" /\ cursor <= Len(block.txs)
    BY <1>4 DEF RecordPayment, PaymentFor
  <2>2. analyzed_height \in 1 .. MaxHeight /\ block \in ChainBlocks
    BY <2>1 DEF OriginInv, HeightInv, TypeOK, InBlock
  <2>3. cursor \in DOMAIN block.txs
    <3>1. block.txs \in Seq(Tx) /\ cursor \in Nat \ {0}
      BY <2>1 DEF TypeOK, Block
    <3> QED BY <2>1, <3>1
  <2>4. PaymentFromChain(initial)
    BY <2>2, <2>3 DEF PaymentFromChain
  <2> HIDE DEF initial
  <2>5. \A r \in Ids : EntryFromChain(reservations'[r])
    BY <1>0, <2>1, <2>4, StoreOrigins
  <2> QED BY <1>4, <1>a, <2>5 DEF RecordPayment, PaymentFor
<1>5. ASSUME NEW p \in pending, SelectWindow(p) PROVE OriginInv'
  <2>1. /\ work'.blocks = {} /\ pc = "confirm" /\ pc' = "window"
        /\ UNCHANGED <<batch, chain, reorgs, now, reserved, reservations, block, analyzed_height>>
    BY <1>5 DEF SelectWindow
  <2>2. OnePerHeight(work.blocks)'
    BY <2>1 DEF OnePerHeight
  <2> QED BY <2>1, <2>2 DEF OriginInv, InBlock
<1>6. ASSUME NEW h \in DOMAIN chain, FetchWindowBlock(h) PROVE OriginInv'
  <2>1. /\ pc = "window" /\ pc' \in {"window", "commit"}
        /\ UNCHANGED <<batch, chain, reorgs, now, reserved, reservations, block, analyzed_height>>
    BY <1>6 DEF FetchWindowBlock
  <2> QED BY <1>6, <2>1, WindowBlock DEF OriginInv, InBlock
<1>7. CASE CommitWindow
  <2> DEFINE final == [safe |-> work.safe, confirmation |-> work.confirmation,
                       confirmation_hash |-> block, blocks |-> work.blocks]
  <2>1. /\ reservations[work.id] # None /\ pc = "commit" /\ pc' = "confirm"
        /\ reservations' = update_btc_reservation_final(reservations, work.id, final)
    BY <1>7 DEF CommitWindow
  <2>2. work \in Work /\ work.id \in Ids
    BY <2>1 DEF TypeOK, Work
  <2>3. /\ work.safe \in 1 .. MaxHeight /\ work.confirmation \in 1 .. MaxHeight
        /\ work.safe < work.confirmation
    <3>1. /\ work.safe \in safe_contract_block_hashes
          /\ ConfirmsPayment(work.id, work.safe, work.confirmation)
      BY <2>1 DEF WorkInv, Building
    <3>2. PICK s \in sifted :
             work.safe < s.height /\ s.height + CONFIRMATION_HEIGHT_DELTA <= work.confirmation
      BY <3>1 DEF ConfirmsPayment
    <3>3. s.height \in Nat /\ work.safe \in Nat /\ work.confirmation \in Nat
      BY <2>2 DEF TypeOK, Work, BlockAt
    <3>4. work.confirmation <= MaxHeight /\ safe_contract_block_hashes \subseteq 1 .. MaxHeight
      BY <2>1 DEF HeightInv
    <3> QED BY <3>1, <3>2, <3>3, <3>4
  <2>4. /\ HeightsOf(work.blocks) = work.safe .. work.confirmation
        /\ OnePerHeight(work.blocks) /\ block \in ChainBlocks
    BY <2>1 DEF WorkInv, OriginInv, InBlock, Building
  <2>5. WindowFromChain(final)
    BY <2>3, <2>4 DEF WindowFromChain
  <2> HIDE DEF final
  <2>6. \A r \in Ids : EntryFromChain(reservations'[r])
    BY <1>0, <2>1, <2>2, <2>5, StoreOrigins
  <2> QED BY <1>7, <1>a, <2>6 DEF CommitWindow, InBlock, Building
<1>8. CASE \/ \E txs \in TxLists : Mine(txs)
           \/ \E depth \in 1 .. MaxReorgDepth, txs \in TxLists : Reorg(depth, txs)
  <2>1. UNCHANGED <<reservations, batch, block, analyzed_height, work, pc, now, reserved>>
    BY <1>8 DEF Mine, Reorg
  <2> QED BY <1>8, <2>1, ChainGrows DEF OriginInv
<1>9. CASE Tick \/ \E id \in Ids : Reserve(id)
  <2>1. UNCHANGED <<reservations, batch, block, analyzed_height, work, pc, chain, reorgs>>
    BY <1>9 DEF Tick, Reserve
  <2>2. now' <= MaxTime
    BY <1>0, <1>9 DEF Tick, Reserve
  <2>3. \A r \in Ids : reserved'[r] # None => reserved'[r] <= MaxTime
    BY <1>0, <1>9 DEF Tick, Reserve, OriginInv, TypeOK
  <2> QED BY <2>1, <2>2, <2>3 DEF OriginInv
<1>10. ASSUME NEW id \in Ids, InsertReservation(id) PROVE OriginInv'
  <2>1. reserved[id] \in 0 .. MaxTime
    BY <1>10 DEF InsertReservation, OriginInv, TypeOK
  <2>2. \A r \in Ids : EntryFromChain(reservations'[r])
    BY <1>0, <1>10, <2>1, StoreOrigins DEF InsertReservation
  <2> QED BY <1>10, <1>a, <2>2 DEF InsertReservation
<1>11. ASSUME NEW id \in Ids, RemoveReservation(id) PROVE OriginInv'
  <2>1. \A r \in Ids : EntryFromChain(reservations'[r])
    BY <1>0, <1>11, StoreOrigins DEF RemoveReservation
  <2> QED BY <1>11, <1>a, <2>1 DEF RemoveReservation
<1> QED
  BY <1>1, <1>2, <1>3, <1>4, <1>5, <1>6, <1>7, <1>8, <1>9, <1>10, <1>11
  DEF Next, Listen, Environment

=============================================================================
