------------------------- MODULE NodePipelineProofs -------------------------
(***************************************************************************)
(* The node meets its queues as ProofPipeline has it, within the bounds    *)
(* that ProofPipeline is given: HypernodeProofs showed it for any payments *)
(* and windows and without a bound on requests.                            *)
(*                                                                         *)
(* BoundInv adds to the invariants of the node where things come from: the *)
(* blocks in payments and windows were on the chain (LB!OriginInv), and    *)
(* the requests under way are those that were sent, at most one for each   *)
(* time a reservation is stored (Asked).  With it a step of the listener   *)
(* is one within the bounds (BoundedListeners), and the types of the       *)
(* bounded pipeline, BP, are those of the node.                            *)
(***************************************************************************)
EXTENDS HypernodeProofs, FiniteSetTheorems

BP == INSTANCE ProofPipelineProofs
      WITH requests <- proof_gen_queue, Timestamps <- 0 .. MaxTime,
           Payments <- ChainPayments, Windows <- ChainWindows

USE DurationAssumption, ListenerAssumption, NoneAssumption, HypernodeAssumption,
    NodeNoneAssumption

\* What is made of blocks of the chain has the type of what is made of blocks.
LEMMA ChainTypes ==
    /\ ChainBlocks \subseteq Block
    /\ ChainPayments \subseteq Initial
    /\ ChainWindows \subseteq Final
<1>1. ASSUME NEW b \in ChainBlocks
      PROVE  b \in Block /\ DOMAIN b.txs \subseteq Nat
  <2>1. /\ b = [fork |-> b.fork, parent |-> b.parent, txs |-> b.txs]
        /\ b.fork \in 0 .. MaxReorgs /\ b.parent \in 0 .. MaxReorgs
        /\ b.txs \in TxLists \/ b.txs = <<>>
    BY DEF ChainBlocks
  <2>2. b.txs \in Seq(Tx)
    <3>1. <<>> \in Seq(Tx)
      OBVIOUS
    <3>2. TxLists \subseteq Seq(Tx)
      BY DEF ListenerAssumption
    <3> QED BY <2>1, <3>1, <3>2
  <2>3. b \in Block
    BY <2>1, <2>2 DEF Block
  <2>4. DOMAIN b.txs \subseteq Nat
    BY <2>2
  <2> QED BY <2>3, <2>4
<1>2. ChainPayments \subseteq Initial
  BY <1>1 DEF ChainPayments, Initial
<1>3. ASSUME NEW safe \in 1 .. MaxHeight, NEW confirmation \in safe + 1 .. MaxHeight,
             NEW final \in WindowsBetween(safe, confirmation)
      PROVE  final \in Final
  <2>1. PICK window \in [safe .. confirmation -> ChainBlocks] :
           final.blocks = {[height |-> h, block |-> window[h]] : h \in safe .. confirmation}
    BY <1>3 DEF WindowsBetween
  <2>2. final.blocks \in SUBSET BlockAt
    BY <1>1, <2>1 DEF BlockAt
  <2> QED BY <1>1, <2>2 DEF WindowsBetween, Final
<1> QED BY <1>1, <1>2, <1>3 DEF ChainWindows

\* A payment found on the chain is one that the chain can have.
LEMMA PaymentOfChain ==
    ASSUME NEW initial \in Initial, LB!PaymentFromChain(initial)
    PROVE  initial \in ChainPayments
  BY DEF Initial, LB!PaymentFromChain, ChainPayments, ChainBlocks, LB!ChainBlocks

\* So is a window, whose blocks are told by their heights.
LEMMA WindowOfChain ==
    ASSUME NEW final \in Final, LB!WindowFromChain(final)
    PROVE  final \in ChainWindows
<1> DEFINE safe == final.safe
           confirmation == final.confirmation
           window == [h \in safe .. confirmation |->
                         (CHOOSE b \in final.blocks : b.height = h).block]
<1>1. /\ safe \in 1 .. MaxHeight /\ confirmation \in safe + 1 .. MaxHeight
      /\ final.confirmation_hash \in ChainBlocks
      /\ LB!HeightsOf(final.blocks) = safe .. confirmation
      /\ LB!OnePerHeight(final.blocks)
  <2>1. LB!ChainBlocks = ChainBlocks
    BY DEF LB!ChainBlocks, ChainBlocks
  <2> QED BY ONLY <2>1, LB!WindowFromChain(final) DEF LB!WindowFromChain
<1>2. final.blocks \subseteq BlockAt
  BY DEF Final
<1>3. ASSUME NEW b \in final.blocks
      PROVE  /\ b.height \in safe .. confirmation
             /\ b = [height |-> b.height, block |-> window[b.height]]
  <2>1. b.height \in safe .. confirmation
    BY <1>1 DEF LB!HeightsOf
  <2>2. (CHOOSE c \in final.blocks : c.height = b.height) = b
    BY <1>1 DEF LB!OnePerHeight
  <2>3. b = [height |-> b.height, block |-> b.block]
    BY <1>2 DEF BlockAt
  <2> QED BY <2>1, <2>2, <2>3
<1>4. ASSUME NEW h \in safe .. confirmation
      PROVE  /\ [height |-> h, block |-> window[h]] \in final.blocks
             /\ window[h] \in ChainBlocks
  <2>1. PICK b \in final.blocks : b.height = h
    BY <1>1 DEF LB!HeightsOf
  <2>2. b.block \in ChainBlocks
    BY <1>1 DEF LB!OnePerHeight, ChainBlocks, LB!ChainBlocks
  <2>3. b = [height |-> h, block |-> window[h]]
    BY <1>3, <2>1
  <2> QED BY <2>2, <2>3
<1>5. window \in [safe .. confirmation -> ChainBlocks]
  BY <1>4
<1> HIDE DEF window
<1>6. final.blocks = {[height |-> h, block |-> window[h]] : h \in safe .. confirmation}
  BY <1>3, <1>4
<1>7. final \in WindowsBetween(safe, confirmation)
  <2>1. final = [safe |-> safe, confirmation |-> confirmation,
                 confirmation_hash |-> final.confirmation_hash, blocks |-> final.blocks]
    BY DEF Final
  <2> DEFINE made == {{[height |-> h, block |-> w[h]] : h \in safe .. confirmation} :
                          w \in [safe .. confirmation -> ChainBlocks]}
  <2>2. final.blocks \in made
    BY <1>5, <1>6
  <2>3. WindowsBetween(safe, confirmation)
          = [safe : {safe}, confirmation : {confirmation}, confirmation_hash : ChainBlocks,
             blocks : made]
    BY DEF WindowsBetween
  <2> HIDE DEF safe, confirmation, made
  <2> QED BY <1>1, <2>1, <2>2, <2>3
<1> QED BY <1>1, <1>7 DEF ChainWindows

-----------------------------------------------------------------------------
(* The invariant                                                           *)

\* The requests that were sent, told apart.
Asked == {ask \in Ids \X (1 .. MaxInserts) : ask[2] <= proof_gen_queue[ask[1]]}

BoundInv ==
    /\ LB!HeightInv /\ LB!OriginInv /\ PB!InsertsInv
    /\ P!Requested = Cardinality(Asked)

AskedFits == IsFiniteSet(Asked) /\ Cardinality(Asked) <= MaxRequests

\* They are no more than the reservations that were stored.
LEMMA AskedBounded == AskedFits
<1>1. IsFiniteSet(1 .. MaxInserts) /\ Cardinality(1 .. MaxInserts) = MaxInserts
  BY FS_Interval
<1>2. /\ IsFiniteSet(Ids \X (1 .. MaxInserts))
      /\ Cardinality(Ids \X (1 .. MaxInserts)) = Cardinality(Ids) * MaxInserts
  BY <1>1, FS_Product
<1>3. IsFiniteSet(Asked) /\ Cardinality(Asked) <= Cardinality(Ids) * MaxInserts
  BY <1>2, FS_Subset DEF Asked
<1>4. /\ Cardinality(Asked) \in Nat /\ Cardinality(Ids) \in Nat
      /\ Cardinality(Ids) * MaxInserts \in Nat
  BY <1>2, <1>3, FS_CardinalityType
<1> QED BY <1>3, <1>4 DEF AskedFits

\* One more is sent.
LEMMA AskedGrows ==
    ASSUME proof_gen_queue \in [Ids -> Nat], NEW id \in Ids,
           proof_gen_queue' = [proof_gen_queue EXCEPT ![id] = @ + 1],
           proof_gen_queue'[id] <= MaxInserts
    PROVE  Cardinality(Asked') = Cardinality(Asked) + 1
<1> DEFINE new == <<id, proof_gen_queue[id] + 1>>
<1>1. /\ proof_gen_queue[id] \in Nat /\ proof_gen_queue'[id] = proof_gen_queue[id] + 1
      /\ \A r \in Ids \ {id} : proof_gen_queue'[r] = proof_gen_queue[r]
  OBVIOUS
<1>2. new \notin Asked
  BY <1>1 DEF Asked
<1>3. Asked' = Asked \union {new}
  <2>1. new \in Ids \X (1 .. MaxInserts) /\ new[1] = id /\ new[2] = proof_gen_queue'[id]
    BY <1>1
  <2>2. ASSUME NEW ask \in Ids \X (1 .. MaxInserts)
        PROVE  ask[2] <= proof_gen_queue'[ask[1]]
                  <=> ask[2] <= proof_gen_queue[ask[1]] \/ ask = new
    <3>1. ask = <<ask[1], ask[2]>> /\ ask[1] \in Ids /\ ask[2] \in Nat
      OBVIOUS
    <3>2. CASE ask[1] = id
      BY <1>1, <3>1, <3>2
    <3>3. CASE ask[1] # id
      BY <1>1, <3>1, <3>3
    <3> QED BY <3>2, <3>3
  <2> HIDE DEF new
  <2> QED BY <2>1, <2>2 DEF Asked
<1> HIDE DEF new
<1> QED BY <1>2, <1>3, AskedBounded, FS_AddElement DEF AskedFits

\* Nothing was sent at the start, and only the first blocks are there.
LEMMA InitBounds == NodeInit => BoundInv
<1> SUFFICES ASSUME NodeInit PROVE BoundInv
  OBVIOUS
<1>1. LB!HeightInv /\ LB!OriginInv
  BY NodeInitParts, LB!InitHeights, LB!InitOrigin
  DEF Tx, LB!Tx, Initial, LB!Initial, Final, LB!Final, Block, LB!Block, BlockAt, LB!BlockAt,
      Metadata, LB!Metadata
<1>2. PB!InsertsInv
  BY NodeInitParts, PB!InitInserts
  DEF Initial, Final, NodeProof, PB!Proof, NodeMetadata, PB!Metadata, PB!Item
<1>3. P!Requested = 0
  BY DEF NodeInit, P!Init, P!Requested
<1>4. Asked = {}
  BY DEF NodeInit, Init, Asked
<1> QED BY <1>1, <1>2, <1>3, <1>4, FS_EmptySet DEF BoundInv

\* Every request that is sent is on its way, and for an entry of its own.
LEMMA BoundStep ==
    NodeInv /\ NodeInv' /\ BoundInv /\ [NodeNext]_nodeVars => BoundInv'
<1> SUFFICES ASSUME NodeInv, NodeInv', BoundInv, [NodeNext]_nodeVars PROVE BoundInv'
  OBVIOUS
<1>1. [LB!Next]_LB!vars /\ [PB!OpenNext]_PB!vars
  BY NodeListens, NodePipes DEF NodeInv, ListenerInv, QueuesInv
<1>2. LB!HeightInv' /\ LB!OriginInv'
  BY <1>1, LB!NextHeights, LB!NextOrigin
  DEF BoundInv, NodeInv, ListenerInv, Tx, LB!Tx, Initial, LB!Initial, Final, LB!Final,
      Block, LB!Block, BlockAt, LB!BlockAt, Metadata, LB!Metadata
<1>3. PB!InsertsInv'
  BY <1>1, PB!InsertsStep
  DEF BoundInv, NodeInv, QueuesInv, Initial, Final, NodeProof, PB!Proof, NodeMetadata,
      PB!Metadata, PB!Item
<1>4. \/ UNCHANGED <<PB!Requested, proof_gen_queue>>
      \/ \E id \in Ids : /\ proof_gen_queue' = [proof_gen_queue EXCEPT ![id] = @ + 1]
                         /\ PB!Requested' = PB!Requested + 1
  BY <1>1, PB!RequestedGrows
  DEF NodeInv, QueuesInv, Initial, Final, NodeProof, PB!Proof, NodeMetadata, PB!Metadata,
      PB!Item
<1>5. P!Requested = PB!Requested /\ P!Requested' = PB!Requested'
  BY DEF P!Requested, PB!Requested
<1>6. CASE UNCHANGED <<PB!Requested, proof_gen_queue>>
  <2>1. Asked' = Asked
    BY <1>6 DEF Asked
  <2> QED BY <1>2, <1>3, <1>5, <1>6, <2>1 DEF BoundInv
<1>7. ASSUME NEW id \in Ids, proof_gen_queue' = [proof_gen_queue EXCEPT ![id] = @ + 1],
             PB!Requested' = PB!Requested + 1
      PROVE  BoundInv'
  <2>1. proof_gen_queue'[id] <= MaxInserts
    <3>1. /\ proof_gen_queue'[id] + (IF LB!Open(id)' THEN 1 ELSE 0) <= inserts'[id]
          /\ inserts'[id] <= MaxInserts
      BY <1>3 DEF NodeInv, ListenerInv, LB!ProofInv, LB!OneProofPerInsert, PB!InsertsInv
    <3>2. proof_gen_queue'[id] \in Nat /\ inserts'[id] \in Nat
      BY DEF NodeInv, ListenerInv, LB!TypeOK
    <3>3. CASE LB!Open(id)'
      BY <3>1, <3>2, <3>3
    <3>4. CASE ~LB!Open(id)'
      BY <3>1, <3>2, <3>4
    <3> QED BY <3>3, <3>4
  <2>2. Cardinality(Asked') = Cardinality(Asked) + 1
    BY <1>7, <2>1, AskedGrows DEF NodeInv, ListenerInv, LB!TypeOK
  <2> QED BY <1>2, <1>3, <1>5, <1>7, <2>2 DEF BoundInv
<1> QED BY <1>4, <1>6, <1>7

\* The node stays within the bounds.
LEMMA NodeBounds == NodeSpec => []BoundInv
  BY NodeInvariant, InitBounds, BoundStep, PTL DEF NodeSpec

-----------------------------------------------------------------------------
(* The steps of the node, to the bounded queues                            *)

EntriesBounded ==
    \A id \in Ids :
        reservations[id] # None =>
            /\ reservations[id].timestamp \in 0 .. MaxTime
            /\ reservations[id].btc_initial \in ChainPayments \union {None}
            /\ reservations[id].btc_final \in ChainWindows \union {None}

\* The parts of an entry are within the bounds.
LEMMA EntryBounded == NodeInv /\ BoundInv => EntriesBounded
<1> SUFFICES ASSUME NodeInv, BoundInv, NEW id \in Ids, reservations[id] # None
             PROVE  /\ reservations[id].timestamp \in 0 .. MaxTime
                    /\ reservations[id].btc_initial \in ChainPayments \union {None}
                    /\ reservations[id].btc_final \in ChainWindows \union {None}
  BY DEF EntriesBounded
<1>1. reservations[id] \in NodeMetadata
  BY DEF NodeInv, QueuesInv, PB!TypeOK, NodeMetadata, NodeProof, PB!Metadata, PB!Proof
<1>2. /\ reservations[id].btc_initial \in Initial \union {None}
      /\ reservations[id].btc_final \in Final \union {None}
  BY <1>1 DEF NodeMetadata
<1>3. LB!EntryFromChain(ProofLess(reservations[id]))
  BY DEF BoundInv, LB!OriginInv
<1>4. /\ reservations[id].timestamp \in 0 .. MaxTime
      /\ reservations[id].btc_initial # None =>
            LB!PaymentFromChain(reservations[id].btc_initial)
      /\ reservations[id].btc_final # None => LB!WindowFromChain(reservations[id].btc_final)
  BY <1>1, <1>3, ProofLessEntry DEF LB!EntryFromChain
<1> QED BY <1>2, <1>4, PaymentOfChain, WindowOfChain

\* What the listeners of the open pipeline do within the bounds is what those
\* of the bounded one do.
LEMMA BoundedListeners ==
    ASSUME NodeInv, NodeInv', BoundInv, BoundInv', [PB!OpenListeners]_PB!vars
    PROVE  [P!Next]_P!vars
<1> USE DEF PB!vars, P!vars, PB!generation, P!generation, PB!broadcast, P!broadcast,
            PB!history, P!history
<1>0. reservations \in Stores
  BY DEF NodeInv, QueuesInv, PB!TypeOK, Stores, NodeMetadata, NodeProof, PB!Metadata, PB!Proof
<1>8. EntriesBounded'
  BY EntryBounded, PTL
<1>9. AskedFits'
  BY AskedBounded, PTL
<1>1. ASSUME NEW id \in Ids, NEW timestamp \in Nat, PB!Insert(id, timestamp)
      PROVE  P!Next
  <2>1. P!Insert(id, timestamp)
    BY <1>1 DEF PB!Insert, P!Insert, PB!insert, P!insert, PB!NewMetadata, P!NewMetadata
  <2>2. reservations'[id] = [timestamp |-> timestamp, btc_initial |-> None,
                             btc_final |-> None, proof |-> None]
    BY <1>0, <1>1 DEF PB!Insert, PB!insert, PB!NewMetadata, Stores
  <2>3. reservations'[id] # None
    <3>1. reservations'[id] \in NodeMetadata
      BY <2>2 DEF NodeMetadata
    <3> QED BY <3>1
  <2>4. timestamp \in 0 .. MaxTime
    BY <1>8, <2>2, <2>3 DEF EntriesBounded
  <2> QED BY <2>1, <2>4 DEF P!Next, P!Listeners
<1>2. ASSUME NEW ids \in SUBSET Ids, PB!Drop(ids)
      PROVE  P!Next
  <2>1. P!Drop(ids)
    BY <1>2 DEF PB!Drop, P!Drop, PB!Tracked, P!Tracked
  <2> QED BY <2>1 DEF P!Next, P!Listeners
<1>3. ASSUME NEW id \in Ids, NEW initial \in Initial, PB!RecordPayment(id, initial)
      PROVE  P!Next
  <2>1. P!RecordPayment(id, initial)
    BY <1>3 DEF PB!RecordPayment, P!RecordPayment, PB!update_btc_reservation_initial,
                P!update_btc_reservation_initial
  <2>2. reservations'[id] # None /\ reservations'[id].btc_initial = initial
    <3>1. reservations[id] \in NodeMetadata
      BY <1>0, <1>3 DEF Stores, PB!RecordPayment
    <3>2. reservations'[id] = [reservations[id] EXCEPT !.btc_initial = initial]
      BY <1>0, <1>3 DEF Stores, PB!RecordPayment, PB!update_btc_reservation_initial
    <3>3. reservations'[id] \in NodeMetadata /\ reservations'[id].btc_initial = initial
      BY <3>1, <3>2 DEF NodeMetadata
    <3> QED BY <3>3
  <2>3. initial \in ChainPayments
    BY <1>8, <2>2 DEF EntriesBounded
  <2> QED BY <2>1, <2>3 DEF P!Next, P!Listeners
<1>4. ASSUME NEW id \in Ids, NEW final \in Final, PB!CommitWindow(id, final),
             PB!RequestProof(id)
      PROVE  P!Next
  <2>1. P!CommitWindow(id, final) /\ P!RequestProof(id)
    BY <1>4 DEF PB!CommitWindow, P!CommitWindow, PB!RequestProof, P!RequestProof,
       PB!update_btc_reservation_final, P!update_btc_reservation_final, PB!Covers, P!Covers
  <2>2. reservations'[id] # None /\ reservations'[id].btc_final = final
    <3>1. reservations[id] \in NodeMetadata
      BY <1>0, <1>4 DEF Stores, PB!CommitWindow
    <3>2. reservations'[id] = [reservations[id] EXCEPT !.btc_final = final]
      BY <1>0, <1>4 DEF Stores, PB!CommitWindow, PB!update_btc_reservation_final
    <3>3. reservations'[id] \in NodeMetadata /\ reservations'[id].btc_final = final
      BY <3>1, <3>2 DEF NodeMetadata
    <3> QED BY <3>3
  <2>3. final \in ChainWindows
    BY <1>8, <2>2 DEF EntriesBounded
  <2>4. P!Requested < MaxRequests
    <3>1. /\ gen_channel \in Seq(Ids) /\ Len(gen_channel) \in Nat /\ Len(workers) \in Nat
          /\ gen_channel' = Append(gen_channel, id) /\ UNCHANGED <<acquiring, workers>>
      <4>1. /\ gen_channel \in Seq(Ids) /\ workers \in Seq(PB!Worker)
            /\ acquiring \in Ids \union {None}
        BY DEF NodeInv, QueuesInv, PB!TypeOK
      <4> QED BY <1>4, <4>1 DEF PB!RequestProof
    <3>2. Len(gen_channel') = Len(gen_channel) + 1
      BY <3>1
    <3>3. P!Requested' = P!Requested + 1 /\ P!Requested \in Nat
      BY <3>1, <3>2 DEF P!Requested
    <3> QED BY <1>9, <3>3 DEF BoundInv, AskedFits
  <2> QED BY <2>1, <2>3, <2>4 DEF P!Next, P!Listeners
<1>5. CASE UNCHANGED PB!vars
  BY <1>5
<1> QED BY <1>1, <1>2, <1>3, <1>4, <1>5 DEF PB!OpenListeners

\* Every step of the node is one of its queues as they were modelled.
LEMMA BoundedPipes ==
    NodeInv /\ NodeInv' /\ BoundInv /\ BoundInv' /\ [NodeNext]_nodeVars => [P!Next]_P!vars
<1> SUFFICES ASSUME NodeInv, NodeInv', BoundInv, BoundInv', [NodeNext]_nodeVars
             PROVE  [P!Next]_P!vars
  OBVIOUS
<1>1. CASE NodeListen \/ Around \/ UNCHANGED nodeVars
  BY <1>1, ListenerPipes, BoundedListeners DEF NodeInv, ListenerInv, QueuesInv
<1>2. CASE TasksOnly
  BY <1>2 DEF TasksOnly, Consumer, ProofWorker, Broadcaster, Alive, P!Next
<1> QED BY <1>1, <1>2 DEF NodeNext, NodeStopped, TasksOnly

\* In the node, with the listener at work on the same store, the two queues are
\* those that were modelled alone: what the listener does to them is what their
\* environment does there, a window stored once around its payment and its
\* request sent with it, made of blocks that were on the chain, and no more
\* requests than reservations were stored.
THEOREM NodeQueues == NodeSpec => ImplementsPipeline
<1>1. NodeInit => P!Init
  BY DEF NodeInit
<1> QED BY <1>1, BoundedPipes, NodeInvariant, NodeBounds, PTL
    DEF NodeSpec, ImplementsPipeline, P!Spec

-----------------------------------------------------------------------------
(* The types of the node                                                   *)

\* The instance of the queues in Hypernode, and the one with their proofs, are
\* the same state machine.
LEMMA SamePipeline == (P!Init => BP!Init) /\ ([P!Next]_P!vars => [BP!Next]_BP!vars)
<1> USE DEF P!generation, BP!generation, P!broadcast, BP!broadcast, P!history,
   BP!history, P!vars, BP!vars, P!At, BP!At, P!EntryOf, BP!EntryOf, P!Moved,
   BP!Moved, P!Ends, BP!Ends, P!Covers, BP!Covers, P!Provable, BP!Provable,
   P!PublicInputs, BP!PublicInputs, P!Dropped, BP!Dropped
<1>0. P!Init <=> BP!Init
  BY DEF P!Init, BP!Init, P!EmptyStore, BP!EmptyStore
<1>1. P!Consume <=> BP!Consume
  BY DEF P!Consume, BP!Consume, P!ReceiveRequest, BP!ReceiveRequest,
     P!SpawnWorker, BP!SpawnWorker
<1>2. \A n : P!Work(n) <=> BP!Work(n)
  BY DEF P!Work, BP!Work, P!EntryNotProvable, BP!EntryNotProvable,
     P!PaymentOutsideWindow, BP!PaymentOutsideWindow, P!ProofFails, BP!ProofFails,
     P!ProofMade, BP!ProofMade, P!QueueProof, BP!QueueProof, P!ReadEntry,
     BP!ReadEntry, P!StorePanics, BP!StorePanics, P!StoreProof, BP!StoreProof,
     P!update_proof_data, BP!update_proof_data
<1>3. P!Broadcast <=> BP!Broadcast
  BY DEF P!Broadcast, BP!Broadcast, P!Complete, BP!Complete, P!ContractRefuses,
     BP!ContractRefuses, P!EntryNotComplete, BP!EntryNotComplete, P!EnvelopePanics,
     BP!EnvelopePanics, P!IndexPanics,
     BP!IndexPanics, P!Matches, BP!Matches, P!Mismatch, BP!Mismatch, P!NextEntry,
     BP!NextEntry, P!ReceiveProof, BP!ReceiveProof, P!SubmitProof, BP!SubmitProof,
     P!ValidatePublicInputs, BP!ValidatePublicInputs
<1>4. P!Listeners <=> BP!Listeners
  BY DEF P!Listeners, BP!Listeners, P!CommitWindow, BP!CommitWindow, P!Drop,
     BP!Drop, P!Insert, BP!Insert, P!NewMetadata, BP!NewMetadata, P!RecordPayment,
     BP!RecordPayment, P!RequestProof, BP!RequestProof, P!Requested, BP!Requested,
     P!Tracked, BP!Tracked, P!insert, BP!insert, P!update_btc_reservation_final,
     BP!update_btc_reservation_final, P!update_btc_reservation_initial,
     BP!update_btc_reservation_initial
<1>5. P!Quiet <=> BP!Quiet
  BY DEF P!Quiet, BP!Quiet
<1> QED BY <1>0, <1>1, <1>2, <1>3, <1>4, <1>5 DEF P!Next, BP!Next

\* The values the bounded pipeline is given are not None.
LEMMA BoundedAssumptions ==
    /\ \A p \in ChainPayments : p.height \in Nat
    /\ \A w \in ChainWindows : w.safe \in Nat /\ w.confirmation \in Nat
    /\ 0 .. MaxTime \subseteq Nat
    /\ None \notin ChainPayments /\ None \notin ChainWindows
    /\ None \notin BP!Proof /\ None \notin BP!Metadata /\ None \notin BP!Item
<1>1. BP!Proof \subseteq NodeProof
  BY ChainTypes DEF BP!Proof, NodeProof
<1>2. BP!Metadata \subseteq NodeMetadata
  BY <1>1, ChainTypes DEF BP!Metadata, NodeMetadata
<1>3. BP!Item \subseteq [public : NodeProof, proof : NodeProof]
  BY <1>1 DEF BP!Item
<1> QED BY <1>1, <1>2, <1>3, ChainTypes DEF Initial, Final

\* Whatever listener, workers and broadcaster do to the store they share, each
\* of them finds in it what it expects, and in its own variables what it left.
THEOREM NodeTypesCorrect == NodeSpec => []NodeTypeOK
<1>1. BP!Init => BP!TypeOK
  BY BP!InitTypes, BoundedAssumptions
<1>2. BP!TypeOK /\ [BP!Next]_BP!vars => BP!TypeOK'
  BY BP!TypeStep, BP!BoundOnly, BoundedAssumptions
<1>3. NodeInit => BP!Init
  BY SamePipeline DEF NodeInit
<1>4. NodeInv /\ NodeInv' /\ BoundInv /\ BoundInv' /\ [NodeNext]_nodeVars
         => [BP!Next]_BP!vars
  BY BoundedPipes, SamePipeline
<1>5. NodeInv /\ BP!TypeOK => NodeTypeOK
  <2> SUFFICES ASSUME NodeInv, BP!TypeOK PROVE NodeTypeOK
    OBVIOUS
  <2>1. L!TypeOK
    <3>1. LB!TypeOK
      BY DEF NodeInv, ListenerInv
    <3> QED BY <3>1 DEF LB!TypeOK, L!TypeOK, LB!Metadata, L!Metadata, LB!Initial, L!Initial,
           LB!Final, L!Final, LB!Block, L!Block, LB!BlockAt, L!BlockAt, LB!Tx, L!Tx,
           LB!Work, L!Work
  <2>2. P!TypeOK
    BY DEF BP!TypeOK, P!TypeOK, BP!Metadata, P!Metadata, BP!Proof, P!Proof, BP!Worker,
           P!Worker, BP!Item, P!Item
  <2> QED BY <2>1, <2>2 DEF NodeTypeOK
<1> QED BY <1>1, <1>2, <1>3, <1>4, <1>5, NodeInvariant, NodeBounds, PTL DEF NodeSpec

=============================================================================
