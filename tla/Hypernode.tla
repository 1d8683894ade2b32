----------------------------- MODULE Hypernode ------------------------------
(***************************************************************************)
(* The node of src/node.rs as one process: the Bitcoin block listener of   *)
(* BlockListener and the two proof queues of ProofPipeline over one store. *)
(* They meet in the store and in the channel of proof requests; the tasks  *)
(* of the queues run between any two turns of the listener, and end with   *)
(* the process when the listener does.                                     *)
(*                                                                         *)
(* Each part was modelled with an environment that stands for the other:   *)
(* no proofs in the store of BlockListener, any payments and windows in    *)
(* the store of ProofPipeline.  The composition implements both.           *)
(***************************************************************************)
EXTENDS BlockListener

CONSTANTS
    concurrency_limit, MaxRequests, MaxFailures, Flashbots      \* of ProofPipeline

ASSUME HypernodeAssumption ==
    /\ concurrency_limit \in Nat \ {0}
    /\ IsFiniteSet(Ids) /\ MaxFailures \in Nat /\ Flashbots \in BOOLEAN
    \* A request for each time a reservation is stored: no bound of its own.
    /\ MaxRequests \in Nat /\ Cardinality(Ids) * MaxInserts <= MaxRequests

\* What the proofs of the node are about, and its entries with such a proof.
NodeProof == [id : Ids, initial : Initial, final : Final]

NodeMetadata == [timestamp : Nat, btc_initial : Initial \union {None},
                 btc_final : Final \union {None}, proof : NodeProof \union {None}]

\* None is nothing else, here either.
ASSUME NodeNoneAssumption ==
    /\ None \notin Ids /\ None \notin NodeProof /\ None \notin NodeMetadata
    /\ None \notin [public : NodeProof, proof : NodeProof]

\* The payments in the blocks there can be, and the windows over such blocks.
ChainPayments ==
    UNION {[height : 1 .. MaxHeight, hash : {b}, txid : DOMAIN b.txs] : b \in ChainBlocks}

WindowsBetween(safe, confirmation) ==
    [safe : {safe}, confirmation : {confirmation}, confirmation_hash : ChainBlocks,
     blocks : {{[height |-> h, block |-> window[h]] : h \in safe .. confirmation} :
                  window \in [safe .. confirmation -> ChainBlocks]}]

ChainWindows ==
    UNION {UNION {WindowsBetween(safe, confirmation) : confirmation \in safe + 1 .. MaxHeight} :
              safe \in 1 .. MaxHeight}

VARIABLES
    gen_channel, acquiring, permits, workers,
    broadcast_channel, broadcaster, item,
    failures, submitted, submissions, repaid

P == INSTANCE ProofPipeline
     WITH requests <- proof_gen_queue, Timestamps <- 0 .. MaxTime,
          Payments <- ChainPayments, Windows <- ChainWindows

genSide == <<gen_channel, acquiring, permits, workers>>
broadcastSide == <<broadcast_channel, broadcaster, item, submitted, submissions>>
queueSide == <<genSide, broadcastSide, failures>>
listenerOnly == <<safe_contract_block_hashes, reserved, tracked_from, bitcoinSide,
                  polling, sifting, confirming, status, pc>>
nodeVars == <<vars, queueSide, repaid>>

NodeInit == Init /\ P!Init

-----------------------------------------------------------------------------
(* The listener's turns, and what they mean to the queues                  *)

\* Variant: the request is not sent.
ProvePaymentUnasked == CommitWindow /\ UNCHANGED <<queueSide, repaid>>

\* ProofGenerationQueue::add, called in the turn that stores the window.
ProvePayment ==
    /\ CommitWindow
    /\ gen_channel' = Append(gen_channel, work.id)
    /\ UNCHANGED <<acquiring, permits, workers, broadcastSide, failures, repaid>>

TakePayment(id) ==
    /\ RecordPayment(id)
    /\ repaid' = IF reservations[id].btc_final # None THEN repaid \union {id} ELSE repaid
    /\ UNCHANGED queueSide

\* Everything else in the node's process and around it.
ListenOnly ==
    \/ Connect \/ Poll \/ StartDownload \/ (\E h \in Missing : FetchBlock(h))
    \/ NextBlock \/ BatchDone
    \/ ReadInscriptions \/ SkipTx \/ ReadPending \/ ReadHeaders
    \/ (\E p \in pending : SelectWindow(p))
    \/ (\E h \in DOMAIN chain : FetchWindowBlock(h))
    \/ ConfirmationsDone \/ MissingEntryPanic \/ NoSafeHeightPanic

NodeListen ==
    \/ ProvePayment
    \/ \E id \in Ids : TakePayment(id)
    \/ ListenOnly /\ UNCHANGED <<queueSide, repaid>>

Around == (RpcError \/ Environment) /\ UNCHANGED <<queueSide, repaid>>

-----------------------------------------------------------------------------
(* The tasks of the queues, as long as the process lives                   *)

Alive(Task) == status = "running" /\ Task /\ UNCHANGED listenerOnly

Consumer == Alive(P!Consume)
ProofWorker(n) == Alive(P!Work(n))
Broadcaster == Alive(P!Broadcast)

NodeStopped == status # "running" /\ UNCHANGED nodeVars

NodeNext ==
    \/ NodeListen \/ Around
    \/ Consumer \/ (\E n \in DOMAIN workers : ProofWorker(n)) \/ Broadcaster
    \/ NodeStopped

NodeSpec == NodeInit /\ [][NodeNext]_nodeVars

\* One runtime polls the listener and every spawned task.
FairNodeSpec ==
    /\ NodeSpec
    /\ WF_nodeVars(NodeListen)
    /\ WF_nodeVars(Consumer) /\ WF_nodeVars(Broadcaster)
    /\ \A n \in 1 .. MaxRequests : WF_nodeVars(ProofWorker(n))

-----------------------------------------------------------------------------
(* Properties                                                              *)

ProofLess(metadata) ==
    IF metadata = None THEN None ELSE [metadata EXCEPT !.proof = None]

L == INSTANCE BlockListener
     WITH reservations <- [id \in Ids |-> ProofLess(reservations[id])]

\* What each part keeps in its variables, with the entries that they share.
NodeTypeOK == L!TypeOK /\ P!TypeOK

\* The listener does to the store what it does in BlockListener, whatever the
\* workers store between two of its turns: a proof is all that they add.
ImplementsListener == L!Spec

\* The queues meet only what ProofPipeline has them meet: a window is stored
\* once, around the payment of its entry, and its request sent with it.
ImplementsPipeline == P!Spec

\* The payment is inside its window, and the window confirms that one payment.
Confirms(final, initial) ==
    /\ final.safe < initial.height
    /\ initial.height + CONFIRMATION_HEIGHT_DELTA <= final.confirmation

\* What is submitted is a payment that its window confirms, and not only one
\* next to another payment that it confirms: the window is built around a copy,
\* put into whatever entry is there by then and read back by the queues, and
\* still belongs to the payment next to it, unless one more payment came when
\* the window was stored already.
SubmissionConfirmed ==
    \A s \in submitted :
        s.public.id \in repaid \/ Confirms(s.public.final, s.public.initial)

\* The payments in the transactions of a block up to one of them.
PaymentsIn(height, txs, last) == {[id |-> txs[i].pays, height |-> height] : i \in 1 .. last}

\* The payments the listener has come across: all of a block that is sifted,
\* and those of the one under analysis up to the cursor.
SeenPayments ==
    LET whole == UNION {PaymentsIn(b.height, b.block.txs, Len(b.block.txs)) : b \in sifted}
    IN  IF pc = "sift" THEN whole \union PaymentsIn(analyzed_height, block.txs, cursor - 1)
                       ELSE whole

Submitted(public) ==
    [id |-> public.id, height |-> public.initial.height,
     safe |-> public.final.safe, confirmation |-> public.final.confirmation]

A == INSTANCE SwapProver
     WITH Heights <- 0 .. MaxHeight,
          headers <- safe_contract_block_hashes,
          payments <- SeenPayments,
          submitted <- {Submitted(s.public) : s \in submitted}

\* From the Bitcoin chain to the contract: what is submitted is a payment that
\* was seen, in a window that confirms one, and once for each time the
\* reservation was stored.
ImplementsSwapProver == A!Spec

\* A payment that is recorded and deep enough is submitted in the end, unless
\* the node or the broadcaster stops, a task fails, the entry leaves the store
\* or is replaced, or there is a second payment.
PaymentEventuallySubmitted ==
    \A id \in Ids, h \in StartHeight .. MaxHeight :
        PaymentRecorded(id, h) /\ h + CONFIRMATION_HEIGHT_DELTA <= Len(chain) ~>
            \/ submissions[id] > 0
            \/ status # "running" \/ broadcaster = "panicked" \/ failures > 0
            \/ inserts[id] > 1 \/ ~PaymentRecorded(id, h)

=============================================================================
