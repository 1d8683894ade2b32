--------------------------- MODULE ProofPipeline ---------------------------
(***************************************************************************)
(* The way of a reservation from the request for its proof to the proof    *)
(* being submitted: ProofGenerationQueue of src/proof_builder.rs and       *)
(* ProofBroadcastQueue of src/proof_broadcast.rs, over the shared store.   *)
(*                                                                         *)
(* Three kinds of tasks run concurrently: the consumer of the generation   *)
(* channel, one worker for each request that has a permit, and the one     *)
(* consumer of the broadcast channel.  A panic ends the task it happens in *)
(* and no other.  The two channels carry nothing but reservation ids; what *)
(* a task knows of the reservation it reads from the store, when its turn  *)
(* comes, so an id may meet another entry than the one it was sent for.    *)
(***************************************************************************)
EXTENDS Store, Sequences, FiniteSets

CONSTANTS
    concurrency_limit,      \* permits of the semaphore
    Payments,               \* what the block listener stores as btc_initial
    Windows,                \* what it stores as btc_final
    Timestamps,             \* of reservations
    Flashbots,              \* are proofs broadcast via Flashbots?
    MaxRequests,            \* requests for a proof
    MaxInserts,             \* how often one reservation is stored
    MaxFailures             \* provers, contract calls and broadcasts that fail

ASSUME PipelineAssumption ==
    /\ concurrency_limit \in Nat \ {0}
    /\ \A p \in Payments : p.height \in Nat
    /\ \A w \in Windows : w.safe \in Nat /\ w.confirmation \in Nat
    /\ Timestamps \subseteq Nat /\ Flashbots \in BOOLEAN
    /\ MaxRequests \in Nat /\ MaxInserts \in Nat /\ MaxFailures \in Nat

\* A proof is what it proves: its public inputs.
Proof == [id : Ids, initial : Payments, final : Windows]

Metadata == [timestamp : Timestamps, btc_initial : Payments \union {None},
             btc_final : Windows \union {None}, proof : Proof \union {None}]

\* A spawned worker: the .await it is at, and what it is proving.
Worker == [id : Ids, pc : {"read", "proving", "store", "queue", "done"},
           proof : Proof \union {None}]

\* What the broadcaster holds: a copy of the entry and of its proof.
Item == [public : Proof, proof : Proof]

ASSUME NoneAssumption ==
    /\ None \notin Payments /\ None \notin Windows /\ None \notin Ids
    /\ None \notin Proof /\ None \notin Metadata /\ None \notin Item

VARIABLES
    reservations,       \* Store.reservations
    gen_channel,        \* requests not yet received
    acquiring,          \* the request whose permit the consumer waits for
    permits,            \* permits of the semaphore that are free
    workers,            \* every worker spawned so far
    broadcast_channel,  \* proofs not yet received
    broadcaster,        \* "receiving", "validating", "sending" or "panicked"
    item,               \* what the broadcaster is working on
    \* the environment
    inserts, failures,
    \* history
    requests,           \* requests sent, per reservation
    submitted,          \* what was submitted to the contract
    submissions,        \* how often, per reservation
    repaid              \* paid again after their window was built

generation == <<gen_channel, acquiring, permits, workers>>
broadcast == <<broadcast_channel, broadcaster, item>>
history == <<requests, submitted, submissions, repaid>>
vars == <<reservations, generation, broadcast, inserts, failures, history>>

Init ==
    /\ reservations = EmptyStore
    /\ gen_channel = <<>> /\ acquiring = None
    /\ permits = concurrency_limit /\ workers = <<>>
    /\ broadcast_channel = <<>> /\ broadcaster = "receiving" /\ item = None
    /\ inserts = [id \in Ids |-> 0] /\ failures = 0
    /\ requests = [id \in Ids |-> 0]
    /\ submitted = {} /\ submissions = [id \in Ids |-> 0]
    /\ repaid = {}

-----------------------------------------------------------------------------
(* consume_task of the generation queue                                    *)

ReceiveRequest ==
    /\ acquiring = None /\ gen_channel # <<>>
    /\ acquiring' = Head(gen_channel)
    /\ gen_channel' = Tail(gen_channel)
    /\ UNCHANGED <<reservations, permits, workers, broadcast, inserts, failures,
                   history>>

\* acquire_owned returns, and a worker is spawned with the permit.
SpawnWorker ==
    /\ acquiring # None /\ permits > 0
    /\ permits' = permits - 1
    /\ workers' = Append(workers, [id |-> acquiring, pc |-> "read", proof |-> None])
    /\ acquiring' = None
    /\ UNCHANGED <<reservations, gen_channel, broadcast, inserts, failures,
                   history>>

-----------------------------------------------------------------------------
(* process_item of the generation queue, in worker n                       *)

At(n, pc) == n \in DOMAIN workers /\ workers[n].pc = pc

EntryOf(n) == reservations[workers[n].id]

Moved(n, pc, proof) ==
    workers' = [workers EXCEPT ![n] = [@ EXCEPT !.pc = pc, !.proof = proof]]

\* Variant: the permit is not dropped.
EndsWithPermit(n) ==
    /\ Moved(n, "done", None)
    /\ UNCHANGED permits

\* Whether it returns, fails or panics, the worker drops its permit.
Ends(n) ==
    /\ Moved(n, "done", None)
    /\ permits' = permits + 1

\* Variant: a window without a payment is taken for granted.
HasWindow(metadata) == metadata # None /\ metadata.btc_final # None

Provable(metadata) ==
    metadata # None /\ metadata.btc_final # None /\ metadata.btc_initial # None

\* What is proved of an entry, and what the contract has proved to it.
PublicInputs(id, metadata) ==
    [id |-> id, initial |-> metadata.btc_initial, final |-> metadata.btc_final]

\* The only look at the entry before the proof is made.
ReadEntry(n) ==
    /\ At(n, "read") /\ Provable(EntryOf(n))
    /\ Moved(n, "proving", PublicInputs(workers[n].id, EntryOf(n)))
    /\ UNCHANGED <<reservations, gen_channel, acquiring, permits, broadcast,
                   inserts, failures, history>>

\* Variant: it waits until the entry is provable.
EntryNotProvableYet(n) ==
    /\ At(n, "read") /\ ~Provable(EntryOf(n))
    /\ UNCHANGED vars

\* Gone, replaced, or without window or payment by now.
EntryNotProvable(n) ==
    /\ At(n, "read") /\ ~Provable(EntryOf(n))
    /\ Ends(n)
    /\ UNCHANGED <<reservations, gen_channel, acquiring, broadcast, inserts,
                   failures, history>>

\* The payment's block is blocks[height - safe]: an index the window has.
Covers(final, initial) == initial.height \in final.safe .. final.confirmation

ProofMade(n) ==
    /\ At(n, "proving") /\ Covers(workers[n].proof.final, workers[n].proof.initial)
    /\ Moved(n, "store", workers[n].proof)
    /\ UNCHANGED <<reservations, gen_channel, acquiring, permits, broadcast,
                   inserts, failures, history>>

\* A payment that is not in the window has no proof.
PaymentOutsideWindow(n) ==
    /\ At(n, "proving") /\ ~Covers(workers[n].proof.final, workers[n].proof.initial)
    /\ Ends(n)
    /\ UNCHANGED <<reservations, gen_channel, acquiring, broadcast, inserts,
                   failures, history>>

\* The circuit rejects the payment, or the prover fails.
ProofFails(n) ==
    /\ At(n, "proving") /\ failures < MaxFailures
    /\ failures' = failures + 1
    /\ Ends(n)
    /\ UNCHANGED <<reservations, gen_channel, acquiring, broadcast, inserts,
                   history>>

\* Whatever entry the id has by now gets the proof.
StoreProof(n) ==
    /\ At(n, "store") /\ EntryOf(n) # None
    /\ reservations' = update_proof_data(reservations, workers[n].id,
                                         workers[n].proof)
    /\ Moved(n, "queue", None)
    /\ UNCHANGED <<gen_channel, acquiring, permits, broadcast, inserts, failures,
                   history>>

\* The unwrap of a missing entry.
StorePanics(n) ==
    /\ At(n, "store") /\ EntryOf(n) = None
    /\ Ends(n)
    /\ UNCHANGED <<reservations, gen_channel, acquiring, broadcast, inserts,
                   failures, history>>

\* Sending fails when the receiver is gone.
QueueProof(n) ==
    /\ At(n, "queue")
    /\ broadcast_channel' = IF broadcaster = "panicked" THEN broadcast_channel
                            ELSE Append(broadcast_channel, workers[n].id)
    /\ Ends(n)
    /\ UNCHANGED <<reservations, gen_channel, acquiring, broadcaster, item,
                   inserts, failures, history>>

-----------------------------------------------------------------------------
(* process_item of the broadcast queue                                     *)

NextEntry == reservations[Head(broadcast_channel)]

Complete(metadata) == Provable(metadata) /\ metadata.proof # None

ReceiveProof ==
    /\ broadcaster = "receiving" /\ broadcast_channel # <<>>
    /\ Complete(NextEntry) /\ Covers(NextEntry.btc_final, NextEntry.btc_initial)
    /\ item' = [public |-> PublicInputs(Head(broadcast_channel), NextEntry),
                proof |-> NextEntry.proof]
    /\ broadcast_channel' = Tail(broadcast_channel)
    /\ broadcaster' = "validating"
    /\ UNCHANGED <<reservations, generation, inserts, failures, history>>

EntryNotComplete ==
    /\ broadcaster = "receiving" /\ broadcast_channel # <<>>
    /\ ~Complete(NextEntry)
    /\ broadcast_channel' = Tail(broadcast_channel)
    /\ UNCHANGED <<reservations, generation, broadcaster, item, inserts, failures,
                   history>>

\* Variant: what the entry lacks is unwrapped.
UnwrapPanics ==
    /\ broadcaster = "receiving" /\ broadcast_channel # <<>>
    /\ Complete(NextEntry) => ~Covers(NextEntry.btc_final, NextEntry.btc_initial)
    /\ broadcaster' = "panicked"
    /\ broadcast_channel' = <<>>
    /\ UNCHANGED <<reservations, generation, item, inserts, failures, history>>

\* blocks.index() outside of the window: the task is over, and with the
\* receiver everything in the channel is gone.
IndexPanics ==
    /\ broadcaster = "receiving" /\ broadcast_channel # <<>>
    /\ Complete(NextEntry) /\ ~Covers(NextEntry.btc_final, NextEntry.btc_initial)
    /\ broadcaster' = "panicked"
    /\ broadcast_channel' = <<>>
    /\ UNCHANGED <<reservations, generation, item, inserts, failures, history>>

\* Variant: only the reservation is compared.
SameReservation(made, public) == made.id = public.id

\* The public inputs of the proof against those the contract builds.
Matches(made, public) == made = public

ValidatePublicInputs ==
    /\ broadcaster = "validating" /\ Matches(item.proof, item.public)
    /\ broadcaster' = "sending"
    /\ UNCHANGED <<reservations, generation, broadcast_channel, item, inserts,
                   failures, history>>

Dropped ==
    /\ broadcaster' = "receiving" /\ item' = None
    /\ UNCHANGED <<reservations, generation, broadcast_channel, inserts, history>>

Mismatch ==
    /\ broadcaster = "validating" /\ ~Matches(item.proof, item.public)
    /\ Dropped
    /\ UNCHANGED failures

\* Variant: sent once more, since the receipt is not waited for.
SubmitProofTwice ==
    /\ broadcaster = "sending"
    /\ submitted' = submitted \union {item}
    /\ submissions' = [submissions EXCEPT ![item.public.id] = @ + 1]
    /\ broadcast_channel' = Append(broadcast_channel, item.public.id)
    /\ broadcaster' = "receiving" /\ item' = None
    /\ UNCHANGED <<reservations, generation, inserts, failures, requests, repaid>>

SubmitProof ==
    /\ broadcaster = "sending"
    /\ submitted' = submitted \union {item}
    /\ submissions' = [submissions EXCEPT ![item.public.id] = @ + 1]
    /\ broadcaster' = "receiving" /\ item' = None
    /\ UNCHANGED <<reservations, generation, broadcast_channel, inserts, failures,
                   requests, repaid>>

\* buildPublicInputs, or the transaction on its way to the chain, returns an
\* error: logged, and no retry.
ContractRefuses ==
    /\ broadcaster \in {"validating", "sending"} /\ failures < MaxFailures
    /\ failures' = failures + 1
    /\ Dropped

\* as_builder().unwrap() on the Flashbots path: what fill() returns is a builder
\* or, when the provider's fillers have signed it already, an envelope, which
\* is no builder.  The task is over before the transaction is sent.
EnvelopePanics ==
    /\ Flashbots /\ broadcaster = "sending"
    /\ broadcaster' = "panicked" /\ item' = None
    /\ broadcast_channel' = <<>>
    /\ UNCHANGED <<reservations, generation, inserts, failures, history>>

-----------------------------------------------------------------------------
(* The listeners: what they do to the store, and the requests they send    *)

\* A reservation enters the store, for the first time or once more.
Insert(id, timestamp) ==
    /\ inserts[id] < MaxInserts
    /\ inserts' = [inserts EXCEPT ![id] = @ + 1]
    /\ reservations' = insert(reservations, id, NewMetadata(timestamp))
    /\ UNCHANGED <<generation, broadcast, failures, history>>

\* It leaves the store: completed, or expired together with others.
Drop(ids) ==
    /\ ids # {} /\ ids \subseteq Tracked(reservations)
    /\ reservations' = [id \in Ids |-> IF id \in ids THEN None ELSE reservations[id]]
    /\ UNCHANGED <<generation, broadcast, inserts, failures, history>>

RecordPayment(id, initial) ==
    /\ reservations[id] # None
    /\ reservations' = update_btc_reservation_initial(reservations, id, initial)
    /\ repaid' = IF reservations[id].btc_final # None THEN repaid \union {id} ELSE repaid
    /\ UNCHANGED <<generation, broadcast, inserts, failures, requests, submitted,
                   submissions>>

\* The entry is the one the window was built for, or a fresh one of the same id.
CommitWindow(id, final) ==
    /\ reservations[id] # None /\ reservations[id].btc_final = None
    /\ reservations[id].btc_initial # None
          => Covers(final, reservations[id].btc_initial)
    /\ reservations' = update_btc_reservation_final(reservations, id, final)

RequestProof(id) ==
    /\ gen_channel' = Append(gen_channel, id)
    /\ requests' = [requests EXCEPT ![id] = @ + 1]
    /\ UNCHANGED <<acquiring, permits, workers, broadcast, inserts, failures,
                   submitted, submissions, repaid>>

\* Nothing more to do, and the listeners are silent.
Quiet ==
    /\ gen_channel = <<>> /\ acquiring = None
    /\ \A n \in DOMAIN workers : workers[n].pc = "done"
    /\ broadcast_channel = <<>> /\ broadcaster \in {"receiving", "panicked"}
    /\ UNCHANGED vars

-----------------------------------------------------------------------------
Consume == ReceiveRequest \/ SpawnWorker

Work(n) ==
    \/ ReadEntry(n) \/ EntryNotProvable(n)
    \/ ProofMade(n) \/ PaymentOutsideWindow(n) \/ ProofFails(n)
    \/ StoreProof(n) \/ StorePanics(n) \/ QueueProof(n)

Broadcast ==
    \/ ReceiveProof \/ EntryNotComplete \/ IndexPanics
    \/ ValidatePublicInputs \/ Mismatch \/ SubmitProof \/ ContractRefuses
    \/ EnvelopePanics

Requested == Len(gen_channel) + Len(workers) + (IF acquiring = None THEN 0 ELSE 1)

Listeners ==
    \/ \E id \in Ids, timestamp \in Timestamps : Insert(id, timestamp)
    \/ \E ids \in SUBSET Ids : Drop(ids)
    \/ \E id \in Ids, initial \in Payments : RecordPayment(id, initial)
    \/ \E id \in Ids, final \in Windows :
          Requested < MaxRequests /\ CommitWindow(id, final) /\ RequestProof(id)

Next ==
    \/ Consume \/ (\E n \in DOMAIN workers : Work(n)) \/ Broadcast
    \/ Listeners \/ Quiet

Spec == Init /\ [][Next]_vars

\* Every task is polled, every proof ends one way or the other, the contract
\* and the provider answer.
FairSpec ==
    /\ Spec
    /\ WF_vars(Consume) /\ WF_vars(Broadcast)
    /\ \A n \in 1 .. MaxRequests : WF_vars(Work(n))

-----------------------------------------------------------------------------
(* Properties                                                              *)

TypeOK ==
    /\ reservations \in [Ids -> Metadata \union {None}]
    /\ gen_channel \in Seq(Ids) /\ acquiring \in Ids \union {None}
    /\ permits \in Nat /\ workers \in Seq(Worker)
    /\ \A n \in DOMAIN workers :
          workers[n].pc \in {"proving", "store"} => workers[n].proof \in Proof
    /\ broadcast_channel \in Seq(Ids)
    /\ broadcaster \in {"receiving", "validating", "sending", "panicked"}
    /\ item \in Item \union {None}
    /\ broadcaster \in {"validating", "sending"} => item \in Item
    /\ inserts \in [Ids -> Nat] /\ failures \in Nat
    /\ requests \in [Ids -> Nat] /\ submissions \in [Ids -> Nat]
    /\ submitted \subseteq Item /\ repaid \subseteq Ids

Busy == {n \in DOMAIN workers : workers[n].pc # "done"}

\* A permit is free or with a live worker, and stays so when workers fail or
\* panic: no more than concurrency_limit proofs are made at a time, and none
\* of the ways a worker ends makes the prover slower for ever.
PermitsConserved == permits + Cardinality(Busy) = concurrency_limit

\* What goes to the contract with a submission is what its proof proves, with
\* a payment inside its window, even if the entry was replaced, paid again or
\* given the proof of an older request since the proof was made.
SubmissionsProved ==
    \A s \in submitted : s.proof = s.public /\ Covers(s.public.final, s.public.initial)

Among(channel, id) == Cardinality({i \in DOMAIN channel : channel[i] = id})

\* How often a reservation is on its way from the request to the contract.
InFlight(id) ==
    Among(gen_channel, id) + (IF acquiring = id THEN 1 ELSE 0)
    + Cardinality({n \in Busy : workers[n].id = id})
    + Among(broadcast_channel, id)
    + (IF item # None /\ item.public.id = id THEN 1 ELSE 0)

\* No request is served twice, on whatever way it ends.
OneSubmissionPerRequest ==
    \A id \in Ids : submissions[id] + InFlight(id) <= requests[id]

\* The broadcaster, on which all submissions depend, is ended by nothing but the
\* proof of a reservation that was paid again after it had its window, or, with
\* Flashbots, the sending of a proof: by no entry that was removed, replaced or
\* left incomplete since the id was queued, and by no other reservation's.
OnlyRepaymentOrEnvelopePanics ==
    [][broadcaster # "panicked" /\ broadcaster' = "panicked" =>
          \/ broadcaster = "receiving" /\ Head(broadcast_channel) \in repaid
          \/ broadcaster = "sending" /\ Flashbots]_vars

\* Every request comes to an end: no permit is waited for in vain.
RequestsEventuallyServed == \A id \in Ids : InFlight(id) > 0 ~> InFlight(id) = 0

\* A reservation whose first window is stored is submitted in the end, unless
\* something failed, the broadcaster panicked, its entry is dropped or replaced,
\* or someone was paid twice.  Other reservations, however many, cannot keep it
\* from that.
PaidEventuallySubmitted ==
    \A id \in Ids :
        Provable(reservations[id]) ~>
            \/ submissions[id] > 0
            \/ failures > 0 \/ repaid # {} \/ broadcaster = "panicked"
            \/ inserts[id] > 1 \/ reservations[id] = None

=============================================================================
