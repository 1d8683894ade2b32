------------------------ MODULE ProofPipelineProofs ------------------------
(***************************************************************************)
(* The proof pipeline for every set of reservations, any number of permits *)
(* and requests, and any payments and windows: its types, the conservation *)
(* of permits, what a submission proves, what ends the broadcaster, and    *)
(* that no request is served twice.                                        *)
(***************************************************************************)
EXTENDS ProofPipeline, FiniteSetTheorems, FunctionTheorems, SequenceTheorems,
        TLAPS

\* The bound on requests is for TLC: nothing below needs it.
OpenListeners ==
    \/ \E id \in Ids, timestamp \in Timestamps : Insert(id, timestamp)
    \/ \E ids \in SUBSET Ids : Drop(ids)
    \/ \E id \in Ids, initial \in Payments : RecordPayment(id, initial)
    \/ \E id \in Ids, final \in Windows : CommitWindow(id, final) /\ RequestProof(id)

OpenNext ==
    \/ Consume \/ (\E n \in DOMAIN workers : Work(n)) \/ Broadcast
    \/ OpenListeners \/ Quiet

\* A step of the bounded pipeline is one of the unbounded.
LEMMA BoundOnly == [Next]_vars => [OpenNext]_vars
  BY DEF Next, OpenNext, Listeners, OpenListeners

\* What the critical sections of core.rs leave in the store is an entry again.
LEMMA StoreTypes ==
  ASSUME NEW store \in [Ids -> Metadata \union {None}], NEW id \in Ids
  PROVE  /\ \A ts \in Timestamps :
               insert(store, id, NewMetadata(ts)) \in [Ids -> Metadata \union {None}]
         /\ store[id] # None =>
               /\ \A initial \in Payments :
                     update_btc_reservation_initial(store, id, initial)
                        \in [Ids -> Metadata \union {None}]
               /\ \A final \in Windows :
                     update_btc_reservation_final(store, id, final)
                        \in [Ids -> Metadata \union {None}]
               /\ \A proof \in Proof :
                     update_proof_data(store, id, proof)
                        \in [Ids -> Metadata \union {None}]
  BY DEF insert, NewMetadata, Metadata, update_btc_reservation_initial,
         update_btc_reservation_final, update_proof_data

\* PublicInputs of an entry with payment and window are those of a proof.
LEMMA ProofType ==
  ASSUME NEW id \in Ids, NEW metadata \in Metadata \union {None}, Provable(metadata)
  PROVE  PublicInputs(id, metadata) \in Proof
  BY DEF Provable, PublicInputs, Proof, Metadata

\* Each task of proof_builder.rs and proof_broadcast.rs, and each listener,
\* leaves values of their types.
LEMMA TypeStep == TypeOK /\ [OpenNext]_vars => TypeOK'
  <1> SUFFICES ASSUME TypeOK, [OpenNext]_vars PROVE TypeOK'
      OBVIOUS
  <1> USE PipelineAssumption, NoneAssumption
  <1>1. CASE ReceiveRequest
      BY <1>1 DEF TypeOK, ReceiveRequest, broadcast, history
  <1>2. CASE SpawnWorker
    <2>1. [id |-> acquiring, pc |-> "read", proof |-> None] \in Worker
        BY <1>2 DEF SpawnWorker, TypeOK, Worker
    <2> QED BY <1>2, <2>1 DEF TypeOK, SpawnWorker, broadcast, history
  <1>3. ASSUME NEW n \in DOMAIN workers, Work(n) PROVE TypeOK'
    <2>a. workers[n] \in Worker
        BY DEF TypeOK
    <2>0. workers[n] \in Worker /\ workers[n].id \in Ids
        BY <2>a DEF Worker
    <2>1. EntryOf(n) \in Metadata \union {None}
        BY <2>0 DEF TypeOK, EntryOf
    <2>2. ASSUME NEW pc \in {"read", "proving", "store", "queue", "done"},
                 NEW proof \in Proof \union {None}, Moved(n, pc, proof),
                 pc \in {"proving", "store"} => proof \in Proof
          PROVE  /\ workers' \in Seq(Worker)
                 /\ \A m \in DOMAIN workers' :
                       workers'[m].pc \in {"proving", "store"} => workers'[m].proof \in Proof
      <3>1. [workers[n] EXCEPT !.pc = pc, !.proof = proof] \in Worker
          BY <2>0 DEF Worker
      <3>2. workers' \in Seq(Worker) /\ DOMAIN workers' = DOMAIN workers
          BY <2>2, <3>1, ExceptSeq DEF TypeOK, Moved
      <3>3. workers'[n].pc = pc /\ workers'[n].proof = proof
          BY <2>0, <2>2 DEF Moved, Worker, TypeOK
      <3>4. \A m \in DOMAIN workers \ {n} : workers'[m] = workers[m]
          BY <2>2 DEF Moved, TypeOK
      <3> QED BY <2>2, <3>2, <3>3, <3>4 DEF TypeOK
    <2>3. CASE ReadEntry(n)
      <3>1. PublicInputs(workers[n].id, EntryOf(n)) \in Proof
          BY <2>0, <2>1, <2>3, ProofType DEF ReadEntry
      <3> QED BY <2>2, <2>3, <3>1 DEF TypeOK, ReadEntry, broadcast, history
    <2>4. CASE EntryNotProvable(n)
        BY <2>2, <2>4 DEF TypeOK, EntryNotProvable, Ends, broadcast, history
    <2>5. CASE ProofMade(n)
        BY <2>0, <2>2, <2>5 DEF TypeOK, ProofMade, At, broadcast, history
    <2>6. CASE PaymentOutsideWindow(n)
        BY <2>2, <2>6 DEF TypeOK, PaymentOutsideWindow, Ends, broadcast, history
    <2>7. CASE ProofFails(n)
        BY <2>2, <2>7 DEF TypeOK, ProofFails, Ends, broadcast, history
    <2>8. CASE StoreProof(n)
      <3>1. reservations' \in [Ids -> Metadata \union {None}]
          BY <2>0, <2>8, StoreTypes DEF TypeOK, StoreProof, At, EntryOf
      <3> QED BY <2>2, <2>8, <3>1 DEF TypeOK, StoreProof, broadcast, history
    <2>9. CASE StorePanics(n)
        BY <2>2, <2>9 DEF TypeOK, StorePanics, Ends, broadcast, history
    <2>10. CASE QueueProof(n)
        BY <2>0, <2>2, <2>10 DEF TypeOK, QueueProof, Ends, history
    <2> QED BY <1>3, <2>3, <2>4, <2>5, <2>6, <2>7, <2>8, <2>9, <2>10 DEF Work
  <1>4. CASE ReceiveProof
    <2>1. Head(broadcast_channel) \in Ids /\ Tail(broadcast_channel) \in Seq(Ids)
        BY <1>4 DEF ReceiveProof, TypeOK
    <2>2. NextEntry \in Metadata /\ Provable(NextEntry) /\ NextEntry.proof \in Proof
        BY <1>4, <2>1 DEF ReceiveProof, TypeOK, NextEntry, Complete, Provable, Metadata
    <2>3. item' \in Item
        BY <1>4, <2>1, <2>2, ProofType DEF ReceiveProof, Item
    <2> QED BY <1>4, <2>1, <2>3 DEF TypeOK, ReceiveProof, generation, history
  <1>5. CASE EntryNotComplete
      BY <1>5 DEF TypeOK, EntryNotComplete, generation, history
  <1>6. CASE IndexPanics
      BY <1>6 DEF TypeOK, IndexPanics, generation, history
  <1>7. CASE ValidatePublicInputs
      BY <1>7 DEF TypeOK, ValidatePublicInputs, generation, history
  <1>8. CASE Mismatch
      BY <1>8 DEF TypeOK, Mismatch, Dropped, generation, history
  <1>9. CASE SubmitProof
    <2>a. item.public.id \in Ids
        BY <1>9 DEF TypeOK, SubmitProof, Item, Proof
    <2>b. /\ submissions \in [Ids -> Nat]
          /\ submissions' = [submissions EXCEPT ![item.public.id] = @ + 1]
        BY <1>9 DEF TypeOK, SubmitProof
    <2>c. submissions[item.public.id] + 1 \in Nat
        BY <2>a, <2>b
    <2>1. submissions' \in [Ids -> Nat]
        BY <2>a, <2>b, <2>c
    <2> QED BY <1>9, <2>1 DEF TypeOK, SubmitProof, generation
  <1>10. CASE ContractRefuses
      BY <1>10 DEF TypeOK, ContractRefuses, Dropped, generation, history
  <1>11. ASSUME NEW id \in Ids, NEW timestamp \in Timestamps, Insert(id, timestamp)
         PROVE  TypeOK'
    <2>1. reservations' \in [Ids -> Metadata \union {None}]
        BY <1>11, StoreTypes DEF TypeOK, Insert
    <2>2. inserts' \in [Ids -> Nat]
        BY <1>11 DEF TypeOK, Insert
    <2> QED BY <1>11, <2>1, <2>2 DEF TypeOK, Insert, generation, broadcast, history
  <1>12. ASSUME NEW ids \in SUBSET Ids, Drop(ids) PROVE TypeOK'
      BY <1>12 DEF TypeOK, Drop, generation, broadcast, history
  <1>13. ASSUME NEW id \in Ids, NEW initial \in Payments, RecordPayment(id, initial)
         PROVE  TypeOK'
      BY <1>13, StoreTypes DEF TypeOK, RecordPayment, generation, broadcast
  <1>14. ASSUME NEW id \in Ids, NEW final \in Windows,
                CommitWindow(id, final), RequestProof(id)
         PROVE  TypeOK'
    <2>1. reservations' \in [Ids -> Metadata \union {None}]
        BY <1>14, StoreTypes DEF TypeOK, CommitWindow
    <2>2. requests' \in [Ids -> Nat]
        BY <1>14 DEF TypeOK, RequestProof
    <2> QED BY <1>14, <2>1, <2>2 DEF TypeOK, RequestProof, broadcast
  <1>15. CASE EnvelopePanics
      BY <1>15 DEF TypeOK, EnvelopePanics, generation, history
  <1>16. CASE UNCHANGED vars
      BY <1>16 DEF TypeOK, vars, generation, broadcast, history
  <1> QED
      BY <1>1, <1>2, <1>3, <1>4, <1>5, <1>6, <1>7, <1>8, <1>9, <1>10, <1>11,
         <1>12, <1>13, <1>14, <1>15, <1>16
      DEF OpenNext, Consume, Broadcast, OpenListeners, Quiet

\* The types hold at the start, with no task doing anything yet.
LEMMA InitTypes == Init => TypeOK
  <1> SUFFICES ASSUME Init PROVE TypeOK
      OBVIOUS
  <1>1. reservations \in [Ids -> Metadata \union {None}]
      BY DEF Init, EmptyStore
  <1>2. /\ requests \in [Ids -> Nat] /\ submissions \in [Ids -> Nat]
        /\ inserts \in [Ids -> Nat]
      BY DEF Init
  <1> QED BY <1>1, <1>2, PipelineAssumption DEF Init, TypeOK

\* The generation queue, the broadcast queue and the store keep their types,
\* and a task holds a proof or an entry whenever its code uses one.
THEOREM TypeCorrect == Spec => []TypeOK
  BY InitTypes, TypeStep, BoundOnly, PTL DEF Spec

-----------------------------------------------------------------------------
(* Permits                                                                 *)

PermitInv == IsFiniteSet(Busy) /\ PermitsConserved

\* A worker that ends gives back one permit and is busy no more.
LEMMA EndsKeepsPermits ==
  ASSUME TypeOK, PermitInv, NEW n \in DOMAIN workers, workers[n].pc # "done", Ends(n)
  PROVE  PermitInv'
  <1>0. workers[n] \in Worker
      BY DEF TypeOK
  <1>1. Busy' = Busy \ {n} /\ n \in Busy
      BY <1>0 DEF Ends, Moved, Busy, TypeOK, Worker
  <1>2. IsFiniteSet(Busy') /\ Cardinality(Busy') = Cardinality(Busy) - 1
      BY <1>1, FS_RemoveElement DEF PermitInv
  <1>3. permits \in Nat /\ Cardinality(Busy) \in Nat /\ permits' = permits + 1
      BY FS_CardinalityType DEF PermitInv, TypeOK, Ends
  <1> QED BY <1>2, <1>3, PipelineAssumption DEF PermitInv, PermitsConserved

\* A worker that goes on, still running, keeps its permit.
LEMMA MovesKeepsPermits ==
  ASSUME TypeOK, PermitInv, NEW n \in DOMAIN workers, workers[n].pc # "done",
         NEW pc, NEW proof, pc # "done", Moved(n, pc, proof), UNCHANGED permits
  PROVE  PermitInv'
  <1>0. workers[n] \in Worker
      BY DEF TypeOK
  <1>1. Busy' = Busy
      BY <1>0 DEF Moved, Busy, TypeOK, Worker
  <1> QED BY <1>1 DEF PermitInv, PermitsConserved

\* The semaphore of proof_builder.rs:90: spawning takes a permit, each of the
\* ways a worker ends returns it, and no other step touches either.
LEMMA PermitStep == TypeOK /\ PermitInv /\ [OpenNext]_vars => PermitInv'
  <1> SUFFICES ASSUME TypeOK, PermitInv, [OpenNext]_vars PROVE PermitInv'
      OBVIOUS
  <1>1. CASE SpawnWorker
    <2>a. workers \in Seq(Worker) /\ permits \in Nat /\ permits > 0
        BY <1>1 DEF TypeOK, SpawnWorker
    <2> DEFINE m == Len(workers) + 1
    <2>b. m \notin Busy /\ Busy' = Busy \union {m}
        BY <1>1, <2>a DEF SpawnWorker, Busy
    <2>1. IsFiniteSet(Busy') /\ Cardinality(Busy') = Cardinality(Busy) + 1
        BY <2>b, FS_AddElement DEF PermitInv
    <2>2. Cardinality(Busy) \in Nat /\ permits' = permits - 1
        BY <1>1, FS_CardinalityType DEF PermitInv, SpawnWorker
    <2> QED BY <2>a, <2>1, <2>2, PipelineAssumption DEF PermitInv, PermitsConserved
  <1>2. ASSUME NEW n \in DOMAIN workers, Work(n) PROVE PermitInv'
    <2>1. CASE ReadEntry(n)
        BY <2>1, MovesKeepsPermits DEF ReadEntry, At
    <2>2. CASE EntryNotProvable(n)
        BY <2>2, EndsKeepsPermits DEF EntryNotProvable, At
    <2>3. CASE ProofMade(n)
        BY <2>3, MovesKeepsPermits DEF ProofMade, At
    <2>4. CASE PaymentOutsideWindow(n)
        BY <2>4, EndsKeepsPermits DEF PaymentOutsideWindow, At
    <2>5. CASE ProofFails(n)
        BY <2>5, EndsKeepsPermits DEF ProofFails, At
    <2>6. CASE StoreProof(n)
        BY <2>6, MovesKeepsPermits DEF StoreProof, At
    <2>7. CASE StorePanics(n)
        BY <2>7, EndsKeepsPermits DEF StorePanics, At
    <2>8. CASE QueueProof(n)
        BY <2>8, EndsKeepsPermits DEF QueueProof, At
    <2> QED BY <1>2, <2>1, <2>2, <2>3, <2>4, <2>5, <2>6, <2>7, <2>8 DEF Work
  <1>3. CASE UNCHANGED <<workers, permits>>
      BY <1>3 DEF PermitInv, PermitsConserved, Busy
  <1> QED
      BY <1>1, <1>2, <1>3
      DEF OpenNext, Consume, ReceiveRequest, Broadcast, OpenListeners, Quiet, vars,
          generation, ReceiveProof, EntryNotComplete, IndexPanics,
          ValidatePublicInputs, Mismatch, SubmitProof, ContractRefuses, Dropped,
          EnvelopePanics, Insert, Drop, RecordPayment, RequestProof

\* Every permit is free at the start.
LEMMA InitPermits == Init => PermitInv
  <1> SUFFICES ASSUME Init PROVE PermitInv
      OBVIOUS
  <1>1. Busy = {}
      BY DEF Init, Busy
  <1> QED BY <1>1, FS_EmptySet, PipelineAssumption
          DEF Init, PermitInv, PermitsConserved

\* However workers end, a permit is free or with one of them: at most
\* concurrency_limit run, and the consumer waits only while that many do.
THEOREM PermitsKept == Spec => []PermitsConserved
  <1>1. PermitInv => PermitsConserved
      BY DEF PermitInv
  <1> QED BY <1>1, InitPermits, TypeCorrect, PermitStep, BoundOnly, PTL DEF Spec

-----------------------------------------------------------------------------
(* What is submitted, and what ends the broadcaster                        *)

\* An entry with payment and window, and the copy of one being broadcast:
\* the payment is inside the window unless there was a second one.
Covered(id, metadata) ==
    Provable(metadata) => \/ Covers(metadata.btc_final, metadata.btc_initial)
                          \/ id \in repaid

BroadcastInv ==
    /\ \A id \in Ids : Covered(id, reservations[id])
    /\ broadcaster \in {"validating", "sending"} =>
          Covers(item.public.final, item.public.initial)
    /\ broadcaster = "sending" => item.proof = item.public
    /\ SubmissionsProved

\* What a step of the store does to the entries decides the first part.
LEMMA EntriesStayCovered ==
  ASSUME TypeOK, BroadcastInv, [OpenNext]_vars
  PROVE  \A id \in Ids : Covered(id, reservations[id])'
  <1> SUFFICES ASSUME NEW r \in Ids PROVE Covered(r, reservations[r])'
      OBVIOUS
  <1> USE PipelineAssumption, NoneAssumption
  <1>0. Covered(r, reservations[r]) /\ reservations[r] \in Metadata \union {None}
      BY DEF BroadcastInv, TypeOK
  <1>1. ASSUME NEW n \in DOMAIN workers, StoreProof(n)
        PROVE  Covered(r, reservations[r])'
    <2>1. /\ reservations[r] = None => reservations'[r] = None
          /\ reservations[r] # None =>
                /\ reservations'[r] # None
                /\ reservations'[r].btc_initial = reservations[r].btc_initial
                /\ reservations'[r].btc_final = reservations[r].btc_final
      <3>1. CASE r = workers[n].id
        <4>1. workers[n].proof \in Proof
            BY <1>1 DEF StoreProof, At, TypeOK
        <4>2. reservations[r] \in Metadata
            BY <1>0, <1>1, <3>1 DEF StoreProof, EntryOf
        <4>3. reservations'[r] = [reservations[r] EXCEPT !.proof = workers[n].proof]
            BY <1>1, <3>1 DEF StoreProof, update_proof_data, TypeOK
        <4> QED BY <4>1, <4>2, <4>3 DEF Metadata
      <3>2. CASE r # workers[n].id
          BY <1>1, <3>2 DEF StoreProof, update_proof_data, TypeOK
      <3> QED BY <3>1, <3>2
    <2>2. repaid' = repaid
        BY <1>1 DEF StoreProof, history
    <2> QED BY <1>0, <2>1, <2>2 DEF Covered, Provable
  <1>2. ASSUME NEW id \in Ids, NEW timestamp \in Timestamps, Insert(id, timestamp)
        PROVE  Covered(r, reservations[r])'
    <2>1. \/ reservations'[r] = reservations[r]
          \/ reservations'[r].btc_final = None
        BY <1>2 DEF Insert, insert, NewMetadata, TypeOK
    <2>2. repaid' = repaid
        BY <1>2 DEF Insert, history
    <2> QED BY <1>0, <2>1, <2>2 DEF Covered, Provable
  <1>3. ASSUME NEW ids \in SUBSET Ids, Drop(ids) PROVE Covered(r, reservations[r])'
      BY <1>0, <1>3 DEF Drop, Covered, Provable, history
  <1>4. ASSUME NEW id \in Ids, NEW initial \in Payments, RecordPayment(id, initial)
        PROVE  Covered(r, reservations[r])'
    <2>1. CASE r # id
      <3>1. reservations'[r] = reservations[r] /\ (r \in repaid => r \in repaid')
          BY <1>4, <2>1 DEF RecordPayment, update_btc_reservation_initial, TypeOK
      <3> QED BY <1>0, <3>1 DEF Covered, Provable
    <2>2. CASE r = id
      <3>1. reservations'[r].btc_final = reservations[r].btc_final
          BY <1>0, <1>4, <2>2
          DEF RecordPayment, update_btc_reservation_initial, TypeOK, Metadata
      <3>2. reservations[r].btc_final # None => r \in repaid'
          BY <1>4, <2>2 DEF RecordPayment
      <3> QED BY <3>1, <3>2 DEF Covered, Provable
    <2> QED BY <2>1, <2>2
  <1>5. ASSUME NEW id \in Ids, NEW final \in Windows,
               CommitWindow(id, final), RequestProof(id)
        PROVE  Covered(r, reservations[r])'
    <2>0. repaid' = repaid
        BY <1>5 DEF RequestProof
    <2>1. CASE r # id
      <3>1. reservations'[r] = reservations[r]
          BY <1>5, <2>1 DEF CommitWindow, update_btc_reservation_final, TypeOK
      <3> QED BY <1>0, <2>0, <3>1 DEF Covered, Provable
    <2>2. CASE r = id
      <3>1. /\ reservations'[r].btc_final = final
            /\ reservations'[r].btc_initial = reservations[r].btc_initial
          BY <1>0, <1>5, <2>2
          DEF CommitWindow, update_btc_reservation_final, TypeOK, Metadata
      <3> QED BY <1>5, <2>2, <3>1 DEF Covered, Provable, CommitWindow
    <2> QED BY <2>1, <2>2
  <1>6. CASE UNCHANGED <<reservations, repaid>>
      BY <1>0, <1>6 DEF Covered, Provable
  <1> QED
      BY <1>1, <1>2, <1>3, <1>4, <1>5, <1>6
      DEF OpenNext, Consume, ReceiveRequest, SpawnWorker, Work, ReadEntry,
          EntryNotProvable, ProofMade, PaymentOutsideWindow, ProofFails,
          StorePanics, QueueProof, Broadcast, ReceiveProof, EntryNotComplete,
          IndexPanics, ValidatePublicInputs, Mismatch, SubmitProof,
          ContractRefuses, EnvelopePanics, Dropped, OpenListeners, Quiet, vars, history

\* process_item of proof_broadcast.rs: the copy is indexed, compared with its
\* proof and only then submitted.
LEMMA BroadcastStep == TypeOK /\ BroadcastInv /\ [OpenNext]_vars => BroadcastInv'
  <1> SUFFICES ASSUME TypeOK, BroadcastInv, [OpenNext]_vars PROVE BroadcastInv'
      OBVIOUS
  <1>0. \A id \in Ids : Covered(id, reservations[id])'
      BY EntriesStayCovered
  <1>1. CASE ReceiveProof
    <2>1. Covers(item'.public.final, item'.public.initial)
        BY <1>1 DEF ReceiveProof, PublicInputs
    <2> QED BY <1>0, <1>1, <2>1
            DEF BroadcastInv, ReceiveProof, SubmissionsProved, history
  <1>2. CASE IndexPanics \/ EnvelopePanics
      BY <1>0, <1>2 DEF BroadcastInv, IndexPanics, EnvelopePanics,
                        SubmissionsProved, history
  <1>3. CASE ValidatePublicInputs
      BY <1>0, <1>3 DEF BroadcastInv, ValidatePublicInputs, Matches,
                        SubmissionsProved, history
  <1>4. CASE SubmitProof
      BY <1>0, <1>4 DEF BroadcastInv, SubmitProof, SubmissionsProved
  <1>5. CASE Mismatch \/ ContractRefuses
      BY <1>0, <1>5 DEF BroadcastInv, Mismatch, ContractRefuses, Dropped,
                        SubmissionsProved, history
  <1>6. ASSUME NEW id \in Ids, NEW initial \in Payments, RecordPayment(id, initial)
        PROVE  BroadcastInv'
      BY <1>0, <1>6 DEF BroadcastInv, RecordPayment, broadcast,
                        SubmissionsProved
  <1>7. CASE UNCHANGED <<broadcaster, item, submitted, repaid>>
      BY <1>0, <1>7 DEF BroadcastInv, SubmissionsProved
  <1> QED
      BY <1>1, <1>2, <1>3, <1>4, <1>5, <1>6, <1>7
      DEF OpenNext, Consume, ReceiveRequest, SpawnWorker, Work, ReadEntry,
          EntryNotProvable, ProofMade, PaymentOutsideWindow, ProofFails,
          StoreProof, StorePanics, QueueProof, Broadcast, EntryNotComplete,
          OpenListeners, Insert, Drop, RequestProof, Quiet, vars, broadcast, history

\* No entry and no submission at the start.
LEMMA InitBroadcast == Init => BroadcastInv
  BY DEF Init, EmptyStore, BroadcastInv, Covered, Provable, SubmissionsProved

\* Whatever happened to the entry while its proof was made, a submission sends
\* a proof of exactly what it claims, for a payment inside the window.
THEOREM SubmittedIsProved == Spec => []SubmissionsProved
  <1>1. BroadcastInv => SubmissionsProved
      BY DEF BroadcastInv
  <1> QED BY <1>1, InitBroadcast, BroadcastStep, TypeCorrect, BoundOnly, PTL DEF Spec

PanicCause ==
    broadcaster # "panicked" /\ broadcaster' = "panicked" =>
        \/ broadcaster = "receiving" /\ Head(broadcast_channel) \in repaid
        \/ broadcaster = "sending" /\ Flashbots

\* A step that ends the broadcaster is one of its two panics, and the first
\* meets an entry whose payment is not in its window.
LEMMA PanicStep == TypeOK /\ BroadcastInv /\ [OpenNext]_vars => PanicCause
  <1> SUFFICES ASSUME TypeOK, BroadcastInv, [OpenNext]_vars,
                      broadcaster # "panicked", broadcaster' = "panicked"
               PROVE  \/ broadcaster = "receiving" /\ Head(broadcast_channel) \in repaid
                      \/ broadcaster = "sending" /\ Flashbots
      BY DEF PanicCause
  <1>1. CASE IndexPanics
    <2>1. Head(broadcast_channel) \in Ids
        BY <1>1 DEF IndexPanics, TypeOK
    <2>2. Covered(Head(broadcast_channel), NextEntry)
        BY <2>1 DEF BroadcastInv, NextEntry
    <2> QED BY <1>1, <2>2 DEF IndexPanics, Covered, Complete
  <1>2. CASE EnvelopePanics
      BY <1>2 DEF EnvelopePanics
  <1>3. IndexPanics \/ EnvelopePanics
      BY DEF OpenNext, Consume, ReceiveRequest, SpawnWorker, Work, ReadEntry,
             EntryNotProvable, ProofMade, PaymentOutsideWindow, ProofFails,
             StoreProof, StorePanics, QueueProof, Broadcast, ReceiveProof,
             EntryNotComplete, ValidatePublicInputs, Mismatch, SubmitProof,
             ContractRefuses, Dropped, OpenListeners, Insert, Drop, RecordPayment,
             RequestProof, Quiet, vars, broadcast
  <1> QED BY <1>1, <1>2, <1>3

\* The one consumer of the broadcast channel dies of two panics only: that of
\* proof_broadcast.rs:164, over a reservation that was paid again after it had
\* its window, and that of evm_indexer.rs:51, when sending via Flashbots.
THEOREM BroadcasterSurvives == Spec => OnlyRepaymentOrEnvelopePanics
  <1>1. TypeOK /\ BroadcastInv /\ [Next]_vars => [PanicCause]_vars
      BY PanicStep, BoundOnly
  <1> QED BY <1>1, InitBroadcast, BroadcastStep, TypeCorrect, BoundOnly, PTL
          DEF Spec, OnlyRepaymentOrEnvelopePanics, PanicCause

-----------------------------------------------------------------------------
(* Each request is served once                                             *)

Places(channel, id) == {i \in DOMAIN channel : channel[i] = id}

\* A channel of the queues is a sequence of ids: what it holds can be counted.
LEMMA PlacesFinite ==
  ASSUME NEW channel \in Seq(Ids), NEW id
  PROVE  IsFiniteSet(Places(channel, id)) /\ Among(channel, id) \in Nat
  <1>1. IsFiniteSet(1 .. Len(channel)) /\ Places(channel, id) \in SUBSET (1 .. Len(channel))
      BY FS_Interval DEF Places
  <1>2. IsFiniteSet(Places(channel, id))
      BY <1>1, FS_Subset
  <1> QED BY <1>2, FS_CardinalityType DEF Among, Places

\* send: one more of what was sent.
LEMMA AmongAppend ==
  ASSUME NEW channel \in Seq(Ids), NEW x \in Ids, NEW id
  PROVE  Among(Append(channel, x), id) = Among(channel, id) + (IF x = id THEN 1 ELSE 0)
  <1> DEFINE m == Len(channel) + 1
  <1>1. Places(Append(channel, x), id) =
            IF x = id THEN Places(channel, id) \union {m} ELSE Places(channel, id)
      BY DEF Places
  <1>2. m \notin Places(channel, id)
      BY DEF Places
  <1>3. IsFiniteSet(Places(channel, id)) /\ Among(channel, id) \in Nat
      BY PlacesFinite
  <1>4. Cardinality(Places(channel, id) \union {m}) = Cardinality(Places(channel, id)) + 1
      BY <1>2, <1>3, FS_AddElement
  <1>5. /\ Among(Append(channel, x), id) = Cardinality(Places(Append(channel, x), id))
        /\ Among(channel, id) = Cardinality(Places(channel, id))
      BY DEF Among, Places
  <1>6. CASE x = id
      BY <1>1, <1>4, <1>5, <1>6
  <1>7. CASE x # id
      BY <1>1, <1>3, <1>5, <1>7
  <1> QED BY <1>6, <1>7

\* recv: one less of what was received.
LEMMA AmongTail ==
  ASSUME NEW channel \in Seq(Ids), channel # <<>>, NEW id
  PROVE  Among(channel, id) = Among(Tail(channel), id) + (IF Head(channel) = id THEN 1 ELSE 0)
  <1> DEFINE rest == Places(Tail(channel), id)
             later == Places(channel, id) \ {1}
             shift == [i \in rest |-> i + 1]
  <1>0. /\ Tail(channel) \in Seq(Ids) /\ Len(Tail(channel)) = Len(channel) - 1
        /\ \A i \in 1 .. Len(Tail(channel)) : Tail(channel)[i] = channel[i + 1]
        /\ Len(channel) \in Nat /\ Head(channel) = channel[1]
        /\ DOMAIN channel = 1 .. Len(channel)
        /\ DOMAIN Tail(channel) = 1 .. Len(Tail(channel))
      BY HeadTailProperties
  <1>1. shift \in Bijection(rest, later)
    <2>1. \A i \in rest : i + 1 \in later
        BY <1>0 DEF Places
    <2>2. \A j \in later : j - 1 \in rest /\ shift[j - 1] = j
        BY <1>0 DEF Places
    <2>3. \A i, j \in rest : shift[i] = shift[j] => i = j
        BY <1>0 DEF Places
    <2> HIDE DEF rest, later
    <2>4. shift \in [rest -> later]
        BY <2>1
    <2>5. shift \in Injection(rest, later)
        BY <2>3, <2>4, Fun_IsInj
    <2>6. \A j \in later : \E i \in rest : shift[i] = j
        BY <2>2
    <2> HIDE DEF shift
    <2>7. shift \in Surjection(rest, later)
        BY <2>4, <2>6, Fun_IsSurj
    <2> QED BY <2>5, <2>7 DEF Bijection
  <1>2. IsFiniteSet(rest) /\ IsFiniteSet(Places(channel, id)) /\ Among(Tail(channel), id) \in Nat
      BY <1>0, PlacesFinite
  <1>3. Cardinality(later) = Cardinality(rest)
      BY <1>1, <1>2, FS_Bijection, Fun_ExistsBij
  <1>4. Cardinality(later) = IF 1 \in Places(channel, id)
                               THEN Cardinality(Places(channel, id)) - 1
                               ELSE Cardinality(Places(channel, id))
      BY <1>2, FS_RemoveElement
  <1>5. 1 \in Places(channel, id) <=> Head(channel) = id
      BY <1>0 DEF Places
  <1>6. /\ Among(Tail(channel), id) = Cardinality(rest)
        /\ Among(channel, id) = Cardinality(Places(channel, id))
      BY DEF Among, Places
  <1>7. Cardinality(Places(channel, id)) \in Nat
      BY <1>2, FS_CardinalityType
  <1> HIDE DEF rest, later, shift
  <1> QED BY <1>3, <1>4, <1>5, <1>6, <1>7

\* The busy workers of a reservation, and the reservations in one place each.
WorkersOf(id) == {n \in Busy : workers[n].id = id}
Acquiring(id) == IF acquiring = id THEN 1 ELSE 0
Broadcasting(id) == IF item # None /\ item.public.id = id THEN 1 ELSE 0

ServedInv == PermitInv /\ OneSubmissionPerRequest
             /\ (broadcaster = "receiving" => item = None)

\* The numbers InFlight adds up are numbers.
LEMMA InFlightTypes ==
  ASSUME TypeOK, PermitInv, NEW id \in Ids
  PROVE  /\ Among(gen_channel, id) \in Nat /\ Acquiring(id) \in Nat
         /\ IsFiniteSet(WorkersOf(id)) /\ Cardinality(WorkersOf(id)) \in Nat
         /\ Among(broadcast_channel, id) \in Nat /\ Broadcasting(id) \in Nat
         /\ submissions[id] \in Nat /\ requests[id] \in Nat
         /\ InFlight(id) = Among(gen_channel, id) + Acquiring(id)
               + Cardinality(WorkersOf(id)) + Among(broadcast_channel, id)
               + Broadcasting(id)
  <1>1. WorkersOf(id) \in SUBSET Busy
      BY DEF WorkersOf
  <1>2. IsFiniteSet(WorkersOf(id)) /\ Cardinality(WorkersOf(id)) \in Nat
      BY <1>1, FS_Subset, FS_CardinalityType DEF PermitInv
  <1>3. Among(gen_channel, id) \in Nat /\ Among(broadcast_channel, id) \in Nat
      BY PlacesFinite DEF TypeOK
  <1> QED BY <1>2, <1>3 DEF TypeOK, InFlight, Acquiring, Broadcasting, WorkersOf

\* A worker that moves on stays the one it was; one that ends is one less of
\* its reservation.
LEMMA WorkersOfMoved ==
  ASSUME TypeOK, PermitInv, NEW n \in DOMAIN workers, workers[n].pc # "done",
         NEW pc, NEW proof, Moved(n, pc, proof), NEW id \in Ids
  PROVE  /\ pc # "done" => WorkersOf(id)' = WorkersOf(id)
         /\ pc = "done" => Cardinality(WorkersOf(id)') = Cardinality(WorkersOf(id))
                              - (IF workers[n].id = id THEN 1 ELSE 0)
  <1>0. workers[n] \in Worker
      BY DEF TypeOK
  <1>1. pc # "done" => WorkersOf(id)' = WorkersOf(id)
      BY <1>0 DEF Moved, WorkersOf, Busy, TypeOK, Worker
  <1>2. CASE pc = "done"
    <2>1. WorkersOf(id)' = WorkersOf(id) \ {n}
        BY <1>0, <1>2 DEF Moved, WorkersOf, Busy, TypeOK, Worker
    <2>2. n \in WorkersOf(id) <=> workers[n].id = id
        BY DEF WorkersOf, Busy
    <2>3. Cardinality(WorkersOf(id) \ {n}) =
              IF n \in WorkersOf(id) THEN Cardinality(WorkersOf(id)) - 1
                                    ELSE Cardinality(WorkersOf(id))
        BY InFlightTypes, FS_RemoveElement
    <2>4. Cardinality(WorkersOf(id)) \in Nat
        BY InFlightTypes
    <2> QED BY <1>2, <2>1, <2>2, <2>3, <2>4
  <1> QED BY <1>1, <1>2

\* From recv to the transaction a request is in one place at a time, and each
\* step moves it on or drops it.
LEMMA ServedStep == TypeOK /\ ServedInv /\ [OpenNext]_vars => ServedInv'
  <1> SUFFICES ASSUME TypeOK, ServedInv, [OpenNext]_vars PROVE ServedInv'
      OBVIOUS
  <1> USE NoneAssumption
  <1>p. PermitInv /\ PermitInv'
      BY PermitStep DEF ServedInv
  <1>i. (broadcaster = "receiving" => item = None)'
      BY DEF ServedInv, OpenNext, Consume, ReceiveRequest, SpawnWorker, Work, ReadEntry,
          EntryNotProvable, ProofMade, PaymentOutsideWindow, ProofFails,
          StoreProof, StorePanics, QueueProof, Broadcast, ReceiveProof,
          EntryNotComplete, IndexPanics, ValidatePublicInputs, Mismatch,
          SubmitProof, ContractRefuses, EnvelopePanics, Dropped, OpenListeners,
          Insert, Drop, RecordPayment, RequestProof, Quiet, vars, broadcast
  <1> SUFFICES ASSUME NEW id \in Ids
               PROVE  submissions'[id] + InFlight(id)' <= requests'[id]
      BY <1>p, <1>i DEF ServedInv, OneSubmissionPerRequest
  <1> DEFINE G == Among(gen_channel, id)
             C == Cardinality(WorkersOf(id))
             B == Among(broadcast_channel, id)
             A == Acquiring(id)
             I == Broadcasting(id)
  <1>0. /\ G \in Nat /\ A \in Nat /\ C \in Nat /\ B \in Nat /\ I \in Nat
        /\ submissions[id] \in Nat /\ requests[id] \in Nat
        /\ submissions[id] + (G + A + C + B + I) <= requests[id]
      BY <1>p, InFlightTypes DEF ServedInv, OneSubmissionPerRequest
  <1>s. InFlight(id)' = G' + A' + C' + B' + I'
      BY DEF InFlight, Acquiring, Broadcasting, WorkersOf
  <1>g. gen_channel' = gen_channel => G' = G
      BY DEF Among
  <1>b. broadcast_channel' = broadcast_channel => B' = B
      BY DEF Among
  <1>a. acquiring' = acquiring => A' = A
      BY DEF Acquiring
  <1>c. workers' = workers => C' = C
      BY DEF WorkersOf, Busy
  <1>t. item' = item => I' = I
      BY DEF Broadcasting
  <1>1. CASE ReceiveRequest
    <2>1. G = G' + A' /\ A = 0
        BY <1>1, AmongTail DEF ReceiveRequest, Acquiring, TypeOK
    <2>2. C' = C /\ B' = B /\ I' = I
        BY <1>1, <1>b, <1>c, <1>t DEF ReceiveRequest, broadcast
    <2>t. gen_channel' \in Seq(Ids)
        BY <1>1 DEF ReceiveRequest, TypeOK
    <2>3. G' \in Nat /\ A' \in Nat
        BY <2>t, PlacesFinite DEF Acquiring
    <2>4. submissions' = submissions /\ requests' = requests
        BY <1>1 DEF ReceiveRequest, history
    <2> HIDE DEF G, A, C, B, I
    <2> QED BY <1>0, <1>s, <2>1, <2>2, <2>3, <2>4
  <1>2. CASE SpawnWorker
    <2> DEFINE m == Len(workers) + 1
    <2>a. workers \in Seq(Worker)
        BY DEF TypeOK
    <2>b. /\ m \notin WorkersOf(id)
          /\ WorkersOf(id)' = IF acquiring = id THEN WorkersOf(id) \union {m}
                                               ELSE WorkersOf(id)
        BY <1>2, <2>a DEF SpawnWorker, WorkersOf, Busy
    <2>c. Cardinality(WorkersOf(id) \union {m}) = C + 1
        BY <1>p, <2>b, InFlightTypes, FS_AddElement
    <2>1. C' = C + A
        BY <1>0, <2>b, <2>c DEF Acquiring
    <2>2. A' = 0
        BY <1>2 DEF SpawnWorker, Acquiring
    <2>3. G' = G /\ B' = B /\ I' = I
        BY <1>2, <1>g, <1>b, <1>t DEF SpawnWorker, broadcast
    <2>4. submissions' = submissions /\ requests' = requests
        BY <1>2 DEF SpawnWorker, history
    <2> HIDE DEF G, A, C, B, I
    <2> QED BY <1>0, <1>s, <2>1, <2>2, <2>3, <2>4
  <1>3. ASSUME NEW n \in DOMAIN workers, Work(n)
        PROVE  submissions'[id] + InFlight(id)' <= requests'[id]
    <2>0. /\ workers[n].pc # "done"
          /\ \E pc, proof : Moved(n, pc, proof)
          /\ ~QueueProof(n) => broadcast_channel' = broadcast_channel
          /\ UNCHANGED <<gen_channel, acquiring, item, submissions, requests>>
        BY <1>3 DEF Work, ReadEntry, EntryNotProvable, ProofMade,
            PaymentOutsideWindow, ProofFails, StoreProof, StorePanics,
            QueueProof, At, Ends, broadcast, history
    <2>1. C' = C \/ C' = C - (IF workers[n].id = id THEN 1 ELSE 0)
        BY <1>p, <2>0, WorkersOfMoved
    <2>2. C' \in Int /\ C' <= C
        BY <1>0, <2>1
    <2>3. G' = G /\ A' = A /\ I' = I
        BY <1>g, <1>a, <1>t, <2>0
    <2>4. CASE ~QueueProof(n)
      <3>1. B' = B
          BY <1>b, <2>0, <2>4
      <3> HIDE DEF G, A, C, B, I
      <3> QED BY <1>0, <1>s, <2>0, <2>2, <2>3, <3>1
    <2>5. CASE QueueProof(n)
      <3>1. C' = C - (IF workers[n].id = id THEN 1 ELSE 0)
          BY <1>p, <2>0, <2>5, WorkersOfMoved DEF QueueProof, Ends
      <3>a. workers[n] \in Worker
          BY DEF TypeOK
      <3>2. workers[n].id \in Ids
          BY <3>a DEF Worker
      <3>3. Among(Append(broadcast_channel, workers[n].id), id) =
                B + (IF workers[n].id = id THEN 1 ELSE 0)
          BY <3>2, AmongAppend DEF TypeOK
      <3>4. B' = B \/ B' = B + (IF workers[n].id = id THEN 1 ELSE 0)
          BY <2>5, <3>3 DEF QueueProof
      <3> HIDE DEF G, A, C, B, I
      <3> QED BY <1>0, <1>s, <2>0, <2>3, <3>1, <3>4
    <2> QED BY <2>4, <2>5
  <1>4. CASE ReceiveProof
    <2>1. B = B' + (IF Head(broadcast_channel) = id THEN 1 ELSE 0)
        BY <1>4, AmongTail DEF ReceiveProof, TypeOK
    <2>2. I = 0 /\ I' <= (IF Head(broadcast_channel) = id THEN 1 ELSE 0) /\ I' \in Nat
        BY <1>4 DEF ServedInv, ReceiveProof, Broadcasting, PublicInputs
    <2>t. broadcast_channel' \in Seq(Ids)
        BY <1>4 DEF ReceiveProof, TypeOK
    <2>3. B' \in Nat
        BY <2>t, PlacesFinite
    <2>4. G' = G /\ A' = A /\ C' = C /\ submissions' = submissions /\ requests' = requests
        BY <1>4, <1>g, <1>a, <1>c DEF ReceiveProof, generation, history
    <2> HIDE DEF G, A, C, B, I
    <2> QED BY <1>0, <1>s, <2>1, <2>2, <2>3, <2>4
  <1>5. CASE EntryNotComplete \/ IndexPanics
    <2>1. B' \in Nat /\ B' <= B
      <3>1. CASE EntryNotComplete
        <4>1. broadcast_channel' \in Seq(Ids)
            BY <3>1 DEF EntryNotComplete, TypeOK
        <4>2. B' \in Nat
            BY <4>1, PlacesFinite
        <4>3. B = B' + (IF Head(broadcast_channel) = id THEN 1 ELSE 0)
            BY <3>1, AmongTail DEF EntryNotComplete, TypeOK
        <4> QED BY <1>0, <4>2, <4>3
      <3>2. CASE IndexPanics
        <4>1. Places(<<>>, id) = {}
            BY DEF Places
        <4>2. B' = 0
            BY <3>2, <4>1, FS_EmptySet DEF IndexPanics, Among, Places
        <4> QED BY <1>0, <4>2
      <3> QED BY <1>5, <3>1, <3>2
    <2>2. G' = G /\ A' = A /\ C' = C /\ I' = I /\ submissions' = submissions /\ requests' = requests
        BY <1>5, <1>g, <1>a, <1>c, <1>t DEF EntryNotComplete, IndexPanics, generation, history
    <2> HIDE DEF G, A, C, B, I
    <2> QED BY <1>0, <1>s, <2>1, <2>2
  <1>6. CASE SubmitProof
    <2>1. /\ item \in Item /\ I' = 0
          /\ submissions'[id] = submissions[id] + I
        BY <1>0, <1>6 DEF SubmitProof, TypeOK, Broadcasting
    <2>2. G' = G /\ A' = A /\ C' = C /\ B' = B /\ requests' = requests
        BY <1>6, <1>g, <1>a, <1>b, <1>c DEF SubmitProof, generation
    <2> HIDE DEF G, A, C, B, I
    <2> QED BY <1>0, <1>s, <2>1, <2>2
  <1>7. CASE Mismatch \/ ContractRefuses
    <2>1. I' = 0
        BY <1>7 DEF Mismatch, ContractRefuses, Dropped, Broadcasting
    <2>2. /\ G' = G /\ A' = A /\ C' = C /\ B' = B
          /\ submissions' = submissions /\ requests' = requests
        BY <1>7, <1>g, <1>a, <1>b, <1>c
        DEF Mismatch, ContractRefuses, Dropped, generation, history
    <2> HIDE DEF G, A, C, B, I
    <2> QED BY <1>0, <1>s, <2>1, <2>2
  <1>8. CASE EnvelopePanics
    <2>1. I' = 0
        BY <1>8 DEF EnvelopePanics, Broadcasting
    <2>2. B' = 0
      <3>1. Places(<<>>, id) = {}
          BY DEF Places
      <3> QED BY <1>8, <3>1, FS_EmptySet DEF EnvelopePanics, Among, Places
    <2>3. G' = G /\ A' = A /\ C' = C /\ submissions' = submissions /\ requests' = requests
        BY <1>8, <1>g, <1>a, <1>c DEF EnvelopePanics, generation, history
    <2> HIDE DEF G, A, C, B, I
    <2> QED BY <1>0, <1>s, <2>1, <2>2, <2>3
  <1>9. ASSUME NEW r \in Ids, RequestProof(r)
        PROVE  submissions'[id] + InFlight(id)' <= requests'[id]
    <2>a. G' = G + (IF r = id THEN 1 ELSE 0)
        BY <1>9, AmongAppend DEF RequestProof, TypeOK
    <2>b. requests'[id] = requests[id] + (IF r = id THEN 1 ELSE 0)
      <3>1. requests \in [Ids -> Nat] /\ requests' = [requests EXCEPT ![r] = @ + 1]
          BY <1>9 DEF RequestProof, TypeOK
      <3>2. CASE r = id
          BY <3>1, <3>2
      <3>3. CASE r # id
          BY <1>0, <3>1, <3>3
      <3> QED BY <3>2, <3>3
    <2>1. /\ G' = G + (IF r = id THEN 1 ELSE 0)
          /\ requests'[id] = requests[id] + (IF r = id THEN 1 ELSE 0)
        BY <2>a, <2>b
    <2>2. A' = A /\ C' = C /\ B' = B /\ I' = I /\ submissions' = submissions
        BY <1>9, <1>a, <1>b, <1>c, <1>t DEF RequestProof, broadcast
    <2> HIDE DEF G, A, C, B, I
    <2> QED BY <1>0, <1>s, <2>1, <2>2
  <1>10. CASE UNCHANGED <<generation, broadcast_channel, item, submissions, requests>>
    <2>1. /\ G' = G /\ A' = A /\ C' = C /\ B' = B /\ I' = I
          /\ submissions' = submissions /\ requests' = requests
        BY <1>10, <1>g, <1>a, <1>b, <1>c, <1>t DEF generation
    <2> HIDE DEF G, A, C, B, I
    <2> QED BY <1>0, <1>s, <2>1
  <1> HIDE DEF G, A, C, B, I
  <1> QED
      BY <1>1, <1>2, <1>3, <1>4, <1>5, <1>6, <1>7, <1>8, <1>9, <1>10
      DEF OpenNext, Consume, Broadcast, OpenListeners, Insert, Drop, RecordPayment,
          ValidatePublicInputs, Quiet, vars, broadcast, history

\* No request has been sent, and none is on its way.
LEMMA InitServed == Init => ServedInv
  <1> SUFFICES ASSUME Init PROVE ServedInv
      OBVIOUS
  <1>1. PermitInv
      BY InitPermits
  <1>2. ASSUME NEW id \in Ids PROVE submissions[id] + InFlight(id) <= requests[id]
    <2>1. Places(<<>>, id) = {} /\ WorkersOf(id) = {}
        BY DEF Init, Places, WorkersOf, Busy
    <2>2. /\ Among(gen_channel, id) = 0 /\ Among(broadcast_channel, id) = 0
          /\ Cardinality(WorkersOf(id)) = 0
        BY <2>1, FS_EmptySet DEF Init, Among, Places
    <2>3. Acquiring(id) = 0 /\ Broadcasting(id) = 0
        BY NoneAssumption DEF Init, Acquiring, Broadcasting
    <2>4. InFlight(id) = 0 + 0 + 0 + 0 + 0
        BY <2>2, <2>3 DEF InFlight, Acquiring, Broadcasting, WorkersOf
    <2> QED BY <2>4 DEF Init
  <1> QED BY <1>1, <1>2 DEF ServedInv, OneSubmissionPerRequest, Init

\* What is being broadcast has a request that no submission has used up.
LEMMA SubmissionRequested ==
  ASSUME TypeOK, ServedInv, item # None, NEW id \in Ids, item.public.id = id
  PROVE  submissions[id] < requests[id]
  <1>1. /\ Among(gen_channel, id) \in Nat /\ Acquiring(id) \in Nat
        /\ Cardinality(WorkersOf(id)) \in Nat
        /\ Among(broadcast_channel, id) \in Nat
        /\ submissions[id] \in Nat /\ requests[id] \in Nat
        /\ InFlight(id) = Among(gen_channel, id) + Acquiring(id)
              + Cardinality(WorkersOf(id)) + Among(broadcast_channel, id)
              + Broadcasting(id)
      BY InFlightTypes DEF ServedInv
  <1>2. Broadcasting(id) = 1
      BY DEF Broadcasting
  <1>3. submissions[id] + InFlight(id) <= requests[id]
      BY DEF ServedInv, OneSubmissionPerRequest
  <1> QED BY <1>1, <1>2, <1>3

\* No request for a proof is submitted twice, whatever fails on the way.
THEOREM ServedOnce == Spec => []OneSubmissionPerRequest
  <1>1. ServedInv => OneSubmissionPerRequest
      BY DEF ServedInv
  <1> QED BY <1>1, InitServed, TypeCorrect, ServedStep, BoundOnly, PTL DEF Spec


-----------------------------------------------------------------------------
(* Requests: one that is sent is in the channel, at the semaphore or with a *)
(* worker, and these three do not lose any.                                 *)

InsertsInv == \A id \in Ids : inserts[id] <= MaxInserts

\* Nothing is stored at the start.
LEMMA InitInserts == Init => InsertsInv
  <1>1. 0 <= MaxInserts
      BY PipelineAssumption
  <1> QED BY <1>1 DEF Init, InsertsInv

\* The guard of Insert is the only bound on what is stored.
LEMMA InsertsStep == TypeOK /\ InsertsInv /\ [OpenNext]_vars => InsertsInv'
  <1> SUFFICES ASSUME TypeOK, InsertsInv, [OpenNext]_vars PROVE InsertsInv'
      OBVIOUS
  <1>1. ASSUME NEW id \in Ids, NEW timestamp \in Timestamps, Insert(id, timestamp)
        PROVE  InsertsInv'
    <2>1. inserts' = [inserts EXCEPT ![id] = @ + 1] /\ inserts[id] < MaxInserts
        BY <1>1 DEF Insert
    <2>2. \A r \in Ids : inserts[r] \in Nat
        BY DEF TypeOK
    <2> QED BY <2>1, <2>2, PipelineAssumption DEF InsertsInv, TypeOK
  <1>2. CASE UNCHANGED inserts
      BY <1>2 DEF InsertsInv
  <1>3. UNCHANGED inserts \/ \E id \in Ids, timestamp \in Timestamps : Insert(id, timestamp)
      BY DEF OpenNext, OpenListeners, Consume, Work, Broadcast, ReceiveRequest, SpawnWorker,
             ReadEntry, EntryNotProvable, ProofMade, PaymentOutsideWindow, ProofFails,
             StoreProof, StorePanics, QueueProof, ReceiveProof, EntryNotComplete,
             IndexPanics, ValidatePublicInputs, Mismatch, SubmitProof, ContractRefuses,
             EnvelopePanics, Dropped, Drop, RecordPayment, CommitWindow, RequestProof, Quiet, vars
  <1> QED BY <1>1, <1>2, <1>3

\* The number of requests the queue has been sent is that of the requests it
\* has, whatever became of them.
LEMMA RequestedGrows ==
  ASSUME TypeOK, [OpenNext]_vars
  PROVE  \/ UNCHANGED <<Requested, requests>>
         \/ \E id \in Ids : /\ requests' = [requests EXCEPT ![id] = @ + 1]
                            /\ Requested' = Requested + 1
  <1>0. /\ gen_channel \in Seq(Ids) /\ Len(gen_channel) \in Nat
        /\ workers \in Seq(Worker) /\ Len(workers) \in Nat
      BY DEF TypeOK
  <1>a. ASSUME UNCHANGED <<gen_channel, acquiring, requests>>, Len(workers') = Len(workers)
        PROVE  UNCHANGED <<Requested, requests>>
      BY <1>a DEF Requested
  <1>1. CASE ReceiveRequest
    <2>1. /\ acquiring = None /\ Len(gen_channel') = Len(gen_channel) - 1
          /\ acquiring' \in Ids /\ UNCHANGED <<workers, requests>>
        BY <1>0, <1>1 DEF ReceiveRequest, history
    <2>2. acquiring' # None
        BY <2>1, NoneAssumption
    <2> QED BY <1>0, <2>1, <2>2 DEF Requested
  <1>2. CASE SpawnWorker
    <2>1. /\ acquiring # None /\ acquiring' = None /\ UNCHANGED <<gen_channel, requests>>
          /\ Len(workers') = Len(workers) + 1
        BY <1>0, <1>2 DEF SpawnWorker, history
    <2> QED BY <1>0, <2>1 DEF Requested
  <1>3. ASSUME NEW n \in DOMAIN workers, Work(n)
        PROVE  UNCHANGED <<Requested, requests>>
    <2>1. UNCHANGED <<gen_channel, acquiring, requests>>
        BY <1>3 DEF Work, ReadEntry, EntryNotProvable, ProofMade, PaymentOutsideWindow,
           ProofFails, StoreProof, StorePanics, QueueProof, history
    <2>2. \E pc, proof : Moved(n, pc, proof)
        BY <1>3 DEF Work, ReadEntry, EntryNotProvable, ProofMade, PaymentOutsideWindow,
           ProofFails, StoreProof, StorePanics, QueueProof, Ends
    <2>3. Len(workers') = Len(workers)
        BY <1>0, <2>2 DEF Moved
    <2> QED BY <1>a, <2>1, <2>3
  <1>4. CASE Broadcast
    <2>1. UNCHANGED <<gen_channel, acquiring, requests, workers>>
        BY <1>4 DEF Broadcast, ReceiveProof, EntryNotComplete, IndexPanics,
           ValidatePublicInputs, Mismatch, SubmitProof, ContractRefuses, Dropped,
           EnvelopePanics, generation, history
    <2> QED BY <1>a, <2>1
  <1>5. ASSUME NEW id \in Ids, RequestProof(id)
        PROVE  /\ requests' = [requests EXCEPT ![id] = @ + 1]
               /\ Requested' = Requested + 1
    <2>1. /\ requests' = [requests EXCEPT ![id] = @ + 1]
          /\ Len(gen_channel') = Len(gen_channel) + 1 /\ UNCHANGED <<acquiring, workers>>
        BY <1>0, <1>5 DEF RequestProof
    <2> QED BY <1>0, <2>1 DEF Requested
  <1>6. CASE \/ \E id \in Ids, timestamp \in Timestamps : Insert(id, timestamp)
             \/ \E ids \in SUBSET Ids : Drop(ids)
             \/ \E id \in Ids, initial \in Payments : RecordPayment(id, initial)
             \/ Quiet \/ UNCHANGED vars
    <2>1. UNCHANGED <<gen_channel, acquiring, requests, workers>>
        BY <1>6 DEF Insert, Drop, RecordPayment, Quiet, vars, generation, history
    <2> QED BY <1>a, <2>1
  <1> QED BY <1>1, <1>2, <1>3, <1>4, <1>5, <1>6 DEF OpenNext, OpenListeners, Consume

=============================================================================
