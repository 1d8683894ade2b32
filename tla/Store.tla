------------------------------- MODULE Store -------------------------------
(***************************************************************************)
(* The in-memory store of src/core.rs: a map from reservation ids to the   *)
(* metadata the node keeps about them, behind one async mutex.  A store    *)
(* value is a function on all ids whose value is None where the HashMap    *)
(* has no entry.  Every operator below is the body of one critical         *)
(* section; a caller that reaches an unwrap() on a missing entry has to    *)
(* say so itself, the update_* operators assume the entry is there.        *)
(***************************************************************************)
EXTENDS Integers

CONSTANTS
    Ids,                       \* reservation ids (U256 in the code)
    None,                      \* Rust's Option::None, a model value in TLC
    RESERVATION_DURATION       \* RESERVATION_DURATION_HOURS, in clock ticks

\* The local clock and the timestamps of the contract are u64 counts of ticks.
ASSUME DurationAssumption == RESERVATION_DURATION \in Nat

\* A downloaded reservation with no progress yet: what
\* ReservationMetadata::new makes of the contract's answer.  proof stands for
\* the pair (proof, public_inputs), which is only ever written as a pair.
NewMetadata(timestamp) ==
    [timestamp |-> timestamp,
     btc_initial |-> None, btc_final |-> None, proof |-> None]

EmptyStore == [id \in Ids |-> None]

\* The keys of the HashMap.
Tracked(store) == {id \in Ids : store[id] # None}

insert(store, id, metadata) == [store EXCEPT ![id] = metadata]

remove(store, id) == [store EXCEPT ![id] = None]

\* Strictly past its duration: the last second still counts.
IsExpired(metadata, now) == metadata.timestamp + RESERVATION_DURATION < now

\* Variant: without the duration.
drop_old_reservations(store, now) ==
    [id \in Ids |-> IF store[id] # None /\ store[id].timestamp < now
                    THEN None ELSE store[id]]

drop_expired_reservations(store, now) ==
    [id \in Ids |-> IF store[id] # None /\ IsExpired(store[id], now)
                    THEN None ELSE store[id]]

update_btc_reservation_initial(store, id, initial) ==
    [store EXCEPT ![id] = [@ EXCEPT !.btc_initial = initial]]

update_btc_reservation_final(store, id, final) ==
    [store EXCEPT ![id] = [@ EXCEPT !.btc_final = final]]

\* Variant: a clone of the entry gets the proof.
update_proof_data_of_clone(store, id, proof) == store

\* Variant: the entry starts afresh with the proof.
update_proof_data_afresh(store, id, proof) ==
    [store EXCEPT ![id] = [NewMetadata(@.timestamp) EXCEPT !.proof = proof]]

update_proof_data(store, id, proof) ==
    [store EXCEPT ![id] = [@ EXCEPT !.proof = proof]]

=============================================================================
