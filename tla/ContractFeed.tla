---------------------------- MODULE ContractFeed ----------------------------
(***************************************************************************)
(* What the node promises to take from the exchange contract, without log, *)
(* streams and sessions: the store and the releaser learn in any order and *)
(* at any time, but never anything that the contract has not come to.  The *)
(* headers are learnt without a gap: the windows of the block listener     *)
(* start and end at the nearest headers that the store has.                *)
(***************************************************************************)
EXTENDS Integers

CONSTANTS
    Ids             \* reservations

VARIABLES
    contract,           \* status of each reservation
    contract_tip,       \* last Bitcoin header of the contract
    tracked,            \* reservations in the store
    headers,            \* Bitcoin heights whose header is in the store
    release_requests    \* reservations handed to the releaser

vars == <<contract, contract_tip, tracked, headers, release_requests>>

Init ==
    /\ contract = [id \in Ids |-> "free"] /\ contract_tip = 0
    /\ tracked = {} /\ headers = {} /\ release_requests = {}

\* The life of a reservation, one status after the other.
Life == {<<"free", "reserved">>, <<"reserved", "proved">>, <<"proved", "complete">>}

ContractGoesOn ==
    /\ DOMAIN contract' = Ids /\ contract_tip' >= contract_tip
    /\ \A id \in Ids :
          contract'[id] = contract[id] \/ <<contract[id], contract'[id]>> \in Life
    \* A header comes with a proof.
    /\ contract_tip' # contract_tip =>
          \E id \in Ids : <<contract[id], contract'[id]>> = <<"reserved", "proved">>
    /\ UNCHANGED <<tracked, headers, release_requests>>

\* Some reservations that were made enter the store, or stay in it, and some that
\* were proved go to the releaser.
Learn(made, proved) ==
    /\ \A id \in made : contract[id] # "free"
    /\ \A id \in proved : contract[id] \in {"proved", "complete"}
    /\ tracked' = tracked \union made
    /\ release_requests' = release_requests \union proved
    /\ UNCHANGED <<contract, contract_tip, headers>>

\* Only a reservation that is complete leaves the store.
Forget(id) ==
    /\ contract[id] = "complete"
    /\ tracked' = tracked \ {id}
    /\ UNCHANGED <<contract, contract_tip, headers, release_requests>>

LearnHeaders(last) ==
    /\ last <= contract_tip
    /\ headers' = headers \union 1 .. last
    /\ UNCHANGED <<contract, contract_tip, tracked, release_requests>>

Next ==
    \/ ContractGoesOn
    \/ \E made, proved \in SUBSET Ids : Learn(made, proved)
    \/ \E id \in Ids : Forget(id)
    \/ \E last \in 0 .. contract_tip : LearnHeaders(last)

Spec == Init /\ [][Next]_vars

=============================================================================
