----------------------------- MODULE SwapProver -----------------------------
(***************************************************************************)
(* What a hypernode promises, with no store, queue, task or lock in it: it *)
(* looks at one Bitcoin block after the other, and submits a proof for a   *)
(* reservation at most once for each time it has taken the reservation in, *)
(* naming a payment it has seen in a window that starts at a block the     *)
(* contract knows and confirms a payment of that reservation.              *)
(***************************************************************************)
EXTENDS Integers

CONSTANTS
    Ids, Heights,
    CONFIRMATION_HEIGHT_DELTA

VARIABLES
    analyzed_height,    \* the last block looked at
    headers,            \* the blocks the contract knows
    payments,           \* seen so far
    inserts,            \* how often a reservation was taken in
    submitted,          \* what was submitted,
    submissions         \* and how often, per reservation

vars == <<analyzed_height, headers, payments, inserts, submitted, submissions>>

Payment(id, height) == [id |-> id, height |-> height]

Submission == [id : Ids, height : Heights, safe : Heights, confirmation : Heights]

Init ==
    /\ analyzed_height \in Heights /\ headers \subseteq Heights
    /\ payments = {} /\ submitted = {}
    /\ inserts = [id \in Ids |-> 0]
    /\ submissions = [id \in Ids |-> 0]

LookAtNextBlock ==
    /\ analyzed_height' = analyzed_height + 1
    /\ UNCHANGED <<headers, payments, inserts, submitted, submissions>>

SeePayments(ids) ==
    /\ payments' = payments \union {Payment(id, analyzed_height) : id \in ids}
    /\ UNCHANGED <<analyzed_height, headers, inserts, submitted, submissions>>

TakeIn(id) ==
    /\ inserts' = [inserts EXCEPT ![id] = @ + 1]
    /\ UNCHANGED <<analyzed_height, headers, payments, submitted, submissions>>

AddHeader(height) ==
    /\ headers' = headers \union {height}
    /\ UNCHANGED <<analyzed_height, payments, inserts, submitted, submissions>>

\* A payment with its confirmations inside the window, and known to be there.
ConfirmedIn(s, payment) ==
    /\ payment.id = s.id
    /\ s.safe < payment.height
    /\ payment.height + CONFIRMATION_HEIGHT_DELTA <= s.confirmation
    /\ payment.height + CONFIRMATION_HEIGHT_DELTA <= analyzed_height

Submit(s) ==
    /\ submissions[s.id] < inserts[s.id]
    /\ Payment(s.id, s.height) \in payments
    /\ s.safe <= s.height /\ s.height <= s.confirmation
    /\ s.safe \in headers
    /\ \E payment \in payments : ConfirmedIn(s, payment)
    /\ submitted' = submitted \union {s}
    /\ submissions' = [submissions EXCEPT ![s.id] = @ + 1]
    /\ UNCHANGED <<analyzed_height, headers, payments, inserts>>

Next ==
    \/ LookAtNextBlock
    \/ \E ids \in SUBSET Ids : SeePayments(ids)
    \/ \E id \in Ids : TakeIn(id)
    \/ \E height \in Heights : AddHeader(height)
    \/ \E s \in Submission : Submit(s)

Spec == Init /\ [][Next]_vars

=============================================================================
