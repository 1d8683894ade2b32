---------------------------- MODULE ReleaseBook -----------------------------
(***************************************************************************)
(* What the releaser promises: a book of the reservations whose release is *)
(* still to be sent.  Whoever is in the book stays in it until the release *)
(* is sent, once, and not before the chain is past the unlock timestamp:   *)
(* the contract would refuse it, and a refused release is not repeated.    *)
(* With Flashbots the book can be lost over a release, once, and from then *)
(* on no release is sent.                                                  *)
(***************************************************************************)
EXTENDS Naturals

CONSTANTS
    Ids,            \* reservations
    Flashbots,      \* are releases sent via Flashbots?
    MaxTime         \* EVM block timestamps

VARIABLES
    booked,         \* reservations whose release is still to be sent
    intact,         \* has the book not been lost?
    unlock,         \* when the liquidity of each reservation is unlocked
    time,           \* timestamp of the latest EVM block
    released        \* reservations whose release was accepted

vars == <<booked, intact, unlock, time, released>>

Init ==
    /\ booked = {} /\ intact = TRUE /\ released = {}
    /\ unlock \in [Ids -> 0 .. MaxTime] /\ time = 0

\* A reservation that is in the book already is not booked a second time.
Book(id) ==
    /\ booked' = booked \union {id}
    /\ UNCHANGED <<intact, unlock, time, released>>

\* The release is accepted or refused; either way it is off the book.
Release(id) ==
    /\ intact /\ id \in booked /\ unlock[id] < time
    /\ booked' = booked \ {id}
    /\ released' \in {released, released \union {id}}
    /\ UNCHANGED <<intact, unlock, time>>

\* Sending a release that is due ends whoever keeps the book.
Lose(id) ==
    /\ Flashbots /\ intact /\ id \in booked /\ unlock[id] < time
    /\ intact' = FALSE /\ booked' = {}
    /\ UNCHANGED <<unlock, time, released>>

NewBlock(t) ==
    /\ t > time
    /\ time' = t
    /\ UNCHANGED <<booked, intact, unlock, released>>

Next ==
    \/ \E id \in Ids : Book(id) \/ Release(id) \/ Lose(id)
    \/ \E t \in 1 .. MaxTime : NewBlock(t)

Spec == Init /\ [][Next]_vars

=============================================================================
