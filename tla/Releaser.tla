------------------------------ MODULE Releaser ------------------------------
(***************************************************************************)
(* ReleaserQueue of src/releaser.rs: a queue of release requests behind an *)
(* async mutex, filled by the event listener and drained by a task of its  *)
(* own on every new EVM block.  The task holds the lock from the moment it *)
(* empties the queue until all broadcasts have answered and it has put the *)
(* requests that are not due back.                                         *)
(*                                                                         *)
(* The queue is a Vec whose order nothing depends on, so it is counted per *)
(* reservation: a request carries nothing but the reservation and its      *)
(* unlock timestamp, which the contract fixes with the proof.              *)
(***************************************************************************)
EXTENDS Naturals, Sequences

CONSTANTS
    Ids,            \* reservations
    None,
    MaxTime,        \* EVM block timestamps
    MaxRequests,    \* how often the event listener asks for one reservation
    MaxFailures,    \* broadcasts the provider refuses
    Flashbots,      \* are releases broadcast via Flashbots?
    MayEnd          \* may the block subscription end?

ASSUME ReleaserAssumption ==
    /\ MaxTime \in Nat /\ MaxRequests \in Nat /\ MaxFailures \in Nat
    /\ MayEnd \in BOOLEAN /\ Flashbots \in BOOLEAN
    /\ None \notin Ids

VARIABLES
    release_queue,  \* requests in the Vec, per reservation
    lock,           \* is the mutex held across an await?
    adding,         \* the reservation whose add() waits for the lock
    task,           \* "waiting" for a block, "locking", "processing", "ended"
                    \* or "panicked"
    timestamp,      \* of the block the task is at
    ready, not_ready,   \* the two halves of the partition
    \* the contract, the provider and the event listener
    unlock,         \* liquidityUnlockedTimestamp of each reservation
    stream,         \* timestamps of the blocks not yet received
    time,           \* timestamp of the latest block
    requests, failures,
    released,       \* reservations whose release was broadcast
    \* history
    owed            \* added and not broadcast since

queueSide == <<release_queue, lock, adding>>
taskSide == <<task, timestamp, ready, not_ready>>
envSide == <<unlock, stream, time, requests, failures>>
vars == <<queueSide, taskSide, envSide, released, owed>>

Nothing == [id \in Ids |-> 0]

Init ==
    /\ release_queue = Nothing /\ lock = FALSE /\ adding = None
    /\ task = "waiting" /\ timestamp = 0
    /\ ready = Nothing /\ not_ready = Nothing
    /\ unlock \in [Ids -> 0 .. MaxTime]
    /\ stream = <<>> /\ time = 0
    /\ requests = Nothing /\ failures = 0
    /\ released = {} /\ owed = {}

-----------------------------------------------------------------------------
(* add                                                                     *)

\* The event listener calls add() and waits for it.
Request(id) ==
    /\ adding = None /\ requests[id] < MaxRequests
    /\ requests' = [requests EXCEPT ![id] = @ + 1]
    /\ adding' = id
    /\ UNCHANGED <<release_queue, lock, taskSide, unlock, stream, time, failures,
                   released, owed>>

\* Variant: no test for a request already queued.
PushedAlways(id) == [release_queue EXCEPT ![id] = @ + 1]

\* A reservation already in the queue is not queued again.
Pushed(id) ==
    IF release_queue[id] > 0 THEN release_queue
                             ELSE [release_queue EXCEPT ![id] = @ + 1]

\* lock().await returns.
Add(id) ==
    /\ adding = id /\ ~lock
    /\ release_queue' = Pushed(id)
    /\ owed' = owed \union {id}
    /\ adding' = None
    /\ UNCHANGED <<lock, taskSide, envSide, released>>

-----------------------------------------------------------------------------
(* trigger_release_on_blocks and process_queue                             *)

ReceiveBlock ==
    /\ task = "waiting" /\ stream # <<>>
    /\ timestamp' = Head(stream)
    /\ stream' = Tail(stream)
    /\ task' = "locking"
    /\ UNCHANGED <<queueSide, ready, not_ready, unlock, time, requests, failures,
                   released, owed>>

\* Variant: off by one at the unlock timestamp.
DueLater(id) == timestamp > unlock[id] + 1

\* Variant: with the block of the unlock timestamp itself.
DueAtUnlock(id) == timestamp >= unlock[id]

\* Strictly after its unlock timestamp.
Due(id) == timestamp > unlock[id]

\* Variant: the guard is dropped before the broadcasts.
ProcessQueueUnlocking ==
    /\ task = "locking" /\ ~lock
    /\ ready' = [id \in Ids |-> IF Due(id) THEN release_queue[id] ELSE 0]
    /\ not_ready' = [id \in Ids |-> IF Due(id) THEN 0 ELSE release_queue[id]]
    /\ release_queue' = Nothing
    /\ task' = "processing"
    /\ UNCHANGED <<lock, adding, timestamp, envSide, released, owed>>

\* The queue is drained and partitioned, and the lock kept.
ProcessQueue ==
    /\ task = "locking" /\ ~lock
    /\ ready' = [id \in Ids |-> IF Due(id) THEN release_queue[id] ELSE 0]
    /\ not_ready' = [id \in Ids |-> IF Due(id) THEN 0 ELSE release_queue[id]]
    /\ release_queue' = Nothing
    /\ lock' = TRUE
    /\ task' = "processing"
    /\ UNCHANGED <<adding, timestamp, envSide, released, owed>>

\* All due requests are broadcast concurrently; one of them answers.
BroadcastSucceeds(id) ==
    /\ task = "processing" /\ ready[id] > 0
    /\ ready' = [ready EXCEPT ![id] = @ - 1]
    /\ released' = released \union {id}
    /\ owed' = owed \ {id}
    /\ UNCHANGED <<queueSide, task, timestamp, not_ready, envSide>>

\* An error is logged, and the request is gone.
BroadcastFails(id) ==
    /\ task = "processing" /\ ready[id] > 0 /\ failures < MaxFailures
    /\ ready' = [ready EXCEPT ![id] = @ - 1]
    /\ failures' = failures + 1
    /\ owed' = owed \ {id}
    /\ UNCHANGED <<queueSide, task, timestamp, not_ready, unlock, stream, time,
                   requests, released>>

\* as_builder().unwrap() on the Flashbots path, when the provider has filled in
\* an envelope already.  The panic ends the task, and with its stack both halves
\* of the partition are gone; the mutex is released, and is not poisoned, so
\* that add() goes on filling a queue that nobody empties.
BroadcastPanics(id) ==
    /\ Flashbots /\ task = "processing" /\ ready[id] > 0
    /\ task' = "panicked"
    /\ ready' = Nothing /\ not_ready' = Nothing
    /\ lock' = FALSE
    /\ UNCHANGED <<release_queue, adding, timestamp, envSide, released, owed>>

\* join_all is done: the rest becomes the queue, the lock is released.
FinishBlock ==
    /\ task = "processing" /\ ready = Nothing
    /\ release_queue' = not_ready
    /\ not_ready' = Nothing
    /\ lock' = FALSE
    /\ task' = "waiting"
    /\ UNCHANGED <<adding, timestamp, ready, envSide, released, owed>>

\* The subscription fails or its stream ends: the task is over, the queue stays.
SubscriptionEnds ==
    /\ MayEnd /\ task = "waiting"
    /\ task' = "ended"
    /\ UNCHANGED <<queueSide, timestamp, ready, not_ready, envSide, released, owed>>

-----------------------------------------------------------------------------
\* A new EVM block; a block the subscription loses is one that is skipped.
NewBlock(t) ==
    /\ t > time
    /\ time' = t
    /\ stream' = Append(stream, t)
    /\ UNCHANGED <<queueSide, taskSide, unlock, requests, failures, released, owed>>

\* No more blocks and nobody asks.
Quiet ==
    /\ task \in {"ended", "panicked"} \/ (task = "waiting" /\ stream = <<>>)
    /\ time = MaxTime /\ adding = None
    /\ UNCHANGED vars

AddSome == \E id \in Ids : Add(id)
Task ==
    \/ ReceiveBlock \/ ProcessQueue \/ FinishBlock
    \/ \E id \in Ids : BroadcastSucceeds(id) \/ BroadcastFails(id)
                            \/ BroadcastPanics(id)

Next ==
    \/ (\E id \in Ids : Request(id)) \/ AddSome \/ Task \/ SubscriptionEnds
    \/ (\E t \in 1 .. MaxTime : NewBlock(t))
    \/ Quiet

Spec == Init /\ [][Next]_vars

\* The task is polled and its broadcasts answer.  Nothing is assumed of add():
\* the mutex makes no promise about who gets it next.
FairSpec == Spec /\ WF_vars(Task)

-----------------------------------------------------------------------------
(* Properties                                                              *)

TypeOK ==
    /\ release_queue \in [Ids -> Nat] /\ lock \in BOOLEAN
    /\ adding \in Ids \union {None}
    /\ task \in {"waiting", "locking", "processing", "ended", "panicked"}
    /\ lock <=> (task = "processing")
    /\ timestamp \in Nat
    /\ ready \in [Ids -> Nat] /\ not_ready \in [Ids -> Nat]
    /\ unlock \in [Ids -> Nat] /\ stream \in Seq(Nat) /\ time \in Nat
    /\ requests \in [Ids -> Nat] /\ failures \in Nat
    /\ released \subseteq Ids /\ owed \subseteq Ids

\* However add() and the draining interleave, what add() has accepted is in one
\* place, the queue, the part put back, or the way to the chain, until it is
\* broadcast, and after that nowhere: one broadcast for all the requests that
\* are made for a reservation in between.  (A ProofSubmitted that is replayed
\* after the broadcast asks anew, and is answered by a broadcast of its own.)
OneBroadcastPerRequest ==
    \A id \in Ids : release_queue[id] + not_ready[id] + ready[id]
                      <= IF id \in owed THEN 1 ELSE 0

\* A request add() has accepted is held until it is broadcast: neither the
\* emptied queue nor the assignment that puts the rest back loses one.  Only
\* a panic in a broadcast, between the two, does.
NoRequestLost ==
    \A id \in owed : \/ release_queue[id] + not_ready[id] + ready[id] >= 1
                     \/ task = "panicked"

\* The requests in the queue, in the part put back and on the way to the chain.
Held == {id \in Ids : release_queue[id] + not_ready[id] + ready[id] > 0}

B == INSTANCE ReleaseBook WITH booked <- Held, intact <- task # "panicked"

\* For all that goes on behind the lock, the releaser is a book: what add() puts
\* in stays until it is broadcast, which is done once, and only when the chain
\* has passed its unlock timestamp, although the task decides by a block that
\* it received some blocks ago and broadcasts after an await.  A Flashbots
\* panic loses the book, and only over a release that was due.
ImplementsReleaseBook == B!Spec

\* A request is broadcast once a block after its unlock timestamp has come,
\* unless the subscription is over or a Flashbots broadcast has panicked.
DueEventuallyBroadcast ==
    \A id \in Ids :
        id \in owed /\ (\E i \in DOMAIN stream : stream[i] > unlock[id])
            ~> id \notin owed \/ task \in {"ended", "panicked"}

-----------------------------------------------------------------------------
(* What the repository says and the code does not do                       *)

\* releaser.rs:1: releaseLiquidity is called once enough EVM blocks have
\* passed, so a request due in a block to come ends in a release.
DueEventuallyReleased ==
    \A id \in Ids :
        id \in owed /\ (\E i \in DOMAIN stream : stream[i] > unlock[id])
            ~> id \in released

=============================================================================
