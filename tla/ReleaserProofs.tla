--------------------------- MODULE ReleaserProofs ---------------------------
(***************************************************************************)
(* The releaser for every set of reservations and every bound: its types,  *)
(* one broadcast per request, and no request lost but by a panic.  The     *)
(* last two rest on what the lock means: while it is held, the queue is    *)
(* empty and all the requests are with the task; while it is free, the     *)
(* task has none.                                                          *)
(***************************************************************************)
EXTENDS Releaser, TLAPS

LockMeaning ==
    /\ lock => release_queue = Nothing
    /\ ~lock => ready = Nothing /\ not_ready = Nothing

Inv ==
    /\ TypeOK
    /\ LockMeaning
    /\ OneBroadcastPerRequest
    /\ NoRequestLost

\* The initial state of releaser.rs:37-52, an empty queue and a free lock,
\* satisfies the invariant.
LEMMA InitInv == Init => Inv
  <1> SUFFICES ASSUME Init PROVE Inv
      OBVIOUS
  <1> USE ReleaserAssumption
  <1>a. Nothing \in [Ids -> Nat] /\ \A id \in Ids : Nothing[id] = 0
      BY DEF Nothing
  <1>b. unlock \in [Ids -> Nat] /\ stream \in Seq(Nat)
      BY DEF Init
  <1>1. TypeOK
      BY <1>a, <1>b DEF Init, TypeOK
  <1>2. LockMeaning
      BY DEF Init, LockMeaning
  <1>c. \A id \in Ids : release_queue[id] = 0 /\ not_ready[id] = 0 /\ ready[id] = 0
      BY <1>a DEF Init
  <1>3. ASSUME NEW id \in Ids
        PROVE  release_queue[id] + not_ready[id] + ready[id]
                  <= IF id \in owed THEN 1 ELSE 0
    <2>1. release_queue[id] + not_ready[id] + ready[id] = 0 + 0 + 0
        BY <1>c
    <2> QED BY <2>1
  <1>4. NoRequestLost
      BY DEF Init, NoRequestLost
  <1> QED BY <1>1, <1>2, <1>3, <1>4 DEF Inv, OneBroadcastPerRequest

\* Each critical section of add() and process_queue(), and each step between
\* them, keeps the invariant.
LEMMA NextInv == Inv /\ [Next]_vars => Inv'
  <1> SUFFICES ASSUME Inv, [Next]_vars PROVE Inv'
      OBVIOUS
  <1> USE ReleaserAssumption
  <1> USE DEF Inv
  <1>1. ASSUME NEW id \in Ids, Request(id) PROVE Inv'
      <2>1. TypeOK'
          BY <1>1 DEF TypeOK, Request, taskSide
      <2>2. (LockMeaning /\ OneBroadcastPerRequest /\ NoRequestLost)'
          BY <1>1 DEF LockMeaning, OneBroadcastPerRequest, NoRequestLost,
                      Request, taskSide, Nothing
      <2> QED BY <2>1, <2>2
  <1>2. ASSUME NEW id \in Ids, Add(id) PROVE Inv'
      <2>a. \A r \in Ids : /\ release_queue[r] \in Nat /\ not_ready[r] \in Nat
                           /\ ready[r] \in Nat
                           /\ release_queue[r] + not_ready[r] + ready[r]
                                 <= IF r \in owed THEN 1 ELSE 0
          BY DEF TypeOK, OneBroadcastPerRequest
      <2>1. /\ release_queue' \in [Ids -> Nat]
            /\ release_queue'[id] = 1
            /\ \A r \in Ids \ {id} : release_queue'[r] = release_queue[r]
        <3>1. release_queue[id] <= 1
            BY <2>a
        <3> QED BY <1>2, <2>a, <3>1 DEF TypeOK, Add, Pushed
      <2>2. TypeOK'
          BY <1>2, <2>1 DEF TypeOK, Add, taskSide, envSide
      <2>3. ready = Nothing /\ not_ready = Nothing
          BY <1>2 DEF LockMeaning, Add
      <2>4. LockMeaning'
          BY <1>2 DEF LockMeaning, Add, taskSide, Nothing
      <2>6. \A r \in Ids : not_ready'[r] = 0 /\ ready'[r] = 0
          BY <1>2, <2>3 DEF Add, taskSide, Nothing
      <2>7. \A r \in Ids : /\ release_queue'[r] \in Nat
                           /\ release_queue'[r] <= IF r \in owed' THEN 1 ELSE 0
        <3>1. \A r \in Ids : not_ready[r] = 0 /\ ready[r] = 0
            BY <2>3 DEF Nothing
        <3>2. \A r \in Ids : release_queue[r] <= IF r \in owed THEN 1 ELSE 0
            BY <2>a, <3>1
        <3>3. owed' = owed \union {id}
            BY <1>2 DEF Add
        <3> QED BY <2>1, <2>a, <3>2, <3>3
      <2>8. OneBroadcastPerRequest'
          BY <2>6, <2>7 DEF OneBroadcastPerRequest
      <2>5. NoRequestLost'
          BY <1>2, <2>1, <2>3 DEF TypeOK, NoRequestLost, Add, taskSide, Nothing
      <2> QED BY <2>2, <2>4, <2>5, <2>8
  <1>3. ASSUME ReceiveBlock PROVE Inv'
      <2>1. TypeOK'
          BY <1>3 DEF TypeOK, ReceiveBlock, queueSide
      <2>2. (LockMeaning /\ OneBroadcastPerRequest /\ NoRequestLost)'
          BY <1>3 DEF LockMeaning, OneBroadcastPerRequest, NoRequestLost,
                      ReceiveBlock, queueSide, Nothing
      <2> QED BY <2>1, <2>2
  <1>4. ASSUME ProcessQueue PROVE Inv'
      <2>1. /\ ready' \in [Ids -> Nat] /\ not_ready' \in [Ids -> Nat]
            /\ \A r \in Ids : ready'[r] + not_ready'[r] = release_queue[r]
          BY <1>4 DEF TypeOK, ProcessQueue
      <2>2. ready = Nothing /\ not_ready = Nothing
          BY <1>4 DEF LockMeaning, ProcessQueue
      <2>3. release_queue' = Nothing /\ Nothing \in [Ids -> Nat]
          BY <1>4 DEF ProcessQueue, Nothing
      <2>4. TypeOK'
          BY <1>4, <2>1, <2>3 DEF TypeOK, ProcessQueue, envSide
      <2>5. LockMeaning'
          BY <1>4, <2>3 DEF LockMeaning, ProcessQueue, Nothing
      <2>6. \A r \in Ids : release_queue'[r] + not_ready'[r] + ready'[r]
                         = release_queue[r] + not_ready[r] + ready[r]
          BY <2>1, <2>2, <2>3 DEF TypeOK, Nothing
      <2>7. (OneBroadcastPerRequest /\ NoRequestLost)'
          BY <1>4, <2>6 DEF TypeOK, OneBroadcastPerRequest, NoRequestLost,
                            ProcessQueue
      <2> QED BY <2>4, <2>5, <2>7
  <1>5. ASSUME FinishBlock PROVE Inv'
      <2>1. lock /\ release_queue = Nothing /\ ready = Nothing
          BY <1>5 DEF TypeOK, LockMeaning, FinishBlock
      <2>2. Nothing \in [Ids -> Nat]
          BY DEF Nothing
      <2>3. TypeOK'
          BY <1>5, <2>2 DEF TypeOK, FinishBlock, envSide
      <2>4. LockMeaning'
          BY <1>5 DEF LockMeaning, FinishBlock, Nothing
      <2>5. (OneBroadcastPerRequest /\ NoRequestLost)'
          BY <1>5, <2>1 DEF TypeOK, OneBroadcastPerRequest, NoRequestLost,
                            FinishBlock, Nothing
      <2> QED BY <2>3, <2>4, <2>5
  <1>6. ASSUME NEW id \in Ids, BroadcastSucceeds(id) \/ BroadcastFails(id)
        PROVE Inv'
      <2>1. /\ UNCHANGED <<release_queue, lock, adding, task, timestamp,
                           not_ready, unlock, stream, time, requests>>
            /\ ready' = [ready EXCEPT ![id] = @ - 1] /\ ready[id] > 0
            /\ task = "processing" /\ owed' = owed \ {id}
            /\ released' \subseteq Ids /\ failures' \in Nat
        <3>1. CASE BroadcastSucceeds(id)
            BY <3>1 DEF TypeOK, BroadcastSucceeds, queueSide, envSide
        <3>2. CASE BroadcastFails(id)
          <4>1. failures' \in Nat
              BY <3>2 DEF TypeOK, BroadcastFails
          <4>2. released' \subseteq Ids
              BY <3>2 DEF TypeOK, BroadcastFails
          <4> QED BY <3>2, <4>1, <4>2 DEF BroadcastFails, queueSide
        <3> QED BY <1>6, <3>1, <3>2
      <2>2. /\ ready' \in [Ids -> Nat] /\ ready'[id] <= ready[id]
            /\ \A r \in Ids \ {id} : ready'[r] = ready[r]
          BY <2>1 DEF TypeOK
      <2>3. TypeOK'
          BY <2>1, <2>2 DEF TypeOK
      <2>4. LockMeaning'
          BY <2>1 DEF TypeOK, LockMeaning, Nothing
      <2>7. ASSUME NEW r \in Ids
            PROVE  release_queue'[r] + not_ready'[r] + ready'[r]
                      <= IF r \in owed' THEN 1 ELSE 0
        <3>1. /\ release_queue[r] \in Nat /\ not_ready[r] \in Nat
              /\ ready[r] \in Nat /\ ready'[r] \in Nat
              /\ release_queue[r] + not_ready[r] + ready[r]
                    <= IF r \in owed THEN 1 ELSE 0
            BY <2>2 DEF TypeOK, OneBroadcastPerRequest
        <3>2. CASE r = id
          <4>1. ready'[r] = ready[r] - 1 /\ ready[r] > 0
              BY <2>1, <3>2 DEF TypeOK
          <4> QED BY <2>1, <3>1, <3>2, <4>1
        <3>3. CASE r # id
          <4>1. ready'[r] = ready[r] /\ (r \in owed' <=> r \in owed)
              BY <2>1, <2>2, <3>3
          <4> QED BY <2>1, <3>1, <4>1
        <3> QED BY <3>2, <3>3
      <2>5. OneBroadcastPerRequest'
          BY <2>7 DEF OneBroadcastPerRequest
      <2>6. NoRequestLost'
          BY <2>1, <2>2 DEF TypeOK, NoRequestLost
      <2> QED BY <2>3, <2>4, <2>5, <2>6
  <1>7. ASSUME SubscriptionEnds PROVE Inv'
      <2>1. TypeOK'
          BY <1>7 DEF TypeOK, SubscriptionEnds, queueSide, envSide
      <2>2. (LockMeaning /\ OneBroadcastPerRequest /\ NoRequestLost)'
          BY <1>7 DEF LockMeaning, OneBroadcastPerRequest, NoRequestLost,
                      SubscriptionEnds, queueSide, Nothing
      <2> QED BY <2>1, <2>2
  <1>8. ASSUME NEW t \in 1 .. MaxTime, NewBlock(t) PROVE Inv'
      <2>1. TypeOK'
          BY <1>8 DEF TypeOK, NewBlock, queueSide, taskSide
      <2>2. (LockMeaning /\ OneBroadcastPerRequest /\ NoRequestLost)'
          BY <1>8 DEF LockMeaning, OneBroadcastPerRequest, NoRequestLost,
                      NewBlock, queueSide, taskSide, Nothing
      <2> QED BY <2>1, <2>2
  <1>9. ASSUME NEW id \in Ids, BroadcastPanics(id) PROVE Inv'
      <2>1. lock /\ release_queue = Nothing
          BY <1>9 DEF TypeOK, LockMeaning, BroadcastPanics
      <2>2. Nothing \in [Ids -> Nat] /\ \A r \in Ids : Nothing[r] = 0
          BY DEF Nothing
      <2>3. TypeOK'
          BY <1>9, <2>2 DEF TypeOK, BroadcastPanics, envSide
      <2>4. LockMeaning'
          BY <1>9 DEF LockMeaning, BroadcastPanics, Nothing
      <2>5. OneBroadcastPerRequest'
        <3>1. \A r \in Ids : release_queue'[r] = 0 /\ not_ready'[r] = 0 /\ ready'[r] = 0
            BY <1>9, <2>1, <2>2 DEF BroadcastPanics
        <3> QED BY <3>1 DEF OneBroadcastPerRequest
      <2>6. NoRequestLost'
          BY <1>9 DEF NoRequestLost, BroadcastPanics
      <2> QED BY <2>3, <2>4, <2>5, <2>6
  <1>10. ASSUME UNCHANGED vars PROVE Inv'
      BY <1>10 DEF TypeOK, LockMeaning, OneBroadcastPerRequest, NoRequestLost,
                  vars, queueSide, taskSide, envSide, Nothing
  <1> QED BY <1>1, <1>2, <1>3, <1>4, <1>5, <1>6, <1>7, <1>8, <1>9,
             <1>10
          DEF Next, AddSome, Task, Quiet

\* The fields of ReleaserQueue keep their types, and the lock is held exactly
\* while process_queue awaits its broadcasts.
THEOREM TypeCorrect == Spec => []TypeOK
  <1>1. Inv => TypeOK
      BY DEF Inv
  <1> QED BY InitInv, NextInv, <1>1, PTL DEF Spec

\* However add() and process_queue() interleave, what add() accepted for a
\* reservation is broadcast once, and is nowhere any more when it has been.
THEOREM NoDoubleRelease == Spec => []OneBroadcastPerRequest
  <1>1. Inv => OneBroadcastPerRequest
      BY DEF Inv
  <1> QED BY InitInv, NextInv, <1>1, PTL DEF Spec

\* The queue emptied at releaser.rs:119 and replaced at releaser.rs:173 loses
\* no request that add() accepted, unless a Flashbots broadcast has panicked.
THEOREM RequestsKept == Spec => []NoRequestLost
  <1>1. Inv => NoRequestLost
      BY DEF Inv
  <1> QED BY InitInv, NextInv, <1>1, PTL DEF Spec


-----------------------------------------------------------------------------
(* The releaser is a book                                                  *)

\* The block the task decides by is one of the chain, and what it took out of
\* the queue to broadcast is due in it.
DueInv ==
    /\ timestamp <= time
    /\ \A i \in DOMAIN stream : stream[i] <= time
    /\ \A id \in Ids : ready[id] > 0 => Due(id)

\* Nothing is received or taken out at the start.
LEMMA InitDue == Init => DueInv
  BY DEF Init, DueInv, Nothing

\* The queue is partitioned at the block at which the broadcasts are sent.
LEMMA NextDue == Inv /\ DueInv /\ [Next]_vars => DueInv'
  <1> SUFFICES ASSUME Inv, DueInv, [Next]_vars PROVE DueInv'
      OBVIOUS
  <1> USE DEF queueSide, taskSide, envSide
  <1>0. /\ stream \in Seq(Nat) /\ time \in Nat /\ timestamp \in Nat
        /\ ready \in [Ids -> Nat] /\ release_queue \in [Ids -> Nat]
      BY DEF Inv, TypeOK
  <1>1. CASE ReceiveBlock
    <2>1. /\ timestamp' = Head(stream) /\ stream' = Tail(stream) /\ stream # <<>>
          /\ task = "waiting" /\ time' = time /\ ready' = ready
        BY <1>1 DEF ReceiveBlock
    <2>2. Head(stream) = stream[1] /\ 1 \in DOMAIN stream
        BY <1>0, <2>1
    <2>3. \A i \in DOMAIN Tail(stream) : i + 1 \in DOMAIN stream /\ Tail(stream)[i] = stream[i + 1]
        BY <1>0, <2>1
    <2>4. ready = Nothing
        BY <2>1 DEF Inv, TypeOK, LockMeaning
    <2> QED BY <2>1, <2>2, <2>3, <2>4 DEF DueInv, Nothing
  <1>2. CASE ProcessQueue
    <2>1. ready' = [id \in Ids |-> IF Due(id) THEN release_queue[id] ELSE 0]
        BY <1>2 DEF ProcessQueue
    <2>2. \A id \in Ids : ready'[id] > 0 => Due(id)
        BY <2>1
    <2> QED BY <1>2, <2>2 DEF ProcessQueue, DueInv, Due
  <1>3. ASSUME NEW id \in Ids, BroadcastSucceeds(id) \/ BroadcastFails(id) PROVE DueInv'
    <2>1. /\ ready' = [ready EXCEPT ![id] = @ - 1] /\ ready[id] > 0
          /\ UNCHANGED <<timestamp, time, stream, unlock>>
        BY <1>3 DEF BroadcastSucceeds, BroadcastFails
    <2>2. \A r \in Ids : ready'[r] > 0 => ready[r] > 0
        BY <1>0, <2>1
    <2> QED BY <2>1, <2>2 DEF DueInv, Due
  <1>4. ASSUME NEW t \in 1 .. MaxTime, NewBlock(t) PROVE DueInv'
    <2>1. /\ t \in Nat /\ t > time /\ time' = t /\ stream' = Append(stream, t)
          /\ UNCHANGED <<timestamp, ready, unlock>>
        BY <1>4 DEF NewBlock
    <2>2. timestamp' <= time'
        BY <1>0, <2>1 DEF DueInv
    <2>3. ASSUME NEW i \in DOMAIN stream' PROVE stream'[i] <= time'
      <3>1. DOMAIN stream = 1 .. Len(stream) /\ Len(stream) \in Nat
            /\ DOMAIN stream' = 1 .. Len(stream) + 1
          BY <1>0, <2>1
      <3>2. CASE i = Len(stream) + 1
        <4>1. stream'[i] = t
            BY <1>0, <2>1, <3>2
        <4> QED BY <2>1, <4>1
      <3>3. CASE i \in DOMAIN stream
        <4>1. stream'[i] = stream[i] /\ stream[i] \in Nat
            BY <1>0, <2>1, <3>1, <3>3
        <4>2. stream[i] <= time
            BY <3>3 DEF DueInv
        <4> QED BY <1>0, <2>1, <4>1, <4>2
      <3> QED BY <3>1, <3>2, <3>3
    <2> QED BY <2>1, <2>2, <2>3 DEF DueInv, Due
  <1>5. ASSUME NEW id \in Ids, BroadcastPanics(id) PROVE DueInv'
      BY <1>5 DEF BroadcastPanics, DueInv, Nothing
  <1>6. CASE \/ (\E id \in Ids : Request(id)) \/ AddSome \/ FinishBlock \/ SubscriptionEnds
             \/ UNCHANGED vars
      BY <1>6 DEF Request, AddSome, Add, FinishBlock, SubscriptionEnds, vars, DueInv, Due
  <1> QED BY <1>1, <1>2, <1>3, <1>4, <1>5, <1>6 DEF Next, Task, Quiet

\* Where the requests of one reservation go, they are as many as they were.
LEMMA HeldSame ==
  ASSUME \A id \in Ids : release_queue'[id] + not_ready'[id] + ready'[id]
                            = release_queue[id] + not_ready[id] + ready[id]
  PROVE  Held' = Held
  BY DEF Held

\* What add(), the task and the chain do is in the book, or changes nothing there.
LEMMA StepBooked == Inv /\ DueInv /\ [Next]_vars => [B!Next]_B!vars
  <1> SUFFICES ASSUME Inv, DueInv, [Next]_vars PROVE [B!Next]_B!vars
      OBVIOUS
  <1> USE DEF queueSide, taskSide, envSide
  <1>0. /\ release_queue \in [Ids -> Nat] /\ not_ready \in [Ids -> Nat]
        /\ ready \in [Ids -> Nat] /\ unlock \in [Ids -> Nat]
        /\ time \in Nat /\ timestamp \in Nat
      BY DEF Inv, TypeOK
  <1>1. ASSUME NEW id \in Ids, Add(id) PROVE B!Next
    <2>1. ready = Nothing /\ not_ready = Nothing
        BY <1>1 DEF Inv, LockMeaning, Add
    <2>2. /\ UNCHANGED <<task, ready, not_ready, unlock, time, released>>
          /\ release_queue'[id] > 0
          /\ \A r \in Ids \ {id} : release_queue'[r] = release_queue[r]
        BY <1>0, <1>1 DEF Add, Pushed
    <2>3. /\ Held = {r \in Ids : release_queue[r] > 0}
          /\ Held' = {r \in Ids : release_queue'[r] > 0}
      <3>1. release_queue' \in [Ids -> Nat]
          BY <1>0, <1>1 DEF Add, Pushed
      <3> QED BY <1>0, <2>1, <2>2, <3>1 DEF Held, Nothing
    <2>4. Held' = Held \union {id}
        BY <2>2, <2>3
    <2> QED BY <2>2, <2>4 DEF B!Next, B!Book
  <1>2. CASE ProcessQueue
    <2>1. ready = Nothing /\ not_ready = Nothing
        BY <1>2 DEF Inv, LockMeaning, ProcessQueue
    <2>2. \A r \in Ids : release_queue'[r] + not_ready'[r] + ready'[r]
                           = release_queue[r] + not_ready[r] + ready[r]
      <3>1. \A r \in Ids : ready'[r] + not_ready'[r] = release_queue[r]
            /\ ready'[r] \in Nat /\ not_ready'[r] \in Nat /\ release_queue'[r] = 0
          BY <1>0, <1>2 DEF ProcessQueue, Nothing
      <3> QED BY <1>0, <2>1, <3>1 DEF Nothing
    <2> QED BY <1>2, <2>2, HeldSame DEF ProcessQueue, B!vars
  <1>3. CASE FinishBlock
    <2>1. release_queue = Nothing /\ ready = Nothing /\ ready' = ready
          /\ release_queue' = not_ready /\ not_ready' = Nothing
        BY <1>3 DEF Inv, TypeOK, LockMeaning, FinishBlock
    <2>2. \A r \in Ids : release_queue'[r] + not_ready'[r] + ready'[r]
                           = release_queue[r] + not_ready[r] + ready[r]
        BY <1>0, <2>1 DEF Nothing
    <2> QED BY <1>3, <2>2, HeldSame DEF FinishBlock, B!vars
  <1>4. ASSUME NEW id \in Ids, BroadcastSucceeds(id) \/ BroadcastFails(id) PROVE B!Next
    <2>1. /\ ready[id] > 0 /\ ready' = [ready EXCEPT ![id] = @ - 1]
          /\ UNCHANGED <<task, release_queue, not_ready, unlock, time>>
          /\ task # "panicked"
          /\ released' \in {released, released \union {id}}
        BY <1>4 DEF BroadcastSucceeds, BroadcastFails
    <2>2. /\ release_queue[id] = 0 /\ not_ready[id] = 0 /\ ready[id] = 1
      <3>1. release_queue[id] + not_ready[id] + ready[id]
               <= IF id \in owed THEN 1 ELSE 0
          BY DEF Inv, OneBroadcastPerRequest
      <3> QED BY <1>0, <2>1, <3>1
    <2>3. id \in Held
        BY <2>2 DEF Held
    <2>4. Held' = Held \ {id}
      <3>1. ready'[id] = 0 /\ \A r \in Ids \ {id} : ready'[r] = ready[r]
          BY <1>0, <2>1, <2>2
      <3>2. ~(release_queue'[id] + not_ready'[id] + ready'[id] > 0)
          BY <2>1, <2>2, <3>1
      <3> QED BY <2>1, <3>1, <3>2 DEF Held
    <2>5. unlock[id] < time
        BY <1>0, <2>1 DEF DueInv, Due
    <2> QED BY <2>1, <2>3, <2>4, <2>5 DEF B!Next, B!Release
  <1>5. ASSUME NEW id \in Ids, BroadcastPanics(id) PROVE B!Next
    <2>1. /\ Flashbots /\ task # "panicked" /\ task' = "panicked" /\ ready[id] > 0
          /\ lock /\ release_queue' = release_queue /\ UNCHANGED <<unlock, time, released>>
          /\ ready' = Nothing /\ not_ready' = Nothing
        BY <1>5 DEF BroadcastPanics, Inv, TypeOK
    <2>2. id \in Held
        BY <1>0, <2>1 DEF Held
    <2>3. Held' = {}
      <3>1. release_queue' = Nothing
          BY <2>1 DEF Inv, LockMeaning
      <3> QED BY <2>1, <3>1 DEF Held, Nothing
    <2>4. unlock[id] < time
        BY <1>0, <2>1 DEF DueInv, Due
    <2> QED BY <2>1, <2>2, <2>3, <2>4 DEF B!Next, B!Lose
  <1>6. ASSUME NEW t \in 1 .. MaxTime, NewBlock(t) PROVE B!Next
    <2>1. UNCHANGED Held
        BY <1>6 DEF NewBlock, Held
    <2> QED BY <1>6, <2>1 DEF NewBlock, B!Next, B!NewBlock
  <1>7. CASE \/ (\E id \in Ids : Request(id)) \/ ReceiveBlock \/ SubscriptionEnds
             \/ UNCHANGED vars
      BY <1>7 DEF Request, ReceiveBlock, SubscriptionEnds, vars, Held, B!vars
  <1> QED BY <1>1, <1>2, <1>3, <1>4, <1>5, <1>6, <1>7 DEF Next, AddSome, Task, Quiet

\* ReleaserQueue, with its lock, its emptied queue and its blocks received late,
\* is a book of the releases to be sent: none is lost, sent twice for one entry
\* in the book, or sent to a chain that has not passed the unlock timestamp, but
\* that a panic over a release that is due loses the book.
THEOREM ReleaserIsBook == Spec => ImplementsReleaseBook
  <1>1. Init => B!Init
      BY DEF Init, B!Init, Held, Nothing
  <1> QED BY <1>1, InitInv, NextInv, InitDue, NextDue, StepBooked, PTL
          DEF Spec, ImplementsReleaseBook, B!Spec

=============================================================================
