------------------------ MODULE EventListenerProofs ------------------------
(***************************************************************************)
(* The startup and the event listener for every set of reservations and    *)
(* every bound on the environment: types, no header skipped, the store     *)
(* mirroring the contract once caught up and never ahead of it, and what   *)
(* is kept in a session.                                                   *)
(* All rest on one inductive invariant, whose parts say what the log has,  *)
(* what a session has delivered, and what the applied events have done.    *)
(***************************************************************************)
EXTENDS EventListener, TLAPS

Session == {"select", "handle", "release"}
Started == Session \union {"subscribe", "retry"}

\* The log tells the life of every reservation, once.
LogTellsStatus ==
    /\ \A e \in log : e.block <= evm_height
    /\ \A e \in log : e.kind \in IndexKinds => e.id \in Ids
    /\ \A e \in log : e.kind = "LiquidityReserved" => contract[e.id] # "free"
    /\ \A e \in log : e.kind = "ProofSubmitted" => contract[e.id] \in {"proved", "complete"}
    /\ \A e \in log : e.kind = "SwapComplete" => contract[e.id] = "complete"
    /\ \A id \in Ids : contract[id] # "free" =>
          \E e \in log : e.kind = "LiquidityReserved" /\ e.id = id
    /\ \A id \in Ids : contract[id] \in {"proved", "complete"} =>
          \E e \in log : e.kind = "ProofSubmitted" /\ e.id = id
    /\ \A e, f \in log : e.kind = "LiquidityReserved" /\ f.kind = "LiquidityReserved"
                           /\ e.id = f.id => e = f
    /\ \A e, f \in log : e.kind = "ProofSubmitted" /\ f.kind = "ProofSubmitted"
                           /\ e.id = f.id => e = f

\* The BlocksAdded events announce exactly the headers of the contract, one event
\* after the other, and the store has those of the events applied.
LogTellsHeaders ==
    /\ \A e \in log : e.kind = "BlocksAdded" => HeadersOf(e) \subseteq 1 .. contract_tip
    /\ \A h \in 1 .. contract_tip : \E e \in log : e.kind = "BlocksAdded" /\ h \in HeadersOf(e)
    /\ safe_contract_block_hashes \subseteq 1 .. contract_tip
    /\ \A e \in applied : e.kind = "BlocksAdded" =>
          HeadersOf(e) \subseteq safe_contract_block_hashes
    /\ \A e \in log : e.kind = "BlocksAdded" => e.start + e.count <= contract_tip
    /\ \A e, f \in log : e.kind = "BlocksAdded" /\ f.kind = "BlocksAdded" =>
          /\ f.block = e.block => f = e
          /\ f.block < e.block => f.start + f.count <= e.start

\* No height is ahead of the chain.
HeightsReached ==
    /\ start_index <= evm_height /\ start_header <= evm_height
    /\ current_index <= evm_height /\ current_header <= evm_height

\* Phases reached only in some way.
PhaseMeaning ==
    /\ phase \in {"sync", "sync_logs"} => applied = {} /\ reservations = EmptyStore
    /\ phase = "retry" => failures > 0
    /\ phase = "release" => handling.kind = "ProofSubmitted"
    /\ phase \in Session /\ closes = 0 => open = Kinds

\* What a session has delivered lies behind its start and is applied, except
\* for the event being handled; header events are delivered in order.
Delivered ==
    phase \in Session =>
        /\ \A e \in processed : e.block >= From(e.kind) /\ (e # handling => e \in applied)
        /\ handling # None => handling \in processed
        /\ \A e \in processed, f \in log :
              e.kind = "BlocksAdded" /\ f.kind = "BlocksAdded"
                /\ start_header <= f.block /\ f.block < e.block => f \in processed
        /\ \A f \in log : f.kind = "BlocksAdded" /\ f.block < current_header => f \in applied

\* What the startup read up to start_index is applied.
SyncedApplied ==
    closes = 0 /\ phase \in Started \union {"header_tip", "headers"} =>
        \A e \in log : e.kind \in IndexKinds /\ e.block <= start_index => e \in applied

\* What the applied events have left in the store and in the release queue.
AppliedShows ==
    /\ \A e \in applied : e.kind = "LiquidityReserved" /\ contract[e.id] = "reserved" =>
          reservations[e.id] # None
    /\ \A e \in applied : e.kind = "ProofSubmitted" /\ contract[e.id] = "proved" =>
          e.id \in release_requests
    /\ \A id \in Ids : reservations[id] # None => contract[id] # "free"
    /\ \A id \in Ids : reservations[id] # None /\ contract[id] = "reserved" =>
          \E e \in applied : e.kind = "LiquidityReserved" /\ e.id = id

\* Until a session ends, an event is applied once, except where the sync ended.
AppliedOnce ==
    failures = 0 /\ closes = 0 =>
        \A e \in applied : e.kind \in IndexKinds =>
            e.block <= start_index \/ (phase \in Session /\ e \in processed /\ e # handling)

IInv ==
    /\ TypeOK
    /\ LogTellsStatus
    /\ LogTellsHeaders
    /\ HeightsReached
    /\ PhaseMeaning
    /\ Delivered
    /\ HeadersNeverSkipped
    /\ SyncedApplied
    /\ AppliedShows
    /\ AppliedOnce

-----------------------------------------------------------------------------
(* What the actions do to the values they change.                          *)

\* What download_reservation answers about a reservation that is in the log is
\* a reservation without progress (evm_indexer.rs:214-244).
LEMMA DownloadedType ==
    ASSUME TypeOK, NEW e \in log, e.kind = "LiquidityReserved"
    PROVE  Downloaded(e.id) \in Metadata /\ Downloaded(e.id) # None
<1>1. ReservedAt(e.id) \in Nat
  <2> DEFINE made == CHOOSE f \in log : f.kind = "LiquidityReserved" /\ f.id = e.id
  <2>1. made \in log
    OBVIOUS
  <2> QED BY <2>1 DEF ReservedAt, TypeOK, Event
<1> QED BY <1>1, NoneAssumption DEF Downloaded, NewMetadata, Metadata

\* A payment is written into an entry that is there (core.rs:177-190).
LEMMA PaymentType ==
    ASSUME TypeOK, NEW id \in Ids, reservations[id] # None
    PROVE  LET new == update_btc_reservation_initial(reservations, id, Paid)
           IN  /\ new \in [Ids -> Metadata \union {None}]
               /\ \A r \in Ids : (new[r] = None) <=> (reservations[r] = None)
<1> DEFINE entry == [reservations[id] EXCEPT !.btc_initial = Paid]
<1>1. entry \in Metadata /\ entry # None
  <2>1. reservations[id] \in Metadata
    BY DEF TypeOK
  <2>2. entry \in Metadata
    BY <2>1 DEF Metadata
  <2> QED BY <2>2, NoneAssumption
<1>2. update_btc_reservation_initial(reservations, id, Paid)
        = [reservations EXCEPT ![id] = entry]
  BY DEF update_btc_reservation_initial
<1> HIDE DEF entry
<1> QED BY <1>1, <1>2 DEF TypeOK

\* The startup downloads reservations that are in the log, and queues ids of
\* reservations (evm_indexer.rs:316-426).
LEMMA SyncedType ==
    ASSUME TypeOK, LogTellsStatus
    PROVE  /\ \A id \in Active : Downloaded(id) \in Metadata /\ Downloaded(id) # None
           /\ InChallenge \subseteq Ids
           /\ \A id \in Active : contract[id] # "free"
<1>1. ASSUME NEW id \in Active
      PROVE  Downloaded(id) \in Metadata /\ Downloaded(id) # None /\ contract[id] # "free"
  <2> PICK e \in log : e.kind = "LiquidityReserved" /\ e.id = id
    BY DEF Active, Seen, SyncedEvents
  <2> QED BY DownloadedType DEF LogTellsStatus
<1>2. InChallenge \subseteq Ids
  BY DEF InChallenge, Seen, SyncedEvents, LogTellsStatus, IndexKinds
<1> QED BY <1>1, <1>2

\* What the log gains in a block: events of its own height only, one for each
\* reservation that goes on, of the kind that reservation has come to.
Mined(new, ids, count) ==
    /\ log' = log \union new
    /\ \A e \in new : e.block = evm_height + 1
    /\ \A e \in new : e.kind \in IndexKinds =>
          e.id \in ids /\ e.kind = EventOf[contract[e.id]]
    /\ \A id \in ids : \E e \in new : e.kind = EventOf[contract[id]] /\ e.id = id
    /\ \A e, f \in new : e.kind \in IndexKinds /\ f.kind \in IndexKinds
                           /\ e.id = f.id => e = f
    /\ \A e \in new : e.kind = "BlocksAdded" =>
          contract_tip' = contract_tip + count /\ e.start = contract_tip /\ e.count = count
    /\ \A e, f \in new : e.kind = "BlocksAdded" /\ f.kind = "BlocksAdded" => e = f
    /\ contract_tip' # contract_tip =>
          contract_tip' = contract_tip + count /\ \E e \in new : e.kind = "BlocksAdded"

\* MineEvm adds such events.
LEMMA MinedEvents ==
    ASSUME TypeOK, NEW ids \in SUBSET Ids, NEW count \in 0 .. MaxCount, MineEvm(ids, count)
    PROVE  \E new \in SUBSET Event : Mined(new, ids, count)
<1> USE EventAssumption
<1> DEFINE block == evm_height + 1
           added == IF (\E id \in ids : contract[id] = "reserved") /\ count > 0
                      THEN {[block |-> block, kind |-> "BlocksAdded", id |-> None,
                             start |-> contract_tip, count |-> count]}
                      ELSE {}
           event(id) == [block |-> block, kind |-> EventOf[contract[id]], id |-> id,
                         start |-> 0, count |-> 0]
           new == added \union {event(id) : id \in ids}
<1>1. log' = log \union new
  BY DEF MineEvm
<1>2. \A id \in ids : EventOf[contract[id]] \in IndexKinds
  BY DEF MineEvm, TypeOK, EventOf, IndexKinds
<1>3. block \in Nat /\ contract_tip \in Nat /\ count \in Nat
  BY DEF TypeOK
<1>4. \A e \in added : e.kind = "BlocksAdded" /\ e \in Event
  BY <1>3 DEF Event, Kinds
<1>5. \A id \in ids : event(id) \in Event
  BY <1>2, <1>3 DEF Event, Kinds
<1>6. "BlocksAdded" \notin IndexKinds
  BY DEF IndexKinds
<1>7. \A e \in added : /\ contract_tip' = contract_tip + count
                       /\ e.start = contract_tip /\ e.count = count /\ e.block = block
  BY DEF MineEvm
<1>8. contract_tip' # contract_tip =>
         contract_tip' = contract_tip + count /\ \E e \in added : e.kind = "BlocksAdded"
  <2> SUFFICES ASSUME contract_tip' # contract_tip
               PROVE  contract_tip' = contract_tip + count
                      /\ \E e \in added : e.kind = "BlocksAdded"
    OBVIOUS
  <2>1. (\E id \in ids : contract[id] = "reserved") /\ count > 0
    BY <1>3 DEF MineEvm
  <2>2. added = {[block |-> block, kind |-> "BlocksAdded", id |-> None,
                  start |-> contract_tip, count |-> count]}
    BY <2>1
  <2> QED BY <2>1, <2>2 DEF MineEvm
<1>9. new \in SUBSET Event
  BY <1>4, <1>5
<1>10. \A e \in new : e.block = block
  BY <1>7
<1>18. \A e, f \in added : e = f
  OBVIOUS
<1> HIDE DEF added
<1>11. \A e \in new : e.kind \in IndexKinds => \E id \in ids : e = event(id)
  BY <1>4, <1>6
<1>12. \A e \in new : e.kind = "BlocksAdded" => e \in added
  BY <1>2, <1>6
<1>13. \A id \in ids : event(id) \in new /\ event(id).id = id
                       /\ event(id).kind = EventOf[contract[id]]
  OBVIOUS
<1> HIDE DEF event
<1>14. \A e \in new : e.kind \in IndexKinds =>
         e.id \in ids /\ e.kind = EventOf[contract[e.id]]
  BY <1>11, <1>13
<1>15. \A e, f \in new : e.kind \in IndexKinds /\ f.kind \in IndexKinds
                           /\ e.id = f.id => e = f
  BY <1>11, <1>13
<1> HIDE DEF new
<1>16. \A e \in new : e.kind = "BlocksAdded" =>
         contract_tip' = contract_tip + count /\ e.start = contract_tip /\ e.count = count
  BY <1>7, <1>12
<1>17. contract_tip' # contract_tip =>
         contract_tip' = contract_tip + count /\ \E e \in new : e.kind = "BlocksAdded"
  BY <1>8 DEF new
<1>19. \A e, f \in new : e.kind = "BlocksAdded" /\ f.kind = "BlocksAdded" => e = f
  BY <1>12, <1>18
<1> QED BY <1>1, <1>9, <1>10, <1>13, <1>14, <1>15, <1>16, <1>17, <1>19 DEF Mined

-----------------------------------------------------------------------------
(* Every step keeps the invariant.                                         *)

\* The tip read at evm_indexer.rs:304-314 is not ahead of the chain.
LEMMA SyncTipInv ==
    ASSUME IInv, SyncTip
    PROVE  IInv'
<1> USE EventAssumption, NoneAssumption
<1> USE DEF contractSide, session, starts, budget, Session, Started, IInv
<1>1. (LogTellsStatus /\ LogTellsHeaders /\ AppliedShows)'
  BY DEF SyncTip, LogTellsStatus, LogTellsHeaders, AppliedShows
<1>2. TypeOK'
  BY DEF SyncTip, TypeOK
<1>3. HeightsReached'
  BY DEF SyncTip, HeightsReached, TypeOK
<1>4. PhaseMeaning'
  BY DEF SyncTip, PhaseMeaning
<1>5. Delivered'
  BY DEF SyncTip, Delivered
<1>6. HeadersNeverSkipped'
  BY DEF SyncTip, HeadersNeverSkipped
<1>7. SyncedApplied'
  BY DEF SyncTip, SyncedApplied
<1>8. AppliedOnce'
  BY DEF SyncTip, AppliedOnce, PhaseMeaning
<1> QED BY <1>1, <1>2, <1>3, <1>4, <1>5, <1>6, <1>7, <1>8 DEF IInv

\* What the startup reads is what the log holds up to start_index.
LEMMA SyncReservationsInv ==
    ASSUME IInv, SyncReservations
    PROVE  IInv'
<1> USE EventAssumption, NoneAssumption
<1> USE DEF contractSide, session, starts, budget, Session, Started, IInv
<1>s. /\ \A id \in Active : Downloaded(id) \in Metadata /\ Downloaded(id) # None
      /\ \A id \in Active : contract[id] # "free"
      /\ InChallenge \subseteq Ids
  BY SyncedType
<1>t. applied' \subseteq log /\ \A e \in applied' : e.kind \in IndexKinds /\ e.id \in Ids
  BY DEF SyncReservations, SyncedEvents, PhaseMeaning, LogTellsStatus
<1>1. (LogTellsStatus /\ HeightsReached)'
  BY DEF SyncReservations, LogTellsStatus, HeightsReached
<1>2. TypeOK'
  BY <1>s, <1>t DEF SyncReservations, TypeOK
<1>3. LogTellsHeaders'
  BY <1>t DEF SyncReservations, IndexKinds, LogTellsHeaders
<1>4. PhaseMeaning'
  BY DEF SyncReservations, PhaseMeaning
<1>5. Delivered'
  BY DEF SyncReservations, Delivered
<1>6. HeadersNeverSkipped'
  BY DEF SyncReservations, HeadersNeverSkipped
<1>7. SyncedApplied'
  BY DEF SyncReservations, SyncedEvents, SyncedApplied
<1>8. AppliedShows'
  <2>1. \A id \in Ids : reservations'[id] = IF id \in Active THEN Downloaded(id) ELSE None
    BY DEF SyncReservations, PhaseMeaning, EmptyStore
  <2>2. applied' = SyncedEvents /\ UNCHANGED contract
    BY DEF SyncReservations, PhaseMeaning, contractSide
  <2>3. ASSUME NEW e \in applied', e.kind = "LiquidityReserved", contract[e.id] = "reserved"
        PROVE  e.id \in Active
    <3>1. \A f \in SyncedEvents : f.id = e.id => f.kind \notin {"ProofSubmitted", "SwapComplete"}
      BY <2>3 DEF SyncedEvents, LogTellsStatus
    <3>2. e.id \in Seen("LiquidityReserved")
      BY <2>2, <2>3 DEF Seen
    <3> QED BY <3>1, <3>2 DEF Active, Seen
  <2>4. ASSUME NEW e \in applied', e.kind = "ProofSubmitted", contract[e.id] = "proved"
        PROVE  e.id \in InChallenge
    <3>1. \A f \in SyncedEvents : f.id = e.id => f.kind # "SwapComplete"
      BY <2>4 DEF SyncedEvents, LogTellsStatus
    <3>2. e.id \in Seen("ProofSubmitted")
      BY <2>2, <2>4 DEF Seen
    <3> QED BY <3>1, <3>2 DEF InChallenge, Seen
  <2>5. ASSUME NEW id \in Active
        PROVE  \E e \in applied' : e.kind = "LiquidityReserved" /\ e.id = id
    BY <2>2 DEF Active, Seen
  <2>6. InChallenge \subseteq release_requests'
    BY DEF SyncReservations
  <2> QED BY <1>s, <1>t, <2>1, <2>2, <2>3, <2>4, <2>5, <2>6 DEF AppliedShows
<1>9. AppliedOnce'
  BY DEF SyncReservations, SyncedEvents, AppliedOnce
<1> QED BY <1>1, <1>2, <1>3, <1>4, <1>5, <1>6, <1>7, <1>8, <1>9 DEF IInv

\* The tip is read before the headers are.
LEMMA HeaderTipInv ==
    ASSUME IInv, HeaderTip
    PROVE  IInv'
<1> USE EventAssumption, NoneAssumption
<1> USE DEF contractSide, session, starts, budget, Session, Started, IInv
<1>1. (LogTellsStatus /\ LogTellsHeaders /\ AppliedShows)'
  BY DEF HeaderTip, LogTellsStatus, LogTellsHeaders, AppliedShows
<1>2. TypeOK'
  BY DEF HeaderTip, TypeOK
<1>3. HeightsReached'
  BY DEF HeaderTip, HeightsReached, TypeOK
<1>4. PhaseMeaning'
  BY DEF HeaderTip, PhaseMeaning
<1>5. Delivered'
  BY DEF HeaderTip, Delivered
<1>6. HeadersNeverSkipped'
  BY DEF HeaderTip, HeadersNeverSkipped
<1>7. SyncedApplied'
  BY DEF HeaderTip, SyncedApplied
<1>8. AppliedOnce'
  BY DEF HeaderTip, AppliedOnce
<1> QED BY <1>1, <1>2, <1>3, <1>4, <1>5, <1>6, <1>7, <1>8 DEF IInv

\* The header sync takes in every announcement made so far.
LEMMA SyncHeadersInv ==
    ASSUME IInv, SyncHeaders
    PROVE  IInv'
<1> USE EventAssumption, NoneAssumption
<1> USE DEF contractSide, session, starts, budget, Session, Started, IInv
<1>1. (LogTellsStatus /\ HeightsReached)'
  BY DEF SyncHeaders, LogTellsStatus, HeightsReached
<1>2. TypeOK'
  BY DEF SyncHeaders, TypeOK
<1>3. LogTellsHeaders'
  BY DEF SyncHeaders, LogTellsHeaders
<1>4. PhaseMeaning'
  BY DEF SyncHeaders, PhaseMeaning
<1>5. Delivered'
  BY DEF SyncHeaders, Delivered
<1>6. HeadersNeverSkipped'
  BY DEF SyncHeaders, HeadersNeverSkipped
<1>7. SyncedApplied'
  BY DEF SyncHeaders, SyncedApplied
<1>8. AppliedShows'
  BY DEF SyncHeaders, AppliedShows
<1>9. AppliedOnce'
  BY DEF SyncHeaders, IndexKinds, AppliedOnce
<1> QED BY <1>1, <1>2, <1>3, <1>4, <1>5, <1>6, <1>7, <1>8, <1>9 DEF IInv

\* A session starts with nothing delivered.
LEMMA SubscribeInv ==
    ASSUME IInv, Subscribe
    PROVE  IInv'
<1> USE EventAssumption, NoneAssumption
<1> USE DEF contractSide, session, starts, budget, Session, Started, IInv
<1>1. (LogTellsStatus /\ LogTellsHeaders /\ AppliedShows)'
  BY DEF Subscribe, LogTellsStatus, LogTellsHeaders, AppliedShows
<1>2. TypeOK'
  BY DEF Subscribe, TypeOK
<1>3. HeightsReached'
  BY DEF Subscribe, HeightsReached
<1>4. PhaseMeaning'
  BY DEF Subscribe, PhaseMeaning
<1>5. Delivered'
  BY DEF Subscribe, Delivered, TypeOK, HeadersNeverSkipped
<1>6. HeadersNeverSkipped'
  BY DEF Subscribe, HeadersNeverSkipped
<1>7. SyncedApplied'
  BY DEF Subscribe, SyncedApplied
<1>8. AppliedOnce'
  BY DEF Subscribe, AppliedOnce
<1> QED BY <1>1, <1>2, <1>3, <1>4, <1>5, <1>6, <1>7, <1>8 DEF IInv

\* After an error the start heights are the old ones.
LEMMA RetryInv ==
    ASSUME IInv, Retry
    PROVE  IInv'
<1> USE EventAssumption, NoneAssumption
<1> USE DEF contractSide, session, starts, budget, Session, Started, IInv
<1>1. (LogTellsStatus /\ LogTellsHeaders /\ HeightsReached /\ AppliedShows)'
  BY DEF Retry, LogTellsStatus, LogTellsHeaders, HeightsReached, AppliedShows
<1>2. TypeOK'
  BY DEF Retry, TypeOK
<1>3. PhaseMeaning'
  BY DEF Retry, PhaseMeaning
<1>4. Delivered'
  BY DEF Retry, Delivered
<1>5. HeadersNeverSkipped'
  BY DEF Retry, HeadersNeverSkipped
<1>6. SyncedApplied'
  BY DEF Retry, SyncedApplied
<1>7. AppliedOnce'
  BY DEF Retry, AppliedOnce
<1> QED BY <1>1, <1>2, <1>3, <1>4, <1>5, <1>6, <1>7 DEF IInv

\* The next session starts where the last events were: for headers, all before are applied.
LEMMA AllClosedInv ==
    ASSUME IInv, AllClosed
    PROVE  IInv'
<1> USE EventAssumption, NoneAssumption
<1> USE DEF contractSide, session, starts, budget, Session, Started, IInv
<1>1. (LogTellsStatus /\ LogTellsHeaders /\ AppliedShows)'
  BY DEF AllClosed, LogTellsStatus, LogTellsHeaders, AppliedShows
<1>2. TypeOK'
  BY DEF AllClosed, TypeOK
<1>3. HeightsReached'
  BY DEF AllClosed, HeightsReached
<1>4. PhaseMeaning'
  BY DEF AllClosed, PhaseMeaning
<1>5. Delivered'
  BY DEF AllClosed, Delivered
<1>6. HeadersNeverSkipped'
  BY DEF AllClosed, HeadersNeverSkipped, Delivered
<1>7. SyncedApplied'
  BY DEF AllClosed, Kinds, SyncedApplied, PhaseMeaning
<1>8. AppliedOnce'
  BY DEF AllClosed, Kinds, AppliedOnce, PhaseMeaning
<1> QED BY <1>1, <1>2, <1>3, <1>4, <1>5, <1>6, <1>7, <1>8 DEF IInv

\* An event is delivered in the order of its stream.
LEMMA ReceiveInv ==
    ASSUME IInv, NEW kind \in open, NEW e \in NextOf(kind), Receive(e)
    PROVE  IInv'
<1> USE EventAssumption, NoneAssumption
<1> USE DEF contractSide, session, starts, budget, Session, Started, IInv
<1>1. (LogTellsStatus /\ LogTellsHeaders /\ HeightsReached /\ AppliedShows)'
  BY DEF Receive, LogTellsStatus, LogTellsHeaders, HeightsReached, AppliedShows
<1>2. TypeOK'
  BY DEF Receive, NextOf, Undelivered, TypeOK
<1>3. PhaseMeaning'
  BY DEF Receive, PhaseMeaning
<1>4. Delivered'
  BY DEF Receive, NextOf, Undelivered, From, Event, Delivered, TypeOK
<1>5. HeadersNeverSkipped'
  BY DEF Receive, HeadersNeverSkipped
<1>6. SyncedApplied'
  BY DEF Receive, SyncedApplied
<1>7. AppliedOnce'
  BY DEF Receive, NextOf, Undelivered, AppliedOnce
<1> QED BY <1>1, <1>2, <1>3, <1>4, <1>5, <1>6, <1>7 DEF IInv

\* A SwapComplete event removes a reservation that is not open any more.
LEMMA ReceiveSwapCompleteInv ==
    ASSUME IInv, NEW kind \in open, NEW e \in NextOf(kind), ReceiveSwapComplete(e)
    PROVE  IInv'
<1> USE EventAssumption, NoneAssumption
<1> USE DEF contractSide, session, starts, budget, Session, Started, IInv
<1>1. LogTellsStatus'
  BY DEF ReceiveSwapComplete, LogTellsStatus
<1>2. TypeOK'
  BY DEF ReceiveSwapComplete, NextOf, Undelivered, Advance, remove, Event,
         TypeOK
<1>3. LogTellsHeaders'
  BY DEF ReceiveSwapComplete, LogTellsHeaders
<1>4. HeightsReached'
  BY DEF ReceiveSwapComplete, NextOf, Undelivered, Advance, HeightsReached,
         LogTellsStatus
<1>5. PhaseMeaning'
  BY DEF ReceiveSwapComplete, PhaseMeaning
<1>6. Delivered'
  BY DEF ReceiveSwapComplete, NextOf, Undelivered, From, Advance, Delivered
<1>7. HeadersNeverSkipped'
  BY DEF ReceiveSwapComplete, HeadersNeverSkipped
<1>8. SyncedApplied'
  BY DEF ReceiveSwapComplete, SyncedApplied
<1>9. AppliedShows'
  BY DEF ReceiveSwapComplete, NextOf, Undelivered, remove, AppliedShows,
         LogTellsStatus
<1>10. AppliedOnce'
  BY DEF ReceiveSwapComplete, NextOf, Undelivered, AppliedOnce, TypeOK
<1> QED BY <1>1, <1>2, <1>3, <1>4, <1>5, <1>6, <1>7, <1>8, <1>9, <1>10 DEF IInv

\* A LiquidityReserved event brings a reservation into the store.
LEMMA HandleReservedInv ==
    ASSUME IInv, HandleReserved
    PROVE  IInv'
<1> USE EventAssumption, NoneAssumption
<1> USE DEF contractSide, session, starts, budget, Session, Started, IInv
<1>d. handling \in log /\ handling.kind = "LiquidityReserved" /\ handling.id \in Ids
  BY DEF HandleReserved, TypeOK, LogTellsStatus, IndexKinds
<1>e. Downloaded(handling.id) \in Metadata /\ Downloaded(handling.id) # None
  BY <1>d, DownloadedType
<1>1. LogTellsStatus'
  BY DEF HandleReserved, LogTellsStatus
<1>2. TypeOK'
  BY <1>d, <1>e DEF HandleReserved, Advance, insert, Event, TypeOK
<1>3. LogTellsHeaders'
  BY DEF HandleReserved, LogTellsHeaders
<1>4. HeightsReached'
  BY DEF HandleReserved, Advance, HeightsReached, TypeOK, LogTellsStatus
<1>5. PhaseMeaning'
  BY DEF HandleReserved, PhaseMeaning
<1>6. Delivered'
  BY DEF HandleReserved, Advance, From, Delivered
<1>7. HeadersNeverSkipped'
  BY DEF HandleReserved, HeadersNeverSkipped
<1>8. SyncedApplied'
  BY DEF HandleReserved, SyncedApplied
<1>9. AppliedShows'
  <2>1. \A e \in applied : e.kind = "LiquidityReserved" => e.id \in Ids
    BY DEF TypeOK, LogTellsStatus, IndexKinds
  <2>2. /\ reservations' \in [Ids -> Metadata \union {None}]
        /\ reservations'[handling.id] # None
        /\ \A id \in Ids \ {handling.id} : reservations'[id] = reservations[id]
    BY <1>d, <1>e DEF HandleReserved, insert, TypeOK
  <2>3. contract[handling.id] # "free" /\ applied' = applied \union {handling}
    BY <1>d DEF HandleReserved, LogTellsStatus
  <2> QED BY <1>d, <2>1, <2>2, <2>3 DEF HandleReserved, AppliedShows
<1>10. AppliedOnce'
  BY DEF HandleReserved, AppliedOnce, TypeOK, Delivered
<1> QED BY <1>1, <1>2, <1>3, <1>4, <1>5, <1>6, <1>7, <1>8, <1>9, <1>10 DEF IInv

\* A ProofSubmitted event brings a reservation back that is not open any more.
LEMMA HandleProofSubmittedInv ==
    ASSUME IInv, HandleProofSubmitted
    PROVE  IInv'
<1> USE EventAssumption, NoneAssumption
<1> USE DEF contractSide, session, starts, budget, Session, Started, IInv
<1>d. PICK e \in log : e.kind = "LiquidityReserved" /\ e.id = handling.id
  BY DEF HandleProofSubmitted, TypeOK, LogTellsStatus, IndexKinds
<1>e. Downloaded(handling.id) \in Metadata /\ Downloaded(handling.id) # None
  BY <1>d, DownloadedType
<1>1. (LogTellsStatus /\ LogTellsHeaders /\ HeightsReached)'
  BY DEF HandleProofSubmitted, LogTellsStatus, LogTellsHeaders, HeightsReached
<1>2. TypeOK'
  BY <1>e DEF HandleProofSubmitted, insert, TypeOK
<1>3. PhaseMeaning'
  BY DEF HandleProofSubmitted, PhaseMeaning
<1>4. Delivered'
  BY DEF HandleProofSubmitted, From, Delivered
<1>5. HeadersNeverSkipped'
  BY DEF HandleProofSubmitted, HeadersNeverSkipped
<1>6. SyncedApplied'
  BY DEF HandleProofSubmitted, SyncedApplied
<1>7. AppliedShows'
  BY DEF HandleProofSubmitted, insert, AppliedShows, TypeOK, LogTellsStatus
<1>8. AppliedOnce'
  BY DEF HandleProofSubmitted, AppliedOnce
<1> QED BY <1>1, <1>2, <1>3, <1>4, <1>5, <1>6, <1>7, <1>8 DEF IInv

\* Then the reservation is handed to the releaser.
LEMMA AddReleaseInv ==
    ASSUME IInv, AddRelease
    PROVE  IInv'
<1> USE EventAssumption, NoneAssumption
<1> USE DEF contractSide, session, starts, budget, Session, Started, IInv
<1>1. LogTellsStatus'
  BY DEF AddRelease, LogTellsStatus
<1>2. TypeOK'
  BY DEF AddRelease, Advance, Kinds, Event, TypeOK, PhaseMeaning,
         LogTellsStatus
<1>3. LogTellsHeaders'
  <2>1. handling.kind = "ProofSubmitted"
    BY DEF AddRelease, PhaseMeaning
  <2> QED BY <2>1 DEF AddRelease, LogTellsHeaders
<1>4. HeightsReached'
  BY DEF AddRelease, Advance, HeightsReached, TypeOK, LogTellsStatus
<1>5. PhaseMeaning'
  BY DEF AddRelease, PhaseMeaning
<1>6. Delivered'
  BY DEF AddRelease, Advance, From, Event, Delivered, TypeOK,
         HeadersNeverSkipped
<1>7. HeadersNeverSkipped'
  BY DEF AddRelease, HeadersNeverSkipped
<1>8. SyncedApplied'
  BY DEF AddRelease, SyncedApplied
<1>9. AppliedShows'
  BY DEF AddRelease, AppliedShows, PhaseMeaning
<1>10. AppliedOnce'
  BY DEF AddRelease, AppliedOnce, TypeOK, Delivered
<1> QED BY <1>1, <1>2, <1>3, <1>4, <1>5, <1>6, <1>7, <1>8, <1>9, <1>10 DEF IInv

\* A BlocksAdded event brings its headers into the store.
LEMMA HandleBlocksAddedInv ==
    ASSUME IInv, HandleBlocksAdded
    PROVE  IInv'
<1> USE EventAssumption, NoneAssumption
<1> USE DEF contractSide, session, starts, budget, Session, Started, IInv
<1>1. LogTellsStatus'
  BY DEF HandleBlocksAdded, LogTellsStatus
<1>2. TypeOK'
  <2>1. handling \in Event /\ HeadersOf(handling) \subseteq Nat \ {0}
    BY DEF HandleBlocksAdded, TypeOK, HeadersOf, Event
  <2> QED BY <2>1 DEF HandleBlocksAdded, Advance, Event, TypeOK, PhaseMeaning
<1>3. LogTellsHeaders'
  BY DEF HandleBlocksAdded, LogTellsHeaders, TypeOK
<1>4. HeightsReached'
  BY DEF HandleBlocksAdded, Advance, HeightsReached, TypeOK, LogTellsStatus
<1>5. PhaseMeaning'
  BY DEF HandleBlocksAdded, PhaseMeaning
<1>6. Delivered'
  BY DEF HandleBlocksAdded, Advance, From, Event, Delivered, TypeOK,
         HeadersNeverSkipped
<1>7. HeadersNeverSkipped'
  BY DEF HandleBlocksAdded, HeadersNeverSkipped
<1>8. SyncedApplied'
  BY DEF HandleBlocksAdded, SyncedApplied
<1>9. AppliedShows'
  BY DEF HandleBlocksAdded, AppliedShows
<1>10. AppliedOnce'
  BY DEF HandleBlocksAdded, IndexKinds, AppliedOnce, TypeOK
<1> QED BY <1>1, <1>2, <1>3, <1>4, <1>5, <1>6, <1>7, <1>8, <1>9, <1>10 DEF IInv

\* A new EVM block is ahead of all heights, and its events are new.
LEMMA MineEvmInv ==
    ASSUME IInv, NEW ids \in SUBSET Ids, NEW count \in 0 .. MaxCount, MineEvm(ids, count)
    PROVE  IInv'
<1> USE EventAssumption, NoneAssumption
<1> USE DEF contractSide, session, starts, budget, Session, Started, IInv
<1>m. PICK new \in SUBSET Event : Mined(new, ids, count)
  BY MinedEvents
<1> USE DEF Mined
<1>c. /\ \A id \in ids : contract'[id] = NextStatus[contract[id]] /\ contract[id] # "complete"
      /\ \A id \in Ids \ ids : contract'[id] = contract[id]
  BY DEF MineEvm
<1>n. /\ evm_height' = evm_height + 1 /\ evm_height \in Nat
      /\ contract_tip' \in Nat /\ contract_tip \in Nat
  BY DEF MineEvm, TypeOK
<1>1. (PhaseMeaning /\ AppliedOnce)'
  BY DEF MineEvm, PhaseMeaning, AppliedOnce
<1>2. TypeOK'
  <2>1. contract' \in [Ids -> {"free", "reserved", "proved", "complete"}]
    BY DEF MineEvm, NextStatus, TypeOK
  <2> QED BY <1>m, <1>n, <2>1 DEF MineEvm, TypeOK
<1>3. LogTellsStatus'
  <2>1. \A id \in Ids : contract[id] \in {"free", "reserved", "proved", "complete"}
    BY DEF TypeOK
  <2>2. \A id \in ids :
           \/ /\ contract[id] = "free" /\ contract'[id] = "reserved"
              /\ EventOf[contract[id]] = "LiquidityReserved"
           \/ /\ contract[id] = "reserved" /\ contract'[id] = "proved"
              /\ EventOf[contract[id]] = "ProofSubmitted"
           \/ /\ contract[id] = "proved" /\ contract'[id] = "complete"
              /\ EventOf[contract[id]] = "SwapComplete"
    BY <1>c, <2>1 DEF NextStatus, EventOf
  <2>3. \A e \in log' : e.block <= evm_height'
    BY <1>m, <1>n DEF TypeOK, LogTellsStatus, Event
  <2>4. \A e \in log' : e.kind \in IndexKinds => e.id \in Ids
    BY <1>m DEF LogTellsStatus
  <2>5. /\ \A e \in log' : e.kind = "LiquidityReserved" => contract'[e.id] # "free"
        /\ \A e \in log' : e.kind = "ProofSubmitted" => contract'[e.id] \in {"proved", "complete"}
        /\ \A e \in log' : e.kind = "SwapComplete" => contract'[e.id] = "complete"
    <3>1. ASSUME NEW e \in log, e.kind \in IndexKinds
          PROVE  /\ e.kind = "LiquidityReserved" => contract'[e.id] # "free"
                 /\ e.kind = "ProofSubmitted" => contract'[e.id] \in {"proved", "complete"}
                 /\ e.kind = "SwapComplete" => contract'[e.id] = "complete"
      BY <1>c, <2>2, <3>1 DEF LogTellsStatus
    <3>2. ASSUME NEW e \in new, e.kind \in IndexKinds
          PROVE  /\ e.kind = "LiquidityReserved" => contract'[e.id] # "free"
                 /\ e.kind = "ProofSubmitted" => contract'[e.id] \in {"proved", "complete"}
                 /\ e.kind = "SwapComplete" => contract'[e.id] = "complete"
      BY <1>m, <2>2, <3>2
    <3> QED BY <1>m, <3>1, <3>2 DEF IndexKinds
  <2>6. \A id \in Ids : contract'[id] # "free" =>
           \E e \in log' : e.kind = "LiquidityReserved" /\ e.id = id
    BY <1>m, <1>c, <2>2 DEF LogTellsStatus
  <2>7. \A e, f \in log' : e.kind = "LiquidityReserved" /\ f.kind = "LiquidityReserved"
                             /\ e.id = f.id => e = f
    <3>1. ASSUME NEW e \in new, e.kind = "LiquidityReserved" PROVE contract[e.id] = "free"
      BY <1>m, <2>2, <3>1 DEF IndexKinds
    <3>2. \A e \in log : e.kind = "LiquidityReserved" => contract[e.id] # "free"
      BY DEF LogTellsStatus
    <3> QED BY <1>m, <3>1, <3>2 DEF LogTellsStatus, IndexKinds
  <2>8. \A id \in Ids : contract'[id] \in {"proved", "complete"} =>
           \E e \in log' : e.kind = "ProofSubmitted" /\ e.id = id
    BY <1>m, <1>c, <2>2 DEF LogTellsStatus
  <2>9. \A e, f \in log' : e.kind = "ProofSubmitted" /\ f.kind = "ProofSubmitted"
                             /\ e.id = f.id => e = f
    <3>1. ASSUME NEW e \in new, e.kind = "ProofSubmitted" PROVE contract[e.id] = "reserved"
      BY <1>m, <2>2, <3>1 DEF IndexKinds
    <3>2. \A e \in log : e.kind = "ProofSubmitted" => contract[e.id] # "reserved"
      BY DEF LogTellsStatus
    <3> QED BY <1>m, <3>1, <3>2 DEF LogTellsStatus, IndexKinds
  <2> QED BY <2>3, <2>4, <2>5, <2>6, <2>7, <2>8, <2>9 DEF LogTellsStatus
<1>4. LogTellsHeaders'
  <2>1. contract_tip <= contract_tip' /\ UNCHANGED <<applied, safe_contract_block_hashes>>
    BY <1>m, <1>n DEF MineEvm
  <2>2. ASSUME NEW e \in log', e.kind = "BlocksAdded"
        PROVE  HeadersOf(e) \subseteq 1 .. contract_tip'
    <3>1. CASE e \in log
      BY <1>n, <2>1, <2>2, <3>1 DEF LogTellsHeaders
    <3>2. CASE e \in new
      BY <1>m, <1>n, <2>2, <3>2 DEF HeadersOf
    <3> QED BY <1>m, <3>1, <3>2
  <2>3. ASSUME NEW h \in 1 .. contract_tip'
        PROVE  \E e \in log' : e.kind = "BlocksAdded" /\ h \in HeadersOf(e)
    <3>1. CASE h <= contract_tip
      BY <1>m, <1>n, <3>1 DEF LogTellsHeaders
    <3>2. CASE h > contract_tip
      <4>1. contract_tip' = contract_tip + count
        BY <1>m, <1>n, <3>2
      <4>2. PICK e \in new : e.kind = "BlocksAdded"
        BY <1>m, <1>n, <3>2
      <4>3. h \in HeadersOf(e)
        BY <1>m, <1>n, <3>2, <4>1, <4>2 DEF HeadersOf
      <4> QED BY <1>m, <4>2, <4>3
    <3> QED BY <1>n, <3>1, <3>2
  <2>4. ASSUME NEW e \in log', e.kind = "BlocksAdded"
        PROVE  e.start + e.count <= contract_tip'
    <3>1. CASE e \in log
      <4>1. e.start \in Nat /\ e.count \in Nat
        BY <3>1 DEF TypeOK, Event
      <4>2. e.start + e.count <= contract_tip
        BY <2>4, <3>1 DEF LogTellsHeaders
      <4> QED BY <1>n, <2>1, <4>1, <4>2
    <3>2. CASE e \in new
      BY <1>m, <1>n, <2>4, <3>2
    <3> QED BY <1>m, <3>1, <3>2
  <2>5. ASSUME NEW e \in log', NEW f \in log',
               e.kind = "BlocksAdded", f.kind = "BlocksAdded"
        PROVE  /\ f.block = e.block => f = e
               /\ f.block < e.block => f.start + f.count <= e.start
    <3>1. \A g \in log : g.block \in Nat /\ g.block <= evm_height
      BY DEF TypeOK, Event, LogTellsStatus
    <3>2. CASE e \in log /\ f \in log
      BY <2>5, <3>2 DEF LogTellsHeaders
    <3>3. CASE e \in new /\ f \in log
      <4>1. f.start + f.count <= contract_tip
        BY <2>5, <3>3 DEF LogTellsHeaders
      <4>2. e.start = contract_tip /\ e.block = evm_height + 1
        BY <1>m, <2>5, <3>3
      <4> QED BY <1>n, <3>1, <3>3, <4>1, <4>2
    <3>4. CASE e \in log /\ f \in new
      <4>1. f.block = evm_height + 1
        BY <1>m, <3>4
      <4> QED BY <1>n, <3>1, <3>4, <4>1
    <3>5. CASE e \in new /\ f \in new
      <4>1. e = f
        BY <1>m, <2>5, <3>5
      <4>2. e.block = evm_height + 1
        BY <1>m, <3>5
      <4> QED BY <1>n, <4>1, <4>2
    <3> QED BY <1>m, <3>2, <3>3, <3>4, <3>5
  <2> QED BY <1>n, <2>1, <2>2, <2>3, <2>4, <2>5 DEF LogTellsHeaders
<1>5. HeightsReached'
  BY DEF MineEvm, HeightsReached, TypeOK
<1>6. Delivered'
  BY DEF MineEvm, From, Event, Delivered, TypeOK, HeightsReached,
         LogTellsStatus
<1>7. HeadersNeverSkipped'
  BY DEF MineEvm, HeadersNeverSkipped, TypeOK, HeightsReached
<1>8. SyncedApplied'
  BY DEF MineEvm, SyncedApplied, TypeOK, HeightsReached
<1>9. AppliedShows'
  <2>1. \A id \in ids : contract'[id] = "reserved" => contract[id] = "free"
    BY <1>c DEF NextStatus, TypeOK
  <2>2. \A id \in ids : contract'[id] = "proved" => contract[id] = "reserved"
    BY <1>c DEF NextStatus, TypeOK
  <2>3. \A id \in Ids : contract[id] # "free" => contract'[id] # "free"
    BY <1>c DEF NextStatus, TypeOK
  <2>4. \A e \in applied : e \in log /\ (e.kind \in IndexKinds => e.id \in Ids)
    BY DEF TypeOK, LogTellsStatus
  <2>5. \A e \in applied :
           /\ e.kind = "LiquidityReserved" => contract[e.id] # "free"
           /\ e.kind = "ProofSubmitted" => contract[e.id] \notin {"free", "reserved"}
    BY <2>4 DEF LogTellsStatus
  <2>6. UNCHANGED <<applied, reservations, release_requests>>
    BY DEF MineEvm
  <2>7. \A e \in applied : e.kind = "LiquidityReserved" /\ contract'[e.id] = "reserved" =>
           reservations[e.id] # None
    BY <1>c, <2>1, <2>4, <2>5 DEF AppliedShows, IndexKinds
  <2>8. \A e \in applied : e.kind = "ProofSubmitted" /\ contract'[e.id] = "proved" =>
           e.id \in release_requests
    BY <1>c, <2>2, <2>4, <2>5 DEF AppliedShows, IndexKinds
  <2>9. \A id \in Ids : reservations[id] # None /\ contract'[id] = "reserved" =>
           \E e \in applied : e.kind = "LiquidityReserved" /\ e.id = id
    BY <1>c, <2>1 DEF AppliedShows
  <2> QED BY <2>3, <2>6, <2>7, <2>8, <2>9 DEF AppliedShows
<1> QED BY <1>1, <1>2, <1>3, <1>4, <1>5, <1>6, <1>7, <1>8, <1>9 DEF IInv

\* A closed stream ends the promises about reservations.
LEMMA CloseStreamInv ==
    ASSUME IInv, NEW kind \in Kinds, CloseStream(kind)
    PROVE  IInv'
<1> USE EventAssumption, NoneAssumption
<1> USE DEF contractSide, session, starts, budget, Session, Started, IInv
<1>1. (LogTellsStatus /\ LogTellsHeaders /\ HeightsReached /\ Delivered /\
        HeadersNeverSkipped /\ AppliedShows)'
  BY DEF CloseStream, From, LogTellsStatus, LogTellsHeaders, HeightsReached,
         Delivered, HeadersNeverSkipped, AppliedShows
<1>2. TypeOK'
  BY DEF CloseStream, TypeOK
<1>3. PhaseMeaning'
  BY DEF CloseStream, PhaseMeaning, TypeOK
<1>4. SyncedApplied'
  BY DEF CloseStream, SyncedApplied, TypeOK
<1>5. AppliedOnce'
  BY DEF CloseStream, AppliedOnce, TypeOK
<1> QED BY <1>1, <1>2, <1>3, <1>4, <1>5 DEF IInv

\* A duplicate moves a height, but not past an event not applied.
LEMMA ReceiveAgainInv ==
    ASSUME IInv, NEW e \in processed, ReceiveAgain(e)
    PROVE  IInv'
<1> USE EventAssumption, NoneAssumption
<1> USE DEF contractSide, session, starts, budget, Session, Started, IInv
<1>1. (LogTellsStatus /\ LogTellsHeaders /\ PhaseMeaning /\ HeadersNeverSkipped
        /\ SyncedApplied /\ AppliedShows /\ AppliedOnce)'
  BY DEF ReceiveAgain, LogTellsStatus, LogTellsHeaders, PhaseMeaning,
         HeadersNeverSkipped, SyncedApplied, AppliedShows, AppliedOnce
<1>2. TypeOK'
  BY DEF ReceiveAgain, Advance, Event, TypeOK
<1>3. HeightsReached'
  BY DEF ReceiveAgain, Advance, HeightsReached, TypeOK, LogTellsStatus
<1>4. Delivered'
  BY DEF ReceiveAgain, Advance, From, Event, Delivered, TypeOK,
         HeadersNeverSkipped
<1> QED BY <1>1, <1>2, <1>3, <1>4 DEF IInv

\* A payment leaves the set of tracked reservations alone.
LEMMA FindPaymentInv ==
    ASSUME IInv, NEW id \in Ids, FindPayment(id)
    PROVE  IInv'
<1> USE EventAssumption, NoneAssumption
<1> USE DEF contractSide, session, starts, budget, Session, Started, IInv
<1> DEFINE new == update_btc_reservation_initial(reservations, id, Paid)
<1>p. /\ reservations' = new /\ new \in [Ids -> Metadata \union {None}]
      /\ \A r \in Ids : (reservations'[r] = None) <=> (reservations[r] = None)
  BY PaymentType DEF FindPayment
<1> HIDE DEF new
<1>1. (LogTellsStatus /\ LogTellsHeaders /\ HeightsReached /\ Delivered /\
        HeadersNeverSkipped /\ SyncedApplied /\ AppliedOnce)'
  BY DEF FindPayment, From, LogTellsStatus, LogTellsHeaders, HeightsReached,
         Delivered, HeadersNeverSkipped, SyncedApplied, AppliedOnce
<1>2. TypeOK'
  BY <1>p DEF FindPayment, TypeOK
<1>3. PhaseMeaning'
  BY DEF FindPayment, PhaseMeaning
<1>4. AppliedShows'
  <2>1. applied \subseteq log /\ UNCHANGED <<applied, contract, release_requests>>
    BY DEF FindPayment, TypeOK
  <2>2. \A e \in applied : e.kind = "LiquidityReserved" => e.id \in Ids
    BY <2>1 DEF LogTellsStatus, IndexKinds
  <2> QED BY <1>p, <2>1, <2>2 DEF AppliedShows
<1> QED BY <1>1, <1>2, <1>3, <1>4 DEF IInv

\* A failed session forgets what it was handling.
LEMMA SessionFailsInv ==
    ASSUME IInv, SessionFails
    PROVE  IInv'
<1> USE EventAssumption, NoneAssumption
<1> USE DEF contractSide, session, starts, budget, Session, Started, IInv
<1>1. (LogTellsStatus /\ LogTellsHeaders /\ HeightsReached /\ AppliedShows)'
  BY DEF SessionFails, LogTellsStatus, LogTellsHeaders, HeightsReached,
         AppliedShows
<1>2. TypeOK'
  BY DEF SessionFails, TypeOK
<1>3. PhaseMeaning'
  BY DEF SessionFails, PhaseMeaning, TypeOK
<1>4. Delivered'
  BY DEF SessionFails, Delivered
<1>5. HeadersNeverSkipped'
  BY DEF SessionFails, HeadersNeverSkipped
<1>6. SyncedApplied'
  BY DEF SessionFails, SyncedApplied
<1>7. AppliedOnce'
  BY DEF SessionFails, AppliedOnce, TypeOK
<1> QED BY <1>1, <1>2, <1>3, <1>4, <1>5, <1>6, <1>7 DEF IInv

\* A failed startup ends the node.
LEMMA StartupFailsInv ==
    ASSUME IInv, StartupFails
    PROVE  IInv'
<1> USE EventAssumption, NoneAssumption
<1> USE DEF contractSide, session, starts, budget, Session, Started, IInv
<1>1. (LogTellsStatus /\ LogTellsHeaders /\ HeightsReached /\ AppliedShows)'
  BY DEF StartupFails, LogTellsStatus, LogTellsHeaders, HeightsReached,
         AppliedShows
<1>2. TypeOK'
  BY DEF StartupFails, TypeOK
<1>3. PhaseMeaning'
  BY DEF StartupFails, PhaseMeaning
<1>4. Delivered'
  BY DEF StartupFails, Delivered
<1>5. HeadersNeverSkipped'
  BY DEF StartupFails, HeadersNeverSkipped
<1>6. SyncedApplied'
  BY DEF StartupFails, SyncedApplied
<1>7. AppliedOnce'
  BY DEF StartupFails, AppliedOnce, TypeOK
<1> QED BY <1>1, <1>2, <1>3, <1>4, <1>5, <1>6, <1>7 DEF IInv

-----------------------------------------------------------------------------
(* The invariant, and what follows from it.                                *)

\* The node starts with an empty store, node.rs:21, before anything happened.
LEMMA InitInv == Init => IInv
<1> USE EventAssumption DEF IInv
<1> SUFFICES ASSUME Init PROVE IInv
  OBVIOUS
<1>1. TypeOK
  BY DEF Init, TypeOK, EmptyStore
<1>2. LogTellsStatus /\ LogTellsHeaders
  BY DEF Init, LogTellsStatus, LogTellsHeaders
<1>3. HeightsReached /\ PhaseMeaning /\ Delivered
  BY DEF Init, HeightsReached, PhaseMeaning, Delivered, Session
<1>4. HeadersNeverSkipped /\ SyncedApplied /\ AppliedShows /\ AppliedOnce
  BY DEF Init, HeadersNeverSkipped, SyncedApplied, AppliedShows, AppliedOnce, EmptyStore
<1> QED BY <1>1, <1>2, <1>3, <1>4

\* A stuttering step keeps it too.
LEMMA StutterInv == ASSUME IInv, UNCHANGED vars PROVE IInv'
<1> USE DEF vars, contractSide, session, starts, budget, IInv
<1>1. (TypeOK /\ LogTellsStatus /\ LogTellsHeaders /\ HeightsReached /\ PhaseMeaning)'
  BY DEF TypeOK, LogTellsStatus, LogTellsHeaders, HeightsReached, PhaseMeaning
<1>2. (Delivered /\ HeadersNeverSkipped /\ SyncedApplied /\ AppliedShows /\ AppliedOnce)'
  BY DEF Delivered, From, HeadersNeverSkipped, SyncedApplied, AppliedShows, AppliedOnce
<1> QED BY <1>1, <1>2

\* No step breaks the invariant.
LEMMA NextInv == IInv /\ [Next]_vars => IInv'
<1> SUFFICES ASSUME IInv, [Next]_vars PROVE IInv'
  OBVIOUS
<1>1. CASE Startup
  BY <1>1, SyncTipInv, SyncReservationsInv, HeaderTipInv, SyncHeadersInv DEF Startup
<1>2. CASE Listen
  <2>1. ASSUME NEW kind \in open, NEW e \in NextOf(kind), Receive(e) PROVE IInv'
    BY <2>1, ReceiveInv
  <2>2. ASSUME NEW kind \in open, NEW e \in NextOf(kind), ReceiveSwapComplete(e) PROVE IInv'
    BY <2>2, ReceiveSwapCompleteInv
  <2>3. CASE Subscribe \/ Retry \/ AllClosed
    BY <2>3, SubscribeInv, RetryInv, AllClosedInv
  <2>4. CASE HandleReserved \/ HandleProofSubmitted \/ AddRelease \/ HandleBlocksAdded
    BY <2>4, HandleReservedInv, HandleProofSubmittedInv, AddReleaseInv, HandleBlocksAddedInv
  <2> QED BY <1>2, <2>1, <2>2, <2>3, <2>4 DEF Listen
<1>3. CASE Environment
  <2>1. ASSUME NEW ids \in SUBSET Ids, NEW count \in 0 .. MaxCount, MineEvm(ids, count)
        PROVE  IInv'
    BY <2>1, MineEvmInv
  <2>2. ASSUME NEW kind \in Kinds, CloseStream(kind) PROVE IInv'
    BY <2>2, CloseStreamInv
  <2>3. ASSUME NEW e \in processed, ReceiveAgain(e) PROVE IInv'
    BY <2>3, ReceiveAgainInv
  <2>4. ASSUME NEW id \in Ids, FindPayment(id) PROVE IInv'
    BY <2>4, FindPaymentInv
  <2>5. CASE SessionFails \/ StartupFails
    BY <2>5, SessionFailsInv, StartupFailsInv
  <2> QED BY <1>3, <2>1, <2>2, <2>3, <2>4, <2>5 DEF Environment
<1>4. CASE UNCHANGED vars
  BY <1>4, StutterInv
<1> QED BY <1>1, <1>2, <1>3, <1>4 DEF Next, Quiet

\* So it holds of every state the node can reach.
LEMMA InvAlways == Spec => []IInv
BY InitInv, NextInv, PTL DEF Spec

\* The startup and the event listener keep their types: above all, what is
\* stored under an id is a reservation, and what is handled is in the log.
THEOREM EventTypeCorrect == Spec => []TypeOK
<1>1. IInv => TypeOK
  BY DEF IInv
<1> QED BY <1>1, InvAlways, PTL

\* The listener never skips headers the contract announced, however many
\* sessions fail and streams close: every announcement before the block it
\* would start again from has been applied.
THEOREM NoHeaderSkipped == Spec => []HeadersNeverSkipped
<1>1. IInv => HeadersNeverSkipped
  BY DEF IInv
<1> QED BY <1>1, InvAlways, PTL

\* Once caught up, the store mirrors the contract: the headers whatever
\* happened before, the reservations unless the provider closed streams.
THEOREM StoreMirrors == Spec => []StoreMirrorsContract
<1>1. ASSUME IInv PROVE StoreMirrorsContract
  <2> SUFFICES ASSUME CaughtUp PROVE
         /\ safe_contract_block_hashes = 1 .. contract_tip
         /\ closes = 0 => \A id \in Ids :
               /\ contract[id] = "reserved" => id \in Tracked(reservations)
               /\ contract[id] = "proved" => id \in release_requests
    BY DEF StoreMirrorsContract
  <2> USE <1>1 DEF IInv
  <2>1. phase = "select" /\ handling = None
    BY DEF CaughtUp, TypeOK
  <2>2. \A e \in log : e.kind \in Kinds /\ e.block \in Nat
    BY DEF TypeOK, Event
  <2>3. \A e \in log : e.block >= From(e.kind) => e \in processed
    BY <2>2 DEF CaughtUp, Undelivered
  <2>4. \A e \in processed : e \in applied
    <3>1. \A e \in processed : e # handling => e \in applied
      BY <2>1 DEF Delivered, Session
    <3>2. \A e \in processed : e # handling
      BY <2>1, NoneAssumption DEF TypeOK
    <3> QED BY <3>1, <3>2
  <2>5. start_header \in Nat /\ start_index \in Nat
    BY DEF TypeOK
  <2>6. \A e \in log : e.kind = "BlocksAdded" => e \in applied
    <3>1. \A e \in log : e.kind = "BlocksAdded" /\ e.block < start_header => e \in applied
      BY <2>1 DEF HeadersNeverSkipped
    <3> QED BY <2>2, <2>3, <2>4, <2>5, <3>1 DEF From
  <2>7. safe_contract_block_hashes = 1 .. contract_tip
    BY <2>6 DEF LogTellsHeaders
  <2>8. ASSUME closes = 0, NEW e \in log, e.kind \in IndexKinds PROVE e \in applied
    <3>1. e.block <= start_index => e \in applied
      BY <2>1, <2>8 DEF SyncedApplied, Started, Session
    <3>2. From(e.kind) = start_index
      BY <2>8 DEF From, IndexKinds
    <3> QED BY <2>2, <2>3, <2>4, <2>5, <3>1, <3>2
  <2>9. ASSUME closes = 0, NEW id \in Ids, contract[id] = "reserved"
        PROVE  id \in Tracked(reservations)
    <3>1. PICK e \in log : e.kind = "LiquidityReserved" /\ e.id = id
      BY <2>9 DEF LogTellsStatus
    <3>2. e \in applied
      BY <2>8, <2>9, <3>1 DEF IndexKinds
    <3> QED BY <2>9, <3>1, <3>2 DEF AppliedShows, Tracked
  <2>10. ASSUME closes = 0, NEW id \in Ids, contract[id] = "proved"
         PROVE  id \in release_requests
    <3>1. PICK e \in log : e.kind = "ProofSubmitted" /\ e.id = id
      BY <2>10 DEF LogTellsStatus
    <3>2. e \in applied
      BY <2>8, <2>10, <3>1 DEF IndexKinds
    <3> QED BY <2>10, <3>1, <3>2 DEF AppliedShows
  <2> QED BY <2>7, <2>9, <2>10
<1> QED BY <1>1, InvAlways, PTL

\* The steps that write to the reservations of the store.
LEMMA StoreWriters ==
    ASSUME [Next]_vars, ~UNCHANGED reservations
    PROVE  \/ SyncReservations
           \/ HandleReserved \/ HandleProofSubmitted
           \/ \E kind \in open : \E e \in NextOf(kind) : ReceiveSwapComplete(e)
           \/ \E id \in Ids : FindPayment(id)
<1> USE DEF vars, starts, session, contractSide, budget
<1>1. ~(SyncTip \/ HeaderTip \/ SyncHeaders \/ Subscribe \/ Retry \/ AllClosed
          \/ AddRelease \/ HandleBlocksAdded \/ SessionFails \/ StartupFails)
  BY DEF SyncTip, HeaderTip, SyncHeaders, Subscribe, Retry, AllClosed,
         AddRelease, HandleBlocksAdded, SessionFails, StartupFails
<1>2. /\ \A e : ~Receive(e) /\ ~ReceiveAgain(e)
      /\ \A kind : ~CloseStream(kind)
      /\ \A ids, count : ~MineEvm(ids, count)
  BY DEF Receive, ReceiveAgain, CloseStream, MineEvm
<1>3. ~UNCHANGED vars
  OBVIOUS
<1> QED BY <1>1, <1>2, <1>3 DEF Next, Startup, Listen, Environment, Quiet

\* A step that leaves the store alone keeps every payment.
LEMMA UnchangedKeeps ==
    ASSUME UNCHANGED reservations, NEW id \in Ids, HasPayment(id)
    PROVE  HasPayment(id)'
BY DEF HasPayment

\* The payment of an open reservation is overwritten only by an event that is
\* replayed: in a session that followed another, or in the block of start_index,
\* where the sync and the first session overlap.
THEOREM PaymentKept == Spec => PaymentKeptInSession
<1>1. ASSUME IInv, [Next]_vars, NEW id \in Ids, HasPayment(id), ~HasPayment(id)',
             contract[id] = "reserved", failures = 0, closes = 0
      PROVE  handling.block = start_index
  <2> USE <1>1 DEF IInv
  <2>1. reservations[id] # None /\ reservations[id].btc_initial = Paid
    BY DEF HasPayment
  <2>2. ~UNCHANGED reservations
    BY <1>1, UnchangedKeeps
  <2>3. ~SyncReservations
    BY <2>1 DEF SyncReservations, PhaseMeaning, EmptyStore
  <2>4. ASSUME NEW kind \in open, NEW e \in NextOf(kind), ReceiveSwapComplete(e)
        PROVE  FALSE
    <3>1. e \in log /\ e.kind = "SwapComplete"
      BY <2>4 DEF ReceiveSwapComplete, NextOf, Undelivered
    <3>2. e.id # id
      BY <3>1 DEF LogTellsStatus
    <3>3. reservations'[id] = reservations[id]
      BY <2>4, <3>2 DEF ReceiveSwapComplete, remove, TypeOK
    <3> QED BY <3>3 DEF HasPayment
  <2>5. ASSUME HandleProofSubmitted PROVE FALSE
    <3>1. handling \in log /\ handling.kind = "ProofSubmitted"
      BY <2>5 DEF HandleProofSubmitted, TypeOK
    <3>2. handling.id # id
      BY <3>1 DEF LogTellsStatus
    <3>3. reservations'[id] = reservations[id]
      BY <2>5, <3>2 DEF HandleProofSubmitted, insert, TypeOK
    <3> QED BY <3>3 DEF HasPayment
  <2>6. ASSUME NEW r \in Ids, FindPayment(r) PROVE FALSE
    <3>1. r # id
      BY <2>1, <2>6, EventAssumption DEF FindPayment
    <3>2. reservations'[id] = reservations[id]
      BY <2>6, <3>1 DEF FindPayment, update_btc_reservation_initial, TypeOK
    <3> QED BY <3>2 DEF HasPayment
  <2>7. HandleReserved
    BY <1>1, <2>2, <2>3, <2>4, <2>5, <2>6, StoreWriters
  <2>8. handling \in log /\ handling.kind = "LiquidityReserved" /\ phase = "handle"
    BY <2>7 DEF HandleReserved, TypeOK
  <2>9. handling.id = id
    <3>1. CASE handling.id # id
      <4>1. reservations'[id] = reservations[id]
        BY <2>7, <3>1 DEF HandleReserved, insert, TypeOK
      <4> QED BY <4>1 DEF HasPayment
    <3> QED BY <3>1
  <2>10. handling \in applied
    <3>1. PICK e \in applied : e.kind = "LiquidityReserved" /\ e.id = id
      BY <2>1 DEF AppliedShows
    <3>2. e \in log
      BY DEF TypeOK
    <3> QED BY <2>8, <2>9, <3>1, <3>2 DEF LogTellsStatus
  <2>11. handling.block <= start_index
    BY <2>8, <2>10 DEF AppliedOnce, IndexKinds
  <2>12. handling.block >= start_index
    BY <2>8, NoneAssumption DEF Delivered, Session, From, TypeOK
  <2> QED BY <2>8, <2>11, <2>12 DEF TypeOK, Event
<1>2. IInv /\ [Next]_vars =>
        [\A id \in Ids : HasPayment(id) /\ ~HasPayment(id)' =>
            \/ contract[id] # "reserved"
            \/ failures > 0 \/ closes > 0
            \/ handling.block = start_index]_vars
  <2>1. IInv => failures \in Nat /\ closes \in Nat
    BY DEF IInv, TypeOK
  <2> QED BY <1>1, <2>1
<1> QED BY <1>2, InvAlways, PTL DEF Spec, PaymentKeptInSession

\* A reservation that is fulfilled, all of whose events have been handled, comes
\* back to the store only by an event that is replayed, like a payment is
\* overwritten: ProofSubmitted inserts too (evm_indexer.rs:566).
THEOREM FulfilledGone == Spec => FulfilledStaysRemoved
<1>1. ASSUME IInv, [Next]_vars, NEW id \in Ids, reservations[id] = None, AllApplied(id),
             reservations'[id] # None, failures = 0, closes = 0
      PROVE  handling.block = start_index
  <2> USE <1>1 DEF IInv
  <2>1. PICK e \in applied : e.id = id /\ e.kind = "LiquidityReserved"
    BY DEF AllApplied, IndexKinds
  <2>2. PICK f \in applied : f.id = id /\ f.kind = "ProofSubmitted"
    BY DEF AllApplied, IndexKinds
  <2>3. e \in log /\ f \in log
    BY DEF TypeOK
  <2>4. ~SyncReservations
    BY <2>1 DEF SyncReservations, PhaseMeaning
  <2>5. ASSUME NEW g, ReceiveSwapComplete(g) PROVE FALSE
    <3>1. reservations' = [reservations EXCEPT ![g.id] = None]
      BY <2>5 DEF ReceiveSwapComplete, remove
    <3> QED BY <3>1 DEF TypeOK
  <2>6. ASSUME NEW r \in Ids, FindPayment(r) PROVE FALSE
    <3>1. r # id
      BY <2>6 DEF FindPayment
    <3>2. reservations'[id] = reservations[id]
      BY <2>6, <3>1 DEF FindPayment, update_btc_reservation_initial, TypeOK
    <3> QED BY <3>2
  <2>7. HandleReserved \/ HandleProofSubmitted
    BY <2>4, <2>5, <2>6, StoreWriters
  <2>8. /\ handling \in log /\ phase = "handle"
        /\ handling.kind \in {"LiquidityReserved", "ProofSubmitted"}
    BY <2>7, NoneAssumption DEF HandleReserved, HandleProofSubmitted, TypeOK
  <2>9. handling.id = id
    <3>1. CASE handling.id # id
      <4>1. reservations'[id] = reservations[id]
        BY <2>7, <3>1 DEF HandleReserved, HandleProofSubmitted, insert, TypeOK
      <4> QED BY <4>1
    <3> QED BY <3>1
  <2>10. handling \in applied
    BY <2>1, <2>2, <2>3, <2>8, <2>9 DEF LogTellsStatus
  <2>11. handling.block <= start_index
    BY <2>8, <2>10 DEF AppliedOnce, IndexKinds
  <2>12. handling.block >= start_index
    BY <2>8, NoneAssumption DEF Delivered, Session, From, TypeOK
  <2> QED BY <2>8, <2>11, <2>12 DEF TypeOK, Event
<1>2. IInv /\ [Next]_vars =>
        [\A id \in Ids : reservations[id] = None /\ AllApplied(id) /\ reservations'[id] # None =>
            \/ failures > 0 \/ closes > 0
            \/ handling.block = start_index]_vars
  <2>1. IInv => failures \in Nat /\ closes \in Nat
    BY DEF IInv, TypeOK
  <2> QED BY <1>1, <2>1
<1> QED BY <1>2, InvAlways, PTL DEF Spec, FulfilledStaysRemoved

-----------------------------------------------------------------------------
(* The store and the releaser follow the contract                          *)

\* The contract's side of a step: each reservation one status further at most.
LEMMA ContractMoves ==
    ASSUME IInv, NEW ids \in SUBSET Ids, NEW count \in 0 .. MaxCount, MineEvm(ids, count)
    PROVE  F!ContractGoesOn
<1> USE EventAssumption DEF IInv
<1>1. /\ contract' = [id \in Ids |-> IF id \in ids THEN NextStatus[contract[id]]
                                                   ELSE contract[id]]
      /\ contract_tip' = IF \E id \in ids : contract[id] = "reserved"
                           THEN contract_tip + count ELSE contract_tip
      /\ \A id \in ids : contract[id] # "complete"
      /\ UNCHANGED <<reservations, safe_contract_block_hashes, release_requests>>
  BY DEF MineEvm
<1>2. \A id \in ids : <<contract[id], contract'[id]>> \in F!Life
  <2>1. \A id \in ids : contract[id] \in {"free", "reserved", "proved"}
    BY <1>1 DEF TypeOK
  <2>2. \A id \in ids : contract'[id] = NextStatus[contract[id]]
    BY <1>1
  <2> QED BY <2>1, <2>2 DEF NextStatus, F!Life
<1>3. \A id \in ids : contract[id] = "reserved" => contract'[id] = "proved"
  BY <1>1 DEF NextStatus
<1>4. contract_tip' >= contract_tip
  BY <1>1 DEF TypeOK
<1>5. \A id \in Ids : contract'[id] = contract[id] \/ <<contract[id], contract'[id]>> \in F!Life
  <2>1. \A id \in Ids \ ids : contract'[id] = contract[id]
    BY <1>1
  <2> QED BY <1>2, <2>1
<1>6. contract_tip' # contract_tip =>
         \E id \in Ids : <<contract[id], contract'[id]>> = <<"reserved", "proved">>
  BY <1>1, <1>3
<1>7. DOMAIN contract' = Ids
  BY <1>1
<1> QED BY <1>1, <1>4, <1>5, <1>6, <1>7 DEF F!ContractGoesOn, Tracked

\* An announcement that is handled continues the headers of the store: all the
\* ones before it are handled, in this session or before it.
LEMMA NoGap ==
    ASSUME IInv, HandleBlocksAdded
    PROVE  /\ handling.start + handling.count \in 0 .. contract_tip
           /\ safe_contract_block_hashes' =
                 safe_contract_block_hashes \union 1 .. (handling.start + handling.count)
<1> USE DEF IInv
<1>1. /\ handling \in log /\ handling.kind = "BlocksAdded" /\ phase = "handle"
      /\ handling # None
      /\ safe_contract_block_hashes' = safe_contract_block_hashes \union HeadersOf(handling)
  BY NoneAssumption DEF HandleBlocksAdded, TypeOK
<1>2. /\ handling.start \in Nat /\ handling.count \in Nat /\ handling.block \in Nat
      /\ contract_tip \in Nat /\ start_header \in Nat
      /\ \A e \in log : e.block \in Nat /\ e.start \in Nat /\ e.count \in Nat
  BY <1>1 DEF TypeOK, Event
<1>3. handling.start + handling.count <= contract_tip
  BY <1>1 DEF LogTellsHeaders
<1>4. ASSUME NEW h \in 1 .. handling.start
      PROVE  h \in safe_contract_block_hashes
  <2>1. h \in 1 .. contract_tip
    BY <1>2, <1>3
  <2>2. PICK f \in log : f.kind = "BlocksAdded" /\ h \in HeadersOf(f)
    BY <2>1 DEF LogTellsHeaders
  <2>3. h > f.start /\ h <= f.start + f.count
    BY <1>2, <2>2 DEF HeadersOf
  <2>4. /\ f.block = handling.block => f = handling
        /\ handling.block < f.block => handling.start + handling.count <= f.start
    BY <1>1, <2>2 DEF LogTellsHeaders
  <2>5. f.block < handling.block
    BY <1>2, <2>3, <2>4
  <2>6. f \in applied
    <3>1. CASE f.block < start_header
      BY <1>1, <2>2, <3>1 DEF HeadersNeverSkipped
    <3>2. CASE start_header <= f.block
      <4>1. f \in processed
        BY <1>1, <2>2, <2>5, <3>2 DEF Delivered, Session
      <4>2. f # handling
        BY <1>2, <2>5
      <4> QED BY <1>1, <4>1, <4>2 DEF Delivered, Session
    <3> QED BY <1>2, <3>1, <3>2
  <2> QED BY <2>2, <2>6 DEF LogTellsHeaders
<1>5. 1 .. (handling.start + handling.count) = 1 .. handling.start \union HeadersOf(handling)
  <2>1. \A m, n \in Nat : 1 .. (m + n) = 1 .. m \union (m + 1) .. (m + n)
    OBVIOUS
  <2> QED BY <1>2, <2>1 DEF HeadersOf
<1>6. handling.start + handling.count \in 0 .. contract_tip
  BY <1>2, <1>3
<1> QED BY <1>1, <1>4, <1>5, <1>6

\* A step of startup, listener or environment is one of the feed, or none.
LEMMA StepFeeds == IInv /\ [Next]_vars => [F!Next]_F!vars
<1> SUFFICES ASSUME IInv, [Next]_vars PROVE [F!Next]_F!vars
  OBVIOUS
<1> USE DEF contractSide, session, starts, budget, IInv
<1>1. CASE SyncReservations
  <2>1. \A id \in Active : Downloaded(id) # None /\ contract[id] # "free"
    BY SyncedType
  <2>2. \A id \in InChallenge : contract[id] \in {"proved", "complete"}
    BY DEF InChallenge, Seen, SyncedEvents, LogTellsStatus
  <2>3. Active \subseteq Ids /\ InChallenge \subseteq Ids
    BY DEF Active, InChallenge, Seen, SyncedEvents, LogTellsStatus
  <2>4. Tracked(reservations)' = Tracked(reservations) \union Active
    BY <1>1, <2>1, <2>3 DEF SyncReservations, Tracked
  <2>5. F!Learn(Active, InChallenge)
    BY <1>1, <2>1, <2>2, <2>4 DEF SyncReservations, F!Learn
  <2> QED BY <2>3, <2>5 DEF F!Next
<1>2. CASE SyncHeaders
  <2>1. safe_contract_block_hashes' = safe_contract_block_hashes \union 1 .. contract_tip
    BY <1>2 DEF SyncHeaders, LogTellsHeaders
  <2>2. F!LearnHeaders(contract_tip)
    BY <1>2, <2>1 DEF SyncHeaders, F!LearnHeaders, Tracked, TypeOK
  <2> QED BY <2>2 DEF F!Next, TypeOK
<1>3. ASSUME NEW kind \in open, NEW e \in NextOf(kind), ReceiveSwapComplete(e)
      PROVE  [F!Next]_F!vars
  <2>1. e \in log /\ e.kind = "SwapComplete"
    BY <1>3 DEF ReceiveSwapComplete, NextOf, Undelivered
  <2>2. e.id \in Ids /\ contract[e.id] = "complete"
    BY <2>1 DEF LogTellsStatus, IndexKinds
  <2>3. Tracked(reservations)' = Tracked(reservations) \ {e.id}
    BY <1>3, <2>2 DEF ReceiveSwapComplete, remove, Tracked, TypeOK
  <2>4. F!Forget(e.id)
    BY <1>3, <2>2, <2>3 DEF ReceiveSwapComplete, F!Forget
  <2> QED BY <2>2, <2>4 DEF F!Next
<1>4. CASE HandleReserved \/ HandleProofSubmitted
  <2>1. /\ handling \in log /\ handling.kind \in {"LiquidityReserved", "ProofSubmitted"}
        /\ reservations' = insert(reservations, handling.id, Downloaded(handling.id))
        /\ UNCHANGED <<contract, contract_tip, safe_contract_block_hashes, release_requests>>
    BY <1>4, NoneAssumption DEF HandleReserved, HandleProofSubmitted, TypeOK
  <2>2. handling.id \in Ids /\ contract[handling.id] # "free"
    BY <2>1 DEF LogTellsStatus, IndexKinds
  <2>3. PICK e \in log : e.kind = "LiquidityReserved" /\ e.id = handling.id
    BY <2>2 DEF LogTellsStatus
  <2>4. Downloaded(handling.id) # None
    BY <2>3, DownloadedType
  <2>5. Tracked(reservations)' = Tracked(reservations) \union {handling.id}
    BY <2>1, <2>2, <2>4 DEF insert, Tracked, TypeOK
  <2>6. F!Learn({handling.id}, {})
    BY <2>1, <2>2, <2>5 DEF F!Learn
  <2>7. {handling.id} \in SUBSET Ids /\ {} \in SUBSET Ids
    BY <2>2
  <2> QED BY <2>6, <2>7 DEF F!Next
<1>5. CASE AddRelease
  <2>1. handling \in log /\ handling.kind = "ProofSubmitted"
    BY <1>5, NoneAssumption DEF AddRelease, PhaseMeaning, TypeOK
  <2>2. handling.id \in Ids /\ contract[handling.id] \in {"proved", "complete"}
    BY <2>1 DEF LogTellsStatus, IndexKinds
  <2>3. F!Learn({}, {handling.id})
    BY <1>5, <2>2 DEF AddRelease, F!Learn, Tracked
  <2>4. {handling.id} \in SUBSET Ids /\ {} \in SUBSET Ids
    BY <2>2
  <2> QED BY <2>3, <2>4 DEF F!Next
<1>6. CASE HandleBlocksAdded
  <2>1. F!LearnHeaders(handling.start + handling.count)
    BY <1>6, NoGap DEF HandleBlocksAdded, F!LearnHeaders, Tracked, TypeOK
  <2> QED BY <1>6, <2>1, NoGap DEF F!Next
<1>7. ASSUME NEW ids \in SUBSET Ids, NEW count \in 0 .. MaxCount, MineEvm(ids, count)
      PROVE  [F!Next]_F!vars
  BY <1>7, ContractMoves DEF F!Next
<1>8. ASSUME NEW id \in Ids, FindPayment(id) PROVE [F!Next]_F!vars
  <2>1. \A r \in Ids : (reservations'[r] = None) <=> (reservations[r] = None)
    BY <1>8, PaymentType DEF FindPayment
  <2>2. Tracked(reservations)' = Tracked(reservations)
    BY <2>1 DEF Tracked
  <2> QED BY <1>8, <2>2 DEF FindPayment, F!vars
<1>9. CASE \/ SyncTip \/ HeaderTip \/ Subscribe \/ Retry \/ AllClosed
           \/ (\E e : Receive(e) \/ ReceiveAgain(e)) \/ (\E kind : CloseStream(kind))
           \/ SessionFails \/ StartupFails \/ UNCHANGED vars
  <2>1. UNCHANGED <<reservations, contract, contract_tip, safe_contract_block_hashes,
                    release_requests>>
    BY <1>9 DEF SyncTip, HeaderTip, Subscribe, Retry, AllClosed, Receive, ReceiveAgain,
                CloseStream, SessionFails, StartupFails, vars
  <2> QED BY <2>1 DEF F!vars, Tracked
<1> QED BY <1>1, <1>2, <1>3, <1>4, <1>5, <1>6, <1>7, <1>8, <1>9
        DEF Next, Startup, Listen, Environment, Quiet

\* Whatever sessions, streams and replays do, the node takes from the contract
\* what the contract has come to, and headers without a gap
\* (evm_indexer.rs:418-602).
THEOREM ListenerFeeds == Spec => ImplementsContractFeed
<1>1. Init => F!Init
  BY DEF Init, F!Init, Tracked, EmptyStore
<1> QED BY <1>1, StepFeeds, InvAlways, PTL DEF Spec, ImplementsContractFeed, F!Spec

=============================================================================
