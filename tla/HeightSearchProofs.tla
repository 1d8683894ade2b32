------------------------- MODULE HeightSearchProofs -------------------------
(***************************************************************************)
(* The height searches for chains of every length, any timestamps within   *)
(* the skew, and any average between blocks: the search stays on the       *)
(* chain, and what it returns is old enough and no older than it must be.  *)
(***************************************************************************)
EXTENDS HeightSearch, TLAPS

\* The stride and the estimate are numbers of blocks.
LEMMA StrideTypes ==
  ASSUME average \in Averages
  PROVE  blocks_per_hour \in Nat /\ estimated_blocks_ago \in Nat /\ duration \in Nat
  <1>1. average \in Nat \ {0} /\ HOUR \in Nat /\ hours \in Nat
      BY SearchAssumption
  <1>2. blocks_per_hour \in Nat
      BY <1>1 DEF blocks_per_hour
  <1>3. \A a, b \in Nat : a * b \in Nat
      OBVIOUS
  <1> QED BY <1>1, <1>2, <1>3 DEF estimated_blocks_ago, duration

\* saturating_sub stays between 0 and what it subtracts from.
LEMMA SaturatingSubBounds ==
  ASSUME NEW a \in Nat, NEW b \in Nat
  PROVE  /\ SaturatingSub(a, b) \in 0 .. a
         /\ a <= SaturatingSub(a, b) + b
         /\ b > 0 /\ SaturatingSub(a, b) = a => a = 0
  BY DEF SaturatingSub

\* The heights of a chain are those from 0 to its tip.
LEMMA ChainHeights ==
  ASSUME NEW chain \in Chains
  PROVE  \E tip \in Nat : /\ Heights(chain) = 0 .. tip /\ chain \in [0 .. tip -> Nat]
                          /\ \A h : IsTip(h, chain) => h = tip
  <1>1. PICK tip \in Heights(chain) : tip \in Nat /\ chain \in [0 .. tip -> Nat]
      BY SearchAssumption
  <1>2. Heights(chain) = 0 .. tip
      BY <1>1 DEF Heights
  <1>3. \A h : IsTip(h, chain) => h = tip
      BY <1>1, <1>2 DEF IsTip
  <1> QED BY <1>1, <1>2, <1>3

\* Below a height the search has not turned down there is nothing yet that it
\* turned down; the last block it turned down is one stride above.
Strides ==
    /\ pc = "start" => probed = {}
    /\ pc = "search" /\ check_block = previous_check_block /\ blocks_per_hour > 0
          => check_block = 0
    /\ pc = "found" /\ blocks_per_hour > 0 => OldEnough(check_block) \/ check_block = 0
    /\ pc \in {"search", "found"} /\ probed # {} =>
          \E h \in probed :
              /\ timestamp[h] > target_timestamp
              /\ check_block <= h /\ h <= check_block + blocks_per_hour

Inv == TypeOK /\ Strides

\* The first look at the tip.
LEMMA StartInv == Inv /\ Start => Inv'
  <1> SUFFICES ASSUME Inv, Start PROVE Inv'
      OBVIOUS
  <1>0. blocks_per_hour \in Nat /\ estimated_blocks_ago \in Nat /\ duration \in Nat
      BY StrideTypes DEF Inv, TypeOK
  <1>1. PICK tip \in Nat : /\ Heights(timestamp) = 0 .. tip
                           /\ timestamp \in [0 .. tip -> Nat]
                           /\ \A h : IsTip(h, timestamp) => h = tip
      BY ChainHeights DEF Inv, TypeOK
  <1>2. /\ target_timestamp' = SaturatingSub(timestamp[tip], duration)
        /\ check_block' = SaturatingSub(tip, estimated_blocks_ago)
      BY <1>1 DEF Start
  <1>3. target_timestamp' \in Nat /\ check_block' \in 0 .. tip
    <2>1. tip \in 0 .. tip
        OBVIOUS
    <2>2. timestamp[tip] \in Nat
        BY <1>1, <2>1
    <2>3. SaturatingSub(timestamp[tip], duration) \in 0 .. timestamp[tip]
        BY <1>0, <2>2, SaturatingSubBounds
    <2>4. SaturatingSub(tip, estimated_blocks_ago) \in 0 .. tip
        BY <1>0, SaturatingSubBounds
    <2> QED BY <1>2, <2>2, <2>3, <2>4
  <1>4. previous_check_block' = check_block' + 1 /\ pc' = "search" /\ probed' = {}
      BY DEF Start, Inv, Strides
  <1> QED BY <1>1, <1>3, <1>4 DEF Inv, TypeOK, Strides, Start, inputs

\* A block that is too young: one stride back.
LEMMA GoBackInv == Inv /\ pc = "search" /\ ~OldEnough(check_block) /\ GoBack => Inv'
  <1> SUFFICES ASSUME Inv, pc = "search", ~OldEnough(check_block), GoBack PROVE Inv'
      OBVIOUS
  <1>0. blocks_per_hour \in Nat /\ blocks_per_hour' = blocks_per_hour
      BY StrideTypes DEF Inv, TypeOK, GoBack, inputs, blocks_per_hour
  <1>1. PICK tip \in Nat : /\ Heights(timestamp) = 0 .. tip
                           /\ timestamp \in [0 .. tip -> Nat]
      BY ChainHeights DEF Inv, TypeOK
  <1>2. check_block \in 0 .. tip /\ target_timestamp \in Nat
      BY <1>1 DEF Inv, TypeOK
  <1>3. /\ check_block' \in 0 .. check_block
        /\ check_block <= check_block' + blocks_per_hour
        /\ blocks_per_hour > 0 /\ check_block' = check_block => check_block = 0
      BY <1>0, <1>2, SaturatingSubBounds DEF GoBack, StrideBack
  <1>4. timestamp[check_block] > target_timestamp
      BY <1>1, <1>2 DEF OldEnough
  <1>5. TypeOK'
      BY <1>1, <1>2, <1>3 DEF Inv, TypeOK, GoBack, inputs
  <1>6. Strides'
      BY <1>0, <1>2, <1>3, <1>4 DEF Inv, Strides, GoBack, inputs
  <1> QED BY <1>5, <1>6 DEF Inv

\* One request of either search, or its failure, keeps the invariant.
LEMMA NextInv == Inv /\ [Next]_vars => Inv'
  <1> SUFFICES ASSUME Inv, [Next]_vars PROVE Inv'
      OBVIOUS
  <1>1. CASE Start
      BY <1>1, StartInv
  <1>2. CASE EvmTooYoung \/ BtcTooYoung
      BY <1>2, GoBackInv DEF EvmTooYoung, BtcTooYoung, Searching
  <1>3. CASE EvmFound \/ BtcFound \/ BtcClosest
    <2>0. check_block \in Nat
        BY DEF Inv, TypeOK
    <2>1. pc = "search" /\ Found
        BY <1>3 DEF EvmFound, BtcFound, BtcClosest, Searching
    <2>2. blocks_per_hour > 0 => OldEnough(check_block) \/ check_block = 0
        BY <1>3, <2>0, <2>1
        DEF EvmFound, BtcFound, BtcClosest, BtcContinues, Inv, Strides
    <2> QED BY <2>1, <2>2
            DEF Inv, TypeOK, Strides, Found, inputs, OldEnough, blocks_per_hour
  <1>4. CASE RequestFails
      BY <1>4 DEF Inv, TypeOK, Strides, RequestFails, inputs
  <1>5. CASE UNCHANGED vars
      BY <1>5 DEF Inv, TypeOK, Strides, OldEnough, blocks_per_hour, vars, inputs
  <1> QED BY <1>1, <1>2, <1>3, <1>4, <1>5 DEF Next, Search, Ended

\* Before the first stride.
LEMMA InitInv == Init => Inv
  BY DEF Init, Inv, TypeOK, Strides

\* What a search keeps from stride to stride, for any chain and any strides.
THEOREM Invariance == Spec => []Inv
  BY InitInv, NextInv, PTL DEF Spec

\* Both searches ask only for blocks the chain has.
THEOREM SearchTypeCorrect == Spec => []TypeOK
  <1>1. Inv => TypeOK
      BY DEF Inv
  <1> QED BY <1>1, Invariance, PTL

\* What find_block_height_from_time returns leaves no block out that is younger
\* than the duration, whatever the block times were.
THEOREM StartCovers == Spec => []StartCoversDuration
  <1>1. Inv => StartCoversDuration
    <2> SUFFICES ASSUME Inv, pc = "found", blocks_per_hour > 0,
                        NEW h \in Heights(timestamp), h < check_block
                 PROVE  timestamp[h] <= target_timestamp + Skew
        BY DEF StartCoversDuration
    <2>1. PICK tip \in Nat : /\ Heights(timestamp) = 0 .. tip
                             /\ timestamp \in [0 .. tip -> Nat]
        BY ChainHeights DEF Inv, TypeOK
    <2>2. /\ check_block \in 0 .. tip /\ target_timestamp \in Nat /\ Skew \in Nat
          /\ timestamp[h] \in Nat /\ timestamp[check_block] \in Nat
        BY <2>1, SearchAssumption DEF Inv, TypeOK
    <2>3. timestamp[check_block] <= target_timestamp
        BY <2>1, <2>2 DEF Inv, Strides, OldEnough
    <2>4. timestamp[h] <= timestamp[check_block] + Skew
      <3>1. timestamp \in Chains
          BY DEF Inv, TypeOK
      <3>2. \A i, j \in Heights(timestamp) : i <= j => timestamp[i] <= timestamp[j] + Skew
          BY <3>1, SearchAssumption
      <3>3. check_block \in Heights(timestamp) /\ h <= check_block
          BY <2>1, <2>2
      <3> QED BY <3>2, <3>3
    <2> QED BY <2>2, <2>3, <2>4
  <1> QED BY <1>1, Invariance, PTL

\* The strides of the two loops never go further back than the last block that
\* was too young requires.
THEOREM StartTight == Spec => []StartIsTight
  <1>1. Inv => StartIsTight
      BY DEF Inv, Strides, StartIsTight
  <1> QED BY <1>1, Invariance, PTL

-----------------------------------------------------------------------------
\* What was looked at is a stride apart, and above the block that comes next.
Descent ==
    /\ pc = "start" => probed = {}
    /\ probed \subseteq Nat \ {0}
    /\ \A g, h \in probed : g < h => g + blocks_per_hour <= h
    /\ pc = "search" =>
          \A h \in probed : check_block = 0 \/ check_block + blocks_per_hour <= h

\* A stride back from a block that is not the first one.
LEMMA GoBackDescends ==
  ASSUME Inv, Descent, pc = "search", check_block # 0, GoBack
  PROVE  Descent'
  <1>0. blocks_per_hour \in Nat /\ blocks_per_hour' = blocks_per_hour
      BY StrideTypes DEF Inv, TypeOK, GoBack, inputs, blocks_per_hour
  <1>1. /\ check_block \in Nat \ {0} /\ probed' = probed \union {check_block}
        /\ pc' = "search" /\ probed \subseteq Nat
      BY DEF Inv, TypeOK, GoBack, Descent
  <1>2. check_block' = 0 \/ check_block' + blocks_per_hour <= check_block
      BY <1>0, <1>1 DEF GoBack, StrideBack, SaturatingSub
  <1>3. check_block' \in Nat
      BY <1>0, <1>1, SaturatingSubBounds DEF GoBack, StrideBack
  <1>4. ASSUME NEW h \in probed PROVE check_block + blocks_per_hour <= h
      BY <1>1 DEF Descent
  <1>5. ASSUME NEW h \in probed
        PROVE  check_block' = 0 \/ check_block' + blocks_per_hour <= h
    <2>1. check_block + blocks_per_hour <= h /\ h \in Nat
        BY <1>1, <1>4
    <2>2. \A a, b, c, d \in Nat : a + b <= c /\ c + b <= d => a + b <= d
        OBVIOUS
    <2> QED BY <1>0, <1>1, <1>2, <1>3, <2>1, <2>2
  <1>6. ASSUME NEW g \in probed', NEW h \in probed', g < h
        PROVE  g + blocks_per_hour <= h
    <2>1. CASE g \in probed /\ h \in probed
        BY <1>6, <2>1 DEF Descent
    <2>2. CASE g = check_block
        BY <1>1, <1>4, <1>6, <2>2
    <2>3. CASE g \in probed /\ h = check_block
        BY <1>0, <1>1, <1>4, <1>6, <2>3
    <2> QED BY <1>1, <2>1, <2>2, <2>3
  <1> QED BY <1>0, <1>1, <1>2, <1>5, <1>6 DEF Descent

\* Only a stride adds to what was looked at.
LEMMA NextDescends == Inv /\ Descent /\ [Next]_vars => Descent'
  <1> SUFFICES ASSUME Inv, Descent, [Next]_vars PROVE Descent'
      OBVIOUS
  <1>1. CASE EvmTooYoung \/ BtcTooYoung
    <2>1. pc = "search" /\ check_block # 0 /\ GoBack
        BY <1>1 DEF EvmTooYoung, BtcTooYoung, BtcContinues, Searching
    <2> QED BY <2>1, GoBackDescends
  <1>2. CASE Start
      BY <1>2 DEF Start, Descent, inputs, blocks_per_hour
  <1>3. CASE EvmFound \/ BtcFound \/ BtcClosest \/ RequestFails
      BY <1>3 DEF EvmFound, BtcFound, BtcClosest, RequestFails, Found, Descent, inputs,
                  blocks_per_hour
  <1>4. CASE UNCHANGED vars
      BY <1>4 DEF Descent, vars, inputs, blocks_per_hour
  <1> QED BY <1>1, <1>2, <1>3, <1>4 DEF Next, Search, Ended

\* The loops of both functions ask for a block once, a stride apart, on a chain
\* of any length: with a positive stride there is an end to their requests.
THEOREM SearchDescends == Spec => []OneRequestPerStride
  <1>1. Init => Descent
      BY DEF Init, Descent
  <1>2. Inv /\ Descent => OneRequestPerStride
    <2> SUFFICES ASSUME Inv, Descent PROVE OneRequestPerStride
        OBVIOUS
    <2>1. blocks_per_hour \in Nat /\ check_block \in Nat
        BY StrideTypes DEF Inv, TypeOK
    <2>2. ASSUME pc = "search", blocks_per_hour > 0, check_block \in probed PROVE FALSE
        BY <2>1, <2>2 DEF Descent
    <2> QED BY <2>2 DEF Descent, OneRequestPerStride
  <1> QED BY <1>1, <1>2, NextDescends, Invariance, PTL DEF Spec

=============================================================================
