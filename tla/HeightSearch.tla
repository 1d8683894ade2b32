---------------------------- MODULE HeightSearch ----------------------------
(***************************************************************************)
(* The searches for the heights the node starts from: the two functions    *)
(* find_block_height_from_time of src/evm_indexer.rs and of                *)
(* src/btc_indexer.rs.  Each looks for a block that is older than the      *)
(* longest a reservation can live, going back from an estimate in strides  *)
(* of one hour's blocks, one request per stride.  What the node misses     *)
(* below the height it starts from, it never sees.                         *)
(*                                                                         *)
(* The chain may grow meanwhile, but the searches look at the tip only     *)
(* once, so the tip is where the chain ends.                               *)
(***************************************************************************)
EXTENDS Integers

CONSTANTS
    HOUR,       \* ticks of the clock in an hour, 3600 in the code
    hours,      \* RESERVATION_DURATION_HOURS
    Averages,   \* average ticks between two blocks: an argument of the node
    Chains,     \* block timestamps from height 0 to the tip
    Skew        \* how far a block may be older than one before it

Heights(chain) == DOMAIN chain
IsTip(h, chain) == h \in Heights(chain) /\ \A g \in Heights(chain) : g <= h

\* Bitcoin timestamps need not increase, those of the EVM chain do.
ASSUME SearchAssumption ==
    /\ HOUR \in Nat \ {0} /\ hours \in Nat \ {0} /\ Skew \in Nat
    /\ Averages \subseteq Nat \ {0}
    /\ \A chain \in Chains :
          /\ \E tip \in Heights(chain) : tip \in Nat /\ chain \in [0 .. tip -> Nat]
          /\ \A g, h \in Heights(chain) : g <= h => chain[g] <= chain[h] + Skew

VARIABLES
    kind,                   \* which of the two searches, "evm" or "btc"
    timestamp, average,     \* the chain and the argument
    pc,                     \* "start", "search", "found" or "failed"
    target_timestamp,
    check_block,            \* the next block to look at, in the end the result
    previous_check_block,
    \* history
    probed                  \* blocks looked at and found too young

inputs == <<kind, timestamp, average>>
vars == <<inputs, pc, target_timestamp, check_block, previous_check_block, probed>>

duration == hours * HOUR
blocks_per_hour == HOUR \div average
estimated_blocks_ago == hours * blocks_per_hour

SaturatingSub(a, b) == IF a > b THEN a - b ELSE 0

\* Only the search on the EVM chain guards against a chain shorter than the
\* duration: Bitcoin's timestamps are past it.
Init ==
    /\ kind \in {"evm", "btc"} /\ average \in Averages /\ timestamp \in Chains
    /\ kind = "btc" =>
          \A h \in Heights(timestamp) : IsTip(h, timestamp) => timestamp[h] >= duration
    /\ pc = "start"
    /\ target_timestamp = 0 /\ check_block = 0 /\ previous_check_block = 0
    /\ probed = {}

\* The tip and its timestamp, and the estimate the search starts from.
Start ==
    /\ pc = "start"
    /\ \E tip \in Heights(timestamp) :
          /\ IsTip(tip, timestamp)
          /\ target_timestamp' = SaturatingSub(timestamp[tip], duration)
          /\ check_block' = SaturatingSub(tip, estimated_blocks_ago)
    /\ previous_check_block' = check_block' + 1
    /\ pc' = "search"
    /\ UNCHANGED <<inputs, probed>>

\* Variant: the comparison is turned round.
YoungEnough(h) == timestamp[h] >= target_timestamp

OldEnough(h) == timestamp[h] <= target_timestamp

Found ==
    /\ pc' = "found"
    /\ UNCHANGED <<inputs, target_timestamp, check_block, previous_check_block, probed>>

\* Variant: a plain subtraction.
UncheckedStrideBack(h) == h - blocks_per_hour
\* Variant: back by the whole duration.
DurationBack(h) == SaturatingSub(h, estimated_blocks_ago)

StrideBack(h) == SaturatingSub(h, blocks_per_hour)

GoBack ==
    /\ probed' = probed \union {check_block}
    /\ previous_check_block' = check_block
    /\ check_block' = StrideBack(check_block)
    /\ UNCHANGED <<inputs, pc, target_timestamp>>

Searching(k) == pc = "search" /\ kind = k

\* Variant: without the test for the first block.
EvmFoundByTime == Searching("evm") /\ OldEnough(check_block) /\ Found

EvmFound == Searching("evm") /\ (OldEnough(check_block) \/ check_block = 0) /\ Found

\* Variant: below the first block, it goes on with the first block.
EvmTooYoungByTime == Searching("evm") /\ ~OldEnough(check_block) /\ GoBack

EvmTooYoung ==
    Searching("evm") /\ ~OldEnough(check_block) /\ check_block # 0 /\ GoBack

\* The condition of the while loop.
BtcContinues == check_block > 0 /\ check_block # previous_check_block

BtcFound == Searching("btc") /\ BtcContinues /\ OldEnough(check_block) /\ Found

BtcTooYoung == Searching("btc") /\ BtcContinues /\ ~OldEnough(check_block) /\ GoBack

\* The closest block, which is not looked at.
BtcClosest == Searching("btc") /\ ~BtcContinues /\ Found

\* A request that is refused ends the search, and the node with it.
RequestFails ==
    /\ pc \in {"start", "search"}
    /\ pc' = "failed"
    /\ UNCHANGED <<inputs, target_timestamp, check_block, previous_check_block, probed>>

Ended == pc \in {"found", "failed"} /\ UNCHANGED vars

Search ==
    \/ Start
    \/ EvmFound \/ EvmTooYoung
    \/ BtcFound \/ BtcTooYoung \/ BtcClosest

Next == Search \/ RequestFails \/ Ended

Spec == Init /\ [][Next]_vars

\* The future is polled and its requests are answered.
FairSpec == Spec /\ WF_vars(Search)

-----------------------------------------------------------------------------
(* Properties                                                              *)

TypeOK ==
    /\ kind \in {"evm", "btc"} /\ average \in Averages /\ timestamp \in Chains
    /\ pc \in {"start", "search", "found", "failed"}
    /\ target_timestamp \in Nat /\ previous_check_block \in Nat
    /\ check_block \in Nat
    /\ pc \in {"search", "found"} => check_block \in Heights(timestamp)
    /\ probed \subseteq Heights(timestamp)

\* No block below the start height is younger than the target by more than the
\* skew of the chain, so nothing a living reservation can depend on is left
\* out, provided an hour has room for a block.
StartCoversDuration ==
    pc = "found" /\ blocks_per_hour > 0 =>
        \A h \in Heights(timestamp) :
            h < check_block => timestamp[h] <= target_timestamp + Skew

\* The search does not go back further than it must: at most one stride below
\* a block that is too young, unless the estimate was old enough at once.
StartIsTight ==
    pc = "found" /\ probed # {} =>
        \E h \in probed :
            /\ timestamp[h] > target_timestamp
            /\ check_block <= h /\ h <= check_block + blocks_per_hour

\* The blocks asked for are a stride apart and none is asked for twice, down to
\* the first block of the chain, where the stride is cut off: a search sends no
\* more requests than the chain has strides, whatever the timestamps say.  With
\* more than an hour between blocks the stride is 0 and nothing is claimed: the
\* search on the EVM chain then asks for one block for ever.
OneRequestPerStride ==
    /\ \A g, h \in probed : g < h => g + blocks_per_hour <= h
    /\ pc = "search" /\ blocks_per_hour > 0 => check_block \notin probed

\* The search ends, however the timestamps are spread, except on an EVM chain
\* with more than an hour between blocks: there the stride is 0.
SearchEnds ==
    kind = "btc" \/ blocks_per_hour > 0 ~> pc \in {"found", "failed"}

=============================================================================
