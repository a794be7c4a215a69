---------------------------- MODULE PayoutPolicy ----------------------------
(***************************************************************************)
(* How the reward of one block is divided: the share window, the payout    *)
(* policy over it and the carried balances, and the settlement of its      *)
(* outputs as direct coinbase outputs and CTV fanouts (qbit-prism's lib.rs *)
(* and settlement.rs).                                                     *)
(*                                                                         *)
(* A payout program is a number, its place in the canonical account order. *)
(* The server refuses to start without a pool fee, so there always is one. *)
(***************************************************************************)
EXTENDS Integers, Sequences, FiniteSets, Functions, FiniteSetsExt

CONSTANTS
    Program,            \* payout programs
    CoinbaseValue,      \* coinbase_value_sats
    FeeBps,             \* pool_fee_policy.fee_bps
    MinOutput,          \* the payout floor
    NetworkDifficulty,
    FeeFirst,           \* CoinbaseOutputPolicy::PoolFeeFirst
    DirectFloor,        \* direct_floor_sats
    MaxOutputs,         \* max_coinbase_settlement_outputs
    MaxDirect,          \* max_direct_coinbase_outputs
    ChunkSize,          \* max_fanout_recipients_per_transaction
    FeeRate, PremiumBps \* FanoutFeeRatePolicy

ASSUME ProgramAssumption == Program \subseteq Nat \ {0} /\ IsFiniteSet(Program)

ASSUME PolicyAssumption ==
    /\ CoinbaseValue \in Nat /\ FeeBps \in 0..10000
    /\ MinOutput \in Nat \ {0} /\ NetworkDifficulty \in Nat \ {0}

ASSUME SettlementAssumption ==
    /\ FeeFirst \in BOOLEAN /\ DirectFloor \in Nat
    /\ MaxOutputs \in Nat \ {0} /\ MaxDirect \in Nat
    /\ ChunkSize \in Nat \ {0}
    /\ FeeRate \in Nat \ {0} /\ PremiumBps \in Nat \ {0}

Larger(a, b) == IF a > b THEN a ELSE b
Smaller(a, b) == IF a < b THEN a ELSE b

-----------------------------------------------------------------------------
(* The share window: eligible_window, compute_prism_window.                *)

\* An accepted share; its place in the log is its share_seq, `at` the later
\* of the times its job was issued and it was accepted.
Share == [program : Program, difficulty : Nat \ {0}, at : Nat]

Eligible(log, anchor) == {i \in DOMAIN log : log[i].at <= anchor}

Requested == 8 * NetworkDifficulty     \* PRISM_WINDOW_MULTIPLIER

(***************************************************************************)
(* The counted difficulty of each share.  The fold runs from the newest    *)
(* share back, until the requested weight is used up; left[i] is what      *)
(* remains of it once the shares from i on were taken.                     *)
(***************************************************************************)
\* Mutant: the share that crosses the end of the window counts in full.
CountedWhole(log, anchor) ==
    LET left[i \in 1..(Len(log) + 1)] ==
            IF i = Len(log) + 1 THEN Requested
            ELSE IF i \in Eligible(log, anchor) /\ left[i + 1] > 0
                 THEN left[i + 1] - log[i].difficulty
                 ELSE left[i + 1]
    IN  [i \in DOMAIN log |-> left[i + 1] - left[i]]

Counted(log, anchor) ==
    LET left[i \in 1..(Len(log) + 1)] ==
            IF i = Len(log) + 1 THEN Requested
            ELSE IF i \in Eligible(log, anchor)
                 THEN left[i + 1] - Smaller(log[i].difficulty, left[i + 1])
                 ELSE left[i + 1]
    IN  [i \in DOMAIN log |-> left[i + 1] - left[i]]

\* aggregate_entitlements, by payout program.
Weights(log, anchor) ==
    [p \in Program |->
        SumFunctionOnSet(Counted(log, anchor),
                         {i \in DOMAIN log : log[i].program = p})]

-----------------------------------------------------------------------------
(* The payout policy: apply_payout_policy.                                 *)

(***************************************************************************)
(* allocate_weighted_amounts: the largest-remainder split of a total, ties *)
(* in account order.                                                       *)
(***************************************************************************)
Allocate(total, weight) ==
    LET whole == SumFunction(weight)
        base == [p \in DOMAIN weight |-> (total * weight[p]) \div whole]
        rest == [p \in DOMAIN weight |-> (total * weight[p]) % whole]
        spare == total - SumFunction(base)
        before(p) == {q \in DOMAIN weight :
                         \/ rest[q] > rest[p]
                         \/ rest[q] = rest[p] /\ q < p}
    IN  [p \in DOMAIN weight |->
            base[p] + IF Cardinality(before(p)) < spare THEN 1 ELSE 0]

EarnedFee == (CoinbaseValue * FeeBps) \div 10000     \* pool_fee_manifest
MinerReward == CoinbaseValue - EarnedFee

NoPrior == [p \in Program |-> 0]

\* The reward divided by window weight.
Gross(weight) ==
    LET miners == {p \in Program : weight[p] > 0}
        amount == Allocate(MinerReward, Restrict(weight, miners))
    IN  [p \in Program |-> IF p \in miners THEN amount[p] ELSE 0]

\* Mutant: every account with a balance is paid, dust or not.
EligiblePositive(candidate) ==
    {p \in Program : candidate[p] > 0}

EligibleAccounts(candidate) ==
    {p \in Program : candidate[p] >= MinOutput}

(***************************************************************************)
(* select_onchain_accounts: accounts whose part of the reward would be     *)
(* under the floor are dropped until none is.  Dropping some may leave too *)
(* little balance to cover the reward; {} stands for either refusal.       *)
(***************************************************************************)
SelectOnchain(candidate) ==
    LET select[S \in SUBSET EligibleAccounts(candidate)] ==
            IF S = {} \/ SumFunctionOnSet(candidate, S) < MinerReward THEN {}
            ELSE LET amount == Allocate(MinerReward, Restrict(candidate, S))
                     under == {p \in S : amount[p] < MinOutput}
                 IN  IF under = {} THEN S ELSE select[S \ under]
    IN  select[EligibleAccounts(candidate)]

(***************************************************************************)
(* What each account is paid on chain: accounts at or above the floor, in  *)
(* full when the reward covers them, the rest swept to the pool fee; and   *)
(* otherwise in proportion to their balances.                              *)
(***************************************************************************)
Onchain(candidate) ==
    LET eligible == EligibleAccounts(candidate)
        covered == SumFunctionOnSet(candidate, eligible) < MinerReward
        paid == IF covered THEN Restrict(candidate, eligible)
                ELSE Allocate(MinerReward,
                              Restrict(candidate, SelectOnchain(candidate)))
    IN  [p \in Program |-> IF p \in DOMAIN paid THEN paid[p] ELSE 0]

(***************************************************************************)
(* The errors of apply_payout_policy that its inputs can reach, the checks *)
(* of every amount against the floor and its account's balance included.   *)
(***************************************************************************)
Pays(candidate) ==
    LET eligible == EligibleAccounts(candidate)
        onchain == Onchain(candidate)
    IN  /\ MinerReward >= MinOutput
        /\ SumFunctionOnSet(candidate, eligible) >= MinerReward
             => SelectOnchain(candidate) # {}
        /\ \A p \in Program :
              onchain[p] = 0 \/ onchain[p] \in MinOutput..candidate[p]

Candidate(prior, gross) == [p \in Program |-> prior[p] + gross[p]]

\* add_swept_dust_to_pool_fee: what no account is paid.
Swept(onchain) == MinerReward - SumFunction(onchain)

-----------------------------------------------------------------------------
(* Settlement: select_settlement_mode_with_pinned_direct and               *)
(* apply_ctv_fanout_fee_accounting.  A recipient is a program or the pool  *)
(* fee, which comes first in the account order.                            *)

Fee == 0

\* onchain_entitlements: positive amounts only.
Amounts(onchain) ==
    LET all == [r \in Program \cup {Fee} |->
                  IF r = Fee THEN EarnedFee + Swept(onchain) ELSE onchain[r]]
    IN  Restrict(all, {r \in DOMAIN all : all[r] > 0})

\* pinned_settlement_recipient_for_policy
Pinned(amount) == IF FeeFirst THEN DOMAIN amount \cap {Fee} ELSE {}

Chunks(n) == (n + ChunkSize - 1) \div ChunkSize     \* fanout_chunk_count

\* Mutant: the output of a fanout chunk is not counted.
DirectCountsUncapped(amount) ==
    LET pinned == Cardinality(Pinned(amount))
        candidates == Cardinality({r \in DOMAIN amount \ Pinned(amount) :
                                      amount[r] >= DirectFloor})
    IN  {n \in 0..Smaller(candidates, Larger(MaxDirect - pinned, 0)) :
            pinned + n <= MaxOutputs}

\* select_direct_count: the counts of direct outputs the coinbase has room for.
DirectCounts(amount) ==
    LET pinned == Cardinality(Pinned(amount))
        candidates == Cardinality({r \in DOMAIN amount \ Pinned(amount) :
                                      amount[r] >= DirectFloor})
    IN  {n \in 0..Smaller(candidates, Larger(MaxDirect - pinned, 0)) :
            pinned + n + Chunks(Cardinality(DOMAIN amount) - pinned - n)
                <= MaxOutputs}

\* The largest liabilities first, ties in account order.
Direct(amount) ==
    LET candidates == {r \in DOMAIN amount \ Pinned(amount) :
                          amount[r] >= DirectFloor}
        before(r) == {q \in candidates : \/ amount[q] > amount[r]
                                         \/ amount[q] = amount[r] /\ q < r}
        count == Max(DirectCounts(amount))
    IN  Pinned(amount) \cup {r \in candidates :
                                Cardinality(before(r)) < count}

\* The fanout chunk of each recipient that is not paid directly.
Chunk(amount) ==
    LET fanout == DOMAIN amount \ Direct(amount)
    IN  [r \in fanout |->
            Cardinality({q \in fanout : q < r}) \div ChunkSize]

\* estimate_ctv_fanout_fee_sats, for chunks of less than 253 recipients.
FanoutFee(n) ==
    ((91 + 43 * n) * FeeRate * PremiumBps + 9999999) \div 10000000

(***************************************************************************)
(* What the recipients of one chunk pay of its fee, in proportion          *)
(* (allocate_proportional_fee), and whether each keeps at least the floor: *)
(* if one would not, the caller refuses the whole block.                   *)
(***************************************************************************)
ChunkAmounts(amount, c) ==
    LET chunk == Chunk(amount)
    IN  Restrict(amount, {r \in DOMAIN chunk : chunk[r] = c})

ChunkFee(chunk) == Allocate(FanoutFee(Cardinality(DOMAIN chunk)), chunk)

Affords(chunk) ==
    /\ FanoutFee(Cardinality(DOMAIN chunk)) < SumFunction(chunk)
    /\ LET fee == ChunkFee(chunk)
       IN  \A r \in DOMAIN chunk : chunk[r] - fee[r] >= MinOutput

\* The settlement goes through.
Settles(onchain) ==
    LET amount == Amounts(onchain)
    IN  /\ amount # <<>>
        /\ Pinned(amount) # {} => MaxDirect >= 1
        /\ DirectCounts(amount) # {}
        /\ \A c \in Range(Chunk(amount)) : Affords(ChunkAmounts(amount, c))
=============================================================================
