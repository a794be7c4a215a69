---------------------------- MODULE PayoutLedger ----------------------------
(***************************************************************************)
(* The carried balances of the pool: shares are accepted, work pays the    *)
(* balances it was issued with, blocks found on current and on superseded  *)
(* work land, are confirmed, disconnected and matured, and each changes    *)
(* the balances the next work pays (ledger/blocks.rs, ledger/divergence.rs *)
(* and the triggers of 001_share_ledger.sql).                              *)
(*                                                                         *)
(* The payout revision is only ever compared with the one a piece of work  *)
(* was issued at, so it is kept as that comparison: work.current.          *)
(***************************************************************************)
EXTENDS PayoutPolicy

CONSTANTS
    Difficulty,   \* the difficulties of shares
    Issued,       \* the share logs work is issued on
    Priors,       \* balances to check the policy with
    Opening,      \* the balances the blocks before these left
    CeilingBps,   \* capture_overpay_ceiling_bps
    Maturity,     \* 1000 in the code
    MaxShares, MaxBlocks, MaxTip     \* bounds

ASSUME LedgerAssumption ==
    /\ Opening \in [Program -> Int] /\ Priors \subseteq [Program -> Int]
    /\ Difficulty \subseteq Nat \ {0}
    /\ CeilingBps \in Nat /\ Maturity \in Nat
    /\ MaxShares \in Nat /\ MaxBlocks \in Nat /\ MaxTip \in Nat

VARIABLES
    log,       \* the accepted shares, by share_seq
    works,     \* the newest work and the one before it, newest first
    blocks,    \* qbit_pool_blocks with their carry rows
    summary,   \* qbit_payout_carry_forward_current
    chain,     \* the node's best chain: the blocks of ours on it and its height
    view,      \* that chain, as the cluster last observed it
    pass,      \* the reconciliation transaction: the rows it has left
    fatal      \* fatal_error

vars == <<log, works, blocks, summary, chain, view, pass, fatal>>

Block == 1..MaxBlocks
Chain == [best : SUBSET Block, tip : 0..MaxTip]
Amount == [Program -> Nat]
Balance == [Program -> Int]

Work == [prior : Balance, gross : Amount, onchain : Amount,
         parent : Chain, current : BOOLEAN]

PoolBlock ==
    [prior : Balance, gross : Amount, onchain : Amount, parent : Chain,
     captured : BOOLEAN, state : {"prepared", "confirmed", "inactive"},
     mature : BOOLEAN, overpay : Amount]

Idle == [open |-> FALSE, left |-> {}, changed |-> FALSE]

TypeOK ==
    /\ log \in Seq(Share) /\ Len(log) <= MaxShares
    /\ works \in Seq(Work) /\ Len(works) <= 2
    /\ blocks \in Seq(PoolBlock) /\ Len(blocks) <= MaxBlocks
    /\ summary \in Balance
    /\ chain \in Chain /\ view \in Chain
    /\ pass \in [open : BOOLEAN, left : SUBSET Block, changed : BOOLEAN]
    /\ fatal \in BOOLEAN

Init ==
    /\ log = <<>> /\ works = <<>> /\ blocks = <<>>
    /\ summary = Opening
    /\ chain = [best |-> {}, tip |-> 0] /\ view = chain
    /\ pass = Idle /\ fatal = FALSE

Height(b) == blocks[b].parent.tip + 1

\* No transaction holds the settlement and order locks, and the cluster is
\* writable.
Free == ~pass.open /\ ~fatal

\* Room for another block within the bounds.  Work is dropped with the last
\* one, as nothing can be found on it.
Room == Len(blocks) < MaxBlocks

Superseded(ws) == [i \in DOMAIN ws |-> [ws[i] EXCEPT !.current = FALSE]]

-----------------------------------------------------------------------------
(* Shares and work.                                                        *)

Fresh == works = <<>> /\ blocks = <<>> /\ chain.tip = 0

\* A share is stamped by the frontend that took it, whose clock may be ahead
\* of the one that issues the next work.  In the instances all come first.
AcceptShare(p, d, ahead) ==
    /\ Fresh /\ Free /\ Len(log) < MaxShares
    /\ log' = Append(log, [program |-> p, difficulty |-> d,
                           at |-> Len(log) + 1 + ahead])
    /\ UNCHANGED <<works, blocks, summary, chain, view, pass, fatal>>

\* The shares that count for work anchored at the present.
Window == Weights(log, Len(log))

(***************************************************************************)
(* Work is built on the observed chain from the balances of the moment, or *)
(* from none while the carry gate is closed.                               *)
(* Every error of the policy or of the settlement, an amount that does not *)
(* fit its type included, leaves the old work.                             *)
(***************************************************************************)
IssueWork(carry) ==
    /\ Free /\ Room /\ view.tip < MaxTip /\ log \in Issued
    /\ \E p \in Program : Window[p] > 0
    /\ \E prior \in {IF carry THEN summary ELSE NoPrior},
          gross \in {Gross(Window)} \cap Amount :
       \E candidate \in {Candidate(prior, gross)} \cap Balance :
       \E onchain \in {Onchain(candidate)} \cap Amount :
          /\ Pays(candidate) /\ Settles(onchain)
          /\ LET work == [prior |-> prior, gross |-> gross,
                          onchain |-> onchain, parent |-> view,
                          current |-> TRUE]
             IN  works' = IF works = <<>> THEN <<work>> ELSE <<work, works[1]>>
    /\ UNCHANGED <<log, blocks, summary, chain, view, pass, fatal>>

-----------------------------------------------------------------------------
(* Blocks.                                                                 *)

\* overpay_bound: the most a block built on these balances can overpay.
Float(prior) == SumFunction([p \in Program |-> Larger(prior[p], 0)])

Ceiling == (CoinbaseValue * CeilingBps) \div 10000     \* overpay_ceiling_sats

\* Mutant: a capture is held to the ceiling only when it pays more than its
\* reward.
CaptureAllowedNet(work) ==
    /\ CeilingBps > 0
    /\ SumFunction(work.onchain) - SumFunction(work.gross) <= Ceiling

\* reserve_offer_within, for work the revision has passed.
CaptureAllowed(work) == CeilingBps > 0 /\ Float(work.prior) <= Ceiling

(***************************************************************************)
(* A block is found on one of the two works: its one offer is reserved,    *)
(* its rows land, and the node gets it.  It extends the best chain, or is  *)
(* a side block if the chain has moved.  Carry-paying work is not current  *)
(* either while the gate is closed.  A refused block is never offered and  *)
(* leaves no row that counts.                                              *)
(***************************************************************************)
FindBlock(i, closed) ==
    LET work == works[i]
        current == work.current /\ ~(closed /\ work.prior # NoPrior)
        extends == work.parent = chain
    IN  /\ Free /\ Room
        /\ work.parent.tip < MaxTip
        /\ current \/ CaptureAllowed(work)
        /\ blocks' = Append(blocks,
              [prior |-> work.prior, gross |-> work.gross,
               onchain |-> work.onchain, parent |-> work.parent,
               captured |-> ~current, state |-> "prepared",
               mature |-> FALSE, overpay |-> NoPrior])
        /\ chain' = IF extends THEN [best |-> chain.best \cup {Len(blocks) + 1},
                                     tip |-> chain.tip + 1]
                    ELSE chain
        /\ works' = IF Len(blocks) + 1 < MaxBlocks THEN works ELSE <<>>
        /\ UNCHANGED <<log, summary, view, pass, fatal>>

\* The network extends the best chain or a longer fork: our blocks on it are
\* the ones their parents were built on.
ChainMoves(S) ==
    /\ chain.tip < MaxTip
    /\ \A b \in S :
          /\ blocks[b].parent.best = {c \in S : Height(c) < Height(b)}
          /\ \A c \in S : Height(c) = Height(b) => c = b
          /\ Height(b) <= chain.tip
    /\ chain' = [best |-> S, tip |-> chain.tip + 1]
    /\ UNCHANGED <<log, works, blocks, summary, view, pass, fatal>>

\* A new tip is observed, which moves the payout revision.
ObserveTip ==
    /\ Free /\ view # chain
    /\ view' = chain
    /\ works' = Superseded(works)
    /\ UNCHANGED <<log, blocks, summary, chain, pass, fatal>>

-----------------------------------------------------------------------------
(* What a block's rows do to the balances.                                 *)

Debt(balance) == Larger(-balance, 0)

After(b) ==
    [p \in Program |->
        summary[p] + blocks[b].gross[p] - blocks[b].onchain[p]]

\* rows_divergence: the debt the rows create on the balances they meet.
Overpay(b) ==
    [p \in Program |-> Larger(Debt(After(b)[p]) - Debt(summary[p]), 0)]

\* Mutant: the rows count again when the block was counted before.
ConfirmAgain(b) ==
    /\ blocks' = [blocks EXCEPT ![b].state = "confirmed",
                                ![b].overpay = Overpay(b)]
    /\ summary' = IF blocks[b].state = "prepared" THEN After(b) ELSE summary

\* Mutant: the debt is measured after the rows count.
ConfirmMeasuresLate(b) ==
    /\ blocks' = [blocks EXCEPT ![b].state = "confirmed",
                    ![b].overpay = [p \in Program |-> Debt(After(b)[p])]]
    /\ summary' = After(b)

\* Mutant: the record of an earlier confirmation stands.
ConfirmKeepsRecord(b) ==
    /\ blocks' = [blocks EXCEPT ![b].state = "confirmed",
          ![b].overpay = IF blocks[b].state = "prepared" THEN Overpay(b) ELSE @]
    /\ summary' = After(b)

\* record_confirmation, and the trigger that starts to count the rows.
Confirm(b) ==
    /\ blocks' = [blocks EXCEPT ![b].state = "confirmed",
                                ![b].overpay = Overpay(b)]
    /\ summary' = After(b)

\* deactivate_pool_block, and the trigger that stops counting the rows.
Deactivate(b) ==
    /\ blocks' = [blocks EXCEPT ![b].state = "inactive"]
    /\ summary' = [p \in Program |->
          summary[p] - blocks[b].gross[p] + blocks[b].onchain[p]]

(***************************************************************************)
(* finish_candidate_counted_at_revision with the block seen active.        *)
(***************************************************************************)
SettleCandidate(b) ==
    /\ Free /\ b \in view.best
    /\ blocks[b].state # "confirmed"
    /\ Confirm(b)
    /\ works' = Superseded(works)
    /\ UNCHANGED <<log, chain, view, pass, fatal>>

(***************************************************************************)
(* pool_blocks_for_reconcile: the immature blocks and the newest mature    *)
(* one.                                                                    *)
(***************************************************************************)
Matured == {b \in DOMAIN blocks : blocks[b].mature}

Before(a, b) == \/ Height(a) < Height(b)
                \/ Height(a) = Height(b) /\ a < b

ReconcileRows ==
    (DOMAIN blocks \ Matured)
      \cup {b \in Matured : \A a \in Matured : a = b \/ Before(a, b)}

\* A reconciliation transaction takes the settlement and order locks and
\* reads its rows; the locks keep every other writer out until it commits.
BeginReconcile ==
    /\ Free /\ ReconcileRows # {}
    /\ pass' = [open |-> TRUE, left |-> ReconcileRows, changed |-> FALSE]
    /\ UNCHANGED <<log, works, blocks, summary, chain, view, fatal>>

NextRow(b) == pass.open /\ b \in pass.left
              /\ \A a \in pass.left : a = b \/ Before(b, a)

\* A mature block disconnected: the pass commits what it did, and every
\* writer of the cluster stops.
RowFatal(b) ==
    /\ NextRow(b) /\ b \notin view.best /\ blocks[b].mature
    /\ fatal' = TRUE /\ pass' = Idle
    /\ UNCHANGED <<log, works, blocks, summary, chain, view>>

RowConfirm(b) ==
    /\ NextRow(b) /\ b \in view.best /\ blocks[b].state # "confirmed"
    /\ Confirm(b)
    /\ pass' = [pass EXCEPT !.left = @ \ {b}, !.changed = TRUE]
    /\ UNCHANGED <<log, works, chain, view, fatal>>

RowDeactivate(b) ==
    /\ NextRow(b) /\ b \notin view.best
    /\ ~blocks[b].mature /\ blocks[b].state = "confirmed"
    /\ Deactivate(b)
    /\ pass' = [pass EXCEPT !.left = @ \ {b}, !.changed = TRUE]
    /\ UNCHANGED <<log, works, chain, view, fatal>>

RowKept(b) ==
    /\ NextRow(b)
    /\ IF b \in view.best THEN blocks[b].state = "confirmed"
       ELSE ~blocks[b].mature /\ blocks[b].state # "confirmed"
    /\ pass' = [pass EXCEPT !.left = @ \ {b}]
    /\ UNCHANGED <<log, works, blocks, summary, chain, view, fatal>>

\* qbit_mark_mature_pool_payouts
Matures(b) ==
    blocks[b].state = "confirmed" /\ view.tip >= Height(b) + Maturity

CommitReconcile ==
    LET matured == {b \in DOMAIN blocks \ Matured : Matures(b)}
    IN  /\ pass.open /\ pass.left = {}
        /\ blocks' = [b \in DOMAIN blocks |->
              [blocks[b] EXCEPT !.mature = @ \/ Matures(b)]]
        /\ works' = IF pass.changed \/ matured # {} THEN Superseded(works)
                    ELSE works
        /\ pass' = Idle
        /\ UNCHANGED <<log, summary, chain, view, fatal>>

-----------------------------------------------------------------------------

Next ==
    \/ \E p \in Program, d \in Difficulty, ahead \in {0, 1} :
          AcceptShare(p, d, ahead)
    \/ \E carry \in BOOLEAN : IssueWork(carry)
    \/ \E i \in DOMAIN works, closed \in BOOLEAN : FindBlock(i, closed)
    \/ \E S \in SUBSET DOMAIN blocks : ChainMoves(S)
    \/ ObserveTip
    \/ \E b \in DOMAIN blocks :
          \/ SettleCandidate(b)
          \/ RowFatal(b) \/ RowConfirm(b) \/ RowDeactivate(b) \/ RowKept(b)
    \/ BeginReconcile \/ CommitReconcile

Spec == Init /\ [][Next]_vars

-----------------------------------------------------------------------------
(* Properties.                                                             *)

Counting == {b \in DOMAIN blocks : blocks[b].state = "confirmed"}

(***************************************************************************)
(* The balances work is issued with, kept by triggers as blocks connect    *)
(* and disconnect, are what a recomputation from the blocks that count     *)
(* gives (qbit_recomputed_carry_forward_balances), and the pool owes in    *)
(* all exactly the dust those blocks swept into the pool fee: no sequence  *)
(* of captures, reorganisations and re-confirmations creates or loses a    *)
(* satoshi.                                                                *)
(***************************************************************************)
BalancesExact ==
    /\ \A p \in Program :
          summary[p] = Opening[p] + SumFunctionOnSet(
              [b \in DOMAIN blocks |-> blocks[b].gross[p] - blocks[b].onchain[p]],
              Counting)
    /\ SumFunction(summary) = SumFunction(Opening) + SumFunctionOnSet(
              [b \in DOMAIN blocks |-> Swept(blocks[b].onchain)], Counting)

(***************************************************************************)
(* However late a block is confirmed, and in whatever order it is          *)
(* reorganised away and back, the debt its rows create on each account is  *)
(* at most the positive balance the block was issued with there.           *)
(***************************************************************************)
DebtWithinFloat ==
    \A b \in DOMAIN blocks, p \in Program :
        blocks[b].overpay[p] <= Larger(blocks[b].prior[p], 0)

(***************************************************************************)
(* A block offered although its payout revision was superseded never       *)
(* overpays more than the configured part of its coinbase.                 *)
(***************************************************************************)
CaptureWithinCeiling ==
    \A b \in DOMAIN blocks :
        blocks[b].captured => SumFunction(blocks[b].overpay) <= Ceiling

(***************************************************************************)
(* No account's debt rises by a confirmation but by what is put on record  *)
(* for it.                                                                 *)
(***************************************************************************)
DebtRecorded ==
    [][\A b \in DOMAIN blocks : \A p \in Program :
          (blocks[b].state # "confirmed" /\ blocks'[b].state = "confirmed")
            => Debt(summary'[p]) <= Debt(summary[p]) + blocks'[b].overpay[p]]_vars

-----------------------------------------------------------------------------
(* Properties of the policy, for every log and every balances.             *)

(***************************************************************************)
(* The window is the newest eligible shares up to eight times the network  *)
(* difficulty: each counts with what the newer eligible ones leave of it,  *)
(* whatever ineligible shares lie between, and the oldest one taken is cut *)
(* so that the window never weighs more.                                   *)
(***************************************************************************)
WindowExact ==
    Fresh => \A anchor \in 0..(Len(log) + 1) : \A i \in DOMAIN log :
        LET newer == {j \in Eligible(log, anchor) : j > i}
            taken == SumFunctionOnSet([j \in DOMAIN log |-> log[j].difficulty],
                                      newer)
        IN  Counted(log, anchor)[i] =
                IF i \in Eligible(log, anchor)
                THEN Smaller(log[i].difficulty, Larger(Requested - taken, 0))
                ELSE 0

\* A window to divide, before any work is built on it.
Dividing == Fresh /\ \E p \in Program : Window[p] > 0

(***************************************************************************)
(* Work that carries nothing can be built from every window: no division   *)
(* of a reward ends in one of the policy's errors, however its dust falls. *)
(* Whenever the policy pays, whatever was carried, debts included, the     *)
(* whole reward goes out: to accounts at or above the floor, none more     *)
(* than its balance, the swept dust to the pool fee.                       *)
(***************************************************************************)
PolicySound ==
    Dividing => \A gross \in {Gross(Window)} :
        /\ gross \in Amount /\ SumFunction(gross) = MinerReward
        /\ MinerReward >= MinOutput => Pays(gross)
        /\ \A prior \in Priors :
              LET candidate == Candidate(prior, gross)
              IN  Pays(candidate) => \A onchain \in {Onchain(candidate)} :
                    /\ onchain \in Amount /\ Swept(onchain) >= 0
                    /\ \A p \in Program : onchain[p] <= Larger(candidate[p], 0)
                    /\ Swept(onchain) > 0 =>
                          \A p \in Program : \/ onchain[p] = candidate[p]
                                             \/ candidate[p] < MinOutput

(***************************************************************************)
(* A settlement that goes through fits the coinbase: at most MaxOutputs    *)
(* outputs, no recipient left out of both forms, none paid directly while  *)
(* a larger one waits for a fanout, and each chunk's fee split without     *)
(* loss and without eating a recipient's payout below the floor.           *)
(***************************************************************************)
Fits(amount) ==
    LET chunks == Chunk(amount)
    IN  /\ Cardinality(Direct(amount)) + Cardinality(Range(chunks)) <= MaxOutputs
        /\ \A r \in Direct(amount) \ Pinned(amount), q \in DOMAIN chunks :
              amount[q] <= amount[r]
        /\ \A c \in Range(chunks) :
              LET chunk == ChunkAmounts(amount, c)
                  n == Cardinality(DOMAIN chunk)
              IN  n \in 1..ChunkSize /\ SumFunction(ChunkFee(chunk)) = FanoutFee(n)

SettlementFits ==
    Dividing => \A gross \in {Gross(Window)} : gross \in Amount /\
        \A prior \in Priors : \A onchain \in {Onchain(Candidate(prior, gross))} :
            (onchain \in Amount /\ Settles(onchain)) => Fits(Amounts(onchain))
=============================================================================
