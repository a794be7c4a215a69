------------------------- MODULE PayoutLedgerProofs -------------------------
(***************************************************************************)
(* Theorems about PayoutLedger, for any programs, balances, amounts,       *)
(* window, settlement and bounds: type correctness, the bound on the debt  *)
(* a block's rows create and its record, the ceiling of captured blocks,   *)
(* the window, the policy and the settlement at every log and balance, and *)
(* that the balances kept by triggers are the ones recomputed from blocks. *)
(*                                                                         *)
(* The bounds rest on one fact about work: the policy pays no account more *)
(* than its candidate balance (Pays).  Whatever balances the rows meet     *)
(* when they start to count, what they take beyond the reward of the block *)
(* is then at most the balance the work was issued with.                   *)
(***************************************************************************)
EXTENDS PayoutLedger, PayoutPolicyProofs

-----------------------------------------------------------------------------
(* Arithmetic.                                                             *)

\* Larger is a maximum.
LEMMA LargerFacts ==
    ASSUME NEW a \in Int, NEW b \in Int
    PROVE  /\ Larger(a, b) \in Int /\ Larger(a, b) >= a /\ Larger(a, b) >= b
           /\ Larger(a, b) = a \/ Larger(a, b) = b
    BY DEF Larger

\* A debt is a natural number.
LEMMA DebtType ==
    ASSUME NEW x \in Int
    PROVE  Debt(x) \in Nat
    BY DEF Debt, Larger

\* An account paid g and charged o beyond its balance x gains no more debt
\* than o exceeds g.
LEMMA DebtStep ==
    ASSUME NEW x \in Int, NEW g \in Nat, NEW o \in Nat, NEW prior \in Int,
           o <= Larger(prior + g, 0)
    PROVE  Larger(Debt(x + g - o) - Debt(x), 0) <= Larger(prior, 0)
    BY DEF Debt, Larger

-----------------------------------------------------------------------------
(* Types.                                                                  *)

\* A function on 1..n is a sequence of length n.
LEMMA SeqOfFunction ==
    ASSUME NEW S, NEW n \in Nat, NEW f \in [1..n -> S]
    PROVE  f \in Seq(S) /\ Len(f) = n
    OBVIOUS

\* No balance is carried.
LEMMA NoPriorType == NoPrior \in Amount /\ NoPrior \in Balance
    BY DEF NoPrior, Amount, Balance

\* Work loses its revision and nothing else.
LEMMA SupersededType ==
    ASSUME NEW ws \in Seq(Work)
    PROVE  /\ Superseded(ws) \in Seq(Work)
           /\ Len(Superseded(ws)) = Len(ws)
           /\ DOMAIN Superseded(ws) = DOMAIN ws
           /\ \A i \in DOMAIN ws :
                 /\ Superseded(ws)[i].prior = ws[i].prior
                 /\ Superseded(ws)[i].gross = ws[i].gross
                 /\ Superseded(ws)[i].onchain = ws[i].onchain
  <1> DEFINE s == Superseded(ws)
  <1>1. DOMAIN ws = 1..Len(ws) /\ Len(ws) \in Nat
    OBVIOUS
  <1>2. s = [i \in 1..Len(ws) |-> [ws[i] EXCEPT !.current = FALSE]]
    BY <1>1 DEF Superseded
  <1>3. \A i \in 1..Len(ws) : ws[i] \in Work
    OBVIOUS
  <1>4. \A i \in 1..Len(ws) : [ws[i] EXCEPT !.current = FALSE] \in Work
    BY <1>3 DEF Work
  <1>5. s \in [1..Len(ws) -> Work]
    BY <1>2, <1>4
  <1>6. s \in Seq(Work) /\ Len(s) = Len(ws)
    BY <1>1, <1>2, <1>5
  <1>7. \A i \in 1..Len(ws) : /\ s[i].prior = ws[i].prior
                              /\ s[i].gross = ws[i].gross
                              /\ s[i].onchain = ws[i].onchain
    BY <1>2, <1>3 DEF Work
  <1> QED
    BY <1>1, <1>2, <1>6, <1>7

\* The balances a block's rows leave, and the debt they create.
LEMMA AfterType ==
    ASSUME TypeOK, NEW b \in DOMAIN blocks
    PROVE  After(b) \in Balance /\ Overpay(b) \in Amount
  <1>1. blocks[b] \in PoolBlock
    BY DEF TypeOK
  <1>2. \A p \in Program : /\ summary[p] \in Int
                           /\ blocks[b].gross[p] \in Nat
                           /\ blocks[b].onchain[p] \in Nat
    BY <1>1 DEF TypeOK, PoolBlock, Balance, Amount
  <1>3. After(b) \in Balance
    BY <1>2 DEF After, Balance
  <1>4. \A p \in Program :
           Larger(Debt(After(b)[p]) - Debt(summary[p]), 0) \in Nat
    BY <1>2, <1>3 DEF Balance, Debt, Larger
  <1> QED
    BY <1>3, <1>4 DEF Overpay, Amount

\* Replacing one block of the ledger keeps its type.
LEMMA BlocksType ==
    ASSUME TypeOK, NEW b \in DOMAIN blocks, NEW new \in PoolBlock
    PROVE  /\ [blocks EXCEPT ![b] = new] \in Seq(PoolBlock)
           /\ Len([blocks EXCEPT ![b] = new]) = Len(blocks)
  <1>1. blocks \in Seq(PoolBlock)
    BY DEF TypeOK
  <1> QED
    BY <1>1

\* Confirming a block keeps the types of the ledger and the balances.
LEMMA ConfirmType ==
    ASSUME TypeOK, NEW b \in DOMAIN blocks, Confirm(b)
    PROVE  /\ blocks' \in Seq(PoolBlock) /\ Len(blocks') = Len(blocks)
           /\ summary' \in Balance
  <1> DEFINE new == [blocks[b] EXCEPT !.state = "confirmed",
                                      !.overpay = Overpay(b)]
  <1>1. blocks[b] \in PoolBlock
    BY DEF TypeOK
  <1>2. After(b) \in Balance /\ Overpay(b) \in Amount
    BY AfterType
  <1>3. new \in PoolBlock
    BY <1>1, <1>2 DEF PoolBlock
  <1>4. blocks' = [blocks EXCEPT ![b] = new]
    BY DEF Confirm
  <1>5. summary' \in Balance
    BY <1>2 DEF Confirm
  <1> HIDE DEF new
  <1> QED
    BY <1>3, <1>4, <1>5, BlocksType

\* So does disconnecting one.
LEMMA DeactivateType ==
    ASSUME TypeOK, NEW b \in DOMAIN blocks, Deactivate(b)
    PROVE  /\ blocks' \in Seq(PoolBlock) /\ Len(blocks') = Len(blocks)
           /\ summary' \in Balance
  <1> DEFINE new == [blocks[b] EXCEPT !.state = "inactive"]
  <1>1. blocks[b] \in PoolBlock
    BY DEF TypeOK
  <1>2. new \in PoolBlock
    BY <1>1 DEF PoolBlock
  <1>3. blocks' = [blocks EXCEPT ![b] = new]
    BY DEF Deactivate
  <1>4. \A p \in Program : /\ summary[p] \in Int
                           /\ blocks[b].gross[p] \in Nat
                           /\ blocks[b].onchain[p] \in Nat
    BY <1>1 DEF TypeOK, PoolBlock, Balance, Amount
  <1>5. summary' \in Balance
    BY <1>4 DEF Deactivate, Balance
  <1> HIDE DEF new
  <1> QED
    BY <1>2, <1>3, <1>5, BlocksType

\* The ledger with the mature blocks marked.
LEMMA MaturedType ==
    ASSUME TypeOK,
           blocks' = [b \in DOMAIN blocks |->
                        [blocks[b] EXCEPT !.mature = @ \/ Matures(b)]]
    PROVE  /\ blocks' \in Seq(PoolBlock) /\ Len(blocks') = Len(blocks)
           /\ DOMAIN blocks' = DOMAIN blocks
           /\ \A b \in DOMAIN blocks :
                 /\ blocks'[b].prior = blocks[b].prior
                 /\ blocks'[b].gross = blocks[b].gross
                 /\ blocks'[b].onchain = blocks[b].onchain
                 /\ blocks'[b].overpay = blocks[b].overpay
                 /\ blocks'[b].state = blocks[b].state
  <1>1. blocks \in Seq(PoolBlock) /\ DOMAIN blocks = 1..Len(blocks)
        /\ Len(blocks) \in Nat
    BY DEF TypeOK
  <1>2. \A b \in 1..Len(blocks) : blocks[b] \in PoolBlock
    BY <1>1
  <1>3. \A b \in 1..Len(blocks) : Matures(b) \in BOOLEAN
    BY DEF Matures
  <1>4. \A b \in 1..Len(blocks) :
           [blocks[b] EXCEPT !.mature = @ \/ Matures(b)] \in PoolBlock
    BY <1>2, <1>3 DEF PoolBlock
  <1>5. blocks' \in [1..Len(blocks) -> PoolBlock]
    BY <1>1, <1>4
  <1>6. blocks' \in Seq(PoolBlock) /\ Len(blocks') = Len(blocks)
    BY <1>1, <1>5, SeqOfFunction
  <1>7. \A b \in 1..Len(blocks) : /\ blocks'[b].prior = blocks[b].prior
                                  /\ blocks'[b].gross = blocks[b].gross
                                  /\ blocks'[b].onchain = blocks[b].onchain
                                  /\ blocks'[b].overpay = blocks[b].overpay
                                  /\ blocks'[b].state = blocks[b].state
    BY <1>1, <1>2 DEF PoolBlock
  <1> QED
    BY <1>1, <1>5, <1>6, <1>7

\* What the policy promises of the work, and the block keeps.
WithinBalance(x) ==
    \A p \in Program : x.onchain[p] <= Larger(x.prior[p] + x.gross[p], 0)

\* The policy pays no account more than its balance with the reward.
LEMMA IssuedWork ==
    ASSUME TypeOK, NEW carry \in BOOLEAN, IssueWork(carry)
    PROVE  \E work \in Work :
              /\ WithinBalance(work)
              /\ works' = IF works = <<>> THEN <<work>> ELSE <<work, works[1]>>
  <1>1. PICK prior \in {IF carry THEN summary ELSE NoPrior},
             gross \in {Gross(Window)} \cap Amount :
           \E candidate \in {Candidate(prior, gross)} \cap Balance :
           \E onchain \in {Onchain(candidate)} \cap Amount :
              /\ Pays(candidate)
              /\ LET work == [prior |-> prior, gross |-> gross,
                              onchain |-> onchain, parent |-> view,
                              current |-> TRUE]
                 IN  works' = IF works = <<>> THEN <<work>>
                              ELSE <<work, works[1]>>
    BY DEF IssueWork
  <1>2. PICK onchain \in Amount :
           LET candidate == Candidate(prior, gross)
               work == [prior |-> prior, gross |-> gross,
                        onchain |-> onchain, parent |-> view,
                        current |-> TRUE]
           IN  /\ onchain = Onchain(candidate) /\ Pays(candidate)
               /\ works' = IF works = <<>> THEN <<work>>
                           ELSE <<work, works[1]>>
    BY <1>1
  <1> DEFINE work == [prior |-> prior, gross |-> gross, onchain |-> onchain,
                      parent |-> view, current |-> TRUE]
  <1>3. prior \in Balance /\ gross \in Amount
    BY NoPriorType DEF TypeOK
  <1>4. work \in Work
    BY <1>3 DEF TypeOK, Work
  <1>5. ASSUME NEW p \in Program
        PROVE  onchain[p] <= Larger(prior[p] + gross[p], 0)
    <2>1. /\ Candidate(prior, gross)[p] = prior[p] + gross[p]
          /\ prior[p] \in Int /\ gross[p] \in Nat /\ onchain[p] \in Nat
      BY <1>3 DEF Candidate, Balance, Amount
    <2>2. \/ onchain[p] = 0
          \/ onchain[p] \in MinOutput..Candidate(prior, gross)[p]
      BY <1>2 DEF Pays
    <2> QED
      BY <2>1, <2>2, PolicyAssumption DEF Larger
  <1>6. WithinBalance(work)
    BY <1>5 DEF WithinBalance
  <1> QED
    BY <1>2, <1>4, <1>6

\* The first state is well typed.
LEMMA TypeInit == Init => TypeOK
  <1> SUFFICES ASSUME Init PROVE TypeOK
    OBVIOUS
  <1>1. chain \in Chain /\ view \in Chain
    BY LedgerAssumption DEF Init, Chain
  <1>2. summary \in Balance
    BY LedgerAssumption DEF Init, Balance
  <1>3. /\ log \in Seq(Share) /\ works \in Seq(Work) /\ blocks \in Seq(PoolBlock)
        /\ Len(log) = 0 /\ Len(works) = 0 /\ Len(blocks) = 0
    BY DEF Init
  <1>4. /\ pass \in [open : BOOLEAN, left : SUBSET Block, changed : BOOLEAN]
        /\ fatal \in BOOLEAN
    BY DEF Init, Idle
  <1> QED
    BY <1>1, <1>2, <1>3, <1>4, LedgerAssumption DEF TypeOK

\* Every step keeps the types.
LEMMA TypeNext == TypeOK /\ [Next]_vars => TypeOK'
  <1> SUFFICES ASSUME TypeOK, [Next]_vars PROVE TypeOK'
    OBVIOUS
  <1> USE LedgerAssumption
  <1>s. DOMAIN blocks = 1..Len(blocks) /\ DOMAIN blocks \subseteq Block
    BY DEF TypeOK, Block
  <1>1. ASSUME NEW p \in Program, NEW d \in Difficulty, NEW ahead \in {0, 1},
               AcceptShare(p, d, ahead)
        PROVE  TypeOK'
    <2> DEFINE share == [program |-> p, difficulty |-> d,
                         at |-> Len(log) + 1 + ahead]
    <2>1. share \in Share
      BY DEF TypeOK, Share
    <2>2. log' = Append(log, share) /\ Len(log) < MaxShares
      BY <1>1 DEF AcceptShare
    <2> HIDE DEF share
    <2>3. log' \in Seq(Share) /\ Len(log') <= MaxShares
      BY <2>1, <2>2 DEF TypeOK
    <2> QED
      BY <1>1, <2>3 DEF AcceptShare, TypeOK
  <1>2. ASSUME NEW carry \in BOOLEAN, IssueWork(carry)
        PROVE  TypeOK'
    <2>1. PICK work \in Work :
             works' = IF works = <<>> THEN <<work>> ELSE <<work, works[1]>>
      BY <1>2, IssuedWork
    <2>2. works' \in Seq(Work) /\ Len(works') <= 2
      BY <2>1 DEF TypeOK
    <2> QED
      BY <1>2, <2>2 DEF IssueWork, TypeOK
  <1>3. ASSUME NEW i \in DOMAIN works, NEW closed \in BOOLEAN,
               FindBlock(i, closed)
        PROVE  TypeOK'
    <2> DEFINE current == works[i].current /\ ~(closed /\ works[i].prior # NoPrior)
               block == [prior |-> works[i].prior, gross |-> works[i].gross,
                         onchain |-> works[i].onchain,
                         parent |-> works[i].parent,
                         captured |-> ~current, state |-> "prepared",
                         mature |-> FALSE, overpay |-> NoPrior]
    <2>1. works[i] \in Work
      BY DEF TypeOK
    <2>2. block \in PoolBlock
      BY <2>1, NoPriorType DEF Work, PoolBlock
    <2>3. /\ blocks' = Append(blocks, block) /\ Len(blocks) < MaxBlocks
          /\ works' = works \/ works' = <<>>
          /\ \/ chain' = chain
             \/ /\ works[i].parent = chain /\ works[i].parent.tip < MaxTip
                /\ chain' = [best |-> chain.best \cup {Len(blocks) + 1},
                             tip |-> chain.tip + 1]
      BY <1>3 DEF FindBlock, Room
    <2> HIDE DEF block
    <2>4. blocks' \in Seq(PoolBlock) /\ Len(blocks') <= MaxBlocks
      BY <2>2, <2>3 DEF TypeOK
    <2>5. chain' \in Chain
      <3>1. /\ chain \in Chain /\ chain.best \subseteq Block
            /\ chain.tip \in 0..MaxTip
            /\ Len(blocks) + 1 \in Block
        BY <2>3 DEF TypeOK, Chain, Block
      <3>2. CASE chain' = chain
        BY <3>1, <3>2
      <3>3. CASE chain' # chain
        BY <2>3, <3>1, <3>3 DEF Chain
      <3> QED
        BY <3>2, <3>3
    <2>6. works' \in Seq(Work) /\ Len(works') <= 2
      <3>1. works \in Seq(Work) /\ Len(works) <= 2
        BY DEF TypeOK
      <3>2. <<>> \in Seq(Work) /\ Len(<<>>) <= 2
        OBVIOUS
      <3> QED
        BY <2>3, <3>1, <3>2
    <2> QED
      BY <1>3, <2>4, <2>5, <2>6 DEF FindBlock, TypeOK
  <1>4. ASSUME NEW S \in SUBSET DOMAIN blocks, ChainMoves(S)
        PROVE  TypeOK'
    <2>1. chain' \in Chain
      BY <1>s, <1>4 DEF ChainMoves, TypeOK, Chain
    <2> QED
      BY <1>4, <2>1 DEF ChainMoves, TypeOK
  <1>5. CASE ObserveTip
    <2>1. works' \in Seq(Work) /\ Len(works') <= 2
      BY <1>5, SupersededType DEF ObserveTip, TypeOK
    <2> QED
      BY <1>5, <2>1 DEF ObserveTip, TypeOK
  <1>6. ASSUME NEW b \in DOMAIN blocks, SettleCandidate(b)
        PROVE  TypeOK'
    <2>1. works' \in Seq(Work) /\ Len(works') <= 2
      BY <1>6, SupersededType DEF SettleCandidate, TypeOK
    <2>2. /\ blocks' \in Seq(PoolBlock) /\ Len(blocks') = Len(blocks)
          /\ summary' \in Balance
      BY <1>6, ConfirmType DEF SettleCandidate
    <2> QED
      BY <1>6, <2>1, <2>2 DEF SettleCandidate, TypeOK
  <1>7. ASSUME NEW b \in DOMAIN blocks, RowFatal(b)
        PROVE  TypeOK'
    BY <1>7 DEF RowFatal, TypeOK, Idle
  <1>8. ASSUME NEW b \in DOMAIN blocks, RowConfirm(b)
        PROVE  TypeOK'
    <2>1. /\ blocks' \in Seq(PoolBlock) /\ Len(blocks') = Len(blocks)
          /\ summary' \in Balance
      BY <1>8, ConfirmType DEF RowConfirm
    <2> QED
      BY <1>8, <2>1 DEF RowConfirm, TypeOK
  <1>9. ASSUME NEW b \in DOMAIN blocks, RowDeactivate(b)
        PROVE  TypeOK'
    <2>1. /\ blocks' \in Seq(PoolBlock) /\ Len(blocks') = Len(blocks)
          /\ summary' \in Balance
      BY <1>9, DeactivateType DEF RowDeactivate
    <2> QED
      BY <1>9, <2>1 DEF RowDeactivate, TypeOK
  <1>10. ASSUME NEW b \in DOMAIN blocks, RowKept(b)
         PROVE  TypeOK'
    BY <1>10 DEF RowKept, TypeOK
  <1>11. CASE BeginReconcile
    <2>1. ReconcileRows \subseteq Block
      BY <1>s DEF ReconcileRows, Matured
    <2> QED
      BY <1>11, <2>1 DEF BeginReconcile, TypeOK
  <1>12. CASE CommitReconcile
    <2>1. blocks' \in Seq(PoolBlock) /\ Len(blocks') = Len(blocks)
      BY <1>12, MaturedType DEF CommitReconcile
    <2>2. works' \in Seq(Work) /\ Len(works') <= 2
      BY <1>12, SupersededType DEF CommitReconcile, TypeOK
    <2> QED
      BY <1>12, <2>1, <2>2 DEF CommitReconcile, TypeOK, Idle
  <1>13. CASE UNCHANGED vars
    BY <1>13 DEF vars, TypeOK
  <1> QED
    BY <1>1, <1>2, <1>3, <1>4, <1>5, <1>6, <1>7, <1>8, <1>9, <1>10, <1>11,
       <1>12, <1>13 DEF Next

(***************************************************************************)
(* The ledger is well typed whatever is found, confirmed and disconnected: *)
(* no amount on chain and no recorded overpay is ever negative.            *)
(***************************************************************************)
THEOREM LedgerTypeCorrect == Spec => []TypeOK
  BY TypeInit, TypeNext, PTL DEF Spec

-----------------------------------------------------------------------------
(* The debt a block's rows create.                                         *)

(***************************************************************************)
(* DebtWithinFloat is not inductive: the rows of a block could take more   *)
(* than its balance.  The invariant adds that no work and no block does.   *)
(***************************************************************************)
WorksWithin == \A i \in DOMAIN works : WithinBalance(works[i])
BlocksWithin == \A b \in DOMAIN blocks : WithinBalance(blocks[b])

DebtInv == TypeOK /\ WorksWithin /\ BlocksWithin /\ DebtWithinFloat

\* Superseded work pays what it paid.
LEMMA SupersededWithin ==
    ASSUME TypeOK, WorksWithin, works' = Superseded(works)
    PROVE  WorksWithin'
  <1>1. /\ DOMAIN works' = DOMAIN works
        /\ \A i \in DOMAIN works :
              /\ works'[i].prior = works[i].prior
              /\ works'[i].gross = works[i].gross
              /\ works'[i].onchain = works[i].onchain
    BY SupersededType DEF TypeOK
  <1> QED
    BY <1>1 DEF WorksWithin, WithinBalance

\* The rows of a block do not change, nor does the record of its debt,
\* unless it is confirmed.
LEMMA BlocksKept ==
    ASSUME BlocksWithin, DebtWithinFloat,
           DOMAIN blocks' = DOMAIN blocks,
           \A b \in DOMAIN blocks :
              /\ blocks'[b].prior = blocks[b].prior
              /\ blocks'[b].gross = blocks[b].gross
              /\ blocks'[b].onchain = blocks[b].onchain
              /\ blocks'[b].overpay = blocks[b].overpay
    PROVE  BlocksWithin' /\ DebtWithinFloat'
    BY DEF BlocksWithin, DebtWithinFloat, WithinBalance

\* A confirmation changes the state and the record of one block.
LEMMA ConfirmFields ==
    ASSUME TypeOK, NEW b \in DOMAIN blocks, Confirm(b)
    PROVE  /\ DOMAIN blocks' = DOMAIN blocks
           /\ \A c \in DOMAIN blocks :
                 /\ blocks'[c].prior = blocks[c].prior
                 /\ blocks'[c].gross = blocks[c].gross
                 /\ blocks'[c].onchain = blocks[c].onchain
                 /\ c # b => blocks'[c] = blocks[c]
           /\ blocks'[b].overpay = Overpay(b)
  <1>1. \A c \in DOMAIN blocks : blocks[c] \in PoolBlock
    BY DEF TypeOK
  <1> QED
    BY <1>1 DEF Confirm, PoolBlock

\* Whatever balances the rows meet, the debt is within what was carried.
LEMMA OverpayWithin ==
    ASSUME TypeOK, BlocksWithin, NEW b \in DOMAIN blocks, NEW p \in Program
    PROVE  Overpay(b)[p] <= Larger(blocks[b].prior[p], 0)
  <1>1. blocks[b] \in PoolBlock
    BY DEF TypeOK
  <1>2. /\ summary[p] \in Int /\ blocks[b].prior[p] \in Int
        /\ blocks[b].gross[p] \in Nat /\ blocks[b].onchain[p] \in Nat
    BY <1>1 DEF TypeOK, PoolBlock, Balance, Amount
  <1>3. blocks[b].onchain[p]
           <= Larger(blocks[b].prior[p] + blocks[b].gross[p], 0)
    BY DEF BlocksWithin, WithinBalance
  <1>4. Overpay(b)[p] =
           Larger(Debt(summary[p] + blocks[b].gross[p] - blocks[b].onchain[p])
                     - Debt(summary[p]), 0)
    BY DEF Overpay, After
  <1> QED
    BY <1>2, <1>3, <1>4, DebtStep

\* A confirmation keeps the invariant.
LEMMA ConfirmWithin ==
    ASSUME TypeOK, BlocksWithin, DebtWithinFloat,
           NEW b \in DOMAIN blocks, Confirm(b)
    PROVE  BlocksWithin' /\ DebtWithinFloat'
  <1>1. BlocksWithin'
    BY ConfirmFields DEF BlocksWithin, WithinBalance
  <1>2. ASSUME NEW c \in DOMAIN blocks, NEW p \in Program
        PROVE  blocks'[c].overpay[p] <= Larger(blocks'[c].prior[p], 0)
    <2>1. CASE c = b
      BY <2>1, ConfirmFields, OverpayWithin
    <2>2. CASE c # b
      BY <2>2, ConfirmFields DEF DebtWithinFloat
    <2> QED
      BY <2>1, <2>2
  <1> QED
    BY <1>1, <1>2, ConfirmFields DEF DebtWithinFloat

\* The rows of a disconnected block stand by for their return.
LEMMA DeactivateWithin ==
    ASSUME TypeOK, BlocksWithin, DebtWithinFloat,
           NEW b \in DOMAIN blocks, Deactivate(b)
    PROVE  BlocksWithin' /\ DebtWithinFloat'
  <1>1. \A c \in DOMAIN blocks : blocks[c] \in PoolBlock
    BY DEF TypeOK
  <1>2. /\ DOMAIN blocks' = DOMAIN blocks
        /\ \A c \in DOMAIN blocks :
              /\ blocks'[c].prior = blocks[c].prior
              /\ blocks'[c].gross = blocks[c].gross
              /\ blocks'[c].onchain = blocks[c].onchain
              /\ blocks'[c].overpay = blocks[c].overpay
    BY <1>1 DEF Deactivate, PoolBlock
  <1> QED
    BY <1>2, BlocksKept

\* No work and no block: nothing to overpay.
LEMMA DebtInit == Init => DebtInv
  <1> SUFFICES ASSUME Init PROVE DebtInv
    OBVIOUS
  <1>1. works = <<>> /\ blocks = <<>>
    BY DEF Init
  <1>2. WorksWithin /\ BlocksWithin /\ DebtWithinFloat
    BY <1>1 DEF WorksWithin, BlocksWithin, DebtWithinFloat
  <1> QED
    BY <1>2, TypeInit DEF DebtInv

\* Every step keeps the invariant.
LEMMA DebtNext == DebtInv /\ [Next]_vars => DebtInv'
  <1> SUFFICES ASSUME DebtInv, [Next]_vars
               PROVE  WorksWithin' /\ BlocksWithin' /\ DebtWithinFloat'
    BY TypeNext DEF DebtInv
  <1> USE DEF DebtInv
  <1>k. ASSUME blocks' = blocks
        PROVE  BlocksWithin' /\ DebtWithinFloat'
    BY <1>k, BlocksKept
  <1>w. ASSUME works' = works
        PROVE  WorksWithin'
    BY <1>w DEF WorksWithin
  <1>1. ASSUME NEW p \in Program, NEW d \in Difficulty, NEW ahead \in {0, 1},
               AcceptShare(p, d, ahead)
        PROVE  WorksWithin' /\ BlocksWithin' /\ DebtWithinFloat'
    BY <1>1, <1>k, <1>w DEF AcceptShare
  <1>2. ASSUME NEW carry \in BOOLEAN, IssueWork(carry)
        PROVE  WorksWithin' /\ BlocksWithin' /\ DebtWithinFloat'
    <2>1. PICK work \in Work :
             /\ WithinBalance(work)
             /\ works' = IF works = <<>> THEN <<work>> ELSE <<work, works[1]>>
      BY <1>2, IssuedWork
    <2>2. CASE works = <<>>
      <3>1. works' = <<work>>
        BY <2>1, <2>2
      <3>2. DOMAIN works' = {1} /\ works'[1] = work
        BY <3>1
      <3>3. WorksWithin'
        BY <2>1, <3>2 DEF WorksWithin
      <3> QED
        BY <1>2, <1>k, <3>3 DEF IssueWork
    <2>3. CASE works # <<>>
      <3>1. works' = <<work, works[1]>>
        BY <2>1, <2>3
      <3>2. 1 \in DOMAIN works
        BY <2>3 DEF TypeOK
      <3>3. WithinBalance(works[1])
        BY <3>2 DEF WorksWithin
      <3>4. WorksWithin'
        BY <2>1, <3>1, <3>3 DEF WorksWithin
      <3> QED
        BY <1>2, <1>k, <3>4 DEF IssueWork
    <2> QED
      BY <2>2, <2>3
  <1>3. ASSUME NEW i \in DOMAIN works, NEW closed \in BOOLEAN,
               FindBlock(i, closed)
        PROVE  WorksWithin' /\ BlocksWithin' /\ DebtWithinFloat'
    <2>1. PICK block :
             /\ blocks' = Append(blocks, block)
             /\ block.prior = works[i].prior /\ block.gross = works[i].gross
             /\ block.onchain = works[i].onchain /\ block.overpay = NoPrior
      BY <1>3 DEF FindBlock
    <2>2. works' = works \/ works' = <<>>
      BY <1>3 DEF FindBlock
    <2>3. WorksWithin'
      BY <2>2 DEF WorksWithin
    <2>4. WithinBalance(block)
      BY <2>1 DEF WorksWithin, WithinBalance
    <2>5. ASSUME NEW p \in Program
          PROVE  block.overpay[p] <= Larger(block.prior[p], 0)
      <3>1. works[i].prior[p] \in Int
        <4>1. works[i] \in Work
          BY DEF TypeOK
        <4> QED
          BY <4>1 DEF Work, Balance
      <3>2. block.overpay[p] = 0
        BY <2>1 DEF NoPrior
      <3> QED
        BY <2>1, <3>1, <3>2 DEF Larger
    <2>6. /\ DOMAIN blocks' = 1..(Len(blocks) + 1)
          /\ blocks'[Len(blocks) + 1] = block
          /\ \A b \in DOMAIN blocks : blocks'[b] = blocks[b]
          /\ DOMAIN blocks = 1..Len(blocks) /\ Len(blocks) \in Nat
      BY <2>1 DEF TypeOK
    <2>7. \A b \in DOMAIN blocks' : b \in DOMAIN blocks \/ blocks'[b] = block
      BY <2>6
    <2>8. BlocksWithin'
      BY <2>4, <2>6, <2>7 DEF BlocksWithin, WithinBalance
    <2>9. DebtWithinFloat'
      BY <2>5, <2>6, <2>7 DEF DebtWithinFloat
    <2> QED
      BY <2>3, <2>8, <2>9
  <1>4. ASSUME NEW S \in SUBSET DOMAIN blocks, ChainMoves(S)
        PROVE  WorksWithin' /\ BlocksWithin' /\ DebtWithinFloat'
    BY <1>4, <1>k, <1>w DEF ChainMoves
  <1>5. CASE ObserveTip
    BY <1>5, <1>k, SupersededWithin DEF ObserveTip
  <1>6. ASSUME NEW b \in DOMAIN blocks, SettleCandidate(b)
        PROVE  WorksWithin' /\ BlocksWithin' /\ DebtWithinFloat'
    BY <1>6, SupersededWithin, ConfirmWithin DEF SettleCandidate
  <1>7. ASSUME NEW b \in DOMAIN blocks, RowFatal(b) \/ RowKept(b)
        PROVE  WorksWithin' /\ BlocksWithin' /\ DebtWithinFloat'
    BY <1>7, <1>k, <1>w DEF RowFatal, RowKept
  <1>8. ASSUME NEW b \in DOMAIN blocks, RowConfirm(b)
        PROVE  WorksWithin' /\ BlocksWithin' /\ DebtWithinFloat'
    BY <1>8, <1>w, ConfirmWithin DEF RowConfirm
  <1>9. ASSUME NEW b \in DOMAIN blocks, RowDeactivate(b)
        PROVE  WorksWithin' /\ BlocksWithin' /\ DebtWithinFloat'
    BY <1>9, <1>w, DeactivateWithin DEF RowDeactivate
  <1>10. CASE BeginReconcile
    BY <1>10, <1>k, <1>w DEF BeginReconcile
  <1>11. CASE CommitReconcile
    <2>1. BlocksWithin' /\ DebtWithinFloat'
      BY <1>11, MaturedType, BlocksKept DEF CommitReconcile
    <2>2. works' = works \/ works' = Superseded(works)
      BY <1>11 DEF CommitReconcile
    <2> QED
      BY <1>w, <2>1, <2>2, SupersededWithin
  <1>12. CASE UNCHANGED vars
    BY <1>12, <1>k, <1>w DEF vars
  <1> QED
    BY <1>1, <1>2, <1>3, <1>4, <1>5, <1>6, <1>7, <1>8, <1>9, <1>10, <1>11,
       <1>12 DEF Next

(***************************************************************************)
(* However many blocks are found on superseded work, and however late and  *)
(* often each is confirmed, the debt its rows create on an account is at   *)
(* most the positive balance the block was issued with there: the bound    *)
(* overpay_bound takes at the offer holds at every later confirmation.     *)
(***************************************************************************)
THEOREM DebtBounded == Spec => []DebtWithinFloat
  <1>1. DebtInv => DebtWithinFloat
    BY DEF DebtInv
  <1> QED
    BY DebtInit, DebtNext, <1>1, PTL DEF Spec

-----------------------------------------------------------------------------
(* No debt without a record.                                               *)

RecordsDebt ==
    \A b \in DOMAIN blocks : \A p \in Program :
        (blocks[b].state # "confirmed" /\ blocks'[b].state = "confirmed")
          => Debt(summary'[p]) <= Debt(summary[p]) + blocks'[b].overpay[p]

\* The record is the rise of the debt.
LEMMA ConfirmRecords ==
    ASSUME TypeOK, NEW c \in DOMAIN blocks, Confirm(c)
    PROVE  RecordsDebt
  <1> SUFFICES ASSUME NEW b \in DOMAIN blocks, NEW p \in Program,
                      blocks[b].state # "confirmed",
                      blocks'[b].state = "confirmed"
               PROVE  Debt(summary'[p])
                         <= Debt(summary[p]) + blocks'[b].overpay[p]
    BY DEF RecordsDebt
  <1>1. b = c
    BY ConfirmFields
  <1>2. summary' = After(c) /\ After(c) \in Balance /\ summary \in Balance
    BY AfterType DEF Confirm, TypeOK
  <1>3. blocks'[b].overpay[p] =
           Larger(Debt(After(c)[p]) - Debt(summary[p]), 0)
    BY <1>1, ConfirmFields DEF Overpay
  <1>4. After(c)[p] \in Int /\ summary[p] \in Int
    BY <1>2 DEF Balance
  <1> QED
    BY <1>2, <1>3, <1>4 DEF Debt, Larger

\* Only a confirmation makes a block confirmed.
LEMMA RecordsNext == TypeOK /\ [Next]_vars => RecordsDebt \/ UNCHANGED vars
  <1> SUFFICES ASSUME TypeOK, [Next]_vars, ~UNCHANGED vars
               PROVE  RecordsDebt
    OBVIOUS
  <1>1. ASSUME \A b \in DOMAIN blocks :
                  blocks'[b].state = "confirmed" => blocks[b].state = "confirmed"
        PROVE  RecordsDebt
    BY <1>1 DEF RecordsDebt
  <1>2. ASSUME blocks' = blocks PROVE RecordsDebt
    BY <1>1, <1>2
  <1>3. ASSUME NEW i \in DOMAIN works, NEW closed \in BOOLEAN,
               FindBlock(i, closed)
        PROVE  RecordsDebt
    <2>1. PICK block : blocks' = Append(blocks, block)
      BY <1>3 DEF FindBlock
    <2>2. \A b \in DOMAIN blocks : blocks'[b] = blocks[b]
      BY <2>1 DEF TypeOK
    <2> QED
      BY <1>1, <2>2
  <1>4. ASSUME NEW b \in DOMAIN blocks, SettleCandidate(b) \/ RowConfirm(b)
        PROVE  RecordsDebt
    BY <1>4, ConfirmRecords DEF SettleCandidate, RowConfirm
  <1>5. ASSUME NEW b \in DOMAIN blocks, RowDeactivate(b)
        PROVE  RecordsDebt
    <2>1. \A c \in DOMAIN blocks : blocks[c] \in PoolBlock
      BY DEF TypeOK
    <2>2. \A c \in DOMAIN blocks :
             blocks'[c].state = "confirmed" => blocks[c].state = "confirmed"
      BY <1>5, <2>1 DEF RowDeactivate, Deactivate, PoolBlock
    <2> QED
      BY <1>1, <2>2
  <1>6. CASE CommitReconcile
    BY <1>1, <1>6, MaturedType DEF CommitReconcile
  <1> QED
    BY <1>2, <1>3, <1>4, <1>5, <1>6
       DEF Next, AcceptShare, IssueWork, ChainMoves, ObserveTip, RowFatal,
           RowKept, BeginReconcile

(***************************************************************************)
(* Every rise of an account's debt by a confirmation is on the record of   *)
(* the block that caused it (record_confirmation), whether a lane or the   *)
(* reconciler confirms it, the first time or again after a reorganisation. *)
(***************************************************************************)
THEOREM DebtOnRecord == Spec => DebtRecorded
  <1>1. TypeOK /\ [Next]_vars => [RecordsDebt]_vars
    BY RecordsNext
  <1>2. Spec => [][RecordsDebt]_vars
    BY <1>1, LedgerTypeCorrect, PTL DEF Spec
  <1>3. [][RecordsDebt]_vars => DebtRecorded
    BY DEF RecordsDebt, DebtRecorded
  <1> QED
    BY <1>2, <1>3, PTL

-----------------------------------------------------------------------------
(* The policy, for every log and every balances.                           *)

\* The window is the newest eligible shares up to the requested weight.
LEMMA WindowForm == TypeOK => WindowExact
  <1> SUFFICES ASSUME TypeOK, NEW anchor \in 0..(Len(log) + 1),
                      NEW i \in DOMAIN log
               PROVE  LET newer == {j \in Eligible(log, anchor) : j > i}
                          taken == SumFunctionOnSet(
                              [j \in DOMAIN log |-> log[j].difficulty], newer)
                      IN  Counted(log, anchor)[i] =
                            IF i \in Eligible(log, anchor)
                            THEN Smaller(log[i].difficulty,
                                         Larger(Requested - taken, 0))
                            ELSE 0
    BY DEF WindowExact
  <1> DEFINE newer == {j \in Eligible(log, anchor) : j > i}
  <1>1. log \in Seq(Share)
    BY DEF TypeOK
  <1>2. Counted(log, anchor)[i] =
           IF i \in Eligible(log, anchor)
           THEN Smaller(log[i].difficulty, Remains(log, anchor, i + 1))
           ELSE 0
    BY <1>1, CountedForm
  <1>3. From(log, anchor, i + 1) = newer
    <2>1. \A j \in Eligible(log, anchor) : j \in Nat
      BY <1>1 DEF Eligible
    <2>2. i \in Nat
      BY <1>1
    <2>3. \A j \in Eligible(log, anchor) : j >= i + 1 <=> j > i
      BY <2>1, <2>2
    <2> QED
      BY <2>3 DEF From
  <1> HIDE DEF newer
  <1>4. Remains(log, anchor, i + 1) =
           Larger(Requested - SumFunctionOnSet(
               [j \in DOMAIN log |-> log[j].difficulty], newer), 0)
    BY <1>3 DEF Remains, Taken, Difficulties
  <1> QED
    BY <1>2, <1>4 DEF newer

(***************************************************************************)
(* The fold of eligible_window and compute_prism_window counts the newest  *)
(* eligible shares up to eight times the network difficulty, the oldest    *)
(* one cut, for every log, difficulty and anchor.                          *)
(***************************************************************************)
THEOREM WindowCounts == Spec => []WindowExact
  BY LedgerTypeCorrect, WindowForm, PTL

\* The shares of the reward of a window.
LEMMA WindowGross ==
    ASSUME TypeOK, Dividing
    PROVE  Gross(Window) \in Amount /\ SumFunction(Gross(Window)) = MinerReward
  <1>1. Window \in [Program -> Nat]
    BY WeightsType DEF TypeOK, Window
  <1>2. \E p \in Program : Window[p] > 0
    BY DEF Dividing
  <1> HIDE DEF Window
  <1> QED
    BY <1>1, <1>2, GrossExact DEF Amount

\* Balances and shares add up to integers.
LEMMA CandidateType ==
    ASSUME NEW prior \in Balance, NEW gross \in Amount
    PROVE  Candidate(prior, gross) \in [Program -> Int]
  <1>1. \A p \in Program : prior[p] \in Int /\ gross[p] \in Nat
    BY DEF Balance, Amount
  <1> QED
    BY <1>1 DEF Candidate

\* The policy is sound wherever a reward is divided.
LEMMA PolicyForm == TypeOK => PolicySound
  <1> SUFFICES ASSUME TypeOK, Dividing, NEW gross, gross = Gross(Window)
               PROVE  /\ gross \in Amount /\ SumFunction(gross) = MinerReward
                      /\ MinerReward >= MinOutput => Pays(gross)
                      /\ \A prior \in Priors :
                            LET candidate == Candidate(prior, gross)
                            IN  Pays(candidate) =>
                                  \A onchain \in {Onchain(candidate)} :
                                     /\ onchain \in Amount /\ Swept(onchain) >= 0
                                     /\ \A p \in Program :
                                           onchain[p] <= Larger(candidate[p], 0)
                                     /\ Swept(onchain) > 0 =>
                                           \A p \in Program :
                                              \/ onchain[p] = candidate[p]
                                              \/ candidate[p] < MinOutput
    BY DEF PolicySound
  <1>1. gross \in Amount /\ SumFunction(gross) = MinerReward
    BY WindowGross
  <1>2. MinerReward >= MinOutput => Pays(gross)
    BY <1>1, FreshPays DEF Amount
  <1>3. ASSUME NEW prior \in Priors, Pays(Candidate(prior, gross))
        PROVE  LET candidate == Candidate(prior, gross)
                   onchain == Onchain(candidate)
               IN  /\ onchain \in Amount /\ Swept(onchain) >= 0
                   /\ \A p \in Program : onchain[p] <= Larger(candidate[p], 0)
                   /\ Swept(onchain) > 0 =>
                         \A p \in Program : \/ onchain[p] = candidate[p]
                                            \/ candidate[p] < MinOutput
    <2> DEFINE candidate == Candidate(prior, gross)
    <2>1. candidate \in [Program -> Int]
      BY <1>1, LedgerAssumption, CandidateType DEF Balance
    <2> HIDE DEF candidate
    <2>2. Pays(candidate)
      BY <1>3 DEF candidate
    <2>3. /\ Onchain(candidate) \in Amount /\ Swept(Onchain(candidate)) \in Nat
          /\ \A p \in Program : Onchain(candidate)[p] <= Larger(candidate[p], 0)
          /\ Swept(Onchain(candidate)) > 0 =>
                \A p \in Program : \/ Onchain(candidate)[p] = candidate[p]
                                   \/ candidate[p] < MinOutput
      BY <2>1, <2>2, PolicyPays DEF Amount
    <2>4. Swept(Onchain(candidate)) >= 0
      BY <2>3
    <2> QED
      BY <2>3, <2>4 DEF candidate
  <1> QED
    BY <1>1, <1>2, <1>3

(***************************************************************************)
(* Whatever the window, the programs' weights and the balances carried,    *)
(* debts included, apply_payout_policy pays out the whole reward, each     *)
(* account between the floor and its balance, and sweeps only dust; and a  *)
(* window with nothing carried never ends in one of its errors.            *)
(***************************************************************************)
THEOREM PolicyPaysWhole == Spec => []PolicySound
  BY LedgerTypeCorrect, PolicyForm, PTL

\* A settlement that goes through fits.
LEMMA SettlementForm ==
    ASSUME NEW onchain \in Amount, Settles(onchain)
    PROVE  Fits(Amounts(onchain))
  <1> DEFINE amount == Amounts(onchain)
             R == DOMAIN amount
             F == R \ Direct(amount)
             chunks == Chunk(amount)
             count == Max(DirectCounts(amount))
             pinned == Cardinality(Pinned(amount))
  <1>1. /\ R \in SUBSET Nat /\ IsFiniteSet(R) /\ amount \in [R -> Nat]
        /\ \A r \in R : amount[r] > 0
    BY AmountsType DEF Amount
  <1>2. DirectCounts(amount) # {}
    BY DEF Settles
  <1> HIDE DEF amount, R
  <1>3. /\ count \in Nat /\ pinned \in Nat
        /\ Cardinality(R) - pinned - count \in Nat
        /\ pinned + count + Chunks(Cardinality(R) - pinned - count) <= MaxOutputs
        /\ Cardinality(Direct(amount)) = pinned + count
        /\ Direct(amount) \subseteq R
    BY <1>1, <1>2, DirectFacts
  <1>4. /\ DOMAIN chunks = F /\ F \in SUBSET Nat /\ IsFiniteSet(F)
        /\ IsFiniteSet(Range(chunks))
        /\ Cardinality(Range(chunks)) <= Chunks(Cardinality(F))
        /\ \A c \in Range(chunks) :
              LET members == {r \in F : chunks[r] = c}
              IN  /\ IsFiniteSet(members) /\ members # {}
                  /\ Cardinality(members) \in 1..ChunkSize
    BY <1>1, ChunkFacts
  <1>5. Cardinality(F) = Cardinality(R) - pinned - count
    <2>1. Cardinality(F) = Cardinality(R) - Cardinality(R \cap Direct(amount))
      BY <1>1, FS_Difference
    <2>2. R \cap Direct(amount) = Direct(amount)
      BY <1>3
    <2>3. Cardinality(R) \in Nat
      BY <1>1, FS_CardinalityType
    <2> QED
      BY <1>3, <2>1, <2>2, <2>3
  <1>6. Cardinality(Direct(amount)) + Cardinality(Range(chunks)) <= MaxOutputs
    <2>1. Chunks(Cardinality(F)) \in Nat
      <3> DEFINE m == Cardinality(F) + ChunkSize - 1
      <3>1. Cardinality(F) \in Nat /\ ChunkSize \in Nat /\ ChunkSize > 0
        BY <1>3, <1>5, SettlementAssumption
      <3>2. m \in Nat
        BY <3>1
      <3> HIDE DEF m
      <3>3. m \div ChunkSize \in Nat
        BY <3>1, <3>2, Division
      <3> QED
        BY <3>3 DEF Chunks, m
    <2>2. Cardinality(Range(chunks)) \in Nat
      BY <1>4, FS_CardinalityType
    <2> QED
      BY <1>3, <1>4, <1>5, <2>1, <2>2, SettlementAssumption
  <1>7. \A r \in Direct(amount) \ Pinned(amount), q \in DOMAIN chunks :
           amount[q] <= amount[r]
    BY <1>1, <1>2, <1>4, LargestDirect
  <1>8. ASSUME NEW c \in Range(chunks)
        PROVE  LET chunk == ChunkAmounts(amount, c)
                   n == Cardinality(DOMAIN chunk)
               IN  n \in 1..ChunkSize /\ SumFunction(ChunkFee(chunk)) = FanoutFee(n)
    <2> DEFINE members == {r \in F : chunks[r] = c}
               chunk == ChunkAmounts(amount, c)
    <2>1. /\ IsFiniteSet(members) /\ members # {}
          /\ Cardinality(members) \in 1..ChunkSize
      BY <1>4
    <2>2. chunk = [r \in members |-> amount[r]]
      BY <1>4 DEF ChunkAmounts, Restrict
    <2>3. members \in SUBSET Nat /\ members \in SUBSET R
      BY <1>4
    <2> HIDE DEF members, chunk
    <2>4. DOMAIN chunk = members /\ chunk \in [members -> Nat]
          /\ \A r \in members : chunk[r] > 0
      BY <1>1, <2>2, <2>3
    <2>5. SumFunction(ChunkFee(chunk)) = FanoutFee(Cardinality(members))
      BY <2>1, <2>3, <2>4, ChunkFeeExact
    <2> QED
      BY <2>1, <2>4, <2>5 DEF chunk
  <1> QED
    BY <1>6, <1>7, <1>8 DEF Fits, amount

(***************************************************************************)
(* A settlement that select_settlement_mode_with_pinned_direct and         *)
(* apply_ctv_fanout_fee_accounting let through fits the coinbase, serves   *)
(* the largest first, and splits each fanout's fee without loss, for every *)
(* number of recipients and every limit.                                   *)
(***************************************************************************)
THEOREM SettlementHolds == Spec => []SettlementFits
  <1>1. TypeOK => SettlementFits
    BY WindowGross, SettlementForm DEF SettlementFits
  <1> QED
    BY <1>1, LedgerTypeCorrect, PTL

-----------------------------------------------------------------------------
(* Captures stay within the ceiling.                                       *)

(***************************************************************************)
(* A capture is checked against the balances its work was issued with,     *)
(* when it is offered; what bounds its overpay then is that they never     *)
(* change, and that no account's debt grows by more than its own.          *)
(***************************************************************************)
CapturesBound ==
    \A b \in DOMAIN blocks :
        blocks[b].captured => Float(blocks[b].prior) <= Ceiling

CaptureInv == DebtInv /\ CapturesBound

\* Nothing but a find adds a block, and nothing changes its rows.
LEMMA BlocksStep ==
    ASSUME TypeOK, [Next]_vars
    PROVE  \/ \E i \in DOMAIN works, closed \in BOOLEAN : FindBlock(i, closed)
           \/ /\ DOMAIN blocks' = DOMAIN blocks
              /\ \A b \in DOMAIN blocks :
                    /\ blocks'[b].prior = blocks[b].prior
                    /\ blocks'[b].gross = blocks[b].gross
                    /\ blocks'[b].onchain = blocks[b].onchain
                    /\ blocks'[b].captured = blocks[b].captured
  <1> DEFINE Kept == /\ DOMAIN blocks' = DOMAIN blocks
                     /\ \A b \in DOMAIN blocks :
                           /\ blocks'[b].prior = blocks[b].prior
                           /\ blocks'[b].gross = blocks[b].gross
                           /\ blocks'[b].onchain = blocks[b].onchain
                           /\ blocks'[b].captured = blocks[b].captured
  <1>1. \A b \in DOMAIN blocks : blocks[b] \in PoolBlock
    BY DEF TypeOK
  <1>2. ASSUME blocks' = blocks PROVE Kept
    BY <1>2
  <1>3. ASSUME NEW b \in DOMAIN blocks, Confirm(b) PROVE Kept
    BY <1>1, <1>3 DEF Confirm, PoolBlock
  <1>4. ASSUME NEW b \in DOMAIN blocks, Deactivate(b) PROVE Kept
    BY <1>1, <1>4 DEF Deactivate, PoolBlock
  <1>5. ASSUME CommitReconcile PROVE Kept
    BY <1>1, <1>5 DEF CommitReconcile, PoolBlock
  <1> HIDE DEF Kept
  <1>6. ASSUME NEW p \in Program, NEW d \in Difficulty, NEW ahead \in {0, 1},
               AcceptShare(p, d, ahead)
        PROVE  Kept
    BY <1>2, <1>6 DEF AcceptShare
  <1>7. ASSUME NEW carry \in BOOLEAN, IssueWork(carry) PROVE Kept
    BY <1>2, <1>7 DEF IssueWork
  <1>8. ASSUME NEW S \in SUBSET DOMAIN blocks, ChainMoves(S) PROVE Kept
    BY <1>2, <1>8 DEF ChainMoves
  <1>9. ASSUME ObserveTip \/ BeginReconcile \/ UNCHANGED vars PROVE Kept
    BY <1>2, <1>9 DEF ObserveTip, BeginReconcile, vars
  <1>10. ASSUME NEW b \in DOMAIN blocks,
                \/ SettleCandidate(b) \/ RowFatal(b) \/ RowConfirm(b)
                \/ RowDeactivate(b) \/ RowKept(b)
         PROVE  Kept
    BY <1>2, <1>3, <1>4, <1>10
       DEF SettleCandidate, RowFatal, RowConfirm, RowDeactivate, RowKept
  <1>11. \/ \E i \in DOMAIN works, closed \in BOOLEAN : FindBlock(i, closed)
         \/ Kept
    BY <1>5, <1>6, <1>7, <1>8, <1>9, <1>10 DEF Next
  <1> QED
    BY <1>11 DEF Kept

\* The offer of superseded work was checked.
LEMMA CaptureNext == CaptureInv /\ [Next]_vars => CaptureInv'
  <1> SUFFICES ASSUME CaptureInv, [Next]_vars PROVE CapturesBound'
    BY DebtNext DEF CaptureInv
  <1>t. TypeOK
    BY DEF CaptureInv, DebtInv
  <1>1. ASSUME NEW i \in DOMAIN works, NEW closed \in BOOLEAN,
               FindBlock(i, closed)
        PROVE  CapturesBound'
    <2> DEFINE current == /\ works[i].current
                          /\ ~(closed /\ works[i].prior # NoPrior)
               block == [prior |-> works[i].prior, gross |-> works[i].gross,
                         onchain |-> works[i].onchain,
                         parent |-> works[i].parent,
                         captured |-> ~current, state |-> "prepared",
                         mature |-> FALSE, overpay |-> NoPrior]
    <2>a. blocks' = Append(blocks, block) /\ (current \/ CaptureAllowed(works[i]))
      BY <1>1 DEF FindBlock
    <2>b. block.captured = ~current /\ block.prior = works[i].prior
      OBVIOUS
    <2> HIDE DEF current, block
    <2>1. /\ blocks' = Append(blocks, block)
          /\ block.prior = works[i].prior
          /\ block.captured => CaptureAllowed(works[i])
      BY <2>a, <2>b
    <2>2. /\ DOMAIN blocks' = 1..(Len(blocks) + 1)
          /\ blocks'[Len(blocks) + 1] = block
          /\ \A b \in DOMAIN blocks : blocks'[b] = blocks[b]
          /\ DOMAIN blocks = 1..Len(blocks) /\ Len(blocks) \in Nat
      BY <1>t, <2>1 DEF TypeOK
    <2>3. block.captured => Float(block.prior) <= Ceiling
      BY <2>1 DEF CaptureAllowed
    <2>4. \A b \in DOMAIN blocks' : b \in DOMAIN blocks \/ blocks'[b] = block
      BY <2>2
    <2> QED
      BY <2>2, <2>3, <2>4 DEF CaptureInv, CapturesBound
  <1>2. ASSUME DOMAIN blocks' = DOMAIN blocks,
               \A b \in DOMAIN blocks :
                  /\ blocks'[b].prior = blocks[b].prior
                  /\ blocks'[b].captured = blocks[b].captured
        PROVE  CapturesBound'
    BY <1>2 DEF CaptureInv, CapturesBound
  <1> QED
    BY <1>t, <1>1, <1>2, BlocksStep

\* What a block overpays in all is at most the float of its work.
LEMMA CaptureBounded == CaptureInv => CaptureWithinCeiling
  <1> SUFFICES ASSUME CaptureInv, NEW b \in DOMAIN blocks, blocks[b].captured
               PROVE  SumFunction(blocks[b].overpay) <= Ceiling
    BY DEF CaptureWithinCeiling
  <1> DEFINE overpay == blocks[b].overpay
             prior == blocks[b].prior
             owed == [p \in Program |-> Larger(prior[p], 0)]
  <1>1. overpay \in [Program -> Nat] /\ prior \in [Program -> Int]
    <2>1. blocks[b] \in PoolBlock
      BY DEF CaptureInv, DebtInv, TypeOK
    <2> QED
      BY <2>1 DEF PoolBlock, Amount, Balance
  <1>2. \A p \in Program : overpay[p] <= Larger(prior[p], 0)
    BY DEF CaptureInv, DebtInv, DebtWithinFloat
  <1>3. Float(prior) = SumFunctionOnSet(owed, Program)
    BY DEF Float, SumFunction
  <1>4. Float(prior) <= Ceiling
    BY DEF CaptureInv, CapturesBound
  <1>5. SumFunction(overpay) = SumFunctionOnSet(overpay, Program)
    BY <1>1 DEF SumFunction
  <1>6. \A p \in Program : owed[p] = Larger(prior[p], 0)
    OBVIOUS
  <1> HIDE DEF overpay, prior, owed
  <1>7. IsFiniteSet(Program)
    BY ProgramAssumption
  <1>8. \A p \in Program : /\ overpay[p] \in Int /\ owed[p] \in Int
                           /\ overpay[p] <= owed[p]
    <2> SUFFICES ASSUME NEW p \in Program
                 PROVE  /\ overpay[p] \in Int /\ owed[p] \in Int
                        /\ overpay[p] <= owed[p]
      OBVIOUS
    <2>1. overpay[p] \in Nat /\ prior[p] \in Int
      BY <1>1
    <2> QED
      BY <1>2, <1>6, <2>1 DEF Larger
  <1>9. SumFunctionOnSet(overpay, Program) <= SumFunctionOnSet(owed, Program)
    BY <1>7, <1>8, SumMonotone
  <1>10. /\ SumFunctionOnSet(overpay, Program) \in Int
         /\ SumFunctionOnSet(owed, Program) \in Int
    BY <1>7, <1>8, SumType
  <1>11. Ceiling \in Int
    <2> DEFINE all == CoinbaseValue * CeilingBps
    <2>1. all \in Nat
      BY PolicyAssumption, LedgerAssumption
    <2> HIDE DEF all
    <2>2. all \div 10000 \in Nat
      BY <2>1, Division
    <2> QED
      BY <2>2 DEF Ceiling, all
  <1> QED
    BY <1>3, <1>4, <1>5, <1>9, <1>10, <1>11 DEF overpay, prior

(***************************************************************************)
(* A block offered although its payout revision was superseded never       *)
(* overpays more than the configured part of its coinbase, however late it *)
(* is confirmed and whatever was settled before it: reserve_offer_within's *)
(* one check at the offer is enough.                                       *)
(***************************************************************************)
THEOREM CaptureHeld == Spec => []CaptureWithinCeiling
  <1>1. Init => CaptureInv
    <2>1. Init => CapturesBound
      BY DEF Init, CapturesBound
    <2> QED
      BY <2>1, DebtInit DEF CaptureInv
  <1> QED
    BY <1>1, CaptureNext, CaptureBounded, PTL DEF Spec

-----------------------------------------------------------------------------
(* The balances are exact.                                                 *)

\* What each block moves on an account, and what it sweeps.
Flow(p) == [b \in DOMAIN blocks |-> blocks[b].gross[p] - blocks[b].onchain[p]]
Sweeps == [b \in DOMAIN blocks |-> Swept(blocks[b].onchain)]

(***************************************************************************)
(* What an account is owed follows from what is booked alone.  That the    *)
(* pool owes the swept dust also takes that the gross shares of every      *)
(* block, and of the work it may be found on, add up to the whole reward.  *)
(***************************************************************************)
WorksWhole ==
    \A i \in DOMAIN works : SumFunction(works[i].gross) = MinerReward
BlocksWhole ==
    \A b \in DOMAIN blocks : SumFunction(blocks[b].gross) = MinerReward

BalanceInv == TypeOK /\ WorksWhole /\ BlocksWhole /\ BalancesExact

\* The total of the balances of finitely many programs.
LEMMA TotalType ==
    ASSUME NEW f \in [Program -> Int]
    PROVE  /\ SumFunction(f) = SumFunctionOnSet(f, Program)
           /\ SumFunction(f) \in Int
  <1>1. DOMAIN f = Program /\ \A p \in Program : f[p] \in Int
    OBVIOUS
  <1>2. SumFunctionOnSet(f, Program) \in Int
    BY <1>1, ProgramAssumption, SumType
  <1> QED
    BY <1>1, <1>2 DEF SumFunction

\* What a block moves is an integer.
LEMMA FlowType ==
    ASSUME TypeOK
    PROVE  /\ IsFiniteSet(DOMAIN blocks) /\ Counting \in SUBSET DOMAIN blocks
           /\ \A b \in DOMAIN blocks :
                 /\ \A p \in Program : Flow(p)[b] \in Int
                 /\ Sweeps[b] \in Int
                 /\ blocks[b].gross \in Amount /\ blocks[b].onchain \in Amount
  <1>1. IsFiniteSet(DOMAIN blocks)
    <2>1. DOMAIN blocks = 1..Len(blocks) /\ Len(blocks) \in Nat
      BY DEF TypeOK
    <2> QED
      BY <2>1, FS_Interval
  <1>2. ASSUME NEW b \in DOMAIN blocks
        PROVE  /\ \A p \in Program : Flow(p)[b] \in Int
               /\ Sweeps[b] \in Int
               /\ blocks[b].gross \in Amount /\ blocks[b].onchain \in Amount
    <2>1. blocks[b] \in PoolBlock
      BY DEF TypeOK
    <2>2. blocks[b].gross \in Amount /\ blocks[b].onchain \in Amount
      BY <2>1 DEF PoolBlock
    <2>3. \A p \in Program : /\ blocks[b].gross[p] \in Nat
                             /\ blocks[b].onchain[p] \in Nat
      BY <2>2 DEF Amount
    <2>4. blocks[b].onchain \in [Program -> Int]
      BY <2>2 DEF Amount
    <2>5. SumFunction(blocks[b].onchain) \in Int
      BY <2>4, TotalType
    <2>6. Swept(blocks[b].onchain) \in Int
      BY <2>5, RewardType DEF Swept
    <2> QED
      BY <2>2, <2>3, <2>6 DEF Flow, Sweeps
  <1> QED
    BY <1>1, <1>2 DEF Counting

\* Balances that stay, while the blocks that count and their rows do.
LEMMA BooksKept ==
    ASSUME TypeOK, BalancesExact, summary' = summary, Counting' = Counting,
           DOMAIN blocks \subseteq DOMAIN blocks',
           \A b \in Counting : /\ blocks'[b].gross = blocks[b].gross
                               /\ blocks'[b].onchain = blocks[b].onchain
    PROVE  BalancesExact'
  <1>1. IsFiniteSet(Counting) /\ Counting \in SUBSET DOMAIN blocks
    BY FlowType, FS_Subset
  <1>2. ASSUME NEW p \in Program
        PROVE  SumFunctionOnSet(Flow(p), Counting)
                  = SumFunctionOnSet(Flow(p)', Counting)
    <2> DEFINE f == Flow(p)
               g == Flow(p)'
    <2>1. \A b \in Counting : f[b] \in Int /\ f[b] = g[b]
      BY <1>1, FlowType DEF Flow
    <2> HIDE DEF f, g
    <2>2. SumFunctionOnSet(f, Counting) = SumFunctionOnSet(g, Counting)
      BY <1>1, <2>1, SumSame
    <2> QED
      BY <2>2 DEF f, g
  <1>3. SumFunctionOnSet(Sweeps, Counting) = SumFunctionOnSet(Sweeps', Counting)
    <2> DEFINE f == Sweeps
               g == Sweeps'
    <2>1. \A b \in Counting : f[b] \in Int /\ f[b] = g[b]
      BY <1>1, FlowType DEF Sweeps
    <2> HIDE DEF f, g
    <2>2. SumFunctionOnSet(f, Counting) = SumFunctionOnSet(g, Counting)
      BY <1>1, <2>1, SumSame
    <2> QED
      BY <2>2 DEF f, g
  <1>4. /\ \A p \in Program : summary[p] =
              Opening[p] + SumFunctionOnSet(Flow(p), Counting)
        /\ SumFunction(summary) =
              SumFunction(Opening) + SumFunctionOnSet(Sweeps, Counting)
    BY DEF BalancesExact, Flow, Sweeps
  <1>5. /\ \A p \in Program : summary'[p] =
              Opening[p] + SumFunctionOnSet(Flow(p)', Counting')
        /\ SumFunction(summary') =
              SumFunction(Opening) + SumFunctionOnSet(Sweeps', Counting')
    BY <1>2, <1>3, <1>4
  <1> QED
    BY <1>5 DEF BalancesExact, Flow, Sweeps

\* Booking a block's rows moves the total by what it swept.
LEMMA TotalMoves ==
    ASSUME NEW s \in Balance, NEW t \in Balance, NEW g \in Amount,
           NEW o \in Amount, SumFunction(g) = MinerReward,
           \A p \in Program : t[p] = s[p] + g[p] - o[p]
    PROVE  /\ SumFunction(t) = SumFunction(s) + Swept(o)
           /\ SumFunction(s) \in Int /\ SumFunction(t) \in Int
           /\ Swept(o) \in Int
  <1> DEFINE paid == [p \in Program |-> s[p] + g[p]]
             Sum(f) == SumFunctionOnSet(f, Program)
  <1>1. /\ s \in [Program -> Int] /\ t \in [Program -> Int]
        /\ g \in [Program -> Int] /\ o \in [Program -> Int]
    BY DEF Balance, Amount
  <1>2. IsFiniteSet(Program)
    BY ProgramAssumption
  <1>3. \A p \in Program : paid[p] = s[p] + g[p]
    OBVIOUS
  <1> HIDE DEF paid
  <1>4. Together(paid, s, g, Program)
    BY <1>1, <1>3 DEF Together
  <1>5. Linear(t, paid, -1, o, Program)
    BY <1>1, <1>3 DEF Linear
  <1>6. -1 \in Int
    OBVIOUS
  <1>7. Sum(paid) = Sum(s) + Sum(g)
    BY <1>2, <1>4, SumPlus
  <1>8. Sum(t) = Sum(paid) + (-1) * Sum(o)
    BY <1>2, <1>5, <1>6, SumLinear
  <1>9. /\ SumFunction(s) = Sum(s) /\ SumFunction(t) = Sum(t)
        /\ SumFunction(g) = Sum(g) /\ SumFunction(o) = Sum(o)
        /\ SumFunction(s) \in Int /\ SumFunction(t) \in Int
        /\ SumFunction(g) \in Int /\ SumFunction(o) \in Int
    BY <1>1, TotalType
  <1> HIDE DEF Sum
  <1> QED
    BY <1>7, <1>8, <1>9, RewardType DEF Swept

\* What is added to two sums alike cancels out.
LEMMA Cancel ==
    ASSUME NEW t, NEW s \in Int, NEW o \in Int, NEW w \in Int, NEW x \in Int,
           t = s + x, t = o + (w + x)
    PROVE  s = o + w
  OBVIOUS

Integral(f, D) == \A x \in D : f[x] \in Int

\* One more summand.
LEMMA OneMore ==
    ASSUME NEW D, IsFiniteSet(D), NEW C, C \subseteq D, NEW b, b \in D,
           b \notin C, NEW f, Integral(f, D)
    PROVE  /\ SumFunctionOnSet(f, C \cup {b}) = SumFunctionOnSet(f, C) + f[b]
           /\ SumFunctionOnSet(f, C) \in Int
  <1>1. IsFiniteSet(C)
    BY FS_Subset
  <1>2. \A x \in C \cup {b} : f[x] \in Int
    BY DEF Integral
  <1>3. SumFunctionOnSet(f, C \cup {b}) = f[b] + SumFunctionOnSet(f, C)
    BY <1>1, <1>2, SumAdds
  <1>4. SumFunctionOnSet(f, C) \in Int
    BY <1>1, <1>2, SumType
  <1> QED
    BY <1>2, <1>3, <1>4

\* A block's rows count from its confirmation.
LEMMA ConfirmBooks ==
    ASSUME BalanceInv, NEW b \in DOMAIN blocks,
           blocks[b].state # "confirmed", Confirm(b)
    PROVE  BalancesExact'
  <1> USE DEF BalanceInv
  <1>1. /\ IsFiniteSet(DOMAIN blocks) /\ Counting \in SUBSET DOMAIN blocks
        /\ \A c \in DOMAIN blocks :
              /\ \A p \in Program : Flow(p)[c] \in Int
              /\ Sweeps[c] \in Int
              /\ blocks[c].gross \in Amount /\ blocks[c].onchain \in Amount
    BY FlowType
  <1>2. /\ DOMAIN blocks' = DOMAIN blocks
        /\ \A c \in DOMAIN blocks :
              /\ blocks'[c].gross = blocks[c].gross
              /\ blocks'[c].onchain = blocks[c].onchain
              /\ c # b => blocks'[c] = blocks[c]
    BY ConfirmFields
  <1>3. blocks'[b].state = "confirmed"
    <2>1. blocks[b] \in PoolBlock
      BY DEF TypeOK
    <2> QED
      BY <2>1 DEF Confirm, PoolBlock
  <1>4. Counting' = Counting \cup {b} /\ b \notin Counting
    BY <1>2, <1>3 DEF Counting
  <1>5. Sweeps' = Sweeps /\ \A p \in Program : Flow(p)' = Flow(p)
    BY <1>2 DEF Sweeps, Flow
  <1>6. summary' \in Balance /\ summary \in Balance
    BY ConfirmType DEF TypeOK
  <1>7. \A p \in Program :
           summary'[p] = summary[p] + blocks[b].gross[p] - blocks[b].onchain[p]
    BY DEF Confirm, After
  <1>8. /\ SumFunction(summary') = SumFunction(summary) + Sweeps[b]
        /\ SumFunction(summary) \in Int
    BY <1>1, <1>6, <1>7, TotalMoves DEF BlocksWhole, Sweeps
  <1>9. /\ \A p \in Program : summary[p] =
              Opening[p] + SumFunctionOnSet(Flow(p), Counting)
        /\ SumFunction(summary) =
              SumFunction(Opening) + SumFunctionOnSet(Sweeps, Counting)
    BY DEF BalancesExact, Flow, Sweeps
  <1>10. ASSUME NEW p \in Program
         PROVE  summary'[p] =
                   Opening[p] + SumFunctionOnSet(Flow(p)', Counting')
    <2> DEFINE f == Flow(p)
    <2>1. /\ SumFunctionOnSet(f, Counting \cup {b})
               = SumFunctionOnSet(f, Counting) + f[b]
          /\ SumFunctionOnSet(f, Counting) \in Int
      <3>1. Integral(f, DOMAIN blocks)
        BY <1>1 DEF Integral
      <3>2. IsFiniteSet(DOMAIN blocks) /\ Counting \subseteq DOMAIN blocks
        BY <1>1
      <3>3. b \notin Counting
        BY <1>4
      <3> HIDE DEF f
      <3> QED
        BY <3>1, <3>2, <3>3, OneMore, Zenon
    <2>2. f[b] = blocks[b].gross[p] - blocks[b].onchain[p]
      BY DEF Flow
    <2>3. /\ blocks[b].gross[p] \in Int /\ blocks[b].onchain[p] \in Int
          /\ summary[p] \in Int /\ Opening[p] \in Int
      BY <1>1, <1>6, LedgerAssumption DEF Amount, Balance
    <2>4. Flow(p)' = f
      BY <1>5
    <2> HIDE DEF f
    <2>5. summary[p] = Opening[p] + SumFunctionOnSet(f, Counting)
      BY <1>9 DEF f
    <2> QED
      BY <1>4, <1>7, <2>1, <2>2, <2>3, <2>4, <2>5
  <1>11. SumFunction(summary') =
            SumFunction(Opening) + SumFunctionOnSet(Sweeps', Counting')
    <2> DEFINE f == Sweeps
    <2>1. /\ SumFunctionOnSet(f, Counting \cup {b})
               = SumFunctionOnSet(f, Counting) + f[b]
          /\ SumFunctionOnSet(f, Counting) \in Int
      <3>1. Integral(f, DOMAIN blocks)
        BY <1>1 DEF Integral
      <3>2. IsFiniteSet(DOMAIN blocks) /\ Counting \subseteq DOMAIN blocks
        BY <1>1
      <3>3. b \notin Counting
        BY <1>4
      <3> HIDE DEF f
      <3> QED
        BY <3>1, <3>2, <3>3, OneMore, Zenon
    <2>2. SumFunction(Opening) \in Int
      BY LedgerAssumption, TotalType
    <2>3. f[b] \in Int
      BY <1>1
    <2> QED
      BY <1>4, <1>5, <1>8, <1>9, <2>1, <2>2, <2>3
  <1> QED
    BY <1>10, <1>11 DEF BalancesExact, Flow, Sweeps

\* And until it is disconnected.
LEMMA DeactivateBooks ==
    ASSUME BalanceInv, NEW b \in DOMAIN blocks,
           blocks[b].state = "confirmed", Deactivate(b)
    PROVE  BalancesExact'
  <1> USE DEF BalanceInv
  <1>1. /\ IsFiniteSet(DOMAIN blocks) /\ Counting \in SUBSET DOMAIN blocks
        /\ \A c \in DOMAIN blocks :
              /\ \A p \in Program : Flow(p)[c] \in Int
              /\ Sweeps[c] \in Int
              /\ blocks[c].gross \in Amount /\ blocks[c].onchain \in Amount
    BY FlowType
  <1>2. /\ DOMAIN blocks' = DOMAIN blocks
        /\ blocks'[b].state = "inactive"
        /\ \A c \in DOMAIN blocks :
              /\ blocks'[c].gross = blocks[c].gross
              /\ blocks'[c].onchain = blocks[c].onchain
              /\ c # b => blocks'[c] = blocks[c]
    <2>1. \A c \in DOMAIN blocks : blocks[c] \in PoolBlock
      BY DEF TypeOK
    <2> QED
      BY <2>1 DEF Deactivate, PoolBlock
  <1>4. /\ Counting = Counting' \cup {b} /\ b \notin Counting'
        /\ Counting' \in SUBSET DOMAIN blocks
    BY <1>2 DEF Counting
  <1>5. Sweeps' = Sweeps /\ \A p \in Program : Flow(p)' = Flow(p)
    BY <1>2 DEF Sweeps, Flow
  <1>6. summary' \in Balance /\ summary \in Balance
    BY DeactivateType DEF TypeOK
  <1>7. \A p \in Program :
           /\ summary[p] =
                 summary'[p] + blocks[b].gross[p] - blocks[b].onchain[p]
           /\ blocks[b].gross[p] \in Int /\ blocks[b].onchain[p] \in Int
           /\ summary[p] \in Int /\ summary'[p] \in Int /\ Opening[p] \in Int
    <2>1. \A p \in Program :
             /\ blocks[b].gross[p] \in Int /\ blocks[b].onchain[p] \in Int
             /\ summary[p] \in Int /\ summary'[p] \in Int /\ Opening[p] \in Int
      BY <1>1, <1>6, LedgerAssumption DEF Amount, Balance
    <2>2. \A p \in Program : summary'[p] =
             summary[p] - blocks[b].gross[p] + blocks[b].onchain[p]
      BY DEF Deactivate
    <2> QED
      BY <2>1, <2>2
  <1>8. /\ SumFunction(summary) = SumFunction(summary') + Sweeps[b]
        /\ SumFunction(summary') \in Int
    BY <1>1, <1>6, <1>7, TotalMoves DEF BlocksWhole, Sweeps
  <1>9. /\ \A p \in Program : summary[p] =
              Opening[p] + SumFunctionOnSet(Flow(p), Counting)
        /\ SumFunction(summary) =
              SumFunction(Opening) + SumFunctionOnSet(Sweeps, Counting)
    BY DEF BalancesExact, Flow, Sweeps
  <1>10. ASSUME NEW p \in Program
         PROVE  summary'[p] =
                   Opening[p] + SumFunctionOnSet(Flow(p)', Counting')
    <2> DEFINE f == Flow(p)
               C == Counting'
    <2>1. /\ SumFunctionOnSet(f, C \cup {b}) = SumFunctionOnSet(f, C) + f[b]
          /\ SumFunctionOnSet(f, C) \in Int
      <3>1. Integral(f, DOMAIN blocks)
        BY <1>1 DEF Integral
      <3>2. b \notin C /\ C \subseteq DOMAIN blocks
        BY <1>4
      <3>3. IsFiniteSet(DOMAIN blocks)
        BY <1>1
      <3> HIDE DEF f, C
      <3> QED
        BY <3>1, <3>2, <3>3, OneMore, Zenon
    <2>2. f[b] = blocks[b].gross[p] - blocks[b].onchain[p]
      BY DEF Flow
    <2>4. Flow(p)' = f /\ Counting = C \cup {b}
      BY <1>4, <1>5
    <2>5. summary[p] = Opening[p] + SumFunctionOnSet(f, Counting)
      BY <1>9
    <2> HIDE DEF f, C
    <2>6. summary'[p] = Opening[p] + SumFunctionOnSet(f, C)
      <3>1. summary[p] = Opening[p] + SumFunctionOnSet(f, C \cup {b})
        BY <2>4, <2>5
      <3>2. summary[p] = summary'[p] + blocks[b].gross[p] - blocks[b].onchain[p]
        BY <1>7
      <3>3. /\ blocks[b].gross[p] \in Int /\ blocks[b].onchain[p] \in Int
            /\ summary[p] \in Int /\ summary'[p] \in Int /\ Opening[p] \in Int
        BY <1>7
      <3> QED
        BY <2>1, <2>2, <3>1, <3>2, <3>3
    <2> QED
      BY <2>4, <2>6 DEF C
  <1>11. SumFunction(summary') =
            SumFunction(Opening) + SumFunctionOnSet(Sweeps', Counting')
    <2> DEFINE f == Sweeps
               C == Counting'
    <2>1. /\ SumFunctionOnSet(f, C \cup {b}) = SumFunctionOnSet(f, C) + f[b]
          /\ SumFunctionOnSet(f, C) \in Int
      <3>1. Integral(f, DOMAIN blocks)
        BY <1>1 DEF Integral
      <3>2. b \notin C /\ C \subseteq DOMAIN blocks
        BY <1>4
      <3>3. IsFiniteSet(DOMAIN blocks)
        BY <1>1
      <3> HIDE DEF f, C
      <3> QED
        BY <3>1, <3>2, <3>3, OneMore, Zenon
    <2>2. SumFunction(Opening) \in Int
      BY LedgerAssumption, TotalType
    <2>3. f[b] \in Int
      BY <1>1
    <2>4. Sweeps' = f /\ Counting = C \cup {b}
      BY <1>4, <1>5
    <2>5. SumFunction(summary) =
             SumFunction(Opening) + SumFunctionOnSet(f, Counting)
      BY <1>9
    <2>6. SumFunction(summary) = SumFunction(summary') + f[b]
      BY <1>8
    <2> HIDE DEF f, C
    <2>7. SumFunction(summary') =
             SumFunction(Opening) + SumFunctionOnSet(f, C)
      <3>1. SumFunction(summary) =
               SumFunction(Opening) + (SumFunctionOnSet(f, C) + f[b])
        BY <2>1, <2>4, <2>5
      <3>2. SumFunction(summary') \in Int
        BY <1>8
      <3> QED
        BY <2>1, <2>2, <2>3, <2>6, <3>1, <3>2, Cancel
    <2> QED
      BY <2>4, <2>7 DEF C
  <1> QED
    BY <1>10, <1>11 DEF BalancesExact, Flow, Sweeps

\* The work a reward is divided for divides all of it.
LEMMA IssuedWhole ==
    ASSUME TypeOK, NEW carry \in BOOLEAN, IssueWork(carry)
    PROVE  \E work \in Work :
              /\ SumFunction(work.gross) = MinerReward
              /\ works' = IF works = <<>> THEN <<work>> ELSE <<work, works[1]>>
  <1>1. PICK prior \in {IF carry THEN summary ELSE NoPrior},
             gross \in {Gross(Window)} \cap Amount :
           \E candidate \in {Candidate(prior, gross)} \cap Balance :
           \E onchain \in {Onchain(candidate)} \cap Amount :
              LET work == [prior |-> prior, gross |-> gross,
                           onchain |-> onchain, parent |-> view,
                           current |-> TRUE]
              IN  works' = IF works = <<>> THEN <<work>> ELSE <<work, works[1]>>
    BY DEF IssueWork
  <1>2. PICK onchain \in Amount :
           LET work == [prior |-> prior, gross |-> gross,
                        onchain |-> onchain, parent |-> view,
                        current |-> TRUE]
           IN  works' = IF works = <<>> THEN <<work>> ELSE <<work, works[1]>>
    BY <1>1
  <1> DEFINE work == [prior |-> prior, gross |-> gross, onchain |-> onchain,
                      parent |-> view, current |-> TRUE]
  <1>3. prior \in Balance /\ gross \in Amount /\ gross = Gross(Window)
    BY NoPriorType DEF TypeOK
  <1>4. work \in Work
    BY <1>3 DEF TypeOK, Work
  <1>5. SumFunction(gross) = MinerReward
    <2>1. \E p \in Program : Window[p] > 0
      BY DEF IssueWork
    <2>2. Window \in [Program -> Nat]
      BY WeightsType DEF TypeOK, Window
    <2> QED
      BY <1>3, <2>1, <2>2, GrossExact
  <1> QED
    BY <1>2, <1>4, <1>5

\* Nothing is booked before the first block.
LEMMA BalanceInit == Init => BalanceInv
  <1> SUFFICES ASSUME Init PROVE BalanceInv
    OBVIOUS
  <1>1. TypeOK /\ works = <<>> /\ blocks = <<>> /\ summary = Opening
    BY TypeInit DEF Init
  <1>2. WorksWhole /\ BlocksWhole
    BY <1>1 DEF WorksWhole, BlocksWhole
  <1>3. Counting = {}
    BY <1>1 DEF Counting
  <1>4. \A p \in Program : Opening[p] \in Int
    BY LedgerAssumption
  <1>5. SumFunction(Opening) \in Int
    BY LedgerAssumption, TotalType
  <1>6. BalancesExact
    BY <1>1, <1>3, <1>4, <1>5, SumEmpty DEF BalancesExact
  <1> QED
    BY <1>1, <1>2, <1>6 DEF BalanceInv

\* Work keeps the reward it divided.
LEMMA WorksWholeNext == BalanceInv /\ [Next]_vars => WorksWhole'
  <1> SUFFICES ASSUME BalanceInv, [Next]_vars PROVE WorksWhole'
    OBVIOUS
  <1>t. TypeOK /\ WorksWhole
    BY DEF BalanceInv
  <1>1. ASSUME works' = works \/ works' = <<>> PROVE WorksWhole'
    BY <1>t, <1>1 DEF WorksWhole
  <1>2. ASSUME works' = Superseded(works) PROVE WorksWhole'
    <2>1. /\ DOMAIN works' = DOMAIN works
          /\ \A i \in DOMAIN works : works'[i].gross = works[i].gross
      BY <1>t, <1>2, SupersededType DEF TypeOK
    <2> QED
      BY <1>t, <2>1 DEF WorksWhole
  <1>3. ASSUME NEW carry \in BOOLEAN, IssueWork(carry) PROVE WorksWhole'
    <2>1. PICK work \in Work :
             /\ SumFunction(work.gross) = MinerReward
             /\ works' = IF works = <<>> THEN <<work>> ELSE <<work, works[1]>>
      BY <1>t, <1>3, IssuedWhole
    <2>2. CASE works = <<>>
      <3>1. works' = <<work>>
        BY <2>1, <2>2
      <3>2. DOMAIN works' = {1} /\ works'[1] = work
        BY <3>1
      <3> QED
        BY <2>1, <3>2 DEF WorksWhole
    <2>3. CASE works # <<>>
      <3>1. works' = <<work, works[1]>>
        BY <2>1, <2>3
      <3>2. 1 \in DOMAIN works
        BY <1>t, <2>3 DEF TypeOK
      <3>3. SumFunction(works[1].gross) = MinerReward
        BY <1>t, <3>2 DEF WorksWhole
      <3> QED
        BY <2>1, <3>1, <3>3 DEF WorksWhole
    <2> QED
      BY <2>2, <2>3
  <1>4. ASSUME NEW i \in DOMAIN works, NEW closed \in BOOLEAN,
               FindBlock(i, closed)
        PROVE  WorksWhole'
    BY <1>1, <1>4 DEF FindBlock
  <1>5. ASSUME NEW b \in DOMAIN blocks,
               \/ SettleCandidate(b) \/ RowFatal(b) \/ RowConfirm(b)
               \/ RowDeactivate(b) \/ RowKept(b)
        PROVE  WorksWhole'
    BY <1>1, <1>2, <1>5
       DEF SettleCandidate, RowFatal, RowConfirm, RowDeactivate, RowKept
  <1>6. ASSUME NEW p \in Program, NEW d \in Difficulty, NEW ahead \in {0, 1},
               AcceptShare(p, d, ahead)
        PROVE  WorksWhole'
    BY <1>1, <1>6 DEF AcceptShare
  <1>7. ASSUME NEW S \in SUBSET DOMAIN blocks, ChainMoves(S) PROVE WorksWhole'
    BY <1>1, <1>7 DEF ChainMoves
  <1>8. CASE ObserveTip \/ BeginReconcile \/ CommitReconcile \/ UNCHANGED vars
    BY <1>1, <1>2, <1>8 DEF ObserveTip, BeginReconcile, CommitReconcile, vars
  <1> QED
    BY <1>3, <1>4, <1>5, <1>6, <1>7, <1>8 DEF Next

\* So do blocks.
LEMMA BlocksWholeNext == BalanceInv /\ [Next]_vars => BlocksWhole'
  <1> SUFFICES ASSUME BalanceInv, [Next]_vars PROVE BlocksWhole'
    OBVIOUS
  <1>t. TypeOK /\ WorksWhole /\ BlocksWhole
    BY DEF BalanceInv
  <1>1. ASSUME NEW i \in DOMAIN works, NEW closed \in BOOLEAN,
               FindBlock(i, closed)
        PROVE  BlocksWhole'
    <2>1. PICK block : blocks' = Append(blocks, block)
                       /\ block.gross = works[i].gross
      BY <1>1 DEF FindBlock
    <2>2. /\ DOMAIN blocks' = 1..(Len(blocks) + 1)
          /\ blocks'[Len(blocks) + 1] = block
          /\ \A b \in DOMAIN blocks : blocks'[b] = blocks[b]
          /\ DOMAIN blocks = 1..Len(blocks) /\ Len(blocks) \in Nat
      BY <1>t, <2>1 DEF TypeOK
    <2>3. SumFunction(block.gross) = MinerReward
      BY <1>t, <2>1 DEF WorksWhole
    <2>4. \A b \in DOMAIN blocks' : b \in DOMAIN blocks \/ blocks'[b] = block
      BY <2>2
    <2> QED
      BY <1>t, <2>2, <2>3, <2>4 DEF BlocksWhole
  <1>2. ASSUME DOMAIN blocks' = DOMAIN blocks,
               \A b \in DOMAIN blocks : blocks'[b].gross = blocks[b].gross
        PROVE  BlocksWhole'
    BY <1>t, <1>2 DEF BlocksWhole
  <1> QED
    BY <1>t, <1>1, <1>2, BlocksStep

\* Every step keeps the balances exact.
LEMMA ExactNext == BalanceInv /\ [Next]_vars => BalancesExact'
  <1> SUFFICES ASSUME BalanceInv, [Next]_vars PROVE BalancesExact'
    OBVIOUS
  <1>t. TypeOK /\ BalancesExact
    BY DEF BalanceInv
  <1>1. ASSUME blocks' = blocks, summary' = summary PROVE BalancesExact'
    <2>1. Counting' = Counting
      BY <1>1 DEF Counting
    <2> QED
      BY <1>t, <1>1, <2>1, BooksKept
  <1>2. ASSUME NEW i \in DOMAIN works, NEW closed \in BOOLEAN,
               FindBlock(i, closed)
        PROVE  BalancesExact'
    <2>1. PICK block : blocks' = Append(blocks, block)
                       /\ block.state = "prepared"
      BY <1>2 DEF FindBlock
    <2>2. /\ DOMAIN blocks' = DOMAIN blocks \cup {Len(blocks) + 1}
          /\ blocks'[Len(blocks) + 1] = block
          /\ \A b \in DOMAIN blocks : blocks'[b] = blocks[b]
      BY <1>t, <2>1 DEF TypeOK
    <2>3. Counting' = Counting
      BY <2>1, <2>2 DEF Counting
    <2>4. \A b \in Counting : blocks'[b] = blocks[b]
      BY <2>2 DEF Counting
    <2>5. summary' = summary
      BY <1>2 DEF FindBlock
    <2> QED
      BY <1>t, <2>2, <2>3, <2>4, <2>5, BooksKept
  <1>3. ASSUME NEW b \in DOMAIN blocks, SettleCandidate(b) \/ RowConfirm(b)
        PROVE  BalancesExact'
    BY <1>3, ConfirmBooks DEF SettleCandidate, RowConfirm
  <1>4. ASSUME NEW b \in DOMAIN blocks, RowDeactivate(b)
        PROVE  BalancesExact'
    BY <1>4, DeactivateBooks DEF RowDeactivate
  <1>5. ASSUME NEW b \in DOMAIN blocks, RowFatal(b) \/ RowKept(b)
        PROVE  BalancesExact'
    BY <1>1, <1>5 DEF RowFatal, RowKept
  <1>6. ASSUME CommitReconcile PROVE BalancesExact'
    <2>1. /\ DOMAIN blocks' = DOMAIN blocks
          /\ \A b \in DOMAIN blocks :
                /\ blocks'[b].gross = blocks[b].gross
                /\ blocks'[b].onchain = blocks[b].onchain
                /\ blocks'[b].state = blocks[b].state
          /\ summary' = summary
      BY <1>t, <1>6, MaturedType DEF CommitReconcile
    <2>2. Counting' = Counting
      BY <2>1 DEF Counting
    <2>3. \A b \in Counting : b \in DOMAIN blocks
      BY DEF Counting
    <2> QED
      BY <1>t, <2>1, <2>2, <2>3, BooksKept
  <1>7. ASSUME NEW p \in Program, NEW d \in Difficulty, NEW ahead \in {0, 1},
               AcceptShare(p, d, ahead)
        PROVE  BalancesExact'
    BY <1>1, <1>7 DEF AcceptShare
  <1>8. ASSUME NEW carry \in BOOLEAN, IssueWork(carry) PROVE BalancesExact'
    BY <1>1, <1>8 DEF IssueWork
  <1>9. ASSUME NEW S \in SUBSET DOMAIN blocks, ChainMoves(S) PROVE BalancesExact'
    BY <1>1, <1>9 DEF ChainMoves
  <1>10. CASE ObserveTip \/ BeginReconcile \/ UNCHANGED vars
    BY <1>1, <1>10 DEF ObserveTip, BeginReconcile, vars
  <1> QED
    BY <1>2, <1>3, <1>4, <1>5, <1>6, <1>7, <1>8, <1>9, <1>10 DEF Next

(***************************************************************************)
(* The balances the triggers of 001_share_ledger.sql keep as blocks        *)
(* connect and disconnect are what a recomputation from the blocks that    *)
(* count gives, and the pool owes in all exactly the dust those blocks     *)
(* swept: for any number of programs, blocks and reorganisations.          *)
(***************************************************************************)
THEOREM BalancesHold == Spec => []BalancesExact
  <1>1. BalanceInv /\ [Next]_vars => BalanceInv'
    BY TypeNext, WorksWholeNext, BlocksWholeNext, ExactNext DEF BalanceInv
  <1>2. BalanceInv => BalancesExact
    BY DEF BalanceInv
  <1> QED
    BY BalanceInit, <1>1, <1>2, PTL DEF Spec

=============================================================================
