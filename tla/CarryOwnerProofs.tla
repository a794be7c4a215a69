-------------------------- MODULE CarryOwnerProofs --------------------------
(***************************************************************************)
(* Theorems about CarryOwner, for every value of the bounds: its types,    *)
(* that no copies of a row disagree, the carry gate, and that seeds come   *)
(* before acquires.                                                        *)
(*                                                                         *)
(* The carry gate: at most one node of the pair pays carried balances, and *)
(* a node that pays does so on a chain that buries what the other one      *)
(* paid.  Proved for every release depth of two or more and every number   *)
(* of rows, blocks, backups and restarts, while no database is restored    *)
(* from a backup: a restore under a running frontend can take back the     *)
(* acquire an open gate rests on before the guard looks again.             *)
(*                                                                         *)
(* Seeds: no node starts its history over against a peer that acquired     *)
(* over it.  Proved while one of the two databases may be restored, any    *)
(* number of times.                                                        *)
(***************************************************************************)
EXTENDS CarryOwner, WellFoundedInduction, TLAPS

-----------------------------------------------------------------------------
(* Lemmas about the operators.                                             *)

\* The sentinel is a row, so every read of a journal yields one.
LEMMA NoRowType == NoRow \in RoleRow
  BY DEF NoRow, RoleRow, Action

\* Latest answers with a row of the journal, or with NoRow.
LEMMA LatestIn ==
  ASSUME NEW rows
  PROVE  Latest(rows) \in rows \cup {NoRow}
  BY DEF Latest

LEMMA LatestType ==
  ASSUME NEW rows \in SUBSET RoleRow
  PROVE  Latest(rows) \in RoleRow
  BY LatestIn, NoRowType

LEMMA FailedType == Failed \in PeerRead
  BY NoRowType DEF Failed, PeerRead

LEMMA NewGuardType == NewGuard \in GuardState
  BY NoRowType, FailedType DEF NewGuard, GuardState, GuardStep

LEMMA NoTransferType == NoTransfer \in TransferState
  BY NoRowType DEF NoTransfer, TransferState, TransferStep

\* A node has one peer, another node.
LEMMA PeerType ==
  ASSUME NEW n \in Node
  PROVE  Peer(n) \in Node /\ Peer(n) # n
  BY DEF Node, Peer

\* What a node reads of its own and its peer's journal is a row.
LEMMA ReadsType ==
  ASSUME TypeOK, NEW n \in Node
  PROVE  /\ Own(n) \in RoleRow /\ Synced(n) \in RoleRow
         /\ PrimaryRead(n) \in PeerRead /\ FallbackRead(n) \in PeerRead
  <1> USE PeerType
  <1>1. Own(n) \in RoleRow /\ Synced(n) \in RoleRow
    BY LatestType DEF TypeOK, Own, Synced
  <1>2. PrimaryRead(n) \in PeerRead
    BY LatestType DEF TypeOK, PrimaryRead, PeerRead
  <1>3. FallbackRead(n) \in PeerRead
    BY LatestType DEF TypeOK, FallbackRead, PeerRead, Database
  <1> QED BY <1>1, <1>2, <1>3

\* The updates the guard loop makes of its state keep its type.
LEMMA GuardFields ==
  ASSUME NEW g \in GuardState, NEW own \in RoleRow, NEW synced \in RoleRow,
         NEW read \in PeerRead, NEW b \in BOOLEAN
  PROVE  /\ [g EXCEPT !.pc = "local", !.own = own, !.synced = synced,
                      !.maySeed = b, !.began = TRUE] \in GuardState
         /\ [g EXCEPT !.own = own, !.synced = synced] \in GuardState
         /\ [g EXCEPT !.pc = "seed", !.read = read] \in GuardState
         /\ [g EXCEPT !.pc = "idle", !.fresh = b, !.began = FALSE]
                \in GuardState
         /\ [g EXCEPT !.began = FALSE, !.fresh = FALSE] \in GuardState
  BY DEF GuardState, GuardStep

\* Guard::decide keeps the guard's type.
LEMMA DecideType ==
  ASSUME NEW n \in Node, NEW g \in GuardState, NEW read \in PeerRead,
         NEW fault \in BOOLEAN
  PROVE  Decide(n, g, read, fault) \in GuardState
  BY NewGuardType, ZenonT(60) DEF Decide, GuardState, GuardStep, RoleRow, NewGuard

\* append_role writes one row of this node's and moves the clock past it.
LEMMA AppendRoleType ==
  ASSUME TypeOK, NEW n \in Node, NEW owner \in BOOLEAN,
         NEW action \in Action, NEW height \in Nat, NEW peerEpoch \in Nat,
         AppendRole(n, owner, action, height, peerEpoch)
  PROVE  /\ journal' \in [Node -> [Node -> SUBSET RoleRow]]
         /\ clock' \in Nat
  <1>1. NextEpoch(n) \in Nat
    BY ReadsType DEF NextEpoch, Newer, RoleRow, TypeOK
  <1> QED
    BY <1>1 DEF AppendRole, TypeOK, RoleRow

-----------------------------------------------------------------------------
(* Type correctness.                                                       *)

\* The observation of who pays keeps its type whatever it observes.
LEMMA ObserveType ==
  ASSUME TypeOK, Observe, tip' \in Nat
  PROVE  lastPaid' \in [Node -> Nat \cup {-1}]
  BY DEF TypeOK, Observe

LEMMA TypeInit == Init => TypeOK
  <1> SUFFICES ASSUME Init PROVE TypeOK
    OBVIOUS
  <1> QED
    BY NewGuardType, NoTransferType DEF Init, TypeOK, Database

LEMMA TypeGuard ==
  ASSUME TypeOK, NEW n \in Node,
         \/ GuardReadLocal(n) \/ GuardReadPeer(n)
         \/ GuardSeed(n) \/ GuardSeedFails(n) \/ GuardApply(n)
  PROVE  TypeOK'
  <1>1. CASE GuardReadLocal(n)
    <2> DEFINE g == [guard[n] EXCEPT
                !.pc = "local",
                !.own = Own(n), !.synced = Synced(n),
                !.maySeed = /\ Own(n) = NoRow /\ guard[n].highest = 0
                            /\ caughtUp[n],
                !.began = TRUE]
    <2>0. guard[n] \in GuardState /\ Own(n) \in RoleRow
          /\ Synced(n) \in RoleRow
      BY ReadsType DEF TypeOK
    <2>1. g \in GuardState
      <3>1. (/\ Own(n) = NoRow /\ guard[n].highest = 0
             /\ caughtUp[n]) \in BOOLEAN
        BY Zenon DEF TypeOK
      <3> DEFINE b == /\ Own(n) = NoRow /\ guard[n].highest = 0
                      /\ caughtUp[n]
      <3>2. b \in BOOLEAN
        BY <3>1
      <3>3. g = [guard[n] EXCEPT !.pc = "local", !.own = Own(n),
                      !.synced = Synced(n), !.maySeed = b, !.began = TRUE]
        OBVIOUS
      <3> HIDE DEF b, g
      <3> QED BY <2>0, <3>2, <3>3, Zenon, GuardFields, FailedType
    <2>2. \A fault \in BOOLEAN : Decide(n, g, Failed, fault) \in GuardState
      BY <2>1, DecideType, FailedType
    <2>3. guard' \in [Node -> GuardState]
      BY <1>1, <2>1, <2>2 DEF GuardReadLocal, TypeOK
    <2> QED
      BY <1>1, <2>3 DEF GuardReadLocal, TypeOK, databases, chain, budgets
  <1>2. CASE GuardReadPeer(n)
    <2>1. PICK read \in {Failed, PrimaryRead(n), FallbackRead(n)},
               fault \in BOOLEAN : GuardReadPeerAs(n, read, fault)
      BY <1>2 DEF GuardReadPeer
    <2>2. read \in PeerRead /\ Failed \in PeerRead
      BY ReadsType, FailedType
    <2>3. guard[n] \in GuardState
      BY DEF TypeOK
    <2>4. [guard[n] EXCEPT !.pc = "seed", !.read = read] \in GuardState
      BY <2>2, <2>3 DEF GuardState, GuardStep
    <2>5. Decide(n, guard[n], IF Claims(n, guard[n]) THEN read ELSE Failed,
                 fault) \in GuardState
      BY <2>2, <2>3, DecideType
    <2>6. guard' \in [Node -> GuardState]
      BY <2>1, <2>4, <2>5 DEF GuardReadPeerAs, TypeOK
    <2> QED
      BY <2>1, <2>6 DEF GuardReadPeerAs, TypeOK, databases, chain, budgets
  <1>3. CASE GuardSeed(n)
    <2>1. journal' \in [Node -> [Node -> SUBSET RoleRow]] /\ clock' \in Nat
      <3>1. env[n] \in BOOLEAN /\ "seed" \in Action /\ 0 \in Nat
        BY DEF TypeOK, Action
      <3>2. CASE Own(n) = NoRow
        BY <1>3, <3>1, <3>2, AppendRoleType DEF GuardSeed
      <3>3. CASE Own(n) # NoRow
        BY <1>3, <3>3 DEF GuardSeed, TypeOK
      <3> QED BY <3>2, <3>3
    <2> DEFINE g == [guard[n] EXCEPT !.own = Latest(journal'[n][n]),
                                     !.synced = Synced(n)]
    <2>2. Latest(journal'[n][n]) \in RoleRow
      BY <2>1, LatestType
    <2>3. g \in GuardState
      <3>1. guard[n] \in GuardState /\ Synced(n) \in RoleRow
        BY ReadsType DEF TypeOK
      <3> QED BY <2>2, <3>1, Zenon, GuardFields, FailedType
    <2>4. (IF Claims(n, g) THEN g.read ELSE Failed) \in PeerRead
      BY <2>3, FailedType DEF GuardState
    <2>5. Decide(n, g, IF Claims(n, g) THEN g.read ELSE Failed, FALSE)
             \in GuardState
      BY <2>3, <2>4, DecideType
    <2>6. guard' \in [Node -> GuardState]
      BY <1>3, <2>5 DEF GuardSeed, TypeOK
    <2>7. lastPaid' \in [Node -> Nat \cup {-1}]
      BY <1>3, ObserveType DEF GuardSeed, TypeOK
    <2> QED
      BY <1>3, <2>1, <2>6, <2>7 DEF GuardSeed, TypeOK, budgets
  <1>4. CASE GuardApply(n)
    <2>1. lastPaid' \in [Node -> Nat \cup {-1}]
      BY <1>4, ObserveType DEF GuardApply, TypeOK, chain
    <2>2. guard[n] \in GuardState
      BY DEF TypeOK
    <2>3. guard[n].confirmed \in BOOLEAN
      BY <2>2 DEF GuardState
    <2>4. (guard[n].began /\ guard[n].confirmed) \in BOOLEAN
      BY Zenon
    <2>5. [guard[n] EXCEPT !.pc = "idle",
                           !.fresh = guard[n].began /\ guard[n].confirmed,
                           !.began = FALSE] \in GuardState
      BY <2>2, <2>4, Zenon, GuardFields, FailedType, NoRowType
    <2>6. guard' \in [Node -> GuardState]
      BY <1>4, <2>5 DEF GuardApply, TypeOK
    <2>7. paying' \in [Node -> BOOLEAN]
      BY <1>4, <2>3 DEF GuardApply, TypeOK
    <2> QED
      BY <1>4, <2>1, <2>6, <2>7
      DEF GuardApply, TypeOK, databases, chain, budgets
  <1>5. CASE GuardSeedFails(n)
    <2>1. journal' \in [Node -> [Node -> SUBSET RoleRow]] /\ clock' \in Nat
      <3>1. env[n] \in BOOLEAN /\ "seed" \in Action /\ 0 \in Nat
        BY DEF TypeOK, Action
      <3>2. CASE AppendRole(n, env[n], "seed", 0, 0)
        BY <3>1, <3>2, AppendRoleType
      <3>3. CASE UNCHANGED <<journal, clock>>
        BY <3>3 DEF TypeOK
      <3> QED BY <1>5, <3>2, <3>3 DEF GuardSeedFails
    <2>2. guard[n] \in GuardState
      BY DEF TypeOK
    <2>3. [NewGuard EXCEPT !.confirmed = guard[n].confirmed,
                           !.highest = guard[n].highest,
                           !.fresh = guard[n].fresh] \in GuardState
      BY <2>2, NewGuardType DEF GuardState
    <2>4. guard' \in [Node -> GuardState]
      BY <1>5, <2>3 DEF GuardSeedFails, TypeOK
    <2>5. lastPaid' \in [Node -> Nat \cup {-1}]
      BY <1>5, ObserveType DEF GuardSeedFails, TypeOK
    <2> QED
      BY <1>5, <2>1, <2>4, <2>5 DEF GuardSeedFails, TypeOK, budgets
  <1> QED BY <1>1, <1>2, <1>3, <1>4, <1>5

LEMMA TypeOperator ==
  ASSUME TypeOK, NEW n \in Node,
         \/ Release(n) \/ TransferCheck(n) \/ TransferCopy(n)
         \/ TransferAcquire(n) \/ TransferStop(n)
  PROVE  TypeOK'
  <1>1. CASE Release(n)
    <2>1. FALSE \in BOOLEAN /\ "release" \in Action /\ 0 \in Nat /\ tip \in Nat
      BY DEF TypeOK, Action
    <2>2. journal' \in [Node -> [Node -> SUBSET RoleRow]] /\ clock' \in Nat
      BY <1>1, <2>1, AppendRoleType DEF Release
    <2> QED BY <1>1, <2>2 DEF Release, TypeOK, frontend, budgets
  <1>2. CASE TransferCheck(n)
    <2> DEFINE x == [pc |-> "checked",
                     live |-> Latest(journal[Peer(n)][Peer(n)]),
                     own |-> Own(n), synced |-> Synced(n), tip |-> tip]
    <2>1. Latest(journal[Peer(n)][Peer(n)]) \in RoleRow
      BY PeerType, LatestType DEF TypeOK
    <2>2. x \in TransferState
      BY <2>1, ReadsType DEF TypeOK, TransferState, TransferStep
    <2>3. transfer' = [transfer EXCEPT ![n] = x]
      BY <1>2 DEF TransferCheck
    <2>4. transfer' \in [Node -> TransferState]
      BY <2>2, <2>3 DEF TypeOK
    <2> QED
      BY <1>2, <2>4 DEF TransferCheck, TypeOK, databases, frontend, chain,
                        budgets
  <1>3. CASE TransferCopy(n)
    <2>1. Latest(journal[Peer(n)][Peer(n)]) \in RoleRow
      BY PeerType, LatestType DEF TypeOK
    <2>2. journal' \in [Node -> [Node -> SUBSET RoleRow]]
      BY <1>3, <2>1, PeerType DEF TransferCopy, TypeOK
    <2>3. transfer[n] \in TransferState
      BY DEF TypeOK
    <2>4. [transfer[n] EXCEPT !.pc = "copied"] \in TransferState
      BY <2>3 DEF TransferState, TransferStep
    <2>5. transfer' \in [Node -> TransferState]
      BY <1>3, <2>4 DEF TransferCopy, TypeOK
    <2> QED
      BY <1>3, <2>2, <2>5 DEF TransferCopy, TypeOK, frontend, chain, budgets
  <1>4. CASE TransferAcquire(n)
    <2> DEFINE checked == Newer(transfer[n].live, transfer[n].synced)
    <2>1. /\ TRUE \in BOOLEAN /\ "acquire" \in Action
          /\ transfer[n].tip \in Nat /\ checked.epoch \in Nat
      BY DEF TypeOK, TransferState, RoleRow, Newer, Action
    <2>2. AppendRole(n, TRUE, "acquire", transfer[n].tip, checked.epoch)
      BY <1>4 DEF TransferAcquire
    <2>3. journal' \in [Node -> [Node -> SUBSET RoleRow]] /\ clock' \in Nat
      <3> HIDE DEF checked
      <3> QED BY <2>1, <2>2, AppendRoleType
    <2>4. transfer' \in [Node -> TransferState]
      BY <1>4, NoTransferType DEF TransferAcquire, TypeOK
    <2>5. lastPaid' \in [Node -> Nat \cup {-1}]
      BY <1>4, ObserveType DEF TransferAcquire, TypeOK
    <2> QED
      BY <1>4, <2>3, <2>4, <2>5 DEF TransferAcquire, TypeOK, frontend, budgets
  <1>5. CASE TransferStop(n)
    BY <1>5, NoTransferType DEF TransferStop, TypeOK, databases, frontend,
                                chain, budgets
  <1> QED BY <1>1, <1>2, <1>3, <1>4, <1>5

LEMMA TypeSync ==
  ASSUME TypeOK, NEW n \in Node,
         \/ LatchWithoutPeer(n) \/ RecoverOwnLog(n)
         \/ RecoverOwnLogStops(n) \/ PullRoles(n)
  PROVE  TypeOK'
  <1>1. CASE LatchWithoutPeer(n)
    BY <1>1 DEF LatchWithoutPeer, TypeOK, databases, chain, budgets
  <1>2. CASE RecoverOwnLog(n)
    <2>1. PICK rows \in {journal[Peer(n)][n], backup[Peer(n)].rows[n]} :
             journal' = [journal EXCEPT ![n][n] = @ \cup rows]
      BY <1>2 DEF RecoverOwnLog
    <2>2. rows \in SUBSET RoleRow
      BY PeerType DEF TypeOK, Database
    <2>3. journal' \in [Node -> [Node -> SUBSET RoleRow]]
      BY <2>1, <2>2 DEF TypeOK
    <2>4. lastPaid' \in [Node -> Nat \cup {-1}]
      BY <1>2, ObserveType DEF RecoverOwnLog, TypeOK, chain
    <2> QED
      BY <1>2, <2>3, <2>4 DEF RecoverOwnLog, TypeOK, chain, budgets
  <1>3. CASE PullRoles(n)
    <2>1. journal' \in [Node -> [Node -> SUBSET RoleRow]]
      BY <1>3, PeerType DEF PullRoles, TypeOK
    <2> QED BY <1>3, <2>1 DEF PullRoles, TypeOK, frontend, chain, budgets
  <1>4. CASE RecoverOwnLogStops(n)
    <2>1. PICK rows \in {journal[Peer(n)][n], backup[Peer(n)].rows[n]} :
             journal' = [journal EXCEPT ![n][n] = @ \cup rows]
      BY <1>4 DEF RecoverOwnLogStops
    <2>2. rows \in SUBSET RoleRow
      BY PeerType DEF TypeOK, Database
    <2>3. journal' \in [Node -> [Node -> SUBSET RoleRow]]
      BY <2>1, <2>2 DEF TypeOK
    <2>4. verified' \in [Node -> BOOLEAN]
      BY <1>4, Zenon DEF RecoverOwnLogStops, TypeOK
    <2>5. lastPaid' \in [Node -> Nat \cup {-1}]
      BY <1>4, ObserveType DEF RecoverOwnLogStops, TypeOK, chain
    <2> QED
      BY <1>4, <2>3, <2>4, <2>5
      DEF RecoverOwnLogStops, TypeOK, frontend, chain, budgets
  <1> QED BY <1>1, <1>2, <1>3, <1>4

LEMMA TypeEnvironment ==
  ASSUME TypeOK, NEW n \in Node, Backup(n) \/ Restore(n) \/ Restart(n)
  PROVE  TypeOK'
  <1>1. CASE Backup(n)
    BY <1>1 DEF Backup, TypeOK, Database, frontend, chain
  <1>2. CASE Restore(n)
    <2>1. journal' \in [Node -> [Node -> SUBSET RoleRow]]
      BY <1>2 DEF Restore, TypeOK, Database
    <2>2. verified' \in [Node -> BOOLEAN]
      BY <1>2, Zenon DEF Restore, TypeOK
    <2>3. lastPaid' \in [Node -> Nat \cup {-1}]
      BY <1>2, ObserveType DEF Restore, TypeOK, chain
    <2>4. restores' \in [Node -> Nat]
      BY <1>2 DEF Restore, TypeOK
    <2> QED
      BY <1>2, <2>1, <2>2, <2>3, <2>4 DEF Restore, TypeOK, frontend, chain
  <1>3. CASE Restart(n)
    BY <1>3, NewGuardType DEF Restart, TypeOK, databases, chain
  <1> QED BY <1>1, <1>2, <1>3

LEMMA TypeBlock ==
  ASSUME TypeOK, TipAdvance
  PROVE  TypeOK'
  <1>1. tip' \in Nat
    <2>1. tip' = tip + 1
      BY Zenon DEF TipAdvance
    <2> QED BY <2>1 DEF TypeOK
  <1>2. lastPaid' \in [Node -> Nat \cup {-1}]
    BY <1>1, ObserveType DEF TipAdvance
  <1>3. \A n \in Node :
           [guard[n] EXCEPT !.began = FALSE, !.fresh = FALSE] \in GuardState
    <2> TAKE n \in Node
    <2>1. guard[n] \in GuardState
      BY DEF TypeOK
    <2> QED BY <2>1, Zenon, GuardFields, NoRowType, FailedType
  <1>4. guard' \in [Node -> GuardState]
    BY <1>3, Zenon DEF TipAdvance
  <1> QED
    BY <1>1, <1>2, <1>4 DEF TipAdvance, TypeOK, databases, budgets

\* A stuttering step changes nothing.
LEMMA TypeStutter == TypeOK /\ UNCHANGED vars => TypeOK'
  BY DEF TypeOK, vars

LEMMA TypeNext == TypeOK /\ [Next]_vars => TypeOK'
  BY TypeGuard, TypeOperator, TypeSync, TypeEnvironment, TypeBlock,
     TypeStutter DEF Next

(***************************************************************************)
(* Every read of a journal, local, live or through a copy, is a row, and   *)
(* no counter leaves the naturals, however many nodes restart, restore and *)
(* write.                                                                  *)
(***************************************************************************)
THEOREM TypeCorrect == Spec => []TypeOK
  BY TypeInit, TypeNext, PTL DEF Spec

-----------------------------------------------------------------------------
(* Agreement of the journals.                                              *)

(***************************************************************************)
(* RowsAgree alone is not inductive: a database that lost rows would reuse *)
(* an epoch if the clock did not stand past every row anywhere.            *)
(***************************************************************************)
EpochsPast ==
    /\ clock >= 1
    /\ \A o \in Node : \A r \in Copies(o) : r.epoch < clock

AgreeInv == TypeOK /\ EpochsPast /\ RowsAgree

\* A step that writes no row leaves nothing but rows that were there.
LEMMA AgreeCopied ==
  ASSUME EpochsPast, RowsAgree, clock' = clock,
         \A o \in Node : Copies(o)' \subseteq Copies(o)
  PROVE  EpochsPast' /\ RowsAgree'
  BY DEF EpochsPast, RowsAgree

LEMMA CopiesType ==
  ASSUME TypeOK, NEW o \in Node
  PROVE  Copies(o) \subseteq RoleRow
  BY DEF TypeOK, Copies, Node, Database

\* next_epoch is the clock, whatever the writing database holds.
LEMMA NextEpochIsClock ==
  ASSUME AgreeInv, NEW n \in Node
  PROVE  NextEpoch(n) = clock
  <1>1. Own(n) \in Copies(n) \cup {NoRow}
    BY LatestIn DEF Own, Copies, Node
  <1>2. Synced(n) \in Copies(Peer(n)) \cup {NoRow}
    BY LatestIn DEF Synced, Copies, Node
  <1>3. Own(n).epoch < clock /\ Synced(n).epoch < clock
    BY <1>1, <1>2, PeerType DEF AgreeInv, EpochsPast, NoRow, TypeOK
  <1>4. Own(n).epoch \in Nat /\ Synced(n).epoch \in Nat /\ clock \in Nat
    BY ReadsType DEF AgreeInv, TypeOK, RoleRow
  <1> QED BY <1>3, <1>4 DEF NextEpoch, Newer

LEMMA AgreeAppend ==
  ASSUME AgreeInv, NEW n \in Node, NEW owner, NEW action, NEW height,
         NEW peerEpoch, AppendRole(n, owner, action, height, peerEpoch),
         backup' = backup
  PROVE  EpochsPast' /\ RowsAgree'
  <1> DEFINE row == [epoch |-> clock, owner |-> owner, action |-> action,
                     tip |-> height, peerEpoch |-> peerEpoch]
  <1>1. /\ journal' = [journal EXCEPT ![n][n] = @ \cup {row}]
        /\ clock' = clock + 1
    BY NextEpochIsClock DEF AppendRole
  <1>2. row.epoch = clock
    OBVIOUS
  <1> HIDE DEF row
  <1>3. Copies(n)' = Copies(n) \cup {row}
    BY <1>1 DEF Copies, Node, AgreeInv, TypeOK
  <1>4. ASSUME NEW o \in Node, o # n PROVE Copies(o)' = Copies(o)
    BY <1>1, <1>4 DEF Copies, Node, AgreeInv, TypeOK
  <1>5. \A o \in Node : \A r \in Copies(o) : r.epoch < clock /\ r.epoch \in Nat
    BY CopiesType DEF AgreeInv, EpochsPast, RoleRow
  <1>6. clock \in Nat
    BY DEF AgreeInv, TypeOK
  <1>7. EpochsPast'
    BY <1>1, <1>2, <1>3, <1>4, <1>5, <1>6 DEF EpochsPast, AgreeInv
  <1>8. ASSUME NEW o \in Node, NEW r \in Copies(o)', NEW q \in Copies(o)',
               r.epoch = q.epoch
        PROVE  r = q
    <2>1. CASE r \in Copies(o) /\ q \in Copies(o)
      BY <1>8, <2>1 DEF AgreeInv, RowsAgree
    <2>2. CASE o = n /\ r = row /\ q = row
      BY <2>2
    <2>3. r.epoch # q.epoch
          \/ (r \in Copies(o) /\ q \in Copies(o)) \/ (r = row /\ q = row)
      BY <1>2, <1>3, <1>4, <1>5, <1>6
    <2> QED BY <1>3, <1>4, <1>8, <2>1, <2>2, <2>3
  <1>9. RowsAgree'
    BY <1>8 DEF RowsAgree
  <1> QED BY <1>7, <1>9

LEMMA AgreeInit == Init => AgreeInv
  <1> SUFFICES ASSUME Init PROVE AgreeInv
    OBVIOUS
  <1>1. \A o \in Node : Copies(o) = {}
    BY DEF Init, Copies, Node
  <1>2. clock >= 1
    BY DEF Init
  <1> QED BY <1>1, <1>2, TypeInit DEF AgreeInv, EpochsPast, RowsAgree

LEMMA AgreeNext == AgreeInv /\ [Next]_vars => AgreeInv'
  <1> SUFFICES ASSUME AgreeInv, [Next]_vars PROVE AgreeInv'
    OBVIOUS
  <1>1. TypeOK /\ EpochsPast /\ RowsAgree /\ TypeOK'
    BY TypeNext DEF AgreeInv
  <1>2. ASSUME UNCHANGED <<journal, backup, clock>>
        PROVE  EpochsPast' /\ RowsAgree'
    <2>1. \A o \in Node : Copies(o)' = Copies(o)
      BY <1>2 DEF Copies
    <2> QED BY <1>1, <1>2, <2>1, AgreeCopied
  <1>3. CASE UNCHANGED vars
    BY <1>1, <1>2, <1>3 DEF vars, AgreeInv
  <1>4. CASE TipAdvance
    BY <1>1, <1>2, <1>4, Zenon DEF TipAdvance, databases, AgreeInv
  <1>5. ASSUME NEW n \in Node,
               \/ GuardReadLocal(n) \/ GuardReadPeer(n) \/ GuardApply(n)
               \/ TransferCheck(n) \/ TransferStop(n)
               \/ LatchWithoutPeer(n) \/ Restart(n)
        PROVE  UNCHANGED <<journal, backup, clock>>
    BY <1>5, Zenon DEF GuardReadLocal, GuardReadPeer, GuardReadPeerAs,
          GuardApply, TransferCheck, TransferStop, LatchWithoutPeer, Restart,
          databases, chain
  <1>6. ASSUME NEW n \in Node, GuardSeed(n)
        PROVE  EpochsPast' /\ RowsAgree'
    <2>1. CASE Own(n) = NoRow
      BY <1>6, <2>1, AgreeAppend, Zenon DEF GuardSeed
    <2>2. CASE Own(n) # NoRow
      BY <1>2, <1>6, <2>2, Zenon DEF GuardSeed
    <2> QED BY <2>1, <2>2
  <1>7. ASSUME NEW n \in Node, Release(n)
        PROVE  EpochsPast' /\ RowsAgree'
    BY <1>7, AgreeAppend, Zenon DEF Release
  <1>8. ASSUME NEW n \in Node, TransferAcquire(n)
        PROVE  EpochsPast' /\ RowsAgree'
    BY <1>8, AgreeAppend, Zenon DEF TransferAcquire
  <1>9. ASSUME NEW n \in Node, TransferCopy(n)
        PROVE  EpochsPast' /\ RowsAgree'
    <2>1. /\ Latest(journal[Peer(n)][Peer(n)]) # NoRow
          /\ journal' = [journal EXCEPT ![n][Peer(n)] =
                            @ \cup {Latest(journal[Peer(n)][Peer(n)])}]
          /\ backup' = backup /\ clock' = clock
      BY <1>9, Zenon DEF TransferCopy, chain
    <2>2. Latest(journal[Peer(n)][Peer(n)]) \in journal[Peer(n)][Peer(n)]
      BY <2>1, LatestIn
    <2>3. \A o \in Node : Copies(o)' \subseteq Copies(o)
      BY <1>1, <2>1, <2>2 DEF Copies, Node, Peer, TypeOK
    <2> QED BY <1>1, <2>1, <2>3, AgreeCopied
  <1>10. ASSUME NEW n \in Node, RecoverOwnLog(n)
         PROVE  EpochsPast' /\ RowsAgree'
    <2>1. PICK rows \in {journal[Peer(n)][n], backup[Peer(n)].rows[n]} :
             journal' = [journal EXCEPT ![n][n] = @ \cup rows]
      BY <1>10 DEF RecoverOwnLog
    <2>2. backup' = backup /\ clock' = clock
      BY <1>10 DEF RecoverOwnLog, chain
    <2>3. \A o \in Node : Copies(o)' \subseteq Copies(o)
      BY <1>1, <2>1, <2>2 DEF Copies, Node, Peer, TypeOK
    <2> QED BY <1>1, <2>2, <2>3, AgreeCopied
  <1>11. ASSUME NEW n \in Node, PullRoles(n)
         PROVE  EpochsPast' /\ RowsAgree'
    <2>1. \A o \in Node : Copies(o)' \subseteq Copies(o)
      BY <1>1, <1>11 DEF PullRoles, Copies, Node, Peer, TypeOK
    <2> QED BY <1>1, <1>11, <2>1, AgreeCopied DEF PullRoles, chain
  <1>12. ASSUME NEW n \in Node, Backup(n)
         PROVE  EpochsPast' /\ RowsAgree'
    <2>1. \A o \in Node : Copies(o)' \subseteq Copies(o)
      BY <1>1, <1>12 DEF Backup, Copies, Node, TypeOK, Database
    <2> QED BY <1>1, <1>12, <2>1, AgreeCopied DEF Backup, chain
  <1>13. ASSUME NEW n \in Node, Restore(n)
         PROVE  EpochsPast' /\ RowsAgree'
    <2>1. /\ journal' = [journal EXCEPT ![n] = backup[n].rows]
          /\ backup' = backup /\ clock' = clock
      BY <1>13, Zenon DEF Restore, chain
    <2>2. \A o \in Node : Copies(o)' \subseteq Copies(o)
      BY <1>1, <2>1 DEF Copies, Node, TypeOK, Database
    <2> QED BY <1>1, <2>1, <2>2, AgreeCopied
  <1>14. ASSUME NEW n \in Node, GuardSeedFails(n)
         PROVE  EpochsPast' /\ RowsAgree'
    <2>1. CASE AppendRole(n, env[n], "seed", 0, 0)
      BY <1>14, <2>1, AgreeAppend, Zenon DEF GuardSeedFails
    <2>2. CASE UNCHANGED <<journal, clock>>
      BY <1>2, <1>14, <2>2, Zenon DEF GuardSeedFails
    <2> QED BY <1>14, <2>1, <2>2, Zenon DEF GuardSeedFails
  <1>15. ASSUME NEW n \in Node, RecoverOwnLogStops(n)
         PROVE  EpochsPast' /\ RowsAgree'
    <2>1. PICK rows \in {journal[Peer(n)][n], backup[Peer(n)].rows[n]} :
             journal' = [journal EXCEPT ![n][n] = @ \cup rows]
      BY <1>15 DEF RecoverOwnLogStops
    <2>2. backup' = backup /\ clock' = clock
      BY <1>15 DEF RecoverOwnLogStops, chain
    <2>3. \A o \in Node : Copies(o)' \subseteq Copies(o)
      BY <1>1, <2>1, <2>2 DEF Copies, Node, Peer, TypeOK
    <2> QED BY <1>1, <2>2, <2>3, AgreeCopied
  <1>16. EpochsPast' /\ RowsAgree'
    BY <1>2, <1>3, <1>4, <1>5, <1>6, <1>7, <1>8, <1>9, <1>10, <1>11, <1>12,
       <1>13, <1>14, <1>15, Zenon DEF Next, AgreeInv
  <1> QED BY <1>1, <1>16 DEF AgreeInv

(***************************************************************************)
(* The journals agree: a database that lost its newest rows and writes on, *)
(* seeds, releases or acquires, never gives an epoch of its origin to a    *)
(* second row, so apply_node_roles, whose insert does nothing on conflict, *)
(* never meets a row held with other content.                              *)
(***************************************************************************)
THEOREM JournalsAgree == Spec => []RowsAgree
  <1>1. AgreeInv => RowsAgree
    BY DEF AgreeInv
  <1> QED BY AgreeInit, AgreeNext, <1>1, PTL DEF Spec


-----------------------------------------------------------------------------
(* The carry gate: the inductive invariant.                                *)

\* The databases keep what was written to them.
NoRestores == \A n \in Node : MaxRestores[n] = 0

\* A log has a newest row.
Topped(rows) ==
    rows = {} \/ \E r \in rows : \A q \in rows : q.epoch <= r.epoch

\* Every copy of a node's log shows what the node wrote, and nothing else.
CopiesBehind ==
    \A n \in Node :
      /\ journal[Peer(n)][n] \subseteq journal[n][n]
      /\ backup[Peer(n)].rows[n] \subseteq journal[n][n]
      /\ Topped(journal[n][n])

\* The rows of a log: a seed comes first, a release disowns at a block of
\* the chain, and only an acquire follows a row that disowns.
RowsWritten ==
    \A n \in Node : \A r \in journal[n][n] :
      /\ r.epoch >= 1
      /\ r.action \in {"seed", "release", "acquire"}
      /\ r.action = "acquire" => r.owner
      /\ r.action = "release" => ~r.owner /\ r.tip <= tip
      /\ \A q \in journal[n][n] :
           /\ r.action = "seed" => r.epoch <= q.epoch
           /\ ~r.owner /\ q.epoch > r.epoch =>
                \E a \in journal[n][n] : a.action = "acquire"

\* A row of the peer's over which n may take ownership.
Vetted(n, c) ==
    /\ c \in journal[Peer(n)][Peer(n)] /\ ~c.owner
    /\ c.action = "release" => tip >= c.tip + ReleaseDepth

\* A transfer under way, and every one that ended in an acquire, took a row
\* of the peer's that disowns, a release only when it was buried.
TransfersVetted ==
    \A n \in Node :
      /\ transfer[n].pc # "none" =>
           Vetted(n, Newer(transfer[n].live, transfer[n].synced))
      /\ \A a \in journal[n][n] : a.action = "acquire" =>
           \E c \in journal[Peer(n)][Peer(n)] :
             c.epoch = a.peerEpoch /\ Vetted(n, c)

\* What a guard remembers it has read was written, and between two decisions
\* it is confirmed exactly when the gate is open.
GuardReads ==
    \A n \in Node :
      /\ guard[n].own \in journal[n][n] \cup {NoRow}
      /\ guard[n].synced \in journal[Peer(n)][Peer(n)] \cup {NoRow}
      /\ guard[n].pc = "seed" =>
           /\ guard[n].maySeed
           /\ guard[n].read.peer \in journal[Peer(n)][Peer(n)] \cup {NoRow}
      /\ guard[n].pc # "decided" => guard[n].confirmed = paying[n]

\* During a check that may seed, the peer never takes ownership: what the
\* node itself wrote meanwhile is no row a transfer may take it over from.
FirstCheck ==
    \A n \in Node : guard[n].maySeed =>
      /\ guard[n].pc \in {"local", "seed"} /\ guard[n].own = NoRow
      /\ \A a \in journal[Peer(n)][Peer(n)] : a.action # "acquire"
      /\ \A r \in journal[n][n] :
           /\ r.action # "seed"
           /\ r.action = "release" =>
                tip <= r.tip + 1 /\ (guard[n].began => tip <= r.tip)

\* An open gate, or one a decision is about to open.
Armed(n) == paying[n] \/ guard[n].confirmed

Owned(n) == \E r \in journal[n][n] : r.owner

\* The gate is shut by the second block after a release: a check that began
\* before the release ends by the first.
ReleaseSeen ==
    \A n \in Node : Own(n).action = "release" =>
      /\ tip >= Own(n).tip + 1 =>
           /\ paying[n] => ~guard[n].fresh
           /\ guard[n].began /\ guard[n].pc = "local" => ~guard[n].own.owner
           /\ guard[n].began /\ guard[n].pc = "decided" => ~guard[n].confirmed
      /\ tip >= Own(n).tip + 2 =>
           ~Armed(n) /\ (guard[n].pc = "local" => ~guard[n].own.owner)

\* One gate at a time, of a node that claimed ownership once.
OneArmed ==
    /\ ~(Armed(0) /\ Armed(1))
    /\ \A n \in Node : Armed(n) => Owned(n)

\* What the node paid is no obstacle to the other one's gate.
Buried(n) == lastPaid[n] = -1 \/ tip >= lastPaid[n] + ReleaseDepth

\* An open gate is over what the peer paid, and a release after what the
\* node itself paid.
Burial ==
    \A n \in Node :
      /\ Armed(n) => Buried(Peer(n))
      /\ lastPaid[n] <= tip
      /\ lastPaid[n] # -1 => Owned(n)
      /\ Own(n).action = "release" => lastPaid[n] <= Own(n).tip

GateInv ==
    /\ AgreeInv
    /\ CopiesBehind
    /\ RowsWritten
    /\ TransfersVetted
    /\ GuardReads
    /\ FirstCheck
    /\ ReleaseSeen
    /\ OneArmed
    /\ Burial

-----------------------------------------------------------------------------
(* Lemmas about logs and their newest rows.                                *)

\* The newest row of a log is one of its rows, and no row is newer.
LEMMA LatestTop ==
  ASSUME NEW rows \in SUBSET RoleRow, Topped(rows), rows # {}
  PROVE  /\ Latest(rows) \in rows
         /\ \A q \in rows : q.epoch <= Latest(rows).epoch
  BY DEF Latest, Topped

\* A row later than every other is the newest.
LEMMA LatestNew ==
  ASSUME NEW rows \in SUBSET RoleRow, NEW row \in RoleRow,
         \A q \in rows : q.epoch < row.epoch
  PROVE  Topped(rows \cup {row}) /\ Latest(rows \cup {row}) = row
  <1>1. \A q \in rows : q.epoch \in Nat
    BY DEF RoleRow
  <1>2. row.epoch \in Nat
    BY DEF RoleRow
  <1>3. \A q \in rows \cup {row} : q.epoch <= row.epoch
    BY <1>1, <1>2
  <1>4. {r \in rows \cup {row} : \A q \in rows \cup {row} : q.epoch <= r.epoch}
           = {row}
    BY <1>1, <1>2, <1>3
  <1> QED BY <1>3, <1>4 DEF Topped, Latest

\* The rows of a log are rows, older than the clock, one to an epoch.
LEMMA LogRows ==
  ASSUME AgreeInv, NEW n \in Node
  PROVE  /\ journal[n][n] \in SUBSET RoleRow
         /\ \A r \in journal[n][n] : r.epoch < clock /\ r.epoch \in Nat
         /\ \A r, q \in journal[n][n] : r.epoch = q.epoch => r = q
  <1>1. journal[n][n] \in SUBSET RoleRow /\ journal[n][n] \subseteq Copies(n)
    BY DEF AgreeInv, TypeOK, Copies, Node
  <1> QED BY <1>1 DEF AgreeInv, EpochsPast, RowsAgree, RoleRow

\* What a node reads of its own log: its newest row, or none.
LEMMA OwnTop ==
  ASSUME AgreeInv, CopiesBehind, RowsWritten, NEW n \in Node
  PROVE  /\ Own(n) \in journal[n][n] \cup {NoRow}
         /\ \A q \in journal[n][n] : q.epoch <= Own(n).epoch
         /\ Own(n) = NoRow => journal[n][n] = {}
  <1>1. journal[n][n] \in SUBSET RoleRow /\ Topped(journal[n][n])
    BY LogRows DEF CopiesBehind
  <1>2. CASE journal[n][n] = {}
    BY <1>2, LatestIn DEF Own
  <1>3. CASE journal[n][n] # {}
    <2>1. /\ Own(n) \in journal[n][n]
          /\ \A q \in journal[n][n] : q.epoch <= Own(n).epoch
      BY <1>1, <1>3, LatestTop DEF Own
    <2>2. Own(n).epoch >= 1
      BY <2>1 DEF RowsWritten
    <2> QED BY <2>1, <2>2 DEF NoRow
  <1> QED BY <1>2, <1>3

\* What a node holds of the peer's log is the peer's.
LEMMA SyncedIn ==
  ASSUME CopiesBehind, NEW n \in Node
  PROVE  Synced(n) \in journal[Peer(n)][Peer(n)] \cup {NoRow}
  <1>1. Peer(n) \in Node /\ Peer(Peer(n)) = n
    BY DEF Node, Peer
  <1>2. journal[n][Peer(n)] \subseteq journal[Peer(n)][Peer(n)]
    BY <1>1 DEF CopiesBehind
  <1> QED BY <1>2, LatestIn DEF Synced

\* The newer of two rows of a log is a row of it.
LEMMA NewerIn ==
  ASSUME NEW rows, NEW r \in rows, NEW q \in rows
  PROVE  Newer(r, q) \in rows
  BY DEF Newer

-----------------------------------------------------------------------------
(* What a step does to the logs.                                           *)

Kept == \A n \in Node : journal'[n][n] = journal[n][n]

Wrote(n, row) ==
    /\ row \in RoleRow /\ row.epoch = clock
    /\ journal'[n][n] = journal[n][n] \cup {row}
    /\ journal'[Peer(n)][Peer(n)] = journal[Peer(n)][Peer(n)]
    /\ \A o \in Node : journal'[Peer(o)][o] = journal[Peer(o)][o]

WroteSeed(n, row) ==
    /\ GuardSeed(n) \/ GuardSeedFails(n)
    /\ Own(n) = NoRow
    /\ row.action = "seed"

WroteRelease(n, row) ==
    /\ Release(n)
    /\ Own(n).owner
    /\ row.action = "release" /\ ~row.owner /\ row.tip = tip

WroteAcquire(n, row) ==
    /\ TransferAcquire(n)
    /\ row.action = "acquire" /\ row.owner
    /\ row.peerEpoch = Newer(transfer[n].live, transfer[n].synced).epoch

Written(n, row) ==
    /\ Wrote(n, row)
    /\ WroteSeed(n, row) \/ WroteRelease(n, row) \/ WroteAcquire(n, row)

\* append_role writes one row, dated by the clock, to the log of its node.
LEMMA Appended ==
  ASSUME AgreeInv, NEW n \in Node, NEW row \in RoleRow, row.epoch = clock,
         journal' = [journal EXCEPT ![n][n] = @ \cup {row}]
  PROVE  Wrote(n, row)
  BY PeerType DEF AgreeInv, TypeOK, Wrote

\* A recovery pulls nothing the node's own log does not hold.
LEMMA Recovered ==
  ASSUME AgreeInv, CopiesBehind, NEW n \in Node,
         NEW rows \in {journal[Peer(n)][n], backup[Peer(n)].rows[n]}
  PROVE  /\ rows \subseteq journal[n][n]
         /\ [journal EXCEPT ![n][n] = @ \cup rows] = journal
  <1>1. rows \subseteq journal[n][n]
    BY DEF CopiesBehind
  <1>2. journal \in [Node -> [Node -> SUBSET RoleRow]]
    BY DEF AgreeInv, TypeOK
  <1>3. journal[n][n] \cup rows = journal[n][n]
    BY <1>1
  <1> QED BY <1>1, <1>2, <1>3

\* A step leaves the logs alone or writes one row to one of them.
LEMMA Logs ==
  ASSUME AgreeInv, CopiesBehind, NoRestores, [Next]_vars
  PROVE  Kept \/ \E n \in Node : \E row : Written(n, row)
  <1>1. CASE UNCHANGED <<journal>>
    BY <1>1 DEF Kept
  <1>2. ASSUME NEW n \in Node, GuardSeed(n) \/ GuardSeedFails(n),
               AppendRole(n, env[n], "seed", 0, 0), Own(n) = NoRow
        PROVE  \E row : Written(n, row)
    <2> DEFINE row == [epoch |-> clock, owner |-> env[n], action |-> "seed",
                       tip |-> 0, peerEpoch |-> 0]
    <2>1. journal' = [journal EXCEPT ![n][n] = @ \cup {row}]
      BY <1>2, NextEpochIsClock DEF AppendRole
    <2>2. row \in RoleRow /\ row.epoch = clock /\ row.action = "seed"
      BY DEF AgreeInv, TypeOK, RoleRow, Action
    <2> HIDE DEF row
    <2>3. Wrote(n, row)
      BY <2>1, <2>2, Appended
    <2> QED BY <1>2, <2>2, <2>3, Zenon DEF Written, WroteSeed
  <1>3. ASSUME NEW n \in Node, GuardSeed(n)
        PROVE  \/ UNCHANGED <<journal>>
               \/ \E row : Written(n, row)
    BY <1>2, <1>3, Zenon DEF GuardSeed
  <1>4. ASSUME NEW n \in Node, GuardSeedFails(n)
        PROVE  \/ UNCHANGED <<journal>>
               \/ \E row : Written(n, row)
    BY <1>2, <1>4, Zenon DEF GuardSeedFails
  <1>5. ASSUME NEW n \in Node, Release(n)
        PROVE  \E row : Written(n, row)
    <2> DEFINE row == [epoch |-> clock, owner |-> FALSE,
                       action |-> "release", tip |-> tip, peerEpoch |-> 0]
    <2>1. journal' = [journal EXCEPT ![n][n] = @ \cup {row}]
      BY <1>5, NextEpochIsClock DEF Release, AppendRole
    <2>2. /\ row \in RoleRow /\ row.epoch = clock
          /\ row.action = "release" /\ ~row.owner /\ row.tip = tip
      BY DEF AgreeInv, TypeOK, RoleRow, Action
    <2>3. Own(n).owner
      BY <1>5 DEF Release
    <2> HIDE DEF row
    <2>4. Wrote(n, row)
      BY <2>1, <2>2, Appended
    <2> QED BY <1>5, <2>2, <2>3, <2>4, Zenon DEF Written, WroteRelease
  <1>6. ASSUME NEW n \in Node, TransferAcquire(n)
        PROVE  \E row : Written(n, row)
    <2> DEFINE checked == Newer(transfer[n].live, transfer[n].synced)
    <2>1. transfer[n].tip \in Nat /\ checked.epoch \in Nat
      BY DEF AgreeInv, TypeOK, TransferState, RoleRow, Newer
    <2> DEFINE row == [epoch |-> clock, owner |-> TRUE, action |-> "acquire",
                       tip |-> transfer[n].tip, peerEpoch |-> checked.epoch]
    <2>2. journal' = [journal EXCEPT ![n][n] = @ \cup {row}]
      BY <1>6, NextEpochIsClock DEF TransferAcquire, AppendRole
    <2> HIDE DEF checked
    <2>3. /\ row \in RoleRow /\ row.epoch = clock /\ row.action = "acquire"
          /\ row.owner /\ row.peerEpoch = checked.epoch
      BY <2>1 DEF AgreeInv, TypeOK, RoleRow, Action
    <2> HIDE DEF row
    <2>4. Wrote(n, row)
      BY <2>2, <2>3, Appended
    <2> QED BY <1>6, <2>3, <2>4 DEF Written, WroteAcquire, checked
  <1>7. ASSUME NEW n \in Node, TransferCopy(n)
        PROVE  Kept
    BY <1>7, PeerType DEF TransferCopy, Kept, AgreeInv, TypeOK
  <1>8. ASSUME NEW n \in Node, PullRoles(n)
        PROVE  Kept
    BY <1>8, PeerType DEF PullRoles, Kept, AgreeInv, TypeOK
  <1>9. ASSUME NEW n \in Node, RecoverOwnLog(n) \/ RecoverOwnLogStops(n)
        PROVE  UNCHANGED <<journal>>
    <2>1. PICK rows \in {journal[Peer(n)][n], backup[Peer(n)].rows[n]} :
             journal' = [journal EXCEPT ![n][n] = @ \cup rows]
      BY <1>9, Zenon DEF RecoverOwnLog, RecoverOwnLogStops
    <2> QED BY <2>1, Recovered
  <1>10. ASSUME NEW n \in Node, Restore(n)
         PROVE  FALSE
    <2>1. restores[n] \in Nat /\ restores[n] < 0
      BY <1>10 DEF Restore, NoRestores, AgreeInv, TypeOK
    <2> QED BY <2>1
  <1>11. ASSUME NEW n \in Node,
                \/ GuardReadLocal(n) \/ GuardReadPeer(n) \/ GuardApply(n)
                \/ TransferCheck(n) \/ TransferStop(n)
                \/ LatchWithoutPeer(n) \/ Backup(n) \/ Restart(n)
         PROVE  UNCHANGED <<journal>>
    BY <1>11, Zenon DEF GuardReadLocal, GuardReadPeer, GuardReadPeerAs,
       GuardApply, TransferCheck, TransferStop, LatchWithoutPeer, Backup,
       Restart, databases
  <1>12. CASE TipAdvance \/ UNCHANGED vars
    BY <1>1, <1>12, Zenon DEF TipAdvance, vars, databases
  <1> QED
    BY <1>1, <1>3, <1>4, <1>5, <1>6, <1>7, <1>8, <1>9, <1>10, <1>11, <1>12,
       Zenon DEF Next

\* A step moves the chain by one block at most, and a block leaves the logs.
LEMMA Blocks ==
  ASSUME TypeOK, [Next]_vars
  PROVE  /\ tip \in Nat /\ tip' \in Nat /\ tip <= tip'
         /\ tip' = tip \/ (TipAdvance /\ tip' = tip + 1)
  <1>1. CASE TipAdvance
    <2>1. tip' = tip + 1
      BY <1>1, Zenon DEF TipAdvance
    <2> QED BY <1>1, <2>1 DEF TypeOK
  <1>2. ASSUME NEW n \in Node,
               \/ GuardReadLocal(n) \/ GuardReadPeer(n) \/ GuardSeed(n)
               \/ GuardSeedFails(n) \/ GuardApply(n)
               \/ Release(n) \/ TransferCheck(n) \/ TransferCopy(n)
               \/ TransferAcquire(n) \/ TransferStop(n)
               \/ LatchWithoutPeer(n) \/ RecoverOwnLog(n)
               \/ RecoverOwnLogStops(n) \/ PullRoles(n)
               \/ Backup(n) \/ Restore(n) \/ Restart(n)
        PROVE  tip' = tip
    BY <1>2, Zenon DEF GuardReadLocal, GuardReadPeer, GuardReadPeerAs,
       GuardSeed, GuardSeedFails, GuardApply, Release, TransferCheck,
       TransferCopy, TransferAcquire, TransferStop, LatchWithoutPeer,
       RecoverOwnLog, RecoverOwnLogStops, PullRoles, Backup, Restore, Restart,
       chain
  <1>3. CASE UNCHANGED vars
    BY <1>3 DEF vars, TypeOK
  <1>4. tip' = tip \/ TipAdvance
    BY <1>2, <1>3, Zenon DEF Next, vars
  <1> QED BY <1>1, <1>4 DEF TypeOK

\* Logs only grow.
LEMMA LogsGrow ==
  ASSUME AgreeInv, CopiesBehind, NoRestores, [Next]_vars, NEW n \in Node
  PROVE  journal[n][n] \subseteq journal'[n][n]
  <1>1. CASE Kept
    BY <1>1 DEF Kept
  <1>2. CASE \E m \in Node : \E row : Written(m, row)
    <2>1. PICK m \in Node : \E row : Written(m, row)
      BY <1>2
    <2>2. PICK row : Written(m, row)
      BY <2>1
    <2>3. n = m \/ n = Peer(m)
      BY DEF Node, Peer
    <2> QED BY <2>2, <2>3 DEF Written, Wrote
  <1> QED BY <1>1, <1>2, Logs

\* The row just written is its node's newest; the peer's stays what it was.
LEMMA WrittenTop ==
  ASSUME AgreeInv, NEW n \in Node, NEW row, Wrote(n, row)
  PROVE  /\ Topped(journal'[n][n])
         /\ Own(n)' = row
         /\ Own(Peer(n))' = Own(Peer(n))
  <1>1. /\ journal[n][n] \in SUBSET RoleRow /\ row \in RoleRow
        /\ \A q \in journal[n][n] : q.epoch < row.epoch
    BY LogRows DEF Wrote
  <1>2. /\ Topped(journal[n][n] \cup {row})
        /\ Latest(journal[n][n] \cup {row}) = row
    BY <1>1, LatestNew
  <1> QED BY <1>2 DEF Wrote, Own

\* Where no log changed, neither did its newest row.
LEMMA KeptTop ==
  ASSUME Kept, NEW n \in Node
  PROVE  Own(n)' = Own(n)
  BY DEF Kept, Own

\* The copies change by a pull, a transfer's copy and a backup only.
LEMMA CopiesKept ==
  ASSUME AgreeInv, CopiesBehind, NoRestores, [Next]_vars
  PROVE  \/ /\ \A n \in Node : journal'[Peer(n)][n] = journal[Peer(n)][n]
            /\ backup' = backup
         \/ \E n \in Node : TransferCopy(n) \/ PullRoles(n) \/ Backup(n)
  <1> DEFINE Same ==
         /\ \A n \in Node : journal'[Peer(n)][n] = journal[Peer(n)][n]
         /\ backup' = backup
  <1>1. ASSUME UNCHANGED <<journal, backup>>
        PROVE  Same
    BY <1>1
  <1>2. ASSUME NEW n \in Node, NEW owner, NEW action, NEW height,
               NEW peerEpoch,
               AppendRole(n, owner, action, height, peerEpoch),
               backup' = backup
        PROVE  Same
    BY <1>2, PeerType DEF AppendRole, AgreeInv, TypeOK
  <1> HIDE DEF Same
  <1>3. ASSUME NEW n \in Node, GuardSeed(n) \/ GuardSeedFails(n)
        PROVE  Same
    <2>1. /\ backup' = backup
          /\ AppendRole(n, env[n], "seed", 0, 0) \/ UNCHANGED <<journal, clock>>
      BY <1>3, Zenon DEF GuardSeed, GuardSeedFails
    <2>2. CASE AppendRole(n, env[n], "seed", 0, 0)
      BY <1>2, <2>1, <2>2, Zenon
    <2>3. CASE UNCHANGED <<journal, clock>>
      BY <1>1, <2>1, <2>3
    <2> QED BY <2>1, <2>2, <2>3
  <1>4. ASSUME NEW n \in Node, Release(n) \/ TransferAcquire(n)
        PROVE  Same
    BY <1>2, <1>4, Zenon DEF Release, TransferAcquire
  <1>5. ASSUME NEW n \in Node, RecoverOwnLog(n) \/ RecoverOwnLogStops(n)
        PROVE  Same
    <2>1. backup' = backup
      BY <1>5, Zenon DEF RecoverOwnLog, RecoverOwnLogStops
    <2>2. PICK rows \in {journal[Peer(n)][n], backup[Peer(n)].rows[n]} :
             journal' = [journal EXCEPT ![n][n] = @ \cup rows]
      BY <1>5, Zenon DEF RecoverOwnLog, RecoverOwnLogStops
    <2>3. [journal EXCEPT ![n][n] = @ \cup rows] = journal
      BY <2>2, Recovered
    <2>4. journal' = journal
      BY <2>2, <2>3
    <2> QED BY <1>1, <2>1, <2>4
  <1>6. ASSUME NEW n \in Node, Restore(n)
        PROVE  FALSE
    <2>1. restores[n] \in Nat /\ restores[n] < 0
      BY <1>6 DEF Restore, NoRestores, AgreeInv, TypeOK
    <2> QED BY <2>1
  <1>7. ASSUME NEW n \in Node,
               \/ GuardReadLocal(n) \/ GuardReadPeer(n) \/ GuardApply(n)
               \/ TransferCheck(n) \/ TransferStop(n)
               \/ LatchWithoutPeer(n) \/ Restart(n)
        PROVE  UNCHANGED <<journal, backup>>
    BY <1>7, Zenon DEF GuardReadLocal, GuardReadPeer, GuardReadPeerAs,
       GuardApply, TransferCheck, TransferStop, LatchWithoutPeer, Restart,
       databases
  <1>8. CASE TipAdvance \/ UNCHANGED vars
    BY <1>1, <1>8, Zenon DEF TipAdvance, vars, databases
  <1> QED
    BY <1>1, <1>3, <1>4, <1>5, <1>6, <1>7, <1>8, Zenon DEF Next, Same

-----------------------------------------------------------------------------
(* The parts of the invariant about logs, copies and transfers.            *)

\* Copies stay behind their origins: a pull, a transfer's copy and a backup
\* take rows the origin wrote.
LEMMA CopiesStep ==
  ASSUME AgreeInv, CopiesBehind, NoRestores, [Next]_vars
  PROVE  CopiesBehind'
  <1> SUFFICES ASSUME NEW n \in Node
               PROVE  /\ journal'[Peer(n)][n] \subseteq journal'[n][n]
                      /\ backup'[Peer(n)].rows[n] \subseteq journal'[n][n]
                      /\ Topped(journal'[n][n])
    BY DEF CopiesBehind
  <1>1. /\ journal[Peer(n)][n] \subseteq journal[n][n]
        /\ backup[Peer(n)].rows[n] \subseteq journal[n][n]
        /\ Topped(journal[n][n])
        /\ journal[n][n] \subseteq journal'[n][n]
    BY LogsGrow DEF CopiesBehind
  <1>2. Topped(journal'[n][n])
    <2>1. CASE Kept
      BY <1>1, <2>1 DEF Kept
    <2>2. ASSUME NEW m \in Node, NEW row, Written(m, row)
          PROVE  Topped(journal'[n][n])
      <3>1. n = m \/ n = Peer(m)
        BY DEF Node, Peer
      <3> QED BY <1>1, <2>2, <3>1, WrittenTop DEF Written, Wrote
    <2> QED BY <2>1, <2>2, Logs
  <1>3. ASSUME NEW m \in Node, TransferCopy(m)
        PROVE  /\ journal'[Peer(n)][n] \subseteq journal'[n][n]
               /\ backup' = backup
    <2>1. LET latest == Latest(journal[Peer(m)][Peer(m)])
          IN  /\ latest # NoRow
              /\ journal' = [journal EXCEPT ![m][Peer(m)] = @ \cup {latest}]
              /\ backup' = backup
      BY <1>3, Zenon DEF TransferCopy
    <2>2. Latest(journal[Peer(m)][Peer(m)]) \in journal[Peer(m)][Peer(m)]
      BY <2>1, LatestIn
    <2> QED BY <1>1, <2>1, <2>2 DEF Node, Peer, AgreeInv, TypeOK
  <1>4. ASSUME NEW m \in Node, PullRoles(m)
        PROVE  /\ journal'[Peer(n)][n] \subseteq journal'[n][n]
               /\ backup' = backup
    BY <1>1, <1>4 DEF PullRoles, Node, Peer, AgreeInv, TypeOK
  <1>5. ASSUME NEW m \in Node, Backup(m)
        PROVE  /\ journal'[Peer(n)][n] \subseteq journal'[n][n]
               /\ backup'[Peer(n)].rows[n] \subseteq journal'[n][n]
    BY <1>1, <1>5 DEF Backup, Node, Peer, AgreeInv, TypeOK, Database
  <1> QED BY <1>1, <1>2, <1>3, <1>4, <1>5, CopiesKept

\* A row an action writes keeps to the order of its log.
LEMMA RowsStep ==
  ASSUME AgreeInv, CopiesBehind, RowsWritten, NoRestores, [Next]_vars
  PROVE  RowsWritten'
  <1>0. tip \in Nat /\ tip' \in Nat /\ tip <= tip'
    BY Blocks DEF AgreeInv
  <1>1. ASSUME NEW n \in Node, journal'[n][n] = journal[n][n],
               NEW r \in journal'[n][n]
        PROVE  /\ r.epoch >= 1
               /\ r.action \in {"seed", "release", "acquire"}
               /\ r.action = "acquire" => r.owner
               /\ r.action = "release" => ~r.owner /\ r.tip <= tip'
               /\ \A q \in journal'[n][n] :
                    /\ r.action = "seed" => r.epoch <= q.epoch
                    /\ ~r.owner /\ q.epoch > r.epoch =>
                         \E a \in journal'[n][n] : a.action = "acquire"
    <2>1. r.tip \in Nat
      BY <1>1, LogRows DEF RoleRow
    <2> QED BY <1>0, <1>1, <2>1 DEF RowsWritten
  <1>2. ASSUME NEW n \in Node, NEW row, Written(n, row),
               NEW r \in journal'[n][n]
        PROVE  /\ r.epoch >= 1
               /\ r.action \in {"seed", "release", "acquire"}
               /\ r.action = "acquire" => r.owner
               /\ r.action = "release" => ~r.owner /\ r.tip <= tip'
               /\ \A q \in journal'[n][n] :
                    /\ r.action = "seed" => r.epoch <= q.epoch
                    /\ ~r.owner /\ q.epoch > r.epoch =>
                         \E a \in journal'[n][n] : a.action = "acquire"
    <2>1. /\ journal'[n][n] = journal[n][n] \cup {row}
          /\ row \in RoleRow /\ row.epoch = clock
      BY <1>2 DEF Written, Wrote
    <2>2. /\ \A q \in journal[n][n] : /\ q.epoch < clock /\ q.epoch \in Nat
                                      /\ q.tip \in Nat
          /\ \A p, q \in journal[n][n] : p.epoch = q.epoch => p = q
          /\ clock \in Nat /\ clock >= 1
      BY LogRows DEF AgreeInv, TypeOK, EpochsPast, RoleRow
    <2>3. CASE WroteSeed(n, row)
      <3>1. journal[n][n] = {} /\ row.action = "seed"
        BY <2>3, OwnTop DEF WroteSeed
      <3> QED BY <1>2, <2>1, <2>2, <3>1
    <2>4. CASE WroteRelease(n, row)
      <3>1. /\ Own(n) \in journal[n][n] /\ Own(n).owner
            /\ \A q \in journal[n][n] : q.epoch <= Own(n).epoch
        BY <2>4, OwnTop DEF WroteRelease, NoRow
      <3>2. row.action = "release" /\ ~row.owner /\ row.tip = tip
        BY <2>4 DEF WroteRelease
      <3>3. CASE r = row
        BY <1>0, <2>1, <2>2, <3>2, <3>3
      <3>4. CASE r \in journal[n][n]
        <4>1. ~r.owner => r.epoch < Own(n).epoch
          BY <2>2, <3>1, <3>4
        <4>2. ~r.owner => \E a \in journal[n][n] : a.action = "acquire"
          BY <3>1, <3>4, <4>1, <2>2 DEF RowsWritten
        <4>3. /\ r.epoch >= 1
              /\ r.action \in {"seed", "release", "acquire"}
              /\ r.action = "acquire" => r.owner
              /\ r.action = "release" => ~r.owner /\ r.tip <= tip
          BY <3>4 DEF RowsWritten
        <4>4. \A q \in journal[n][n] : r.action = "seed" => r.epoch <= q.epoch
          BY <3>4 DEF RowsWritten
        <4> QED BY <1>0, <2>1, <2>2, <3>4, <4>2, <4>3, <4>4
      <3> QED BY <1>2, <2>1, <3>3, <3>4
    <2>5. CASE WroteAcquire(n, row)
      <3>1. row.action = "acquire" /\ row.owner
        BY <2>5 DEF WroteAcquire
      <3>2. CASE r = row
        BY <1>0, <2>1, <2>2, <3>1, <3>2
      <3>3. CASE r \in journal[n][n]
        <4>1. /\ r.epoch >= 1
              /\ r.action \in {"seed", "release", "acquire"}
              /\ r.action = "acquire" => r.owner
              /\ r.action = "release" => ~r.owner /\ r.tip <= tip
              /\ \A q \in journal[n][n] :
                   r.action = "seed" => r.epoch <= q.epoch
          BY <3>3 DEF RowsWritten
        <4> QED BY <1>0, <2>1, <2>2, <3>1, <3>3, <4>1
      <3> QED BY <1>2, <2>1, <3>2, <3>3
    <2> QED BY <1>2, <2>3, <2>4, <2>5 DEF Written
  <1>3. CASE Kept
    BY <1>1, <1>3 DEF Kept, RowsWritten
  <1>4. ASSUME NEW n \in Node, NEW row, Written(n, row)
        PROVE  RowsWritten'
    <2>1. \A m \in Node : m = n \/ journal'[m][m] = journal[m][m]
      BY <1>4 DEF Written, Wrote, Node, Peer
    <2> QED BY <1>1, <1>2, <1>4, <2>1 DEF RowsWritten
  <1> QED BY <1>3, <1>4, Logs

\* A row once vetted stays so: logs and chain only grow.
LEMMA VettedKept ==
  ASSUME AgreeInv, CopiesBehind, NoRestores, [Next]_vars,
         NEW n \in Node, NEW c, Vetted(n, c)
  PROVE  Vetted(n, c)'
  <1>1. c \in journal'[Peer(n)][Peer(n)]
    BY LogsGrow, PeerType DEF Vetted
  <1>2. c.tip \in Nat
    BY LogRows, PeerType DEF Vetted, RoleRow
  <1>3. tip \in Nat /\ tip' \in Nat /\ tip <= tip'
    BY Blocks DEF AgreeInv
  <1> QED BY <1>1, <1>2, <1>3, DepthAssumption DEF Vetted

\* What becomes of a transfer in a step.
LEMMA TransferMoves ==
  ASSUME TypeOK, [Next]_vars, NEW n \in Node
  PROVE  \/ transfer'[n].pc = "none"
         \/ TransferCheck(n)
         \/ /\ transfer[n].pc # "none"
            /\ transfer'[n].live = transfer[n].live
            /\ transfer'[n].synced = transfer[n].synced
  <1>1. CASE transfer' = transfer
    BY <1>1
  <1>2. ASSUME NEW m \in Node, TransferCheck(m)
        PROVE  m = n \/ transfer'[n] = transfer[n]
    BY <1>2 DEF TransferCheck, TypeOK
  <1>3. ASSUME NEW m \in Node, TransferCopy(m)
        PROVE  \/ transfer'[n] = transfer[n]
               \/ /\ transfer[n].pc # "none"
                  /\ transfer'[n].live = transfer[n].live
                  /\ transfer'[n].synced = transfer[n].synced
    <2>1. /\ transfer[m].pc = "checked"
          /\ transfer' = [transfer EXCEPT ![m] = [@ EXCEPT !.pc = "copied"]]
      BY <1>3 DEF TransferCopy
    <2>2. transfer[m] \in TransferState
      BY DEF TypeOK
    <2>3. CASE m # n
      BY <2>1, <2>3 DEF TypeOK
    <2>4. CASE m = n
      BY <2>1, <2>2, <2>4 DEF TypeOK, TransferState
    <2> QED BY <2>3, <2>4
  <1>4. ASSUME NEW m \in Node, TransferAcquire(m) \/ TransferStop(m)
        PROVE  transfer'[n] = transfer[n] \/ transfer'[n].pc = "none"
    <2>1. transfer' = [transfer EXCEPT ![m] = NoTransfer]
      BY <1>4, Zenon DEF TransferAcquire, TransferStop
    <2> QED BY <2>1 DEF TypeOK, NoTransfer
  <1>5. ASSUME NEW m \in Node,
               \/ GuardReadLocal(m) \/ GuardReadPeer(m) \/ GuardSeed(m)
               \/ GuardSeedFails(m) \/ GuardApply(m) \/ Release(m)
               \/ LatchWithoutPeer(m) \/ RecoverOwnLog(m)
               \/ RecoverOwnLogStops(m) \/ PullRoles(m)
               \/ Backup(m) \/ Restore(m) \/ Restart(m)
        PROVE  transfer' = transfer
    BY <1>5, Zenon DEF GuardReadLocal, GuardReadPeer, GuardReadPeerAs,
       GuardSeed, GuardSeedFails, GuardApply, Release, LatchWithoutPeer,
       RecoverOwnLog, RecoverOwnLogStops, PullRoles, Backup, Restore, Restart
  <1>6. CASE TipAdvance \/ UNCHANGED vars
    BY <1>6, <1>1, Zenon DEF TipAdvance, vars
  <1>7. ASSUME transfer'[n] = transfer[n]
        PROVE  \/ transfer'[n].pc = "none"
               \/ /\ transfer[n].pc # "none"
                  /\ transfer'[n].live = transfer[n].live
                  /\ transfer'[n].synced = transfer[n].synced
    BY <1>7
  <1> QED
    BY <1>1, <1>2, <1>3, <1>4, <1>5, <1>6, <1>7, Zenon DEF Next

\* A transfer starts over a vetted row and ends in an acquire over it.
LEMMA TransfersStep ==
  ASSUME AgreeInv, CopiesBehind, RowsWritten, TransfersVetted, NoRestores,
         [Next]_vars
  PROVE  TransfersVetted'
  <1> SUFFICES ASSUME NEW n \in Node
               PROVE  /\ transfer'[n].pc # "none" =>
                           Vetted(n, Newer(transfer[n].live,
                                           transfer[n].synced))'
                      /\ \A a \in journal'[n][n] : a.action = "acquire" =>
                           \E c \in journal'[Peer(n)][Peer(n)] :
                             c.epoch = a.peerEpoch /\ Vetted(n, c)'
    BY DEF TransfersVetted
  <1>1. ASSUME transfer'[n].pc # "none"
        PROVE  Vetted(n, Newer(transfer[n].live, transfer[n].synced))'
    <2>1. CASE /\ transfer[n].pc # "none"
               /\ transfer'[n].live = transfer[n].live
               /\ transfer'[n].synced = transfer[n].synced
      <3> DEFINE c == Newer(transfer[n].live, transfer[n].synced)
      <3>1. Vetted(n, c)
        BY <2>1 DEF TransfersVetted
      <3>2. c' = c
        BY <2>1
      <3> HIDE DEF c
      <3>3. ASSUME NEW d, d = c PROVE Vetted(n, d)'
        BY <3>1, <3>3, VettedKept
      <3>4. Vetted(n, c)'
        BY <3>2, <3>3
      <3> QED BY <3>4 DEF c
    <2>2. CASE TransferCheck(n)
      <3> DEFINE live == Latest(journal[Peer(n)][Peer(n)])
                 newest == Newer(live, Synced(n))
      <3>1. /\ newest # NoRow /\ ~newest.owner
            /\ newest.action = "release" => tip >= newest.tip + ReleaseDepth
        BY <2>2 DEF TransferCheck, TransferChecks
      <3>2. /\ live \in journal[Peer(n)][Peer(n)] \cup {NoRow}
            /\ Synced(n) \in journal[Peer(n)][Peer(n)] \cup {NoRow}
        BY LatestIn, SyncedIn
      <3>3. newest \in journal[Peer(n)][Peer(n)]
        BY <3>1, <3>2, NewerIn
      <3>4. /\ transfer'[n].live = live /\ transfer'[n].synced = Synced(n)
            /\ tip' = tip /\ journal' = journal
        BY <2>2 DEF TransferCheck, AgreeInv, TypeOK, databases, chain
      <3>5. Newer(transfer[n].live, transfer[n].synced)' = newest
        BY <3>4 DEF Newer
      <3> HIDE DEF newest
      <3> QED BY <3>1, <3>3, <3>4, <3>5 DEF Vetted
    <2> QED BY <1>1, <2>1, <2>2, TransferMoves DEF AgreeInv
  <1>2. ASSUME NEW a \in journal[n][n], a.action = "acquire"
        PROVE  \E c \in journal'[Peer(n)][Peer(n)] :
                  c.epoch = a.peerEpoch /\ Vetted(n, c)'
    <2>1. PICK c \in journal[Peer(n)][Peer(n)] :
             c.epoch = a.peerEpoch /\ Vetted(n, c)
      BY <1>2 DEF TransfersVetted
    <2>2. Vetted(n, c)' /\ c \in journal'[Peer(n)][Peer(n)]
      BY <2>1, VettedKept, LogsGrow, PeerType
    <2> QED BY <2>1, <2>2
  <1>3. ASSUME NEW row, Written(n, row), row.action = "acquire"
        PROVE  \E c \in journal'[Peer(n)][Peer(n)] :
                  c.epoch = row.peerEpoch /\ Vetted(n, c)'
    <2> DEFINE c == Newer(transfer[n].live, transfer[n].synced)
    <2>1. TransferAcquire(n) /\ row.peerEpoch = c.epoch
      BY <1>3 DEF Written, WroteSeed, WroteRelease, WroteAcquire
    <2>2. transfer[n].pc # "none"
      BY <2>1 DEF TransferAcquire
    <2>3. Vetted(n, c)
      BY <2>2 DEF TransfersVetted
    <2> HIDE DEF c
    <2>4. ASSUME NEW d, d = c
          PROVE  d \in journal'[Peer(n)][Peer(n)] /\ Vetted(n, d)'
      <3>1. Vetted(n, d)
        BY <2>3, <2>4
      <3> QED BY <3>1, VettedKept DEF Vetted
    <2> QED BY <2>1, <2>4
  <1>4. \A a \in journal'[n][n] :
           \/ a \in journal[n][n]
           \/ Written(n, a)
    <2>1. CASE Kept
      BY <2>1 DEF Kept
    <2>2. ASSUME NEW m \in Node, NEW row, Written(m, row)
          PROVE  \A a \in journal'[n][n] : a \in journal[n][n] \/ Written(n, a)
      <3>1. CASE m = n
        BY <2>2, <3>1 DEF Written, Wrote
      <3>2. CASE n = Peer(m)
        BY <2>2, <3>2 DEF Written, Wrote
      <3> QED BY <3>1, <3>2 DEF Node, Peer
    <2> QED BY <2>1, <2>2, Logs
  <1> QED BY <1>1, <1>2, <1>3, <1>4

-----------------------------------------------------------------------------
(* The guard loop, action by action.                                       *)

\* Guard::decide has ended a check: it forgets what the check read.
Decided(n, began) ==
    /\ guard'[n].pc = "decided" /\ ~guard'[n].maySeed
    /\ guard'[n].own = NoRow /\ guard'[n].synced = NoRow
    /\ guard'[n].began = began /\ guard'[n].fresh = guard[n].fresh

\* What a read of the peer must say for it to confirm the gate.
Unopposed(own, newest) ==
    /\ newest # NoRow /\ ~newest.owner
    /\ newest.action = "release" => AcquiredAfter(own, newest)

\* A decision to pay: the node claims, and was confirmed or is now.
LEMMA Decision ==
  ASSUME NEW n \in Node, NEW g \in GuardState, NEW read \in PeerRead,
         NEW fault \in BOOLEAN
  PROVE  LET d == Decide(n, g, read, fault)
         IN  /\ d.pc = "decided" /\ d.maySeed = FALSE
             /\ d.own = NoRow /\ d.synced = NoRow
             /\ d.began = g.began /\ d.fresh = g.fresh
             /\ d.confirmed => /\ Claims(n, g)
                               /\ \/ g.confirmed
                                  \/ /\ read.answer = "primary"
                                     /\ Unopposed(g.own,
                                                  Newer(read.peer, g.synced))
  <1> DEFINE d == Decide(n, g, read, fault)
  <1>1. /\ d.pc = "decided" /\ d.maySeed = FALSE
        /\ d.own = NoRow /\ d.synced = NoRow
        /\ d.began = g.began /\ d.fresh = g.fresh
        /\ d.confirmed = (/\ ~NotClaiming(n, g, fault)
                          /\ ~PeerObjects(g, read)
                          /\ g.confirmed \/ read.answer = "primary")
    BY DEF Decide, NewGuard
  <1> HIDE DEF d
  <1>2. ~NotClaiming(n, g, fault) => Claims(n, g)
    BY DEF NotClaiming, Claims
  <1>3. read.answer = "primary" /\ ~PeerObjects(g, read)
           => Unopposed(g.own, Newer(read.peer, g.synced))
    BY DEF PeerObjects, Unopposed
  <1>4. /\ d.pc = "decided" /\ d.maySeed = FALSE
        /\ d.own = NoRow /\ d.synced = NoRow
        /\ d.began = g.began /\ d.fresh = g.fresh
        /\ d.confirmed => /\ Claims(n, g)
                          /\ \/ g.confirmed
                             \/ /\ read.answer = "primary"
                                /\ Unopposed(g.own,
                                             Newer(read.peer, g.synced))
    BY <1>1, <1>2, <1>3
  <1> QED BY <1>4 DEF d

\* The local read: the guard remembers it, or decides without the peer.
LEMMA AfterReadLocal ==
  ASSUME TypeOK, NEW n \in Node, GuardReadLocal(n)
  PROVE  /\ guard[n].pc = "idle"
         /\ paying' = paying /\ tip' = tip /\ journal' = journal
         /\ \/ /\ guard'[n].pc = "local"
               /\ guard'[n].own = Own(n) /\ guard'[n].synced = Synced(n)
               /\ guard'[n].maySeed => Own(n) = NoRow
               /\ guard'[n].confirmed = guard[n].confirmed
               /\ guard'[n].fresh = guard[n].fresh
            \/ /\ Decided(n, TRUE)
               /\ guard'[n].confirmed => guard[n].confirmed /\ Own(n).owner
  <1> DEFINE g == [guard[n] EXCEPT
                !.pc = "local",
                !.own = Own(n), !.synced = Synced(n),
                !.maySeed = /\ Own(n) = NoRow /\ guard[n].highest = 0
                            /\ caughtUp[n],
                !.began = TRUE]
  <1>1. /\ guard[n] \in GuardState /\ Own(n) \in RoleRow
        /\ Synced(n) \in RoleRow /\ caughtUp[n] \in BOOLEAN
        /\ guard \in [Node -> GuardState]
    BY ReadsType DEF TypeOK
  <1>2. /\ g.pc = "local" /\ g.own = Own(n) /\ g.synced = Synced(n)
        /\ g.maySeed => Own(n) = NoRow
        /\ g.confirmed = guard[n].confirmed /\ g.fresh = guard[n].fresh
        /\ g.began = TRUE
    BY <1>1 DEF GuardState
  <1>3. g \in GuardState
    <2> DEFINE b == /\ Own(n) = NoRow /\ guard[n].highest = 0
                    /\ caughtUp[n]
    <2>1. b \in BOOLEAN
      BY <1>1, Zenon
    <2>2. g = [guard[n] EXCEPT !.pc = "local", !.own = Own(n),
                      !.synced = Synced(n), !.maySeed = b, !.began = TRUE]
      OBVIOUS
    <2> HIDE DEF b, g
    <2> QED BY <1>1, <2>1, <2>2, Zenon, GuardFields, FailedType
  <1>4. /\ guard[n].pc = "idle"
        /\ paying' = paying /\ tip' = tip /\ journal' = journal
        /\ \/ guard' = [guard EXCEPT ![n] = g]
           \/ \E fault \in BOOLEAN :
                guard' = [guard EXCEPT ![n] = Decide(n, g, Failed, fault)]
    BY DEF GuardReadLocal, databases, chain
  <1> HIDE DEF g
  <1>5. CASE guard' = [guard EXCEPT ![n] = g]
    <2>1. guard'[n] = g
      BY <1>1, <1>5
    <2> QED BY <1>2, <1>4, <2>1
  <1>6. CASE \E fault \in BOOLEAN :
                guard' = [guard EXCEPT ![n] = Decide(n, g, Failed, fault)]
    <2>1. PICK fault \in BOOLEAN :
             guard' = [guard EXCEPT ![n] = Decide(n, g, Failed, fault)]
      BY <1>6
    <2>2. guard'[n] = Decide(n, g, Failed, fault)
      BY <1>1, <2>1
    <2>3. Failed.answer # "primary"
      BY DEF Failed
    <2> DEFINE d == guard'[n]
    <2>4. d = Decide(n, g, Failed, fault)
      BY <2>2
    <2> HIDE DEF d
    <2>5. /\ d.pc = "decided" /\ d.maySeed = FALSE
          /\ d.own = NoRow /\ d.synced = NoRow
          /\ d.began = g.began /\ d.fresh = g.fresh
          /\ d.confirmed => Claims(n, g) /\ g.confirmed
      BY ZenonT(60), <1>3, <2>3, <2>4, Decision, FailedType
    <2>6. d.confirmed => guard[n].confirmed /\ Own(n).owner
      BY <1>2, <2>5 DEF Claims
    <2>7. Decided(n, TRUE)
      BY <1>2, <2>5 DEF Decided, d
    <2> QED BY <1>4, <2>6, <2>7 DEF d
  <1> QED BY <1>4, <1>5, <1>6

\* The live read: the guard goes on to seed, or decides; only the answer of
\* the primary confirms.
LEMMA AfterReadPeer ==
  ASSUME TypeOK, NEW n \in Node, GuardReadPeer(n)
  PROVE  /\ guard[n].pc = "local"
         /\ paying' = paying /\ tip' = tip /\ journal' = journal
         /\ \/ /\ guard'[n].pc = "seed" /\ guard[n].maySeed
               /\ guard'[n].maySeed = guard[n].maySeed
               /\ guard'[n].read.peer = Own(Peer(n))
               /\ guard'[n].own = guard[n].own
               /\ guard'[n].synced = guard[n].synced
               /\ guard'[n].confirmed = guard[n].confirmed
               /\ guard'[n].began = guard[n].began
               /\ guard'[n].fresh = guard[n].fresh
            \/ /\ Decided(n, guard[n].began)
               /\ guard'[n].confirmed =>
                    /\ guard[n].own.owner
                    /\ \/ guard[n].confirmed
                       \/ Unopposed(guard[n].own,
                                    Newer(Own(Peer(n)), guard[n].synced))
  <1> DEFINE g == guard[n]
  <1>1. /\ g \in GuardState /\ guard \in [Node -> GuardState]
        /\ PrimaryRead(n) \in PeerRead /\ FallbackRead(n) \in PeerRead
    BY ReadsType DEF TypeOK
  <1>2. PICK read \in {Failed, PrimaryRead(n), FallbackRead(n)},
             fault \in BOOLEAN : GuardReadPeerAs(n, read, fault)
    BY DEF GuardReadPeer
  <1>3. read \in PeerRead
    BY <1>1, <1>2, FailedType
  <1>4. read.answer = "primary" => read.peer = Own(Peer(n))
    BY <1>2 DEF Failed, PrimaryRead, FallbackRead, Own
  <1>5. Failed.answer # "primary"
    BY DEF Failed
  <1>6. /\ g.pc = "local"
        /\ paying' = paying /\ tip' = tip /\ journal' = journal
        /\ guard'[n] = IF Seeds(g, read) /\ ~fault
                       THEN [g EXCEPT !.pc = "seed", !.read = read]
                       ELSE Decide(n, g, IF Claims(n, g) THEN read ELSE Failed,
                                   fault)
    BY <1>1, <1>2 DEF GuardReadPeerAs, databases, chain
  <1>7. CASE Seeds(g, read) /\ ~fault
    <2>1. guard'[n] = [g EXCEPT !.pc = "seed", !.read = read]
      BY <1>6, <1>7
    <2>2. g.maySeed /\ read.answer = "primary"
      BY <1>7 DEF Seeds
    <2> QED BY <1>1, <1>4, <1>6, <2>1, <2>2 DEF GuardState
  <1>8. CASE ~(Seeds(g, read) /\ ~fault)
    <2> DEFINE view == IF Claims(n, g) THEN read ELSE Failed
               d == guard'[n]
    <2>0. fault \in BOOLEAN /\ g \in GuardState
      BY <1>1, <1>2
    <2>1. d = Decide(n, g, view, fault)
      BY <1>6, <1>8
    <2>2. view \in PeerRead
      BY <1>3, FailedType
    <2>3. view.answer = "primary" => view.peer = Own(Peer(n))
      BY <1>4, <1>5
    <2> HIDE DEF g, view, d
    <2>4. /\ d.pc = "decided" /\ d.maySeed = FALSE
          /\ d.own = NoRow /\ d.synced = NoRow
          /\ d.began = g.began /\ d.fresh = g.fresh
          /\ d.confirmed => /\ Claims(n, g)
                            /\ \/ g.confirmed
                               \/ /\ view.answer = "primary"
                                  /\ Unopposed(g.own,
                                               Newer(view.peer, g.synced))
      BY <2>0, <2>1, <2>2, Decision, ZenonT(60)
    <2>5. Decided(n, g.began)
      BY <2>4 DEF Decided, d, g
    <2>6. d.confirmed =>
            /\ g.own.owner
            /\ g.confirmed \/ Unopposed(g.own, Newer(Own(Peer(n)), g.synced))
      BY <2>3, <2>4 DEF Claims
    <2> QED BY <1>6, <2>5, <2>6 DEF d, g
  <1> QED BY <1>7, <1>8

\* The seed and the decision after it, on the read made before it.
LEMMA AfterSeed ==
  ASSUME TypeOK, journal' \in [Node -> [Node -> SUBSET RoleRow]],
         NEW n \in Node, GuardSeed(n)
  PROVE  /\ guard[n].pc = "seed"
         /\ paying' = paying /\ tip' = tip
         /\ Decided(n, guard[n].began)
         /\ guard'[n].confirmed =>
              /\ Own(n)'.owner
              /\ \/ guard[n].confirmed
                 \/ Unopposed(Own(n)', Newer(guard[n].read.peer, Synced(n)))
  <1> DEFINE g == [guard[n] EXCEPT !.own = Latest(journal'[n][n]),
                                   !.synced = Synced(n)]
             view == IF Claims(n, g) THEN g.read ELSE Failed
             d == guard'[n]
  <1>1. /\ guard[n] \in GuardState /\ guard \in [Node -> GuardState]
        /\ Latest(journal'[n][n]) \in RoleRow /\ Synced(n) \in RoleRow
    BY LatestType, ReadsType DEF TypeOK
  <1>2. /\ g.own = Own(n)' /\ g.synced = Synced(n)
        /\ g.read = guard[n].read /\ g.confirmed = guard[n].confirmed
        /\ g.began = guard[n].began /\ g.fresh = guard[n].fresh
    BY <1>1 DEF GuardState, Own
  <1>3. g \in GuardState
    BY <1>1, Zenon, GuardFields, FailedType
  <1>4. view \in PeerRead
    BY <1>3, FailedType DEF GuardState
  <1>5. view.answer = "primary" => view = guard[n].read
    BY <1>2 DEF Failed
  <1>6. /\ guard[n].pc = "seed" /\ paying' = paying /\ tip' = tip
        /\ d = Decide(n, g, view, FALSE)
    BY <1>1 DEF GuardSeed
  <1> HIDE DEF g, view, d
  <1>7. FALSE \in BOOLEAN
    OBVIOUS
  <1>8. /\ d.pc = "decided" /\ d.maySeed = FALSE
        /\ d.own = NoRow /\ d.synced = NoRow
        /\ d.began = g.began /\ d.fresh = g.fresh
        /\ d.confirmed => /\ Claims(n, g)
                          /\ \/ g.confirmed
                             \/ /\ view.answer = "primary"
                                /\ Unopposed(g.own, Newer(view.peer, g.synced))
    BY <1>3, <1>4, <1>6, <1>7, Decision, Zenon
  <1>9. Decided(n, guard[n].began)
    BY <1>2, <1>8 DEF Decided, d
  <1>10. d.confirmed =>
            /\ Own(n)'.owner
            /\ \/ guard[n].confirmed
               \/ Unopposed(Own(n)', Newer(guard[n].read.peer, Synced(n)))
    BY <1>2, <1>5, <1>8 DEF Claims
  <1> QED BY <1>6, <1>9, <1>10 DEF d

\* A seed that fails ends the check and changes neither gate nor guard.
LEMMA AfterSeedFails ==
  ASSUME TypeOK, NEW n \in Node, GuardSeedFails(n)
  PROVE  /\ guard[n].pc = "seed"
         /\ paying' = paying /\ tip' = tip
         /\ guard'[n].pc = "idle" /\ ~guard'[n].maySeed
         /\ guard'[n].own = NoRow /\ guard'[n].synced = NoRow
         /\ guard'[n].began = FALSE
         /\ guard'[n].confirmed = guard[n].confirmed
         /\ guard'[n].fresh = guard[n].fresh
  <1>1. /\ guard[n].pc = "seed" /\ paying' = paying /\ tip' = tip
        /\ guard' = [guard EXCEPT ![n] =
              [NewGuard EXCEPT !.confirmed = guard[n].confirmed,
                               !.highest = guard[n].highest,
                               !.fresh = guard[n].fresh]]
    BY DEF GuardSeedFails
  <1> QED BY <1>1 DEF TypeOK, NewGuard

\* The gate follows the decision.
LEMMA AfterApply ==
  ASSUME TypeOK, NEW n \in Node, GuardApply(n)
  PROVE  /\ guard[n].pc = "decided"
         /\ tip' = tip /\ journal' = journal
         /\ paying'[n] = guard[n].confirmed
         /\ guard'[n].pc = "idle" /\ guard'[n].maySeed = guard[n].maySeed
         /\ guard'[n].own = guard[n].own
         /\ guard'[n].synced = guard[n].synced
         /\ guard'[n].began = FALSE
         /\ guard'[n].confirmed = guard[n].confirmed
         /\ guard'[n].fresh => guard[n].began /\ guard[n].confirmed
  <1>1. /\ guard[n] \in GuardState /\ guard \in [Node -> GuardState]
        /\ paying \in [Node -> BOOLEAN]
    BY DEF TypeOK
  <1>2. /\ guard[n].pc = "decided"
        /\ tip' = tip /\ journal' = journal
        /\ paying' = [paying EXCEPT ![n] = guard[n].confirmed]
        /\ guard' = [guard EXCEPT ![n] =
              [@ EXCEPT !.pc = "idle",
                        !.fresh = guard[n].began /\ guard[n].confirmed,
                        !.began = FALSE]]
    BY DEF GuardApply, databases, chain
  <1> QED BY <1>1, <1>2 DEF GuardState

\* A frontend that restarts knows nothing and pays nothing.
LEMMA AfterRestart ==
  ASSUME TypeOK, NEW n \in Node, Restart(n)
  PROVE  /\ tip' = tip /\ journal' = journal
         /\ paying'[n] = FALSE /\ guard'[n] = NewGuard
  BY DEF Restart, TypeOK, databases, chain

\* A block finds every guard kept up, and ages what it knows.
LEMMA AfterBlock ==
  ASSUME TypeOK, NEW n \in Node, TipAdvance
  PROVE  /\ GuardKeepsUp(n)
         /\ tip' = tip + 1 /\ journal' = journal /\ paying' = paying
         /\ guard'[n].pc = guard[n].pc /\ guard'[n].maySeed = guard[n].maySeed
         /\ guard'[n].own = guard[n].own
         /\ guard'[n].synced = guard[n].synced
         /\ guard'[n].read = guard[n].read
         /\ guard'[n].confirmed = guard[n].confirmed
         /\ guard'[n].began = FALSE /\ guard'[n].fresh = FALSE
  <1>1. /\ GuardKeepsUp(n)
        /\ tip' = tip + 1 /\ journal' = journal /\ paying' = paying
        /\ guard'[n] = [guard[n] EXCEPT !.began = FALSE, !.fresh = FALSE]
    BY DEF TipAdvance, databases
  <1> QED BY <1>1 DEF TypeOK, GuardState

\* A guard moves by its own actions and by a block, and its gate with it.
LEMMA GuardMoves ==
  ASSUME TypeOK, [Next]_vars, NEW n \in Node
  PROVE  \/ GuardReadLocal(n) \/ GuardReadPeer(n) \/ GuardSeed(n)
         \/ GuardSeedFails(n) \/ GuardApply(n) \/ Restart(n)
         \/ TipAdvance
         \/ guard'[n] = guard[n] /\ paying'[n] = paying[n] /\ tip' = tip
  <1> DEFINE Still ==
         guard'[n] = guard[n] /\ paying'[n] = paying[n] /\ tip' = tip
  <1>1. ASSUME NEW m \in Node, m # n,
               \/ GuardReadLocal(m) \/ GuardReadPeer(m) \/ GuardSeed(m)
               \/ GuardSeedFails(m) \/ GuardApply(m) \/ Restart(m)
        PROVE  Still
    <2>1. CASE GuardReadLocal(m)
      BY <1>1, <2>1 DEF GuardReadLocal, TypeOK, chain
    <2>2. CASE GuardReadPeer(m)
      BY <1>1, <2>2 DEF GuardReadPeer, GuardReadPeerAs, TypeOK, chain
    <2>3. CASE GuardSeed(m)
      BY <1>1, <2>3 DEF GuardSeed, TypeOK
    <2>4. CASE GuardSeedFails(m)
      BY <1>1, <2>4 DEF GuardSeedFails, TypeOK
    <2>5. CASE GuardApply(m)
      BY <1>1, <2>5 DEF GuardApply, TypeOK, chain
    <2>6. CASE Restart(m)
      BY <1>1, <2>6 DEF Restart, TypeOK, chain
    <2> QED BY <1>1, <2>1, <2>2, <2>3, <2>4, <2>5, <2>6
  <1>2. ASSUME NEW m \in Node,
               \/ Release(m) \/ TransferCheck(m) \/ TransferCopy(m)
               \/ TransferAcquire(m) \/ TransferStop(m)
               \/ LatchWithoutPeer(m) \/ RecoverOwnLog(m)
               \/ RecoverOwnLogStops(m) \/ PullRoles(m)
               \/ Backup(m) \/ Restore(m)
        PROVE  UNCHANGED <<guard, paying, tip>>
    BY <1>2, Zenon DEF Release, TransferCheck, TransferCopy, TransferAcquire,
       TransferStop, LatchWithoutPeer, RecoverOwnLog, RecoverOwnLogStops,
       PullRoles, Backup, Restore, frontend, chain
  <1>3. ASSUME UNCHANGED <<guard, paying, tip>> PROVE Still
    BY <1>3
  <1>4. CASE UNCHANGED vars
    BY <1>4 DEF vars
  <1> HIDE DEF Still
  <1>5. ASSUME NEW m \in Node,
               \/ GuardReadLocal(m) \/ GuardReadPeer(m) \/ GuardSeed(m)
               \/ GuardSeedFails(m) \/ GuardApply(m) \/ Restart(m)
               \/ Release(m) \/ TransferCheck(m) \/ TransferCopy(m)
               \/ TransferAcquire(m) \/ TransferStop(m)
               \/ LatchWithoutPeer(m) \/ RecoverOwnLog(m)
               \/ RecoverOwnLogStops(m) \/ PullRoles(m)
               \/ Backup(m) \/ Restore(m)
        PROVE  \/ GuardReadLocal(n) \/ GuardReadPeer(n) \/ GuardSeed(n)
               \/ GuardSeedFails(n) \/ GuardApply(n) \/ Restart(n)
               \/ Still
    BY <1>1, <1>2, <1>3, <1>5, Zenon
  <1> QED BY <1>4, <1>5, Zenon DEF Next, Still

-----------------------------------------------------------------------------
(* The parts of the invariant about the guards.                            *)

\* What a guard has read stays written, and the gate follows decisions only.
LEMMA ReadsStep ==
  ASSUME AgreeInv, CopiesBehind, GuardReads, NoRestores, [Next]_vars
  PROVE  GuardReads'
  <1> SUFFICES ASSUME NEW n \in Node
               PROVE  /\ guard'[n].own \in journal'[n][n] \cup {NoRow}
                      /\ guard'[n].synced
                            \in journal'[Peer(n)][Peer(n)] \cup {NoRow}
                      /\ guard'[n].pc = "seed" =>
                           /\ guard'[n].maySeed
                           /\ guard'[n].read.peer
                                 \in journal'[Peer(n)][Peer(n)] \cup {NoRow}
                      /\ guard'[n].pc # "decided" =>
                           guard'[n].confirmed = paying'[n]
    BY DEF GuardReads
  <1>1. TypeOK /\ TypeOK'
    BY TypeNext DEF AgreeInv
  <1>2. /\ guard[n].own \in journal[n][n] \cup {NoRow}
        /\ guard[n].synced \in journal[Peer(n)][Peer(n)] \cup {NoRow}
        /\ guard[n].pc = "seed" =>
             /\ guard[n].maySeed
             /\ guard[n].read.peer \in journal[Peer(n)][Peer(n)] \cup {NoRow}
        /\ guard[n].pc # "decided" => guard[n].confirmed = paying[n]
    BY DEF GuardReads
  <1>3. /\ journal[n][n] \subseteq journal'[n][n]
        /\ journal[Peer(n)][Peer(n)] \subseteq journal'[Peer(n)][Peer(n)]
    BY LogsGrow, PeerType
  <1>4. CASE GuardReadLocal(n)
    BY <1>1, <1>2, <1>3, <1>4, AfterReadLocal, LatestIn, SyncedIn
    DEF Decided, Own
  <1>5. CASE GuardReadPeer(n)
    <2>1. Own(Peer(n)) \in journal[Peer(n)][Peer(n)] \cup {NoRow}
      BY LatestIn DEF Own
    <2> QED BY <1>1, <1>2, <1>3, <1>5, <2>1, AfterReadPeer DEF Decided
  <1>6. CASE GuardSeed(n)
    <2>1. journal' \in [Node -> [Node -> SUBSET RoleRow]]
      BY <1>1 DEF TypeOK
    <2>2. Decided(n, guard[n].began)
      BY <1>1, <1>6, <2>1, AfterSeed
    <2> QED BY <2>2 DEF Decided
  <1>7. CASE GuardSeedFails(n)
    BY <1>1, <1>2, <1>7, AfterSeedFails
  <1>8. CASE GuardApply(n)
    BY <1>1, <1>2, <1>3, <1>8, AfterApply
  <1>9. CASE Restart(n)
    <2>1. paying'[n] = FALSE /\ guard'[n] = NewGuard
      BY <1>1, <1>9, AfterRestart
    <2>2. /\ NewGuard.pc = "idle" /\ NewGuard.confirmed = FALSE
          /\ NewGuard.own = NoRow /\ NewGuard.synced = NoRow
      BY DEF NewGuard
    <2> QED BY <2>1, <2>2
  <1>10. CASE TipAdvance
    BY <1>1, <1>2, <1>3, <1>10, AfterBlock
  <1>11. CASE guard'[n] = guard[n] /\ paying'[n] = paying[n] /\ tip' = tip
    BY <1>2, <1>3, <1>11
  <1> QED
    BY <1>1, <1>4, <1>5, <1>6, <1>7, <1>8, <1>9, <1>10, <1>11, GuardMoves

\* A node that may acquire over the log of a node in its first check would
\* do so over a release two blocks old, and the check would have ended.
LEMMA NoAcquireMeanwhile ==
  ASSUME GateInv, NEW n \in Node, guard[n].maySeed,
         NEW c, Vetted(Peer(n), c)
  PROVE  FALSE
  <1>1. c \in journal[n][n] /\ ~c.owner
    BY DEF Vetted, Node, Peer
  <1>2. c.action = "release" /\ tip <= c.tip + 1
    BY <1>1 DEF GateInv, FirstCheck, RowsWritten
  <1>3. tip >= c.tip + ReleaseDepth
    BY <1>2 DEF Vetted
  <1>4. tip \in Nat /\ c.tip \in Nat
    BY <1>1, LogRows DEF GateInv, AgreeInv, TypeOK, RoleRow
  <1> QED BY <1>2, <1>3, <1>4, DepthAssumption

\* A first check of an empty log: nobody took ownership over it.
LEMMA NoAcquireOverNothing ==
  ASSUME GateInv, NEW n \in Node, journal[n][n] = {},
         NEW a \in journal[Peer(n)][Peer(n)]
  PROVE  a.action # "acquire"
  BY PeerType DEF GateInv, TransfersVetted, Vetted, Node, Peer

\* The peer of a first check writes no acquire.
LEMMA FirstCheckStep ==
  ASSUME GateInv, NoRestores, [Next]_vars
  PROVE  FirstCheck'
  <1> SUFFICES ASSUME NEW n \in Node, guard'[n].maySeed
               PROVE  /\ guard'[n].pc \in {"local", "seed"}
                      /\ guard'[n].own = NoRow
                      /\ \A a \in journal'[Peer(n)][Peer(n)] :
                            a.action # "acquire"
                      /\ \A r \in journal'[n][n] :
                           /\ r.action # "seed"
                           /\ r.action = "release" =>
                                /\ tip' <= r.tip + 1
                                /\ guard'[n].began => tip' <= r.tip
    BY DEF FirstCheck
  <1>1. TypeOK /\ TypeOK' /\ AgreeInv /\ CopiesBehind /\ RowsWritten
    BY TypeNext DEF GateInv, AgreeInv
  <1>2. Peer(n) \in Node /\ Peer(Peer(n)) = n
    BY DEF Node, Peer
  <1>3. CASE GuardReadLocal(n)
    <2>1. /\ journal' = journal /\ guard'[n].pc = "local"
          /\ Own(n) = NoRow /\ guard'[n].own = Own(n)
      BY <1>1, <1>3, AfterReadLocal DEF Decided
    <2>2. journal[n][n] = {}
      BY <1>1, <2>1, OwnTop
    <2> QED BY <2>1, <2>2, NoAcquireOverNothing
  <1>4. CASE guard[n].maySeed /\ tip' = tip /\ journal' = journal
             /\ guard'[n].pc \in {"local", "seed"}
             /\ guard'[n].own = guard[n].own
             /\ (guard'[n].began => guard[n].began)
    BY <1>4 DEF GateInv, FirstCheck
  <1>5. CASE GuardReadPeer(n)
    BY <1>1, <1>4, <1>5, AfterReadPeer DEF Decided
  <1>6. CASE GuardSeed(n)
    <2>1. journal' \in [Node -> [Node -> SUBSET RoleRow]]
      BY <1>1 DEF TypeOK
    <2> QED BY <1>1, <1>6, <2>1, AfterSeed DEF Decided
  <1>7. CASE GuardSeedFails(n)
    BY <1>1, <1>7, AfterSeedFails
  <1>8. CASE GuardApply(n)
    <2>1. guard[n].pc = "decided" /\ guard[n].maySeed
      BY <1>1, <1>8, AfterApply
    <2> QED BY <2>1 DEF GateInv, FirstCheck
  <1>9. CASE Restart(n)
    <2>1. guard'[n] = NewGuard
      BY <1>1, <1>9, AfterRestart
    <2>2. ~NewGuard.maySeed
      BY DEF NewGuard
    <2> QED BY <2>1, <2>2
  <1>10. CASE TipAdvance
    <2>1. /\ guard[n].maySeed /\ journal' = journal /\ tip' = tip + 1
          /\ GuardKeepsUp(n)
          /\ guard'[n].pc = guard[n].pc /\ guard'[n].own = guard[n].own
          /\ guard'[n].began = FALSE
      BY <1>1, <1>10, AfterBlock
    <2>2. guard[n].began
      BY <2>1 DEF GuardKeepsUp, GateInv, FirstCheck
    <2>3. \A r \in journal[n][n] : r.tip \in Nat
      BY <1>1, LogRows DEF RoleRow
    <2>4. tip \in Nat
      BY <1>1 DEF TypeOK
    <2> QED BY <2>1, <2>2, <2>3, <2>4 DEF GateInv, FirstCheck
  <1>11. CASE guard'[n] = guard[n] /\ paying'[n] = paying[n] /\ tip' = tip
    <2>1. /\ guard[n].maySeed
          /\ guard[n].pc \in {"local", "seed"} /\ guard[n].own = NoRow
          /\ \A a \in journal[Peer(n)][Peer(n)] : a.action # "acquire"
          /\ \A r \in journal[n][n] :
               /\ r.action # "seed"
               /\ r.action = "release" =>
                    tip <= r.tip + 1 /\ (guard[n].began => tip <= r.tip)
      BY <1>11 DEF GateInv, FirstCheck
    <2>2. CASE Kept
      BY <1>2, <1>11, <2>1, <2>2 DEF Kept
    <2>3. ASSUME NEW m \in Node, NEW row, Written(m, row)
          PROVE  /\ \A a \in journal'[Peer(n)][Peer(n)] : a.action # "acquire"
                 /\ \A r \in journal'[n][n] :
                      /\ r.action # "seed"
                      /\ r.action = "release" =>
                           /\ tip <= r.tip + 1
                           /\ guard[n].began => tip <= r.tip
      <3>1. CASE m = n
        <4>1. /\ journal'[n][n] = journal[n][n] \cup {row}
              /\ journal'[Peer(n)][Peer(n)] = journal[Peer(n)][Peer(n)]
          BY <2>3, <3>1 DEF Written, Wrote
        <4>2. ~WroteSeed(n, row)
          <5>1. CASE GuardSeed(n)
            <6>1. journal' \in [Node -> [Node -> SUBSET RoleRow]]
              BY <1>1 DEF TypeOK
            <6> QED BY <1>1, <5>1, <6>1, AfterSeed DEF Decided
          <5>2. CASE GuardSeedFails(n)
            BY <1>1, <5>2, AfterSeedFails
          <5> QED BY <5>1, <5>2 DEF WroteSeed
        <4>3. WroteRelease(n, row) \/ WroteAcquire(n, row)
          BY <2>3, <3>1, <4>2 DEF Written
        <4>4. /\ row.action # "seed"
              /\ row.action = "release" => row.tip = tip
          BY <4>3 DEF WroteRelease, WroteAcquire
        <4>5. tip \in Nat
          BY <1>1 DEF TypeOK
        <4> QED BY <2>1, <4>1, <4>4, <4>5
      <3>2. CASE m = Peer(n)
        <4>1. /\ journal'[Peer(n)][Peer(n)]
                    = journal[Peer(n)][Peer(n)] \cup {row}
              /\ journal'[n][n] = journal[n][n]
          BY <1>2, <2>3, <3>2 DEF Written, Wrote
        <4>2. row.action # "acquire"
          <5>1. ASSUME WroteAcquire(Peer(n), row) PROVE FALSE
            <6> DEFINE c == Newer(transfer[Peer(n)].live,
                                  transfer[Peer(n)].synced)
            <6>1. transfer[Peer(n)].pc # "none"
              BY <5>1 DEF WroteAcquire, TransferAcquire
            <6>2. Vetted(Peer(n), c)
              BY <1>2, <6>1 DEF GateInv, TransfersVetted
            <6> HIDE DEF c
            <6> QED BY <2>1, <6>2, NoAcquireMeanwhile
          <5> QED
            BY <2>3, <3>2, <5>1 DEF Written, WroteSeed, WroteRelease
        <4> QED BY <2>1, <4>1, <4>2
      <3>3. m = n \/ m = Peer(n)
        BY DEF Node, Peer
      <3> QED BY <3>1, <3>2, <3>3
    <2> QED BY <1>1, <1>11, <2>1, <2>2, <2>3, Logs
  <1> QED
    BY <1>1, <1>3, <1>5, <1>6, <1>7, <1>8, <1>9, <1>10, <1>11, GuardMoves

\* A node's newest row is a release only after Release, or as it was before.
LEMMA OwnRelease ==
  ASSUME GateInv, NoRestores, [Next]_vars, NEW n \in Node,
         Own(n)'.action = "release"
  PROVE  \/ Own(n)' = Own(n) /\ journal'[n][n] = journal[n][n]
         \/ Release(n) /\ Own(n)'.tip = tip /\ ~Own(n)'.owner
  <1>1. AgreeInv /\ CopiesBehind
    BY DEF GateInv
  <1>2. CASE Kept
    BY <1>2, KeptTop DEF Kept
  <1>3. ASSUME NEW m \in Node, NEW row, Written(m, row)
        PROVE  \/ Own(n)' = Own(n) /\ journal'[n][n] = journal[n][n]
               \/ Release(n) /\ Own(n)'.tip = tip /\ ~Own(n)'.owner
    <2>1. CASE n = Peer(m)
      BY <1>1, <1>3, <2>1, WrittenTop DEF Written, Wrote
    <2>2. CASE n = m
      <3>1. Own(n)' = row
        BY <1>1, <1>3, <2>2, WrittenTop DEF Written
      <3> QED
        BY <1>3, <2>2, <3>1
        DEF Written, WroteSeed, WroteRelease, WroteAcquire
    <2> QED BY <2>1, <2>2 DEF Node, Peer
  <1> QED BY <1>1, <1>2, <1>3, Logs

\* A row of a node's own that ends in a release is in its log.
LEMMA ReleaseIn ==
  ASSUME GateInv, NEW n \in Node, Own(n).action = "release"
  PROVE  /\ Own(n) \in journal[n][n] /\ ~Own(n).owner
         /\ Own(n).tip <= tip /\ Own(n).tip \in Nat /\ tip \in Nat
  <1>1. Own(n) \in journal[n][n]
    BY LatestIn DEF Own, NoRow
  <1> QED
    BY <1>1, LogRows DEF GateInv, RowsWritten, AgreeInv, TypeOK, RoleRow

\* The guard shuts the gate within two blocks of a release.
LEMMA ReleaseSeenStep ==
  ASSUME GateInv, NoRestores, [Next]_vars
  PROVE  ReleaseSeen'
  <1> SUFFICES ASSUME NEW n \in Node, Own(n)'.action = "release"
               PROVE  /\ tip' >= Own(n)'.tip + 1 =>
                           /\ paying'[n] => ~guard'[n].fresh
                           /\ guard'[n].began /\ guard'[n].pc = "local" =>
                                ~guard'[n].own.owner
                           /\ guard'[n].began /\ guard'[n].pc = "decided" =>
                                ~guard'[n].confirmed
                      /\ tip' >= Own(n)'.tip + 2 =>
                           /\ ~paying'[n] /\ ~guard'[n].confirmed
                           /\ guard'[n].pc = "local" => ~guard'[n].own.owner
    BY DEF ReleaseSeen, Armed
  <1>1. TypeOK /\ TypeOK' /\ AgreeInv
    BY TypeNext DEF GateInv, AgreeInv
  <1>2. CASE Release(n) /\ Own(n)'.tip = tip
    <2>1. tip' = tip /\ tip \in Nat
      BY <1>1, <1>2 DEF Release, TypeOK
    <2> QED BY <1>2, <2>1
  <1>3. CASE Own(n)' = Own(n) /\ journal'[n][n] = journal[n][n]
    <2> DEFINE r == Own(n)
    <2>1. r.action = "release" /\ Own(n)' = r
      BY <1>3
    <2>2. ~r.owner /\ r.tip <= tip /\ r.tip \in Nat /\ tip \in Nat
      BY <2>1, ReleaseIn
    <2>3. /\ tip >= r.tip + 1 =>
               /\ paying[n] => ~guard[n].fresh
               /\ guard[n].began /\ guard[n].pc = "local" =>
                    ~guard[n].own.owner
               /\ guard[n].began /\ guard[n].pc = "decided" =>
                    ~guard[n].confirmed
          /\ tip >= r.tip + 2 =>
               /\ ~paying[n] /\ ~guard[n].confirmed
               /\ guard[n].pc = "local" => ~guard[n].own.owner
      BY <2>1 DEF GateInv, ReleaseSeen, Armed
    <2>4. r # NoRow
      BY <2>1 DEF NoRow
    <2>5. guard[n].pc # "decided" => guard[n].confirmed = paying[n]
      BY DEF GateInv, GuardReads
    <2>6. guard[n].pc \in {"idle", "local", "seed", "decided"}
      BY <1>1 DEF TypeOK, GuardState, GuardStep
    <2> HIDE DEF r
    <2>7. CASE GuardReadLocal(n)
      <3>1. /\ guard[n].pc = "idle" /\ paying' = paying /\ tip' = tip
            /\ \/ /\ guard'[n].pc = "local" /\ guard'[n].own = r
                  /\ guard'[n].confirmed = guard[n].confirmed
                  /\ guard'[n].fresh = guard[n].fresh
               \/ /\ guard'[n].pc = "decided" /\ ~guard'[n].confirmed
                  /\ guard'[n].fresh = guard[n].fresh
        BY <1>1, <2>2, <2>7, AfterReadLocal DEF Decided, r
      <3> QED BY <2>1, <2>2, <2>3, <3>1
    <2>8. CASE GuardReadPeer(n)
      <3>1. /\ guard[n].pc = "local" /\ paying' = paying /\ tip' = tip
            /\ \/ /\ guard'[n].pc = "seed"
                  /\ guard'[n].confirmed = guard[n].confirmed
                  /\ guard'[n].fresh = guard[n].fresh
               \/ /\ guard'[n].pc = "decided"
                  /\ guard'[n].began = guard[n].began
                  /\ guard'[n].fresh = guard[n].fresh
                  /\ guard'[n].confirmed => guard[n].own.owner
        BY <1>1, <2>8, AfterReadPeer DEF Decided
      <3> QED BY <2>1, <2>2, <2>3, <3>1
    <2>9. CASE GuardSeed(n)
      <3>1. journal' \in [Node -> [Node -> SUBSET RoleRow]]
        BY <1>1 DEF TypeOK
      <3>2. /\ paying' = paying /\ tip' = tip
            /\ guard'[n].pc = "decided"
            /\ guard'[n].fresh = guard[n].fresh
            /\ guard'[n].confirmed => Own(n)'.owner
        BY <1>1, <2>9, <3>1, AfterSeed DEF Decided
      <3> QED BY <2>1, <2>2, <2>3, <3>2
    <2>10. CASE GuardSeedFails(n)
      <3>1. /\ paying' = paying /\ tip' = tip /\ guard'[n].pc = "idle"
            /\ guard'[n].confirmed = guard[n].confirmed
            /\ guard'[n].fresh = guard[n].fresh
        BY <1>1, <2>10, AfterSeedFails
      <3> QED BY <2>1, <2>2, <2>3, <3>1
    <2>11. CASE GuardApply(n)
      <3>1. /\ guard[n].pc = "decided" /\ tip' = tip
            /\ paying'[n] = guard[n].confirmed /\ guard'[n].pc = "idle"
            /\ guard'[n].confirmed = guard[n].confirmed
            /\ guard'[n].fresh => guard[n].began /\ guard[n].confirmed
        BY <1>1, <2>11, AfterApply
      <3> QED BY <2>1, <2>2, <2>3, <3>1
    <2>12. CASE Restart(n)
      <3>1. paying'[n] = FALSE /\ guard'[n] = NewGuard
        BY <1>1, <2>12, AfterRestart
      <3> QED BY <3>1 DEF NewGuard
    <2>13. CASE TipAdvance
      <3>1. /\ GuardKeepsUp(n) /\ tip' = tip + 1 /\ paying' = paying
            /\ guard'[n].pc = guard[n].pc /\ guard'[n].own = guard[n].own
            /\ guard'[n].confirmed = guard[n].confirmed
            /\ guard'[n].began = FALSE /\ guard'[n].fresh = FALSE
        BY <1>1, <2>13, AfterBlock
      <3>2. CASE tip >= r.tip + 1
        <4>1. /\ paying[n] => ~guard[n].fresh
              /\ guard[n].began /\ guard[n].pc = "local" =>
                   ~guard[n].own.owner
              /\ guard[n].began /\ guard[n].pc = "decided" =>
                   ~guard[n].confirmed
          BY <2>3, <3>2
        <4>2. ~paying[n]
          BY <3>1, <4>1 DEF GuardKeepsUp
        <4>3. guard[n].pc # "idle" => guard[n].began
          BY <3>1 DEF GuardKeepsUp
        <4>4. ~guard[n].confirmed
          BY <2>5, <4>1, <4>2, <4>3
        <4>5. guard[n].pc = "local" => ~guard[n].own.owner
          BY <4>1, <4>3
        <4> QED BY <3>1, <4>2, <4>4, <4>5
      <3>3. CASE ~(tip >= r.tip + 1)
        <4>1. ~(tip' >= r.tip + 2)
          BY <2>2, <3>1, <3>3
        <4> QED BY <2>1, <3>1, <4>1
      <3> QED BY <3>2, <3>3
    <2>14. CASE guard'[n] = guard[n] /\ paying'[n] = paying[n] /\ tip' = tip
      BY <2>1, <2>3, <2>14
    <2> QED
      BY <1>1, <2>7, <2>8, <2>9, <2>10, <2>11, <2>12, <2>13, <2>14, GuardMoves
  <1> QED BY <1>2, <1>3, OwnRelease

-----------------------------------------------------------------------------
(* How a gate comes to open, and what it opens over.                       *)

\* What a node wrote the peer takes for its newest row: a seed that disowns
\* and nothing else, or a release the node's acquire was vetted over.  Then
\* the peer's gate is shut and what it paid is buried.
LEMMA Clear ==
  ASSUME GateInv, NEW n \in Node, NEW own \in journal[n][n], own.owner,
         NEW newest \in journal[Peer(n)][Peer(n)], Unopposed(own, newest),
         \A q \in journal[Peer(n)][Peer(n)] : q.epoch <= newest.epoch
  PROVE  ~Armed(Peer(n)) /\ Buried(Peer(n))
  <1> DEFINE p == Peer(n)
  <1>1. p \in Node /\ ~newest.owner
    BY PeerType DEF Unopposed
  <1>2. /\ journal[p][p] \in SUBSET RoleRow
        /\ \A r \in journal[p][p] : r.epoch \in Nat
        /\ \A r, q \in journal[p][p] : r.epoch = q.epoch => r = q
    BY <1>1, LogRows DEF GateInv
  <1>3. Own(p) = newest
    <2>1. /\ Own(p) \in journal[p][p] \cup {NoRow}
          /\ \A q \in journal[p][p] : q.epoch <= Own(p).epoch
          /\ Own(p) # NoRow
      BY <1>1, OwnTop DEF GateInv
    <2> QED BY <1>2, <2>1
  <1>4. newest.action \in {"seed", "release"}
    BY <1>1 DEF GateInv, RowsWritten
  <1>5. CASE newest.action = "seed"
    <2>1. \A q \in journal[p][p] : newest.epoch <= q.epoch
      BY <1>1, <1>5 DEF GateInv, RowsWritten
    <2>2. \A q \in journal[p][p] : q = newest
      BY <1>2, <2>1
    <2>3. ~Owned(p)
      BY <1>1, <2>2 DEF Owned
    <2> QED BY <1>1, <2>3 DEF GateInv, OneArmed, Burial, Buried
  <1>6. CASE newest.action = "release"
    <2>1. own.action = "acquire" /\ own.peerEpoch >= newest.epoch
      BY <1>6 DEF Unopposed, AcquiredAfter
    <2>2. PICK c \in journal[p][p] : c.epoch = own.peerEpoch /\ Vetted(n, c)
      BY <2>1 DEF GateInv, TransfersVetted
    <2>3. c.epoch = newest.epoch
      BY <1>2, <2>1, <2>2
    <2>4. c = newest
      BY <1>2, <2>2, <2>3
    <2>5. tip >= newest.tip + ReleaseDepth
      BY <1>6, <2>2, <2>4 DEF Vetted
    <2>6. newest.tip \in Nat /\ tip \in Nat /\ lastPaid[p] \in Nat \cup {-1}
      BY <1>1, <1>2 DEF GateInv, AgreeInv, TypeOK, RoleRow
    <2>7. ~Armed(p)
      BY <1>1, <1>3, <1>6, <2>5, <2>6, DepthAssumption
      DEF GateInv, ReleaseSeen
    <2>8. lastPaid[p] <= newest.tip
      BY <1>1, <1>3, <1>6 DEF GateInv, Burial
    <2>9. tip >= lastPaid[p] + ReleaseDepth
      BY <2>5, <2>6, <2>8, DepthAssumption
    <2> QED BY <2>7, <2>9 DEF Buried
  <1> QED BY <1>4, <1>5, <1>6

\* The peer of a node in its first check wrote nothing after a row that
\* disowns: such a row is its newest.
LEMMA FirstCheckNewest ==
  ASSUME GateInv, NEW n \in Node, guard[n].maySeed,
         NEW newest \in journal[Peer(n)][Peer(n)], ~newest.owner,
         NEW q \in journal[Peer(n)][Peer(n)]
  PROVE  q.epoch <= newest.epoch
  <1>1. Peer(n) \in Node
    BY PeerType
  <1>2. ~(\E a \in journal[Peer(n)][Peer(n)] : a.action = "acquire")
    BY DEF GateInv, FirstCheck
  <1>3. ~(q.epoch > newest.epoch)
    BY <1>1, <1>2 DEF GateInv, RowsWritten
  <1>4. q.epoch \in Nat /\ newest.epoch \in Nat
    BY <1>1, LogRows DEF GateInv
  <1> QED BY <1>3, <1>4

\* A seed clears the peer by the read made before it: the peer of a first
\* check writes at most a release meanwhile, and that alone objects.
LEMMA ClearSeed ==
  ASSUME GateInv, NEW n \in Node, guard[n].maySeed,
         NEW own \in RoleRow, own.owner,
         own \in journal[n][n] \/ own.action = "seed",
         NEW newest \in journal[Peer(n)][Peer(n)], Unopposed(own, newest)
  PROVE  ~Armed(Peer(n)) /\ Buried(Peer(n))
  <1>1. \A q \in journal[Peer(n)][Peer(n)] : q.epoch <= newest.epoch
    BY FirstCheckNewest DEF Unopposed
  <1>2. CASE own \in journal[n][n]
    BY <1>1, <1>2, Clear
  <1>3. CASE own.action = "seed"
    <2> DEFINE p == Peer(n)
    <2>1. p \in Node /\ ~newest.owner
      BY PeerType DEF Unopposed
    <2>2. newest.action # "release"
      BY <1>3 DEF Unopposed, AcquiredAfter
    <2>3. newest.action = "seed"
      BY <2>1, <2>2 DEF GateInv, RowsWritten
    <2>4. \A q \in journal[p][p] : newest.epoch <= q.epoch
      BY <2>1, <2>3 DEF GateInv, RowsWritten
    <2>5. \A q \in journal[p][p] : q = newest
      BY <1>1, <2>1, <2>4, LogRows DEF GateInv
    <2>6. ~Owned(p)
      BY <2>1, <2>5 DEF Owned
    <2> QED BY <2>1, <2>6 DEF GateInv, OneArmed, Burial, Buried
  <1> QED BY <1>2, <1>3

\* A gate that opens, or is about to, opens over a peer's that is shut.
LEMMA Arming ==
  ASSUME GateInv, NoRestores, [Next]_vars, NEW n \in Node,
         paying'[n] \/ guard'[n].confirmed
  PROVE  \/ Armed(n)
         \/ /\ \E r \in journal'[n][n] : r.owner
            /\ ~Armed(Peer(n)) /\ Buried(Peer(n)) /\ tip' = tip
            /\ GuardReadPeer(n) \/ GuardSeed(n)
  <1>1. TypeOK /\ TypeOK' /\ AgreeInv /\ CopiesBehind /\ RowsWritten
    BY TypeNext DEF GateInv, AgreeInv
  <1>2. Peer(n) \in Node
    BY PeerType
  <1>3. CASE GuardReadLocal(n)
    <2>1. /\ paying' = paying
          /\ guard'[n].confirmed => guard[n].confirmed
      BY <1>1, <1>3, AfterReadLocal
    <2> QED BY <2>1 DEF Armed
  <1>4. CASE GuardReadPeer(n)
    <2> DEFINE newest == Newer(Own(Peer(n)), guard[n].synced)
    <2>1. /\ paying' = paying /\ tip' = tip /\ journal' = journal
          /\ guard'[n].confirmed =>
               \/ guard[n].confirmed
               \/ guard[n].own.owner /\ Unopposed(guard[n].own, newest)
      BY <1>1, <1>4, AfterReadPeer
    <2>2. SUFFICES ASSUME guard[n].own.owner,
                          Unopposed(guard[n].own, newest)
                   PROVE  /\ \E r \in journal'[n][n] : r.owner
                          /\ ~Armed(Peer(n)) /\ Buried(Peer(n))
      BY <1>4, <2>1 DEF Armed
    <2>3. guard[n].own \in journal[n][n]
      BY <2>2 DEF GateInv, GuardReads, NoRow
    <2>4. /\ Own(Peer(n)) \in journal[Peer(n)][Peer(n)] \cup {NoRow}
          /\ guard[n].synced \in journal[Peer(n)][Peer(n)] \cup {NoRow}
          /\ \A q \in journal[Peer(n)][Peer(n)] :
                q.epoch <= Own(Peer(n)).epoch
      BY <1>1, <1>2, OwnTop DEF GateInv, GuardReads
    <2>5. newest # NoRow
      BY <2>2 DEF Unopposed
    <2>6. newest \in journal[Peer(n)][Peer(n)]
      BY <2>4, <2>5, NewerIn
    <2>7. /\ \A q \in journal[Peer(n)][Peer(n)] : q.epoch \in Nat
          /\ Own(Peer(n)).epoch \in Nat /\ guard[n].synced.epoch \in Nat
      BY <1>1, <1>2, <2>4, LogRows DEF NoRow
    <2>8. \A q \in journal[Peer(n)][Peer(n)] : q.epoch <= newest.epoch
      BY <2>4, <2>7 DEF Newer
    <2> HIDE DEF newest
    <2>9. ~Armed(Peer(n)) /\ Buried(Peer(n))
      BY <2>2, <2>3, <2>6, <2>8, Clear
    <2> QED BY <2>1, <2>2, <2>3, <2>9
  <1>5. CASE GuardSeed(n)
    <2> DEFINE newest == Newer(guard[n].read.peer, Synced(n))
    <2>1. journal' \in [Node -> [Node -> SUBSET RoleRow]]
      BY <1>1 DEF TypeOK
    <2>2. /\ guard[n].pc = "seed" /\ paying' = paying /\ tip' = tip
          /\ guard'[n].confirmed =>
               \/ guard[n].confirmed
               \/ Own(n)'.owner /\ Unopposed(Own(n)', newest)
      BY <1>1, <1>5, <2>1, AfterSeed
    <2>3. SUFFICES ASSUME Own(n)'.owner, Unopposed(Own(n)', newest)
                   PROVE  /\ \E r \in journal'[n][n] : r.owner
                          /\ ~Armed(Peer(n)) /\ Buried(Peer(n))
      BY <1>5, <2>2 DEF Armed
    <2>4. Own(n)' \in journal'[n][n] /\ Own(n)' \in RoleRow
      <3>1. Own(n)' \in journal'[n][n] \cup {NoRow}
        BY LatestIn DEF Own
      <3> QED BY <2>1, <2>3, <3>1 DEF NoRow
    <2>5. Own(n)' \in journal[n][n] \/ Own(n)'.action = "seed"
      <3>1. CASE Kept
        BY <2>4, <3>1 DEF Kept
      <3>2. ASSUME NEW m \in Node, NEW row, Written(m, row)
            PROVE  Own(n)' \in journal[n][n] \/ Own(n)'.action = "seed"
        <4>1. CASE n = Peer(m)
          BY <2>4, <3>2, <4>1 DEF Written, Wrote
        <4>2. CASE n = m
          <5>1. Own(n)' = row
            BY <1>1, <3>2, <4>2, WrittenTop DEF Written
          <5>2. ~WroteRelease(n, row) /\ ~WroteAcquire(n, row)
            <6>1. guard'[n] # guard[n]
              BY <1>1, <1>5, <2>1, AfterSeed DEF Decided
            <6>2. ASSUME Release(n) \/ TransferAcquire(n)
                  PROVE  guard' = guard
              BY <6>2, Zenon DEF Release, TransferAcquire, frontend
            <6> QED BY <6>1, <6>2 DEF WroteRelease, WroteAcquire
          <5> QED BY <3>2, <4>2, <5>1, <5>2 DEF Written, WroteSeed
        <4> QED BY <4>1, <4>2 DEF Node, Peer
      <3> QED BY <1>1, <3>1, <3>2, Logs
    <2>6. /\ guard[n].maySeed
          /\ guard[n].read.peer \in journal[Peer(n)][Peer(n)] \cup {NoRow}
          /\ Synced(n) \in journal[Peer(n)][Peer(n)] \cup {NoRow}
      BY <1>1, <2>2, SyncedIn DEF GateInv, GuardReads
    <2>7. newest # NoRow
      BY <2>3 DEF Unopposed
    <2>8. newest \in journal[Peer(n)][Peer(n)]
      BY <2>6, <2>7, NewerIn
    <2> HIDE DEF newest
    <2>9. ASSUME NEW own, own = Own(n)'
          PROVE  ~Armed(Peer(n)) /\ Buried(Peer(n))
      BY <2>3, <2>4, <2>5, <2>6, <2>8, <2>9, ClearSeed
    <2> QED BY <2>3, <2>4, <2>9
  <1>6. CASE GuardSeedFails(n)
    <2>1. paying' = paying /\ guard'[n].confirmed = guard[n].confirmed
      BY <1>1, <1>6, AfterSeedFails
    <2> QED BY <2>1 DEF Armed
  <1>7. CASE GuardApply(n)
    <2>1. /\ paying'[n] = guard[n].confirmed
          /\ guard'[n].confirmed = guard[n].confirmed
      BY <1>1, <1>7, AfterApply
    <2> QED BY <2>1 DEF Armed
  <1>8. CASE Restart(n)
    <2>1. paying'[n] = FALSE /\ guard'[n] = NewGuard
      BY <1>1, <1>8, AfterRestart
    <2>2. ~NewGuard.confirmed
      BY DEF NewGuard
    <2> QED BY <2>1, <2>2
  <1>9. CASE TipAdvance
    <2>1. paying' = paying /\ guard'[n].confirmed = guard[n].confirmed
      BY <1>1, <1>9, AfterBlock
    <2> QED BY <2>1 DEF Armed
  <1>10. CASE guard'[n] = guard[n] /\ paying'[n] = paying[n] /\ tip' = tip
    BY <1>10 DEF Armed
  <1> QED
    BY <1>1, <1>3, <1>4, <1>5, <1>6, <1>7, <1>8, <1>9, <1>10, GuardMoves

\* The guard that opens one gate leaves the other alone.
LEMMA OneGuardMoves ==
  ASSUME TypeOK, NEW n \in Node, GuardReadPeer(n) \/ GuardSeed(n)
  PROVE  guard'[Peer(n)] = guard[Peer(n)] /\ paying' = paying
  <1>1. CASE GuardReadPeer(n)
    BY <1>1, PeerType DEF GuardReadPeer, GuardReadPeerAs, TypeOK
  <1>2. CASE GuardSeed(n)
    BY <1>2, PeerType DEF GuardSeed, TypeOK
  <1> QED BY <1>1, <1>2

\* While one gate is open, or opens, the other is shut.
LEMMA PeerShut ==
  ASSUME GateInv, NoRestores, [Next]_vars, NEW n \in Node,
         paying'[n] \/ guard'[n].confirmed
  PROVE  ~(paying'[Peer(n)] \/ guard'[Peer(n)].confirmed)
  <1>1. Peer(n) \in Node /\ Peer(Peer(n)) = n /\ TypeOK
    BY DEF Node, Peer, GateInv, AgreeInv
  <1>2. ~(Armed(n) /\ Armed(Peer(n)))
    BY DEF GateInv, OneArmed, Node, Peer
  <1>3. CASE Armed(n)
    <2>1. ASSUME paying'[Peer(n)] \/ guard'[Peer(n)].confirmed
          PROVE  FALSE
      BY <1>1, <1>2, <1>3, <2>1, Arming
    <2> QED BY <2>1
  <1>4. CASE ~Armed(n)
    <2>1. ~Armed(Peer(n)) /\ (GuardReadPeer(n) \/ GuardSeed(n))
      BY <1>4, Arming
    <2> QED BY <1>1, <2>1, OneGuardMoves DEF Armed
  <1> QED BY <1>3, <1>4

\* One gate stays open at most, and only over a claim.
LEMMA OneArmedStep ==
  ASSUME GateInv, NoRestores, [Next]_vars
  PROVE  OneArmed'
  <1>1. ~((paying'[0] \/ guard'[0].confirmed)
            /\ (paying'[1] \/ guard'[1].confirmed))
    <2>1. 0 \in Node /\ Peer(0) = 1
      BY DEF Node, Peer
    <2> QED BY <2>1, PeerShut
  <1>2. ASSUME NEW n \in Node, paying'[n] \/ guard'[n].confirmed
        PROVE  \E r \in journal'[n][n] : r.owner
    <2>1. journal[n][n] \subseteq journal'[n][n]
      BY LogsGrow DEF GateInv
    <2>2. CASE Armed(n)
      BY <2>1, <2>2 DEF GateInv, OneArmed, Owned
    <2> QED BY <1>2, <2>2, Arming
  <1> QED BY <1>1, <1>2 DEF OneArmed, Armed, Owned

\* What a step adds to the payments: a node that may pay pays on the tip.
LEMMA Payments ==
  ASSUME TypeOK, [Next]_vars, NEW n \in Node
  PROVE  \/ lastPaid'[n] = lastPaid[n]
         \/ paying'[n] /\ Own(n)'.owner /\ lastPaid'[n] = tip'
  <1>1. CASE Observe
    BY <1>1 DEF Observe, MayPay
  <1>2. CASE lastPaid' = lastPaid
    BY <1>2
  <1>3. ASSUME NEW m \in Node,
               \/ GuardReadLocal(m) \/ GuardReadPeer(m) \/ GuardSeed(m)
               \/ GuardSeedFails(m) \/ GuardApply(m) \/ Release(m)
               \/ TransferCheck(m) \/ TransferCopy(m) \/ TransferAcquire(m)
               \/ TransferStop(m) \/ LatchWithoutPeer(m)
               \/ RecoverOwnLog(m) \/ RecoverOwnLogStops(m) \/ PullRoles(m)
               \/ Backup(m) \/ Restore(m) \/ Restart(m)
        PROVE  Observe \/ lastPaid' = lastPaid
    BY <1>3, Zenon DEF GuardReadLocal, GuardReadPeer, GuardReadPeerAs,
       GuardSeed, GuardSeedFails, GuardApply, Release, TransferCheck,
       TransferCopy, TransferAcquire, TransferStop, LatchWithoutPeer,
       RecoverOwnLog, RecoverOwnLogStops, PullRoles, Backup, Restore, Restart
  <1>4. CASE TipAdvance
    BY <1>1, <1>4 DEF TipAdvance
  <1>5. CASE UNCHANGED vars
    BY <1>2, <1>5 DEF vars
  <1> QED BY <1>1, <1>2, <1>3, <1>4, <1>5, Zenon DEF Next

\* What a node pays stays buried under the other's gate, and behind its own
\* release.
LEMMA BurialStep ==
  ASSUME GateInv, NoRestores, [Next]_vars
  PROVE  Burial'
  <1> SUFFICES ASSUME NEW n \in Node
               PROVE  /\ paying'[n] \/ guard'[n].confirmed =>
                           \/ lastPaid'[Peer(n)] = -1
                           \/ tip' >= lastPaid'[Peer(n)] + ReleaseDepth
                      /\ lastPaid'[n] <= tip'
                      /\ lastPaid'[n] # -1 => \E r \in journal'[n][n] : r.owner
                      /\ Own(n)'.action = "release" =>
                           lastPaid'[n] <= Own(n)'.tip
    BY DEF Burial, Armed, Buried, Owned
  <1>1. /\ TypeOK /\ TypeOK' /\ Peer(n) \in Node
        /\ journal[n][n] \subseteq journal'[n][n]
    BY TypeNext, LogsGrow, PeerType DEF GateInv, AgreeInv
  <1>2. /\ tip \in Nat /\ tip' \in Nat /\ tip <= tip'
        /\ lastPaid[n] \in Nat \cup {-1} /\ lastPaid[Peer(n)] \in Nat \cup {-1}
    BY <1>1, Blocks DEF TypeOK
  <1>3. ASSUME paying'[n] \/ guard'[n].confirmed
        PROVE  \/ lastPaid'[Peer(n)] = -1
               \/ tip' >= lastPaid'[Peer(n)] + ReleaseDepth
    <2>1. lastPaid'[Peer(n)] = lastPaid[Peer(n)]
      BY <1>1, <1>3, Payments, PeerShut
    <2>2. Buried(Peer(n))
      BY <1>3, Arming DEF GateInv, Burial
    <2> QED BY <1>2, <2>1, <2>2, DepthAssumption DEF Buried
  <1>4. lastPaid'[n] <= tip'
    BY <1>1, <1>2, Payments DEF GateInv, Burial
  <1>5. ASSUME lastPaid'[n] # -1
        PROVE  \E r \in journal'[n][n] : r.owner
    <2>1. CASE lastPaid'[n] = lastPaid[n]
      BY <1>1, <1>5, <2>1 DEF GateInv, Burial, Owned
    <2>2. CASE Own(n)'.owner
      <3>1. Own(n)' \in journal'[n][n] \cup {NoRow}
        BY LatestIn DEF Own
      <3> QED BY <2>2, <3>1 DEF NoRow
    <2> QED BY <1>1, <2>1, <2>2, Payments
  <1>6. ASSUME Own(n)'.action = "release"
        PROVE  lastPaid'[n] <= Own(n)'.tip
    <2>1. CASE Own(n)' = Own(n)
      <3>1. ~Own(n).owner /\ lastPaid[n] <= Own(n).tip
        BY <1>6, <2>1, ReleaseIn DEF GateInv, Burial
      <3>2. lastPaid'[n] = lastPaid[n]
        BY <1>1, <2>1, <3>1, Payments
      <3> QED BY <2>1, <3>1, <3>2
    <2>2. CASE Release(n) /\ Own(n)'.tip = tip
      <3>1. lastPaid'[n] = lastPaid[n]
        BY <2>2 DEF Release
      <3> QED BY <2>2, <3>1 DEF GateInv, Burial
    <2> QED BY <1>6, <2>1, <2>2, OwnRelease
  <1> QED BY <1>3, <1>4, <1>5, <1>6

-----------------------------------------------------------------------------
(* The theorems.                                                           *)

\* Empty journals, closed gates and idle guards satisfy all of it.
LEMMA GateInit == Init => GateInv
  <1> SUFFICES ASSUME Init PROVE GateInv
    OBVIOUS
  <1>1. \A n, o \in Node : journal[n][o] = {} /\ backup[n].rows[o] = {}
    BY DEF Init
  <1>2. \A n \in Node : /\ guard[n] = NewGuard /\ transfer[n] = NoTransfer
                        /\ paying[n] = FALSE /\ lastPaid[n] = -1
    BY DEF Init
  <1>3. /\ NewGuard.own = NoRow /\ NewGuard.synced = NoRow
        /\ NewGuard.pc = "idle" /\ NewGuard.maySeed = FALSE
        /\ NewGuard.confirmed = FALSE /\ NoTransfer.pc = "none"
        /\ NoRow.action = "none"
    BY DEF NewGuard, NoTransfer, NoRow
  <1>4. \A n \in Node : Own(n) = NoRow
    BY <1>1, LatestIn DEF Own
  <1>5. 0 \in Node /\ \A n \in Node : Peer(n) \in Node
    BY DEF Node, Peer
  <1>6. tip = 0
    BY DEF Init
  <1>7. AgreeInv
    BY AgreeInit
  <1>8. CopiesBehind /\ RowsWritten /\ TransfersVetted
    BY <1>1, <1>2, <1>3, <1>5
    DEF CopiesBehind, Topped, RowsWritten, TransfersVetted
  <1>9. GuardReads
    BY <1>2, <1>3 DEF GuardReads
  <1>10. FirstCheck
    BY <1>2, <1>3 DEF FirstCheck
  <1>11. ReleaseSeen
    BY <1>3, <1>4 DEF ReleaseSeen
  <1>12. OneArmed
    BY <1>2, <1>3, <1>5 DEF OneArmed, Armed
  <1>13. Burial
    BY <1>2, <1>3, <1>4, <1>6 DEF Burial, Armed
  <1> QED BY <1>7, <1>8, <1>9, <1>10, <1>11, <1>12, <1>13 DEF GateInv

\* Every step of either node, of an operator or of the chain keeps it.
LEMMA GateNext ==
  ASSUME NoRestores, GateInv, [Next]_vars
  PROVE  GateInv'
  <1>1. AgreeInv'
    BY AgreeNext DEF GateInv
  <1>2. CopiesBehind' /\ RowsWritten' /\ TransfersVetted' /\ GuardReads'
    BY CopiesStep, RowsStep, TransfersStep, ReadsStep DEF GateInv
  <1>3. FirstCheck' /\ ReleaseSeen' /\ OneArmed' /\ Burial'
    BY FirstCheckStep, ReleaseSeenStep, OneArmedStep, BurialStep
  <1> QED BY <1>1, <1>2, <1>3 DEF GateInv

(***************************************************************************)
(* The invariant of the pair: what the journals, the transfers and the two *)
(* guards say of one another (carry_owner.rs, run, check and transfer).    *)
(***************************************************************************)
THEOREM GateInvariant ==
  ASSUME NoRestores
  PROVE  Spec => []GateInv
  <1>1. GateInv /\ [Next]_vars => GateInv'
    BY GateNext
  <1> QED BY GateInit, <1>1, PTL DEF Spec

(***************************************************************************)
(* Of the two nodes at most one builds work that pays carried balances,    *)
(* however the checks, seeds, releases and concurrent transfers of the two *)
(* interleave, frontends restart and the peer answers late, through a      *)
(* lagging copy or not at all, as long as no database is restored.         *)
(***************************************************************************)
THEOREM OnePayer ==
  ASSUME NoRestores
  PROVE  Spec => []AtMostOnePayer
  <1>1. GateInv => AtMostOnePayer
    BY DEF GateInv, OneArmed, Armed, AtMostOnePayer, MayPay
  <1> QED BY GateInvariant, <1>1, PTL

(***************************************************************************)
(* A node that pays carried balances pays on a chain that buries what the  *)
(* other one paid release-depth blocks deep, whatever moved ownership: a   *)
(* release its guard had not seen yet, a transfer already checked, or a    *)
(* first seed.                                                             *)
(***************************************************************************)
THEOREM PaidOverBuried ==
  ASSUME NoRestores
  PROVE  Spec => []HandoverBuried
  <1>1. GateInv => HandoverBuried
    BY DEF GateInv, Burial, Buried, Armed, HandoverBuried, MayPay
  <1> QED BY GateInvariant, <1>1, PTL

-----------------------------------------------------------------------------
(* Seeds come before acquires.                                             *)

(***************************************************************************)
(* One of the databases is never restored: the keeper's.  What it holds it *)
(* holds for good, so an acquire leaves a trace no restore removes: the    *)
(* keeper's acquire copied a row of the other node first, and the other    *)
(* node's acquire was over a row of the keeper's.  The node whose own log  *)
(* is gone meets that trace in check before it seeds.                      *)
(***************************************************************************)
OneRestored == \E n \in Node : MaxRestores[n] = 0

\* A backup holds nothing its database lacks.
BackupsBehind ==
    \A n, o \in Node : backup[n].rows[o] \subseteq journal[n][o]

\* A log that is never lost holds every copy of its rows.
LogsKept ==
    \A n \in Node : MaxRestores[n] = 0 => Copies(n) \subseteq journal[n][n]

\* The rows of a log, wherever they are.
RowsShaped ==
    \A n \in Node : \A r \in Copies(n) :
      /\ r.epoch >= 1
      /\ r.action \in {"seed", "release", "acquire"}
      /\ r.action = "acquire" => r.owner

\* The row of the peer's a transfer goes over.
Taken(n) == Newer(transfer[n].live, transfer[n].synced)

\* A transfer goes over a row that disowns, a release only when it is buried.
TransfersOver ==
    \A n \in Node : transfer[n].pc # "none" =>
      /\ Taken(n) # NoRow /\ ~Taken(n).owner
      /\ transfer[n].tip <= tip
      /\ Taken(n).action = "release" =>
            transfer[n].tip >= Taken(n).tip + ReleaseDepth

Acquired(n) == \E a \in Copies(n) : a.action = "acquire"

\* What an acquire leaves where nothing is lost.
TraceKept ==
    \A n \in Node : Acquired(n) =>
      /\ MaxRestores[n] = 0 => journal[n][Peer(n)] # {}
      /\ MaxRestores[Peer(n)] = 0 => journal[Peer(n)][Peer(n)] # {}

\* A row written during the check that goes on: at most one block came since.
Young(n, r) ==
    \/ r.action = "acquire"
    \/ /\ r.action = "release" /\ tip <= r.tip + 1
       /\ guard[n].began => tip <= r.tip

\* Nothing of n's is older than its check, and the peer never acquired.
Untaken(n) ==
    /\ \A r \in Copies(n) : Young(n, r)
    /\ ~Acquired(Peer(n))

(***************************************************************************)
(* A check that may seed: what the node's log holds was written meanwhile; *)
(* once the peer's primary knew no row of it, or where nothing is lost,    *)
(* that is so of every copy and the peer never took ownership.             *)
(***************************************************************************)
SeedChecks ==
    \A n \in Node :
      /\ guard[n].pc = "seed" => guard[n].maySeed
      /\ guard[n].maySeed =>
           /\ guard[n].pc \in {"local", "seed"} /\ caughtUp[n]
           /\ \A r \in journal[n][n] : Young(n, r)
           /\ guard[n].pc = "seed" \/ MaxRestores[n] = 0 => Untaken(n)

\* NoReseedAfterHandover, of every copy of a row.
SeedsFirst ==
    \A n \in Node : \A s \in Copies(n), a \in Copies(Peer(n)) :
        s.action = "seed" /\ a.action = "acquire" => s.epoch < a.epoch

SeedInv ==
    /\ AgreeInv
    /\ BackupsBehind
    /\ LogsKept
    /\ RowsShaped
    /\ TransfersOver
    /\ TraceKept
    /\ SeedChecks
    /\ SeedsFirst

-----------------------------------------------------------------------------
(* What a step does to the databases.                                      *)

\* Numbers have a least one.
LEMMA LeastNumber ==
  ASSUME NEW N \in SUBSET Nat, N # {}
  PROVE  \E m \in N : \A k \in N : m <= k
  <1>1. PICK m \in N : \A k \in N : ~(<<k, m>> \in OpToRel(<, Nat))
    BY NatLessThanWellFounded, WFMin
  <1>2. ASSUME NEW k \in N PROVE m <= k
    <2>1. k \in Nat /\ m \in Nat
      OBVIOUS
    <2>2. ~(k < m)
      BY <1>1, <2>1 DEF OpToRel
    <2> QED BY <2>1, <2>2
  <1> QED BY <1>2

\* Where rows are dated, reading none means that there is none.
LEMMA ReadNone ==
  ASSUME AgreeInv, RowsShaped, NEW o \in Node, NEW rows \in SUBSET Copies(o),
         Latest(rows) = NoRow
  PROVE  rows = {}
  <1> SUFFICES ASSUME rows # {} PROVE FALSE
    OBVIOUS
  <1>1. /\ rows \in SUBSET RoleRow /\ clock \in Nat
        /\ \A r \in rows : /\ r.epoch \in Nat /\ r.epoch < clock
                           /\ r.epoch >= 1
    BY CopiesType DEF AgreeInv, TypeOK, EpochsPast, RoleRow, RowsShaped
  <1> DEFINE age(r) == clock - r.epoch
             ages == {age(r) : r \in rows}
  <1>2. ages \subseteq Nat /\ ages # {}
    BY <1>1
  <1>3. PICK m \in ages : \A k \in ages : m <= k
    <2> HIDE DEF ages
    <2> QED BY <1>2, LeastNumber
  <1>4. PICK r \in rows : m = age(r)
    OBVIOUS
  <1>5. \A q \in rows : q.epoch <= r.epoch
    <2>1. ASSUME NEW q \in rows PROVE q.epoch <= r.epoch
      <3>1. m <= age(q)
        BY <1>3
      <3> QED BY <1>1, <1>4, <3>1
    <2> QED BY <2>1
  <1>6. Latest(rows) \in rows
    BY <1>1, <1>5, LatestTop DEF Topped
  <1> QED BY <1>1, <1>6 DEF NoRow

\* A row just written to n's log, and what its writer had read.
Fresh(n, r) ==
    /\ r \in RoleRow /\ r.epoch = clock
    /\ \/ /\ r.action = "seed"
          /\ guard[n].pc = "seed" /\ guard'[n].pc # "seed"
          /\ ~guard'[n].maySeed /\ Own(n) = NoRow
       \/ /\ r.action = "release" /\ ~r.owner /\ r.tip = tip
          /\ guard'[n] = guard[n] /\ tip' = tip
       \/ /\ r.action = "acquire" /\ r.owner
          /\ transfer[n].pc = "copied" /\ Synced(n) = Taken(n)
          /\ guard'[n] = guard[n] /\ tip' = tip

\* A database grows by rows of the peer's own log, by what its node writes,
\* and while its frontend is not caught up by copies of its own rows.
Grows(n) ==
    /\ backup'[n] = backup[n]
    /\ \A o \in Node : journal[n][o] \subseteq journal'[n][o]
    /\ journal'[n][Peer(n)]
          \subseteq journal[n][Peer(n)] \cup journal[Peer(n)][Peer(n)]
    /\ \A r \in journal'[n][n] : \/ r \in journal[n][n]
                                 \/ r \in Copies(n) /\ ~caughtUp[n]
                                 \/ Fresh(n, r)

Saved(n) ==
    /\ journal'[n] = journal[n]
    /\ \A o \in Node : backup'[n].rows[o] = journal[n][o]

Lost(n) ==
    /\ MaxRestores[n] # 0 /\ backup'[n] = backup[n]
    /\ \A o \in Node : journal'[n][o] = backup[n].rows[o]

LEMMA Unmoved ==
  ASSUME NEW n \in Node, journal'[n] = journal[n], backup'[n] = backup[n]
  PROVE  Grows(n)
  BY DEF Grows

\* append_role writes one fresh row.
LEMMA AppendGrows ==
  ASSUME AgreeInv, NEW n \in Node, NEW owner \in BOOLEAN,
         NEW action \in Action, NEW height \in Nat, NEW peerEpoch \in Nat,
         AppendRole(n, owner, action, height, peerEpoch), backup' = backup,
         \A r \in RoleRow :
            (/\ r.epoch = clock /\ r.owner = owner /\ r.action = action
             /\ r.tip = height) => Fresh(n, r)
  PROVE  \A m \in Node : Grows(m)
  <1> DEFINE row == [epoch |-> clock, owner |-> owner, action |-> action,
                     tip |-> height, peerEpoch |-> peerEpoch]
  <1>1. journal' = [journal EXCEPT ![n][n] = @ \cup {row}]
    BY NextEpochIsClock DEF AppendRole
  <1>2. row \in RoleRow /\ row.epoch = clock /\ row.owner = owner
        /\ row.action = action /\ row.tip = height
    BY DEF AgreeInv, TypeOK, RoleRow
  <1> HIDE DEF row
  <1>3. Fresh(n, row)
    BY <1>2
  <1>4. journal \in [Node -> [Node -> SUBSET RoleRow]]
    BY DEF AgreeInv, TypeOK
  <1>5. ASSUME NEW m \in Node, m # n PROVE Grows(m)
    BY <1>1, <1>4, <1>5, Unmoved
  <1>6. Grows(n)
    BY <1>1, <1>3, <1>4, PeerType DEF Grows
  <1> QED BY <1>5, <1>6

\* A step grows a database, saves it, or takes it back to its backup.
LEMMA Databases ==
  ASSUME AgreeInv, [Next]_vars, NEW m \in Node
  PROVE  Grows(m) \/ Saved(m) \/ Lost(m)
  <1>0. /\ TypeOK /\ journal \in [Node -> [Node -> SUBSET RoleRow]]
        /\ backup \in [Node -> Database] /\ guard \in [Node -> GuardState]
        /\ tip \in Nat
    BY DEF AgreeInv, TypeOK
  <1>1. ASSUME UNCHANGED <<journal, backup>>
        PROVE  Grows(m)
    BY <1>1, Unmoved
  <1>2. CASE UNCHANGED vars \/ TipAdvance
    BY <1>1, <1>2, Zenon DEF TipAdvance, vars, databases
  <1>3. ASSUME NEW n \in Node,
               \/ GuardReadLocal(n) \/ GuardReadPeer(n) \/ GuardApply(n)
               \/ TransferCheck(n) \/ TransferStop(n)
               \/ LatchWithoutPeer(n) \/ Restart(n)
        PROVE  UNCHANGED <<journal, backup>>
    BY <1>3, Zenon DEF GuardReadLocal, GuardReadPeer, GuardReadPeerAs,
       GuardApply, TransferCheck, TransferStop, LatchWithoutPeer, Restart,
       databases
  <1>4. ASSUME NEW n \in Node, GuardSeed(n) \/ GuardSeedFails(n)
        PROVE  Grows(m)
    <2>1. /\ guard[n].pc = "seed" /\ backup' = backup
          /\ \/ Own(n) = NoRow /\ AppendRole(n, env[n], "seed", 0, 0)
             \/ UNCHANGED <<journal, clock>>
      BY <1>4, Zenon DEF GuardSeed, GuardSeedFails
    <2>2. CASE UNCHANGED <<journal, clock>>
      BY <1>1, <2>1, <2>2
    <2>3. CASE Own(n) = NoRow /\ AppendRole(n, env[n], "seed", 0, 0)
      <3>1. guard'[n].pc # "seed" /\ ~guard'[n].maySeed
        <4>1. CASE GuardSeed(n)
          <5>1. TypeOK'
            BY <1>0, TypeNext
          <5>2. Decided(n, guard[n].began)
            BY <1>0, <4>1, <5>1, AfterSeed DEF TypeOK
          <5> QED BY <5>2 DEF Decided
        <4>2. CASE GuardSeedFails(n)
          BY <1>0, <4>2, AfterSeedFails
        <4> QED BY <1>4, <4>1, <4>2
      <3>2. \A r \in RoleRow :
               (/\ r.epoch = clock /\ r.owner = env[n] /\ r.action = "seed"
                /\ r.tip = 0) => Fresh(n, r)
        BY <2>1, <2>3, <3>1 DEF Fresh
      <3>3. env[n] \in BOOLEAN /\ "seed" \in Action /\ 0 \in Nat
        BY <1>0 DEF TypeOK, Action
      <3> QED BY <2>1, <2>3, <3>2, <3>3, AppendGrows
    <2> QED BY <2>1, <2>2, <2>3
  <1>5. ASSUME NEW n \in Node, Release(n)
        PROVE  Grows(m)
    <2>0. PICK no \in BOOLEAN : no = FALSE
      OBVIOUS
    <2>1. /\ AppendRole(n, no, "release", tip, 0)
          /\ backup' = backup /\ guard' = guard /\ tip' = tip
      BY <1>5, <2>0, Zenon DEF Release, frontend
    <2>2. \A r \in RoleRow :
             (/\ r.epoch = clock /\ r.owner = no /\ r.action = "release"
              /\ r.tip = tip) => Fresh(n, r)
      BY <2>0, <2>1 DEF Fresh
    <2>3. "release" \in Action /\ 0 \in Nat
      BY DEF Action
    <2> QED BY <1>0, <2>1, <2>2, <2>3, AppendGrows
  <1>6. ASSUME NEW n \in Node, TransferAcquire(n)
        PROVE  Grows(m)
    <2>0. PICK yes \in BOOLEAN : yes = TRUE
      OBVIOUS
    <2>1. /\ transfer[n].pc = "copied" /\ Synced(n) = Taken(n)
          /\ AppendRole(n, yes, "acquire", transfer[n].tip, Taken(n).epoch)
          /\ backup' = backup /\ guard' = guard /\ tip' = tip
      BY <1>6, <2>0, Zenon DEF TransferAcquire, frontend, Taken
    <2>2. \A r \in RoleRow :
             (/\ r.epoch = clock /\ r.owner = yes /\ r.action = "acquire"
              /\ r.tip = transfer[n].tip) => Fresh(n, r)
      BY <2>0, <2>1 DEF Fresh
    <2>3. "acquire" \in Action /\ transfer[n].tip \in Nat
          /\ Taken(n).epoch \in Nat
      BY <1>0 DEF TypeOK, TransferState, RoleRow, Newer, Taken, Action
    <2> QED BY <2>1, <2>2, <2>3, AppendGrows
  <1>7. ASSUME NEW n \in Node, TransferCopy(n)
        PROVE  Grows(m)
    <2> DEFINE latest == Latest(journal[Peer(n)][Peer(n)])
    <2>1. /\ latest # NoRow
          /\ journal' = [journal EXCEPT ![n][Peer(n)] = @ \cup {latest}]
          /\ backup' = backup
      BY <1>7, Zenon DEF TransferCopy
    <2>2. latest \in journal[Peer(n)][Peer(n)]
      BY <2>1, LatestIn
    <2> HIDE DEF latest
    <2>3. m # n => Grows(m)
      BY <1>0, <2>1, Unmoved
    <2>4. Grows(n)
      BY <1>0, <2>1, <2>2, PeerType DEF Grows
    <2> QED BY <2>3, <2>4
  <1>8. ASSUME NEW n \in Node, PullRoles(n)
        PROVE  Grows(m)
    <2>1. /\ journal' = [journal EXCEPT
                ![n][Peer(n)] = @ \cup journal[Peer(n)][Peer(n)]]
          /\ backup' = backup
      BY <1>8, Zenon DEF PullRoles
    <2>2. m # n => Grows(m)
      BY <1>0, <2>1, Unmoved
    <2>3. Grows(n)
      BY <1>0, <2>1, PeerType DEF Grows
    <2> QED BY <2>2, <2>3
  <1>9. ASSUME NEW n \in Node, RecoverOwnLog(n) \/ RecoverOwnLogStops(n)
        PROVE  Grows(m)
    <2>1. PICK rows \in {journal[Peer(n)][n], backup[Peer(n)].rows[n]} :
             journal' = [journal EXCEPT ![n][n] = @ \cup rows]
      BY <1>9, Zenon DEF RecoverOwnLog, RecoverOwnLogStops
    <2>2. backup' = backup /\ ~caughtUp[n]
      BY <1>9, Zenon DEF RecoverOwnLog, RecoverOwnLogStops
    <2>3. rows \subseteq Copies(n)
      BY <2>1 DEF Copies, Node, Peer
    <2>4. m # n => Grows(m)
      BY <1>0, <2>1, <2>2, Unmoved
    <2>5. Grows(n)
      BY <1>0, <2>1, <2>2, <2>3, PeerType DEF Grows
    <2> QED BY <2>4, <2>5
  <1>10. ASSUME NEW n \in Node, Backup(n)
         PROVE  Grows(m) \/ Saved(m)
    <2>1. /\ journal' = journal
          /\ backup' = [backup EXCEPT ![n] =
                [rows |-> journal[n], verified |-> verified[n]]]
      BY <1>10, Zenon DEF Backup
    <2>2. m # n => Grows(m)
      BY <1>0, <2>1, Unmoved
    <2>3. Saved(n)
      BY <1>0, <2>1 DEF Saved
    <2> QED BY <2>2, <2>3
  <1>11. ASSUME NEW n \in Node, Restore(n)
         PROVE  Grows(m) \/ Lost(m)
    <2>1. /\ journal' = [journal EXCEPT ![n] = backup[n].rows]
          /\ backup' = backup /\ restores[n] < MaxRestores[n]
      BY <1>11, Zenon DEF Restore
    <2>2. m # n => Grows(m)
      BY <1>0, <2>1, Unmoved
    <2>3. restores[n] \in Nat
      BY <1>0 DEF TypeOK
    <2>4. Lost(n)
      BY <1>0, <2>1, <2>3 DEF Lost
    <2> QED BY <2>2, <2>4
  <1> QED BY <1>1, <1>2, <1>3, <1>4, <1>5, <1>6, <1>7, <1>8, <1>9, <1>10,
             <1>11, Zenon DEF Next

\* Every copy of a row was there, but for the one just written.
LEMMA CopiesMove ==
  ASSUME AgreeInv, [Next]_vars, NEW n \in Node
  PROVE  \A r \in Copies(n)' :
            \/ r \in Copies(n)
            \/ r \in journal'[n][n] /\ Fresh(n, r)
  <1> DEFINE p == Peer(n)
  <1>1. p \in Node /\ Peer(p) = n
    BY DEF Node, Peer
  <1>2. Copies(n)' = journal'[n][n] \cup journal'[p][n]
                       \cup backup'[n].rows[n] \cup backup'[p].rows[n]
    BY DEF Copies, Node, Peer
  <1>3. Copies(n) = journal[n][n] \cup journal[p][n]
                       \cup backup[n].rows[n] \cup backup[p].rows[n]
    BY DEF Copies, Node, Peer
  <1>4. \A r \in journal'[n][n] : r \in Copies(n) \/ Fresh(n, r)
    BY <1>3, Databases DEF Grows, Saved, Lost
  <1>5. journal'[p][n] \subseteq Copies(n)
    BY <1>1, <1>3, Databases DEF Grows, Saved, Lost
  <1>6. backup'[n].rows[n] \subseteq Copies(n)
    BY <1>3, Databases DEF Grows, Saved, Lost
  <1>7. backup'[p].rows[n] \subseteq Copies(n)
    BY <1>1, <1>3, Databases DEF Grows, Saved, Lost
  <1> QED BY <1>2, <1>4, <1>5, <1>6, <1>7

\* Where nothing is lost, rows stay.
LEMMA KeeperKeeps ==
  ASSUME AgreeInv, [Next]_vars, NEW n \in Node, MaxRestores[n] = 0
  PROVE  \A o \in Node : journal[n][o] \subseteq journal'[n][o]
  BY Databases DEF Grows, Saved, Lost

\* A log's copies are where they may be.
LEMMA CopiesOf ==
  ASSUME NEW n \in Node
  PROVE  Copies(n) = journal[n][n] \cup journal[Peer(n)][n]
                       \cup backup[n].rows[n] \cup backup[Peer(n)].rows[n]
  BY DEF Copies, Node, Peer

-----------------------------------------------------------------------------
(* The parts of the invariant.                                             *)

LEMMA BackupsStep ==
  ASSUME AgreeInv, BackupsBehind, [Next]_vars
  PROVE  BackupsBehind'
  <1> SUFFICES ASSUME NEW n \in Node, NEW o \in Node
               PROVE  backup'[n].rows[o] \subseteq journal'[n][o]
    BY DEF BackupsBehind
  <1>1. backup[n].rows[o] \subseteq journal[n][o]
    BY DEF BackupsBehind
  <1> QED BY <1>1, Databases DEF Grows, Saved, Lost

LEMMA LogsKeptStep ==
  ASSUME AgreeInv, LogsKept, [Next]_vars
  PROVE  LogsKept'
  <1> SUFFICES ASSUME NEW n \in Node, MaxRestores[n] = 0,
                      NEW r \in Copies(n)'
               PROVE  r \in journal'[n][n]
    BY DEF LogsKept
  <1> QED BY CopiesMove, KeeperKeeps DEF LogsKept

LEMMA ShapedStep ==
  ASSUME AgreeInv, RowsShaped, [Next]_vars
  PROVE  RowsShaped'
  <1> SUFFICES ASSUME NEW n \in Node, NEW r \in Copies(n)'
               PROVE  /\ r.epoch >= 1
                      /\ r.action \in {"seed", "release", "acquire"}
                      /\ r.action = "acquire" => r.owner
    BY DEF RowsShaped
  <1>1. CASE r \in Copies(n)
    BY <1>1 DEF RowsShaped
  <1>2. CASE Fresh(n, r)
    BY <1>2 DEF Fresh, AgreeInv, EpochsPast
  <1> QED BY <1>1, <1>2, CopiesMove

\* A transfer is checked over what the journals show, and the chain grows.
LEMMA TransfersOverStep ==
  ASSUME AgreeInv, TransfersOver, [Next]_vars
  PROVE  TransfersOver'
  <1> SUFFICES ASSUME NEW n \in Node, transfer'[n].pc # "none"
               PROVE  /\ Taken(n)' # NoRow /\ ~Taken(n)'.owner
                      /\ transfer'[n].tip <= tip'
                      /\ Taken(n)'.action = "release" =>
                           transfer'[n].tip >= Taken(n)'.tip + ReleaseDepth
    BY DEF TransfersOver
  <1>1. /\ TypeOK /\ tip \in Nat /\ tip' \in Nat /\ tip <= tip'
        /\ transfer \in [Node -> TransferState] /\ transfer[n].tip \in Nat
    BY Blocks DEF AgreeInv, TypeOK, TransferState
  <1>2. CASE /\ transfer[n].pc # "none"
             /\ transfer'[n].live = transfer[n].live
             /\ transfer'[n].synced = transfer[n].synced
             /\ transfer'[n].tip = transfer[n].tip
    <2>1. Taken(n)' = Taken(n)
      BY <1>2 DEF Taken
    <2> QED BY <1>1, <1>2, <2>1 DEF TransfersOver
  <1>3. CASE TransferCheck(n)
    <2> DEFINE p == Peer(n)
               x == [pc |-> "checked", live |-> Latest(journal[p][p]),
                     own |-> Own(n), synced |-> Synced(n), tip |-> tip]
    <2>1. /\ transfer'[n] = x
          /\ TransferChecks(x, Latest(journal[p][n]), ClaimInSight(n))
      BY <1>1, <1>3 DEF TransferCheck
    <2>2. x.tip = tip
      OBVIOUS
    <2> HIDE DEF x
    <2>3. Taken(n)' = Newer(x.live, x.synced)
      BY <2>1 DEF Taken
    <2> QED BY <1>1, <2>1, <2>2, <2>3 DEF TransferChecks
  <1>4. CASE TransferCopy(n)
    BY <1>1, <1>2, <1>4 DEF TransferCopy, TransferState
  <1>5. CASE TransferAcquire(n) \/ TransferStop(n)
    <2>1. transfer' = [transfer EXCEPT ![n] = NoTransfer]
      BY <1>5, Zenon DEF TransferAcquire, TransferStop
    <2> QED BY <1>1, <2>1 DEF NoTransfer
  <1>6. ASSUME NEW m \in Node, m # n,
               \/ TransferCheck(m) \/ TransferCopy(m)
               \/ TransferAcquire(m) \/ TransferStop(m)
        PROVE  transfer'[n] = transfer[n]
    <2>1. \E x : transfer' = [transfer EXCEPT ![m] = x]
      BY <1>6 DEF TransferCheck, TransferCopy, TransferAcquire, TransferStop
    <2> QED BY <1>1, <1>6, <2>1
  <1>7. ASSUME NEW m \in Node,
               \/ GuardReadLocal(m) \/ GuardReadPeer(m) \/ GuardSeed(m)
               \/ GuardSeedFails(m) \/ GuardApply(m) \/ Release(m)
               \/ LatchWithoutPeer(m) \/ RecoverOwnLog(m)
               \/ RecoverOwnLogStops(m) \/ PullRoles(m) \/ Backup(m)
               \/ Restore(m) \/ Restart(m)
        PROVE  transfer'[n] = transfer[n]
    BY <1>7, Zenon DEF GuardReadLocal, GuardReadPeer, GuardReadPeerAs,
       GuardSeed, GuardSeedFails, GuardApply, Release, LatchWithoutPeer,
       RecoverOwnLog, RecoverOwnLogStops, PullRoles, Backup, Restore, Restart,
       frontend
  <1>8. CASE TipAdvance \/ UNCHANGED vars
    <2>1. transfer' = transfer
      BY <1>8, Zenon DEF TipAdvance, vars
    <2> QED BY <1>2, <2>1
  <1>9. CASE transfer'[n] = transfer[n]
    BY <1>2, <1>9
  <1> QED BY <1>3, <1>4, <1>5, <1>6, <1>7, <1>8, <1>9, Zenon DEF Next

\* An acquire is over a row the node holds of the peer's.
LEMMA FreshAcquire ==
  ASSUME AgreeInv, TransfersOver, NEW n \in Node, NEW r, Fresh(n, r),
         r.action = "acquire"
  PROVE  /\ Taken(n) \in journal[n][Peer(n)]
         /\ ~Taken(n).owner
         /\ Taken(n).action = "release" => tip >= Taken(n).tip + ReleaseDepth
  <1>1. transfer[n].pc = "copied" /\ Synced(n) = Taken(n)
    BY DEF Fresh
  <1>2. /\ Taken(n) # NoRow /\ ~Taken(n).owner
        /\ transfer[n].tip <= tip
        /\ Taken(n).action = "release" =>
             transfer[n].tip >= Taken(n).tip + ReleaseDepth
    BY <1>1 DEF TransfersOver
  <1>3. Taken(n) \in journal[n][Peer(n)]
    BY <1>1, <1>2, LatestIn DEF Synced
  <1>4. transfer[n].tip \in Nat /\ tip \in Nat /\ Taken(n).tip \in Nat
    BY NoRowType DEF AgreeInv, TypeOK, TransferState, RoleRow, Taken, Newer
  <1> QED BY <1>2, <1>3, <1>4, DepthAssumption

\* What an acquire leaves stays where nothing is lost.
LEMMA TraceKeptStep ==
  ASSUME AgreeInv, LogsKept, TransfersOver, TraceKept, [Next]_vars
  PROVE  TraceKept'
  <1> SUFFICES ASSUME NEW n \in Node, NEW a \in Copies(n)',
                      a.action = "acquire"
               PROVE  /\ MaxRestores[n] = 0 => journal'[n][Peer(n)] # {}
                      /\ MaxRestores[Peer(n)] = 0 =>
                           journal'[Peer(n)][Peer(n)] # {}
    BY DEF TraceKept, Acquired
  <1>1. Peer(n) \in Node
    BY PeerType
  <1>2. CASE a \in Copies(n)
    <2>1. Acquired(n)
      BY <1>2 DEF Acquired
    <2>2. MaxRestores[n] = 0 => journal'[n][Peer(n)] # {}
      BY <1>1, <2>1, KeeperKeeps DEF TraceKept
    <2>3. MaxRestores[Peer(n)] = 0 => journal'[Peer(n)][Peer(n)] # {}
      BY <1>1, <2>1, KeeperKeeps DEF TraceKept
    <2> QED BY <2>2, <2>3
  <1>3. CASE Fresh(n, a)
    <2>1. Taken(n) \in journal[n][Peer(n)]
      BY <1>3, FreshAcquire
    <2>2. Taken(n) \in Copies(Peer(n))
      BY <2>1 DEF Copies, Node, Peer
    <2>3. MaxRestores[n] = 0 => Taken(n) \in journal'[n][Peer(n)]
      BY <1>1, <2>1, KeeperKeeps
    <2>4. MaxRestores[Peer(n)] = 0 => Taken(n) \in journal'[Peer(n)][Peer(n)]
      BY <1>1, <2>2, KeeperKeeps DEF LogsKept
    <2> QED BY <2>3, <2>4
  <1> QED BY <1>2, <1>3, CopiesMove

\* A peer cannot acquire over rows that are all younger than a check.
LEMMA StaysUntaken ==
  ASSUME AgreeInv, RowsShaped, TransfersOver, NEW n \in Node, Untaken(n),
         NEW a, Fresh(Peer(n), a), a.action = "acquire"
  PROVE  FALSE
  <1>1. Peer(n) \in Node /\ Peer(Peer(n)) = n
    BY DEF Node, Peer
  <1> DEFINE t == Taken(Peer(n))
  <1>2. /\ t \in journal[Peer(n)][n] /\ ~t.owner
        /\ t.action = "release" => tip >= t.tip + ReleaseDepth
    BY <1>1, FreshAcquire
  <1>3. t \in Copies(n) /\ t \in RoleRow /\ tip \in Nat
    BY <1>1, <1>2, CopiesOf, CopiesType DEF AgreeInv, TypeOK
  <1> HIDE DEF t
  <1>4. t.action = "release" /\ tip <= t.tip + 1
    BY <1>2, <1>3 DEF Untaken, Young, RowsShaped
  <1> QED BY <1>2, <1>3, <1>4, DepthAssumption DEF RoleRow

\* The latch of a running frontend stays.
LEMMA LatchStays ==
  ASSUME TypeOK, [Next]_vars, NEW n \in Node, caughtUp[n]
  PROVE  Restart(n) \/ caughtUp'[n]
  <1>1. ASSUME NEW m \in Node,
               \/ GuardReadLocal(m) \/ GuardReadPeer(m) \/ GuardSeed(m)
               \/ GuardSeedFails(m) \/ GuardApply(m)
               \/ Release(m) \/ TransferCheck(m) \/ TransferCopy(m)
               \/ TransferAcquire(m) \/ TransferStop(m)
               \/ RecoverOwnLogStops(m) \/ PullRoles(m)
               \/ Backup(m) \/ Restore(m)
        PROVE  caughtUp' = caughtUp
    BY <1>1, Zenon DEF GuardReadLocal, GuardReadPeer, GuardReadPeerAs,
       GuardSeed, GuardSeedFails, GuardApply, Release, TransferCheck,
       TransferCopy, TransferAcquire, TransferStop, RecoverOwnLogStops,
       PullRoles, Backup, Restore, frontend
  <1>2. ASSUME NEW m \in Node, LatchWithoutPeer(m) \/ RecoverOwnLog(m)
        PROVE  caughtUp'[n]
    <2>1. caughtUp' = [caughtUp EXCEPT ![m] = TRUE]
      BY <1>2, Zenon DEF LatchWithoutPeer, RecoverOwnLog
    <2> QED BY <2>1 DEF TypeOK
  <1>3. ASSUME NEW m \in Node, m # n, Restart(m)
        PROVE  caughtUp'[n]
    <2>1. caughtUp' = [caughtUp EXCEPT ![m] = FALSE]
      BY <1>3, Zenon DEF Restart
    <2> QED BY <1>3, <2>1 DEF TypeOK
  <1>4. CASE TipAdvance \/ UNCHANGED vars
    BY <1>4, Zenon DEF TipAdvance, vars
  <1> QED BY <1>1, <1>2, <1>3, <1>4, Zenon DEF Next

\* What the local read may start: a check that finds the node's log empty.
LEMMA MayStart ==
  ASSUME AgreeInv, RowsShaped, NEW n \in Node, GuardReadLocal(n),
         guard'[n].maySeed
  PROVE  /\ guard'[n].pc = "local" /\ caughtUp'[n]
         /\ journal[n][n] = {} /\ journal' = journal /\ backup' = backup
  <1> DEFINE g == [guard[n] EXCEPT
                !.pc = "local",
                !.own = Own(n), !.synced = Synced(n),
                !.maySeed = /\ Own(n) = NoRow /\ guard[n].highest = 0
                            /\ caughtUp[n],
                !.began = TRUE]
  <1>1. /\ TypeOK /\ guard[n] \in GuardState /\ guard \in [Node -> GuardState]
        /\ journal[n][n] \in SUBSET Copies(n)
    BY DEF AgreeInv, TypeOK, Copies, Node
  <1>2. g.pc = "local" /\ (g.maySeed => Own(n) = NoRow /\ caughtUp[n])
    BY <1>1, Zenon DEF GuardState
  <1> HIDE DEF g
  <1>3. /\ caughtUp' = caughtUp /\ journal' = journal /\ backup' = backup
        /\ \/ guard' = [guard EXCEPT ![n] = g]
           \/ \E fault \in BOOLEAN :
                guard' = [guard EXCEPT ![n] = Decide(n, g, Failed, fault)]
    BY DEF GuardReadLocal, databases, g
  <1>4. guard'[n] = g \/ guard'[n].maySeed = FALSE
    BY <1>1, <1>3 DEF Decide, NewGuard
  <1>5. Own(n) = NoRow /\ caughtUp[n] /\ guard'[n].pc = "local"
    BY <1>2, <1>4
  <1>6. journal[n][n] = {}
    BY <1>1, <1>5, ReadNone DEF Own
  <1> QED BY <1>3, <1>5, <1>6

\* What the live read lets seed: a check whose peer holds no row of n's.
LEMMA MayGoOn ==
  ASSUME AgreeInv, RowsShaped, NEW n \in Node, GuardReadPeer(n),
         guard'[n].maySeed
  PROVE  /\ guard'[n].pc = "seed" /\ guard[n].maySeed
         /\ guard'[n].began = guard[n].began
         /\ tip' = tip /\ caughtUp' = caughtUp
         /\ journal[Peer(n)][n] = {} /\ journal' = journal /\ backup' = backup
  <1>1. /\ TypeOK /\ journal[Peer(n)][n] \in SUBSET Copies(n)
        /\ guard \in [Node -> GuardState]
    BY PeerType, CopiesOf DEF AgreeInv, TypeOK
  <1>2. PICK read \in {Failed, PrimaryRead(n), FallbackRead(n)},
             fault \in BOOLEAN : GuardReadPeerAs(n, read, fault)
    BY DEF GuardReadPeer
  <1>3. /\ tip' = tip /\ caughtUp' = caughtUp
        /\ journal' = journal /\ backup' = backup
    BY <1>2 DEF GuardReadPeerAs, databases, chain
  <1>4. /\ guard'[n].pc = "seed" /\ guard[n].maySeed
        /\ guard'[n].began = guard[n].began
    BY <1>1, AfterReadPeer DEF Decided
  <1>5. Seeds(guard[n], read)
    <2> SUFFICES ASSUME ~Seeds(guard[n], read) PROVE FALSE
      OBVIOUS
    <2>1. \E r : guard' = [guard EXCEPT ![n] =
                              Decide(n, guard[n], r, fault)]
      BY <1>1, <1>2 DEF GuardReadPeerAs
    <2>2. guard'[n].maySeed = FALSE
      BY <1>1, <2>1 DEF Decide, NewGuard
    <2> QED BY <2>2
  <1>6. Latest(journal[Peer(n)][n]) = NoRow
    BY <1>5 DEF Seeds, PrimaryRead, FallbackRead, Failed
  <1> QED BY <1>1, <1>3, <1>4, <1>6, ReadNone

\* What a check may seed on stays so until the check ends.
LEMMA SeedChecksStep ==
  ASSUME OneRestored, SeedInv, [Next]_vars
  PROVE  SeedChecks'
  <1> SUFFICES ASSUME NEW n \in Node
               PROVE  /\ guard'[n].pc = "seed" => guard'[n].maySeed
                      /\ guard'[n].maySeed =>
                           /\ guard'[n].pc \in {"local", "seed"}
                           /\ caughtUp'[n]
                           /\ \A r \in journal'[n][n] : Young(n, r)'
                           /\ guard'[n].pc = "seed" \/ MaxRestores[n] = 0 =>
                                Untaken(n)'
    BY DEF SeedChecks
  <1>1. /\ AgreeInv /\ TypeOK /\ TypeOK' /\ BackupsBehind /\ LogsKept
        /\ RowsShaped /\ TransfersOver /\ TraceKept
        /\ tip \in Nat /\ tip' \in Nat
    BY TypeNext DEF SeedInv, AgreeInv, TypeOK
  <1>2. /\ guard[n].pc = "seed" => guard[n].maySeed
        /\ guard[n].maySeed =>
             /\ guard[n].pc \in {"local", "seed"} /\ caughtUp[n]
             /\ \A r \in journal[n][n] : Young(n, r)
             /\ guard[n].pc = "seed" \/ MaxRestores[n] = 0 => Untaken(n)
    BY DEF SeedInv, SeedChecks
  <1>3. /\ Peer(n) \in Node /\ Peer(Peer(n)) = n
        /\ journal[n][n] \subseteq Copies(n)
    BY DEF Node, Peer, Copies
  <1>4. CASE GuardReadLocal(n)
    <2>1. guard'[n].pc # "seed"
      BY <1>1, <1>4, AfterReadLocal DEF Decided
    <2>2. ASSUME guard'[n].maySeed
          PROVE  /\ guard'[n].pc = "local" /\ caughtUp'[n]
                 /\ journal'[n][n] = {}
                 /\ MaxRestores[n] = 0 => Untaken(n)'
      <3>1. /\ guard'[n].pc = "local" /\ caughtUp'[n]
            /\ journal[n][n] = {} /\ journal' = journal /\ backup' = backup
        BY <1>1, <1>4, <2>2, MayStart
      <3>2. Copies(n)' = Copies(n) /\ Copies(Peer(n))' = Copies(Peer(n))
        BY <3>1 DEF Copies
      <3>3. ASSUME MaxRestores[n] = 0 PROVE Untaken(n)'
        <4>1. Copies(n) = {}
          BY <1>1, <3>1, <3>3 DEF LogsKept
        <4>2. ~Acquired(Peer(n))
          BY <1>1, <1>3, <3>1, <3>3 DEF TraceKept
        <4> QED BY <3>2, <4>1, <4>2 DEF Untaken, Acquired
      <3> QED BY <3>1, <3>3
    <2> QED BY <2>1, <2>2
  <1>5. CASE GuardReadPeer(n)
    <2>1. guard'[n].pc = "seed" => guard'[n].maySeed
      BY <1>1, <1>2, <1>5, AfterReadPeer DEF Decided
    <2>2. ASSUME guard'[n].maySeed
          PROVE  /\ guard'[n].pc = "seed" /\ caughtUp'[n]
                 /\ journal'[n][n] \subseteq Copies(n)' /\ Untaken(n)'
      <3>1. /\ guard'[n].pc = "seed" /\ guard[n].maySeed
            /\ guard'[n].began = guard[n].began
            /\ tip' = tip /\ caughtUp' = caughtUp
            /\ journal[Peer(n)][n] = {}
            /\ journal' = journal /\ backup' = backup
        BY <1>1, <1>5, <2>2, MayGoOn
      <3>2. Copies(n)' = Copies(n) /\ Copies(Peer(n))' = Copies(Peer(n))
        BY <3>1 DEF Copies
      <3>3. Copies(n) \subseteq journal[n][n]
        BY <1>1, <1>3, <3>1, CopiesOf DEF BackupsBehind
      <3>4. ~Acquired(Peer(n))
        <4>1. MaxRestores[n] = 0 \/ MaxRestores[Peer(n)] = 0
          BY DEF OneRestored, Node, Peer
        <4>2. CASE MaxRestores[n] = 0
          BY <1>2, <3>1, <4>2 DEF Untaken
        <4>3. CASE MaxRestores[Peer(n)] = 0
          BY <1>1, <1>3, <3>1, <4>3 DEF TraceKept
        <4> QED BY <4>1, <4>2, <4>3
      <3>5. \A r \in Copies(n) : Young(n, r)'
        BY <1>2, <3>1, <3>3 DEF Young
      <3> QED BY <1>2, <1>3, <3>1, <3>2, <3>4, <3>5 DEF Untaken, Acquired
    <2> QED BY <2>1, <2>2 DEF Untaken
  <1>6. CASE GuardSeed(n) \/ GuardSeedFails(n)
    <2>1. journal' \in [Node -> [Node -> SUBSET RoleRow]]
      BY <1>1 DEF TypeOK
    <2> QED BY <1>1, <1>6, <2>1, AfterSeed, AfterSeedFails DEF Decided
  <1>7. CASE GuardApply(n)
    BY <1>1, <1>2, <1>7, AfterApply
  <1>8. CASE Restart(n)
    <2>1. guard'[n] = NewGuard
      BY <1>1, <1>8, AfterRestart
    <2>2. NewGuard.pc = "idle" /\ NewGuard.maySeed = FALSE
      BY DEF NewGuard
    <2> QED BY <2>1, <2>2
  <1>9. CASE TipAdvance
    <2>1. /\ GuardKeepsUp(n) /\ tip' = tip + 1 /\ journal' = journal
          /\ guard'[n].pc = guard[n].pc
          /\ guard'[n].maySeed = guard[n].maySeed
          /\ guard'[n].began = FALSE
      BY <1>1, <1>9, AfterBlock
    <2>2. caughtUp' = caughtUp /\ backup' = backup
      BY <1>9, Zenon DEF TipAdvance, databases
    <2>3. Copies(n)' = Copies(n) /\ Copies(Peer(n))' = Copies(Peer(n))
      BY <2>1, <2>2 DEF Copies
    <2>4. ASSUME guard[n].maySeed, NEW r \in Copies(n), Young(n, r)
          PROVE  Young(n, r)'
      <3>1. guard[n].began
        BY <1>2, <2>1, <2>4 DEF GuardKeepsUp
      <3>2. r.tip \in Nat
        BY <1>1, <2>4, CopiesType DEF RoleRow
      <3> QED BY <1>1, <2>1, <2>4, <3>1, <3>2 DEF Young
    <2>5. guard[n].maySeed /\ Untaken(n) => Untaken(n)'
      BY <2>3, <2>4 DEF Untaken, Acquired
    <2> QED BY <1>2, <1>3, <2>1, <2>2, <2>4, <2>5
  <1>10. CASE /\ guard'[n] = guard[n] /\ tip' = tip /\ ~Restart(n)
    <2>1. ASSUME NEW r, Young(n, r) PROVE Young(n, r)'
      BY <1>10, <2>1 DEF Young
    <2>2. ASSUME guard[n].maySeed, NEW r, Fresh(n, r) PROVE Young(n, r)'
      <3>1. r.action = "release" \/ r.action = "acquire"
        BY <1>10, <2>2 DEF Fresh
      <3>2. r.action = "release" => r.tip = tip
        BY <2>2 DEF Fresh
      <3> QED BY <1>1, <1>10, <3>1, <3>2 DEF Young
    <2>3. guard[n].maySeed => caughtUp'[n]
      BY <1>1, <1>2, <1>10, LatchStays
    <2>4. ASSUME guard[n].maySeed, NEW r \in journal'[n][n]
          PROVE  Young(n, r)'
      <3>1. r \in journal[n][n] \/ Fresh(n, r)
        BY <1>1, <1>2, <2>4, Databases
        DEF Grows, Saved, Lost, BackupsBehind
      <3> QED BY <1>2, <2>1, <2>2, <2>4, <3>1
    <2>5. ASSUME guard[n].maySeed, Untaken(n) PROVE Untaken(n)'
      <3>1. \A r \in Copies(n)' : Young(n, r)'
        BY <1>1, <2>1, <2>2, <2>5, CopiesMove DEF Untaken
      <3>2. ASSUME NEW a \in Copies(Peer(n))', a.action = "acquire"
            PROVE  FALSE
        <4>1. a \in Copies(Peer(n)) \/ Fresh(Peer(n), a)
          BY <1>1, <1>3, <3>2, CopiesMove
        <4> QED BY <1>1, <2>5, <3>2, <4>1, StaysUntaken DEF Untaken, Acquired
      <3> QED BY <3>1, <3>2 DEF Untaken, Acquired
    <2> QED BY <1>2, <1>10, <2>3, <2>4, <2>5
  <1> QED
    BY <1>1, <1>4, <1>5, <1>6, <1>7, <1>8, <1>9, <1>10, GuardMoves, Zenon

\* A seed is written over nothing taken, an acquire after every seed.
LEMMA SeedsFirstStep ==
  ASSUME SeedInv, [Next]_vars
  PROVE  SeedsFirst'
  <1> SUFFICES ASSUME NEW n \in Node, NEW s \in Copies(n)',
                      NEW a \in Copies(Peer(n))',
                      s.action = "seed", a.action = "acquire"
               PROVE  s.epoch < a.epoch
    BY DEF SeedsFirst
  <1>1. /\ Peer(n) \in Node /\ AgreeInv /\ RowsShaped /\ TransfersOver
    BY PeerType DEF SeedInv
  <1>2. s \in Copies(n) \/ Fresh(n, s)
    BY <1>1, CopiesMove
  <1>3. a \in Copies(Peer(n)) \/ Fresh(Peer(n), a)
    BY <1>1, CopiesMove
  <1>4. CASE s \in Copies(n) /\ a \in Copies(Peer(n))
    BY <1>4 DEF SeedInv, SeedsFirst
  <1>5. CASE s \in Copies(n) /\ Fresh(Peer(n), a)
    BY <1>1, <1>5 DEF AgreeInv, EpochsPast, Fresh
  <1>6. CASE Fresh(n, s)
    <2>1. guard[n].pc = "seed"
      BY <1>6 DEF Fresh
    <2>2. Untaken(n)
      BY <2>1 DEF SeedInv, SeedChecks
    <2> QED BY <1>1, <1>3, <2>2, StaysUntaken DEF Untaken, Acquired
  <1> QED BY <1>2, <1>3, <1>4, <1>5, <1>6

LEMMA SeedInit == Init => SeedInv
  <1> SUFFICES ASSUME Init PROVE SeedInv
    OBVIOUS
  <1>1. \A n, o \in Node : journal[n][o] = {} /\ backup[n].rows[o] = {}
    BY DEF Init
  <1>2. \A n \in Node : Copies(n) = {}
    BY <1>1, CopiesOf, PeerType
  <1>3. \A n \in Node : guard[n].pc = "idle" /\ ~guard[n].maySeed
                        /\ transfer[n].pc = "none"
    BY DEF Init, NewGuard, NoTransfer
  <1>4. BackupsBehind /\ LogsKept /\ RowsShaped /\ TraceKept /\ SeedsFirst
    BY <1>1, <1>2
    DEF BackupsBehind, LogsKept, RowsShaped, TraceKept, Acquired, SeedsFirst
  <1>5. TransfersOver /\ SeedChecks
    BY <1>3 DEF TransfersOver, SeedChecks
  <1> QED BY <1>4, <1>5, AgreeInit DEF SeedInv

LEMMA SeedNext ==
  ASSUME OneRestored, SeedInv, [Next]_vars
  PROVE  SeedInv'
  <1>1. AgreeInv'
    BY AgreeNext DEF SeedInv
  <1>2. BackupsBehind' /\ LogsKept' /\ RowsShaped' /\ TransfersOver'
    BY BackupsStep, LogsKeptStep, ShapedStep, TransfersOverStep DEF SeedInv
  <1>3. TraceKept'
    BY TraceKeptStep DEF SeedInv
  <1> QED BY <1>1, <1>2, <1>3, SeedChecksStep, SeedsFirstStep DEF SeedInv

(***************************************************************************)
(* A database that lost its rows never makes its node seed anew against a  *)
(* peer that took ownership on them, however often and however far one of  *)
(* the two databases is taken back, frontends restart, own logs are pulled *)
(* back over a lagging copy, and transfers and checks interleave (check's  *)
(* own_at_peer condition, the copy transfer makes before it acquires).     *)
(* With both databases taken back it can: the copies are gone too.         *)
(***************************************************************************)
THEOREM NoReseed ==
  ASSUME OneRestored
  PROVE  Spec => []NoReseedAfterHandover
  <1>1. SeedInv /\ [Next]_vars => SeedInv'
    BY SeedNext
  <1>2. SeedInv => NoReseedAfterHandover
    <2>1. \A n \in Node : journal[n][n] \subseteq Copies(n)
      BY DEF Copies, Node
    <2> QED BY <2>1, PeerType DEF SeedInv, SeedsFirst, NoReseedAfterHandover
  <1> QED BY SeedInit, <1>1, <1>2, PTL DEF Spec
=============================================================================
