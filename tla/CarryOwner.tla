----------------------------- MODULE CarryOwner -----------------------------
(***************************************************************************)
(* The carry owner of a PRISM dual-writer pair.                            *)
(*                                                                         *)
(* Two nodes mine for one pool, each on its own database, and replicate    *)
(* rows to one another.  Carried balances may be paid by one of them only. *)
(* Each node journals who owns the carry in qbit_prism_node_roles: an      *)
(* append-only list of rows, one history per origin node, which the other  *)
(* node copies.  A guard loop in the frontend reads both journals every    *)
(* two seconds and opens or closes the carry gate; work pays carried       *)
(* balances only behind an open gate and a latest own row that claims      *)
(* ownership.  An operator moves ownership with `carry-owner release` on   *)
(* one node and, release-depth blocks later, `carry-owner transfer` on the *)
(* other.  Databases are restored from backups, frontends restart, and the *)
(* peer may be unreachable or answer through a lagging copy.               *)
(*                                                                         *)
(* The module abstracts a journal row to the columns the protocol compares *)
(* and the chain to its height.                                            *)
(***************************************************************************)
EXTENDS Integers

CONSTANTS
    ReleaseDepth,   \* blocks a release must be buried before a transfer
    MaxEpoch,       \* bound: journal rows ever written, both nodes together
    MaxTip,         \* bound: the highest block
    MaxBackups,     \* bound: backups taken after the start
    MaxRestores,    \* bound: restores of each node's database
    MaxRestarts     \* bound: restarts of each node's frontend

ASSUME BoundsAssumption ==
    /\ MaxEpoch \in Nat /\ MaxTip \in Nat
    /\ MaxBackups \in Nat
    /\ MaxRestores \in [{0, 1} -> Nat] /\ MaxRestarts \in [{0, 1} -> Nat]

\* MIN_RELEASE_DEPTH: whatever the setting says, transfer waits for two.
ASSUME DepthAssumption == ReleaseDepth \in Nat /\ ReleaseDepth >= 2

Node == {0, 1}

\* peer_index
Peer(n) == 1 - n

-----------------------------------------------------------------------------
(***************************************************************************)
(* Journal rows.  A node without a row reads as NoRow, whose epoch is      *)
(* below every written one.                                                *)
(***************************************************************************)
Action == {"none", "seed", "release", "acquire"}

RoleRow == [epoch : Nat, owner : BOOLEAN, action : Action,
            tip : Nat, peerEpoch : Nat]

NoRow == [epoch |-> 0, owner |-> FALSE, action |-> "none",
          tip |-> 0, peerEpoch |-> 0]

\* The row of highest epoch (LATEST_ROLES_SQL).
Latest(rows) ==
    LET top == {r \in rows : \A q \in rows : q.epoch <= r.epoch}
    IN  IF top = {} THEN NoRow ELSE CHOOSE r \in top : TRUE

\* The newer of two rows; the second wins a tie, as max_by_key does.
Newer(r, q) == IF r.epoch > q.epoch THEN r ELSE q

\* RoleRow::acquired_after
AcquiredAfter(own, release) ==
    own.action = "acquire" /\ own.peerEpoch >= release.epoch

(***************************************************************************)
(* What a live read of the peer returned: nothing, the primary's journal,  *)
(* or the journal of a copy that may lag behind it.                        *)
(***************************************************************************)
PeerRead == [answer : {"failed", "primary", "fallback"},
             peer : RoleRow, ownAtPeer : RoleRow]

Failed == [answer |-> "failed", peer |-> NoRow, ownAtPeer |-> NoRow]

-----------------------------------------------------------------------------
VARIABLES
    journal,    \* journal[n][o]: rows of origin o in node n's database
    verified,   \* verified[n]: n's database records a verified own log
    backup,     \* backup[n]: an older copy of n's database
    env,        \* env[n]: PRISM_CARRY_OWNER of n's running frontend
    caughtUp,   \* caughtUp[n]: the own-log latch of n's frontend
    paying,     \* paying[n]: the carry gate
    guard,      \* guard[n]: the guard loop between its reads
    transfer,   \* transfer[n]: a `carry-owner transfer` run on n
    tip,        \* height of the active chain
    clock,      \* the nodes' synchronised wall clock
    backups, restores, restarts,
    lastPaid    \* lastPaid[n]: highest tip on which n built carry-paying
                \* work, -1 if none (observation only)

databases == <<journal, verified, backup>>
frontend  == <<env, caughtUp, paying, guard>>
chain     == <<tip, clock>>
budgets   == <<backups, restores, restarts>>
vars      == <<journal, verified, backup, env, caughtUp, paying, guard,
               transfer, tip, clock, backups, restores, restarts, lastPaid>>

GuardStep == {"idle", "local", "seed", "decided"}

GuardState == [pc : GuardStep,
               confirmed : BOOLEAN,    \* Guard::peer_confirmed
               highest : Nat,          \* Guard::highest_own_epoch
               maySeed : BOOLEAN,      \* this check may seed
               own : RoleRow, synced : RoleRow,   \* the local read
               read : PeerRead,                   \* the live read
               began : BOOLEAN,        \* the check began on this tip
               fresh : BOOLEAN]        \* ... and opened or kept the gate

TransferStep == {"none", "checked", "copied"}

TransferState == [pc : TransferStep, live : RoleRow, own : RoleRow,
                  synced : RoleRow, tip : Nat]

Database == [rows : [Node -> SUBSET RoleRow], verified : BOOLEAN]

NewGuard == [pc |-> "idle", confirmed |-> FALSE, highest |-> 0,
             maySeed |-> FALSE, own |-> NoRow, synced |-> NoRow,
             read |-> Failed, began |-> FALSE, fresh |-> FALSE]

NoTransfer == [pc |-> "none", live |-> NoRow, own |-> NoRow,
               synced |-> NoRow, tip |-> 0]

TypeOK ==
    /\ journal \in [Node -> [Node -> SUBSET RoleRow]]
    /\ verified \in [Node -> BOOLEAN]
    /\ backup \in [Node -> Database]
    /\ env \in [Node -> BOOLEAN]
    /\ caughtUp \in [Node -> BOOLEAN]
    /\ paying \in [Node -> BOOLEAN]
    /\ guard \in [Node -> GuardState]
    /\ transfer \in [Node -> TransferState]
    /\ tip \in Nat /\ clock \in Nat
    /\ backups \in Nat
    /\ restores \in [Node -> Nat] /\ restarts \in [Node -> Nat]
    /\ lastPaid \in [Node -> Nat \cup {-1}]

Own(n) == Latest(journal[n][n])
Synced(n) == Latest(journal[n][Peer(n)])

(***************************************************************************)
(* job_prior_balance_sql_in: a snapshot reads the carried balances only    *)
(* behind an open gate and a latest own row that claims ownership.         *)
(***************************************************************************)
MayPay(n) == paying[n] /\ Own(n).owner

(***************************************************************************)
(* What the properties observe: a node that may pay does, at once.  This   *)
(* is the worst case for them, and a coordinator that refreshes its work   *)
(* on every revision and every block comes close to it.                    *)
(***************************************************************************)
Observe ==
    lastPaid' = [n \in Node |-> IF MayPay(n)' THEN tip' ELSE lastPaid[n]]

-----------------------------------------------------------------------------
Init ==
    /\ journal = [n \in Node |-> [o \in Node |-> {}]]
    /\ verified = [n \in Node |-> FALSE]
    /\ backup = [n \in Node |-> [rows |-> [o \in Node |-> {}],
                                 verified |-> FALSE]]
    /\ env \in [Node -> BOOLEAN]
    /\ caughtUp = [n \in Node |-> FALSE]
    /\ paying = [n \in Node |-> FALSE]
    /\ guard = [n \in Node |-> NewGuard]
    /\ transfer = [n \in Node |-> NoTransfer]
    /\ tip = 0 /\ clock = 1
    /\ backups = 0
    /\ restores = [n \in Node |-> 0] /\ restarts = [n \in Node |-> 0]
    /\ lastPaid = [n \in Node |-> -1]

(***************************************************************************)
(* append_role: the epoch is the wall clock, or one above every row the    *)
(* database holds if that is later.  The clock moves on before the next    *)
(* row is written anywhere.                                                *)
(***************************************************************************)
\* Mutant: the epoch counts up from the rows held, without the clock.
NextEpochNoClock(n) == Newer(Own(n), Synced(n)).epoch + 1

NextEpoch(n) ==
    LET highest == Newer(Own(n), Synced(n)).epoch
    IN  IF clock > highest THEN clock ELSE highest + 1

AppendRole(n, owner, action, height, peerEpoch) ==
    /\ clock <= MaxEpoch
    /\ journal' = [journal EXCEPT ![n][n] = @ \cup
            {[epoch |-> NextEpoch(n), owner |-> owner, action |-> action,
              tip |-> height, peerEpoch |-> peerEpoch]}]
    /\ clock' = NextEpoch(n) + 1

-----------------------------------------------------------------------------
(* The guard loop: carry_owner::run, check, Guard::decide.                 *)

RolledBack(g) == g.own.epoch < g.highest

\* `fault`: an unidentified database, or a mismatched coinbase layout.
NotClaiming(n, g, fault) ==
    \/ fault
    \/ RolledBack(g)
    \/ g.own.owner # env[n]
    \/ ~g.own.owner

PeerObjects(g, read) ==
    LET newest == Newer(read.peer, g.synced)
    IN  \/ read.ownAtPeer.epoch > g.own.epoch
        \/ newest.owner \/ read.peer.owner
        \/ newest.action = "release" /\ ~AcquiredAfter(g.own, newest)
        \/ read.answer # "failed" /\ newest = NoRow

\* Mutant: a lagging fallback confirms the peer too.
DecideOnFallback(n, g, read, fault) ==
    [NewGuard EXCEPT
        !.pc = "decided",
        !.confirmed = /\ ~NotClaiming(n, g, fault)
                      /\ ~PeerObjects(g, read)
                      /\ g.confirmed \/ read.answer # "failed",
        !.highest = IF fault \/ RolledBack(g) THEN g.highest
                                              ELSE g.own.epoch,
        !.began = g.began,
        !.fresh = g.fresh]

\* Mutant: a first answer of the primary does not confirm the peer.
DecideNeverConfirms(n, g, read, fault) ==
    [NewGuard EXCEPT
        !.pc = "decided",
        !.confirmed = /\ ~NotClaiming(n, g, fault)
                      /\ ~PeerObjects(g, read)
                      /\ g.confirmed,
        !.highest = IF fault \/ RolledBack(g) THEN g.highest
                                              ELSE g.own.epoch,
        !.began = g.began,
        !.fresh = g.fresh]

(***************************************************************************)
(* Guard::decide on guard state g and one read of the peer.  Every refusal *)
(* forgets the confirmation of the peer; only a primary answer that raises *)
(* no objection restores it.  The decision is to pay exactly when the peer *)
(* is confirmed afterwards; the gate follows in GuardApply.                *)
(***************************************************************************)
Decide(n, g, read, fault) ==
    [NewGuard EXCEPT
        !.pc = "decided",
        !.confirmed = /\ ~NotClaiming(n, g, fault)
                      /\ ~PeerObjects(g, read)
                      /\ g.confirmed \/ read.answer = "primary",
        !.highest = IF fault \/ RolledBack(g) THEN g.highest
                                              ELSE g.own.epoch,
        !.began = g.began,
        !.fresh = g.fresh]

Claims(n, g) == env[n] /\ g.own.owner

(***************************************************************************)
(* check, first half: the identity and the local journal.  The peer is     *)
(* read only by a node that may seed (its journal never had a row of its   *)
(* own, as far as it can tell) or that claims ownership.                   *)
(***************************************************************************)
GuardReadLocal(n) ==
    LET g == [guard[n] EXCEPT
                !.pc = "local",
                !.own = Own(n), !.synced = Synced(n),
                !.maySeed = /\ Own(n) = NoRow /\ guard[n].highest = 0
                            /\ caughtUp[n],
                !.began = TRUE]
    IN  /\ guard[n].pc = "idle"
        /\ \/ /\ g.maySeed \/ Claims(n, g)
              /\ guard' = [guard EXCEPT ![n] = g]
           \/ /\ ~(g.maySeed \/ Claims(n, g))
              /\ \E fault \in BOOLEAN :
                    guard' = [guard EXCEPT ![n] = Decide(n, g, Failed, fault)]
        /\ UNCHANGED <<databases, env, caughtUp, paying, transfer, chain,
                       budgets, lastPaid>>

\* PeerJournal::read: the primary, else the fallback path, else nothing.
PrimaryRead(n) ==
    [answer |-> "primary", peer |-> Latest(journal[Peer(n)][Peer(n)]),
     ownAtPeer |-> Latest(journal[Peer(n)][n])]

FallbackRead(n) ==
    [answer |-> "fallback", peer |-> Latest(backup[Peer(n)].rows[Peer(n)]),
     ownAtPeer |-> Latest(backup[Peer(n)].rows[n])]

\* Mutant: a node seeds whatever rows of its own the peer holds.
SeedsAnyway(g, read) == g.maySeed /\ read.answer = "primary"

\* Only the primary's answer lets a node seed.
Seeds(g, read) ==
    g.maySeed /\ read.answer = "primary" /\ read.ownAtPeer = NoRow

\* check, second half: the live read, and the decision unless it seeds.
GuardReadPeerAs(n, read, fault) ==
    /\ guard[n].pc = "local"
    /\ guard' = [guard EXCEPT ![n] =
          IF Seeds(@, read) /\ ~fault
          THEN [@ EXCEPT !.pc = "seed", !.read = read]
          ELSE Decide(n, @, IF Claims(n, @) THEN read ELSE Failed, fault)]
    /\ UNCHANGED <<databases, env, caughtUp, paying, transfer, chain,
                   budgets, lastPaid>>

GuardReadPeer(n) ==
    \E read \in {Failed, PrimaryRead(n), FallbackRead(n)}, fault \in BOOLEAN :
        GuardReadPeerAs(n, read, fault)

(***************************************************************************)
(* seed_role re-reads under the settlement lock and writes the first row;  *)
(* check re-reads the journal and decides on the read made before the      *)
(* seed.                                                                   *)
(***************************************************************************)
GuardSeed(n) ==
    /\ guard[n].pc = "seed"
    /\ IF Own(n) = NoRow
       THEN AppendRole(n, env[n], "seed", 0, 0)
       ELSE UNCHANGED <<journal, clock>>
    /\ LET g == [guard[n] EXCEPT !.own = Latest(journal'[n][n]),
                                 !.synced = Synced(n)]
       IN  guard' = [guard EXCEPT ![n] =
              Decide(n, g, IF Claims(n, g) THEN g.read ELSE Failed, FALSE)]
    /\ UNCHANGED <<verified, backup, env, caughtUp, paying, transfer, tip,
                   budgets>>
    /\ Observe

\* The seed or the read after it fails: the row may be there all the same,
\* and the gate and what the guard knows stay as they are.
GuardSeedFails(n) ==
    /\ guard[n].pc = "seed"
    /\ \/ Own(n) = NoRow /\ AppendRole(n, env[n], "seed", 0, 0)
       \/ UNCHANGED <<journal, clock>>
    /\ guard' = [guard EXCEPT ![n] =
          [NewGuard EXCEPT !.confirmed = guard[n].confirmed,
                           !.highest = guard[n].highest,
                           !.fresh = guard[n].fresh]]
    /\ UNCHANGED <<verified, backup, env, caughtUp, paying, transfer, tip,
                   budgets>>
    /\ Observe

\* Mutant: a decision opens the gate and never closes it.
GuardApplyOpens(n) ==
    /\ guard[n].pc = "decided"
    /\ paying' = [paying EXCEPT ![n] = @ \/ guard[n].confirmed]
    /\ guard' = [guard EXCEPT ![n] =
          [@ EXCEPT !.pc = "idle", !.fresh = guard[n].began, !.began = FALSE]]
    /\ UNCHANGED <<databases, env, caughtUp, transfer, chain, budgets>>
    /\ Observe

\* set_carry_paying: the gate follows the decision.
GuardApply(n) ==
    /\ guard[n].pc = "decided"
    /\ paying' = [paying EXCEPT ![n] = guard[n].confirmed]
    /\ guard' = [guard EXCEPT ![n] =
          [@ EXCEPT !.pc = "idle",
                    !.fresh = guard[n].began /\ guard[n].confirmed,
                    !.began = FALSE]]
    /\ UNCHANGED <<databases, env, caughtUp, transfer, chain, budgets>>
    /\ Observe

-----------------------------------------------------------------------------
(***************************************************************************)
(* A block.  Timing assumption: a guard with an open gate finishes, and a  *)
(* check in flight began, between two blocks (the loop runs every two      *)
(* seconds; its reads are bounded by two).                                 *)
(***************************************************************************)
GuardKeepsUp(n) ==
    /\ paying[n] => guard[n].fresh
    /\ guard[n].pc # "idle" => guard[n].began

TipAdvance ==
    /\ tip < MaxTip
    /\ \A n \in Node : GuardKeepsUp(n)
    /\ tip' = tip + 1
    /\ guard' = [n \in Node |-> [guard[n] EXCEPT !.began = FALSE,
                                                 !.fresh = FALSE]]
    /\ UNCHANGED <<databases, env, caughtUp, paying, transfer, clock,
                   budgets>>
    /\ Observe

-----------------------------------------------------------------------------
(* carry-owner release and transfer.                                       *)

(***************************************************************************)
(* release: the row it checked is compared again under the settlement      *)
(* lock, and the tip is read under that lock, so checking and writing are  *)
(* one step.                                                               *)
(***************************************************************************)
Release(n) ==
    /\ Own(n).owner
    /\ AppendRole(n, FALSE, "release", tip, 0)
    /\ UNCHANGED <<verified, backup, frontend, transfer, tip, budgets,
                   lastPaid>>

\* A claim of the peer's, live or synced, bounds the scan (scan_start).
ClaimInSight(n) ==
    \E d \in Node : \E r \in journal[d][Peer(n)] : r.owner

\* Mutant: the release need be only one block deep.
TransferChecksShallow(x, ownAtPeer, claimInSight) ==
    LET newest == Newer(x.live, x.synced)
    IN  /\ ~x.own.owner
        /\ newest # NoRow /\ ~newest.owner /\ ~x.live.owner
        /\ ownAtPeer.epoch <= x.own.epoch
        /\ "release" \in {x.live.action, x.synced.action} => claimInSight
        /\ newest.action = "release" => x.tip >= newest.tip + 1

\* transfer_checks over both journals and the scanned tip.
TransferChecks(x, ownAtPeer, claimInSight) ==
    LET newest == Newer(x.live, x.synced)
    IN  /\ ~x.own.owner
        /\ newest # NoRow /\ ~newest.owner /\ ~x.live.owner
        /\ ownAtPeer.epoch <= x.own.epoch
        /\ "release" \in {x.live.action, x.synced.action} => claimInSight
        /\ newest.action = "release" => x.tip >= newest.tip + ReleaseDepth

(***************************************************************************)
(* transfer: a view of the peer's primary, the local journal and a scan of *)
(* the chain.  They are read one after the other; every row is compared    *)
(* again before the write, so one step stands for the three.  The scan     *)
(* itself is out of scope: it passes or the command stops.                 *)
(***************************************************************************)
TransferCheck(n) ==
    LET p == Peer(n)
        x == [pc |-> "checked", live |-> Latest(journal[p][p]),
              own |-> Own(n), synced |-> Synced(n), tip |-> tip]
    IN  /\ transfer[n].pc = "none"
        /\ TransferChecks(x, Latest(journal[p][n]), ClaimInSight(n))
        /\ transfer' = [transfer EXCEPT ![n] = x]
        /\ UNCHANGED <<databases, frontend, chain, budgets, lastPaid>>

(***************************************************************************)
(* The peer's latest row once more, right before the write: the very row   *)
(* the checks read.  apply_node_roles then keeps it here, even if the      *)
(* acquire is refused.                                                     *)
(***************************************************************************)
TransferCopy(n) ==
    LET latest == Latest(journal[Peer(n)][Peer(n)])
    IN  /\ transfer[n].pc = "checked"
        /\ latest # NoRow
        /\ latest = transfer[n].live
        /\ ~latest.owner
        /\ Own(n) = transfer[n].own
        /\ journal' = [journal EXCEPT ![n][Peer(n)] = @ \cup {latest}]
        /\ transfer' = [transfer EXCEPT ![n] = [@ EXCEPT !.pc = "copied"]]
        /\ UNCHANGED <<verified, backup, frontend, chain, budgets, lastPaid>>

\* Under the settlement lock: nothing read may have changed meanwhile.
TransferAcquire(n) ==
    LET x == transfer[n]
        checked == Newer(x.live, x.synced)
    IN  /\ x.pc = "copied"
        /\ Own(n) = x.own
        /\ Synced(n) = checked
        /\ AppendRole(n, TRUE, "acquire", x.tip, checked.epoch)
        /\ transfer' = [transfer EXCEPT ![n] = NoTransfer]
        /\ UNCHANGED <<verified, backup, frontend, tip, budgets>>
        /\ Observe

\* A refused check, an unreadable peer, a reorganised tip, a killed command.
TransferStop(n) ==
    /\ transfer[n].pc # "none"
    /\ transfer' = [transfer EXCEPT ![n] = NoTransfer]
    /\ UNCHANGED <<databases, frontend, chain, budgets, lastPaid>>

-----------------------------------------------------------------------------
(* Peer sync of the journal (peer_sync::engine).                           *)

\* latch_without_peer: the own log was verified on this very database.
LatchWithoutPeer(n) ==
    /\ ~caughtUp[n]
    /\ verified[n]
    /\ caughtUp' = [caughtUp EXCEPT ![n] = TRUE]
    /\ UNCHANGED <<databases, env, paying, guard, transfer, chain, budgets,
                   lastPaid>>

\* recover_own_log: pull this node's rows back, over either path.
RecoverOwnLog(n) ==
    /\ ~caughtUp[n]
    /\ \E rows \in {journal[Peer(n)][n], backup[Peer(n)].rows[n]} :
          journal' = [journal EXCEPT ![n][n] = @ \cup rows]
    /\ verified' = [verified EXCEPT ![n] = TRUE]
    /\ caughtUp' = [caughtUp EXCEPT ![n] = TRUE]
    /\ UNCHANGED <<backup, env, paying, guard, transfer, chain, budgets>>
    /\ Observe

\* ... or stops once the rows are back: the verification this database had
\* is forgotten, if the recovery came that far.
RecoverOwnLogStops(n) ==
    /\ ~caughtUp[n]
    /\ \E rows \in {journal[Peer(n)][n], backup[Peer(n)].rows[n]} :
          /\ ~(rows \subseteq journal[n][n])
          /\ journal' = [journal EXCEPT ![n][n] = @ \cup rows]
    /\ \E forgotten \in BOOLEAN :
          verified' = [verified EXCEPT ![n] = @ /\ ~forgotten]
    /\ UNCHANGED <<backup, frontend, transfer, chain, budgets>>
    /\ Observe

\* pull_peer: the peer's rows are pulled only behind the latch.
PullRoles(n) ==
    /\ caughtUp[n]
    /\ ~(journal[Peer(n)][Peer(n)] \subseteq journal[n][Peer(n)])
    /\ journal' = [journal EXCEPT
          ![n][Peer(n)] = @ \cup journal[Peer(n)][Peer(n)]]
    /\ UNCHANGED <<verified, backup, frontend, transfer, chain, budgets,
                   lastPaid>>

-----------------------------------------------------------------------------
(* The environment: backups, restores, restarts.                           *)

Backup(n) ==
    /\ backups < MaxBackups
    /\ backups' = backups + 1
    /\ backup' = [backup EXCEPT ![n] =
                    [rows |-> journal[n], verified |-> verified[n]]]
    /\ UNCHANGED <<journal, verified, frontend, transfer, chain, restores,
                   restarts, lastPaid>>

(***************************************************************************)
(* A database goes back to its backup, under a frontend that may keep      *)
(* running.  Lineage evidence may show it (the verification is void) or    *)
(* not (a file-system snapshot on the same timeline).                      *)
(***************************************************************************)
Restore(n) ==
    /\ restores[n] < MaxRestores[n]
    /\ restores' = [restores EXCEPT ![n] = @ + 1]
    /\ journal' = [journal EXCEPT ![n] = backup[n].rows]
    /\ \E seen \in BOOLEAN :
          verified' = [verified EXCEPT ![n] = backup[n].verified /\ ~seen]
    /\ UNCHANGED <<backup, frontend, transfer, chain, backups, restarts>>
    /\ Observe

\* A frontend restarts, possibly with PRISM_CARRY_OWNER changed.
Restart(n) ==
    /\ restarts[n] < MaxRestarts[n]
    /\ restarts' = [restarts EXCEPT ![n] = @ + 1]
    /\ \E setting \in BOOLEAN : env' = [env EXCEPT ![n] = setting]
    /\ caughtUp' = [caughtUp EXCEPT ![n] = FALSE]
    /\ paying' = [paying EXCEPT ![n] = FALSE]
    /\ guard' = [guard EXCEPT ![n] = NewGuard]
    /\ UNCHANGED <<databases, transfer, chain, backups, restores, lastPaid>>

-----------------------------------------------------------------------------
Next ==
    \/ TipAdvance
    \/ \E n \in Node :
          \/ GuardReadLocal(n)
          \/ GuardReadPeer(n)
          \/ GuardSeed(n)
          \/ GuardSeedFails(n)
          \/ GuardApply(n)
          \/ Release(n)
          \/ TransferCheck(n)
          \/ TransferCopy(n)
          \/ TransferAcquire(n)
          \/ TransferStop(n)
          \/ LatchWithoutPeer(n)
          \/ RecoverOwnLog(n)
          \/ RecoverOwnLogStops(n)
          \/ PullRoles(n)
          \/ Backup(n)
          \/ Restore(n)
          \/ Restart(n)

Spec == Init /\ [][Next]_vars

(***************************************************************************)
(* The guard loop of a running frontend goes on, and a peer that is asked  *)
(* again and again answers over its primary URL, to an identified node     *)
(* with the pair's layout, again and again.  Operators, blocks, the sync   *)
(* and the failures owe nothing.                                           *)
(***************************************************************************)
Fairness ==
    \A n \in Node :
        /\ WF_vars(GuardReadLocal(n))
        /\ WF_vars(GuardReadPeer(n))
        /\ SF_vars(GuardReadPeerAs(n, PrimaryRead(n), FALSE))
        /\ WF_vars(GuardSeed(n))
        /\ WF_vars(GuardApply(n))

-----------------------------------------------------------------------------
(***************************************************************************)
(* The promise of the module comment of carry_owner.rs: of the two nodes,  *)
(* at most one can build work that pays carried balances, whatever the     *)
(* reads, restarts and concurrent transfers interleave to; and through a   *)
(* restore, unless the restored node acquires again before its own guard   *)
(* has met the restored journal.                                           *)
(***************************************************************************)
AtMostOnePayer == ~(MayPay(0) /\ MayPay(1))

(***************************************************************************)
(* A node that may pay pays on a chain on which the other node's last      *)
(* carry-paying work is buried release-depth blocks deep (MIN_RELEASE_DEPTH*)
(* and transfer's release_depth check).                                    *)
(***************************************************************************)
HandoverBuried ==
    \A n \in Node :
        MayPay(n) /\ lastPaid[Peer(n)] # -1
            => tip >= lastPaid[Peer(n)] + ReleaseDepth

(***************************************************************************)
(* A node whose database lost its rows never starts a history over against *)
(* a peer that took ownership on them: no seed of one node is younger than *)
(* an acquire of the other (check's own_at_peer condition, and the copy    *)
(* transfer makes before it acquires), unless the peer's copy of the rows  *)
(* was itself lost to a restore.                                           *)
(***************************************************************************)
NoReseedAfterHandover ==
    \A n \in Node : \A s \in journal[n][n], a \in journal[Peer(n)][Peer(n)] :
        s.action = "seed" /\ a.action = "acquire" => s.epoch < a.epoch

(***************************************************************************)
(* Wherever two databases or backups hold a row of one origin at one       *)
(* epoch, it is the same row, so the sync never meets a conflict: not even *)
(* a database that lost its newest rows and writes on (next_epoch).        *)
(***************************************************************************)
Copies(o) == journal[0][o] \cup journal[1][o]
             \cup backup[0].rows[o] \cup backup[1].rows[o]

RowsAgree ==
    \A o \in Node : \A r, q \in Copies(o) : r.epoch = q.epoch => r = q

\* Nothing Guard::decide could read about node n speaks against its paying.
Eligible(n) ==
    LET g == [NewGuard EXCEPT !.own = Own(n), !.synced = Synced(n),
                              !.highest = guard[n].highest]
    IN  ~NotClaiming(n, g, FALSE) /\ ~PeerObjects(g, PrimaryRead(n))

(***************************************************************************)
(* Carry payments do not stall: an owner nothing speaks against, from some *)
(* point on, pays again and again (the guard's loop re-reads a peer that   *)
(* was unreachable or lagging).                                            *)
(***************************************************************************)
OwnerPays == \A n \in Node : <>[]Eligible(n) => []<>MayPay(n)

(***************************************************************************)
(* The gate of a node that has given up ownership closes for good, so a    *)
(* later claim starts from a closed gate (decide's not_claiming, applied   *)
(* by run).                                                                *)
(***************************************************************************)
ReleasedGateCloses ==
    \A n \in Node : <>[](~Own(n).owner) => <>[](~paying[n])
=============================================================================
