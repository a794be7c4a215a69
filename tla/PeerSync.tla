------------------------------ MODULE PeerSync ------------------------------
(***************************************************************************)
(* The dual-writer pair's peer sync (peer_sync/engine.rs and               *)
(* ledger/peer_sync.rs): each node appends shares and lands blocks in its  *)
(* own database and pulls the other's.  Appends commit in key order under  *)
(* ORDER_LOCK; landings draw a sync_seq and commit in any order.  A node   *)
(* that was restored from a backup takes its own rows back from the peer   *)
(* before it serves.                                                       *)
(*                                                                         *)
(* A share is its key and its header.  Prepared jobs travel like blocks    *)
(* but wait for no share; they are left out.                               *)
(***************************************************************************)
EXTENDS Integers, FiniteSets, FiniteSetsExt

CONSTANTS
    Header,       \* the headers miners submit
    Landers,      \* the nodes that find blocks
    Restorable,   \* the nodes an operator restores
    BatchRows,    \* PRISM_PEER_SYNC_BATCH_ROWS
    AppendsInGap, \* whether a frontend that runs through a restore writes
                  \* before its next pass finds the restore
    Budgets,      \* bounds: how many appends, landings, failures and
    MaxKey, MaxSync, MaxRestores    \* restores, and the keys they reach

Node == {0, 1}
Peer(n) == 1 - n

ASSUME SyncAssumption ==
    /\ Landers \subseteq Node /\ Restorable \subseteq Node
    /\ BatchRows \in Nat \ {0} /\ AppendsInGap \in BOOLEAN
    /\ MaxKey \in Nat \ {0} /\ MaxSync \in Nat /\ MaxRestores \in Nat
    /\ Budgets \subseteq [appends : Nat, landings : Nat, failures : Nat,
                          restores : Nat]

VARIABLES
    db,        \* each node's database
    open,      \* the transactions open on it: the append, the landings
    backup,    \* the backup an operator may restore
    sync,      \* the sync task of each frontend: its latch, pass and batch
    left       \* what is left of the budget

vars == <<db, open, backup, sync, left>>

Floor == 1        \* share_seq_floor: both start from one ledger
Keys == Floor + 1 .. MaxKey
Positions == 0..MaxKey + 1
Share == [key : Keys, header : Header]
Block == [sync : 1..MaxSync, origin : Node, timeline : 0..MaxRestores,
          window : SUBSET Share]
NoAppend == [key |-> 0]
NoMark == -1
NoTimeline == -1
NoBackup == [taken |-> FALSE]

Origin(key) == key % 2
OwnShares(n, m) == {s \in db[m].shares : Origin(s.key) = n}
OwnBlocks(n, m) == {b \in db[m].blocks : b.origin = n}
KeysOf(shares) == {s.key : s \in shares}
Highest(S, least) == Max(S \cup {least})

Database ==
    [shares : SUBSET Share, seq : Positions,
     blocks : SUBSET Block, syncSeq : 0..MaxSync,
     mark : Positions, blockMark : 0..MaxSync, refused : SUBSET Keys,
     timeline : 0..MaxRestores, verified : {NoTimeline} \cup 0..MaxRestores]

Stages == {"idle", "raise", "apply", "barrier", "blocks",
           "ownBlocks", "floors", "verify", "diverged"}

TypeOK ==
    /\ db \in [Node -> Database] /\ \A n \in Node : Origin(db[n].seq) = n
    /\ open \in [Node -> [append : Share \cup {NoAppend}, landings : SUBSET Block]]
    /\ backup \in [Node -> Database \cup {NoBackup}]
    /\ sync \in [Node -> [latch : {NoTimeline} \cup 0..MaxRestores,
                          stage : Stages, rows : SUBSET Share,
                          through : Positions, safe : {NoMark} \cup 0..MaxSync,
                          syncFloor : 0..MaxSync]]
    /\ \E budget \in Budgets : \A what \in DOMAIN left :
          left[what] \in 0..budget[what]

FreshSync == [latch |-> NoTimeline, stage |-> "idle", rows |-> {},
              through |-> 0, safe |-> NoMark, syncFloor |-> 0]

Init ==
    /\ db = [n \in Node |->
                [shares |-> {}, seq |-> n, blocks |-> {}, syncSeq |-> 0,
                 mark |-> Floor, blockMark |-> 0, refused |-> {},
                 timeline |-> 0, verified |-> 0]]
    /\ open = [n \in Node |-> [append |-> NoAppend, landings |-> {}]]
    /\ backup = [n \in Node |-> NoBackup]
    /\ sync = [n \in Node |-> [FreshSync EXCEPT !.latch = 0]]
    /\ left \in Budgets

CaughtUp(n) == sync[n].latch # NoTimeline

\* The database still shows the evidence the latch was set on.
SameServer(n) == sync[n].latch = db[n].timeline

Writes(n) == CaughtUp(n) /\ (AppendsInGap \/ SameServer(n))

-----------------------------------------------------------------------------
(* The local writers.                                                      *)

\* append_in: the key is drawn under ORDER_LOCK, which is held to the commit.
DrawShare(n) ==
    /\ Writes(n) /\ open[n].append = NoAppend
    /\ \E h \in Header \ {s.header : s \in db[n].shares} :
         /\ db[n].seq + 2 <= MaxKey /\ left.appends > 0
         /\ db' = [db EXCEPT ![n].seq = @ + 2]
         /\ open' = [open EXCEPT ![n].append =
                        [key |-> db[n].seq + 2, header |-> h]]
    /\ left' = [left EXCEPT !.appends = @ - 1]
    /\ UNCHANGED <<backup, sync>>

Credited(n, header) == \E s \in db[n].shares : s.header = header

\* The header's mapping is unique: an append that lost it rolls back.
EndAppend(n) ==
    /\ open[n].append # NoAppend
    /\ db' = IF Credited(n, open[n].append.header) THEN db
             ELSE [db EXCEPT ![n].shares = @ \cup {open[n].append}]
    /\ open' = [open EXCEPT ![n].append = NoAppend]
    /\ UNCHANGED <<backup, sync, left>>

\* A landing draws its sync_seq under the shared barrier.
BeginLanding(n) ==
    /\ n \in Landers /\ Writes(n) /\ left.landings > 0
    /\ db[n].syncSeq < MaxSync
    /\ db' = [db EXCEPT ![n].syncSeq = @ + 1]
    /\ open' = [open EXCEPT ![n].landings = @ \cup
          {[sync |-> db[n].syncSeq + 1, origin |-> n,
            timeline |-> db[n].timeline, window |-> db[n].shares]}]
    /\ left' = [left EXCEPT !.landings = @ - 1]
    /\ UNCHANGED <<backup, sync>>

CommitLanding(n) ==
    \E b \in open[n].landings :
       /\ db' = [db EXCEPT ![n].blocks = @ \cup {b}]
       /\ open' = [open EXCEPT ![n].landings = @ \ {b}]
       /\ UNCHANGED <<backup, sync, left>>

AbortLanding(n) ==
    \E b \in open[n].landings :
       /\ open' = [open EXCEPT ![n].landings = @ \ {b}]
       /\ UNCHANGED <<db, backup, sync, left>>

-----------------------------------------------------------------------------
(* One pass of a node whose latch is set: shares, then blocks.             *)

Scanned(n) ==
    {k \in KeysOf(db[Peer(n)].shares) :
        /\ k > db[n].mark
        /\ Cardinality({j \in KeysOf(db[Peer(n)].shares) :
                           db[n].mark < j /\ j < k}) < BatchRows}

\* shares_scanned: at most BatchRows rows of any origin, one statement.
ReadShares(n) ==
    /\ CaughtUp(n) /\ SameServer(n) /\ sync[n].stage = "idle"
    /\ LET through == Highest(Scanned(n), db[n].mark)
       IN  sync' = [sync EXCEPT
              ![n].stage = "raise", ![n].through = through,
              ![n].rows = {s \in OwnShares(Peer(n), Peer(n)) :
                              s.key > db[n].mark /\ s.key <= through}]
    /\ UNCHANGED <<db, open, backup, left>>

\* Mutant: the parity is forgotten.
AnyAbove(n, key) == key

\* share_seq_at_or_above: the first key of the node's parity.
AtOrAbove(n, key) == IF Origin(key) = n THEN key ELSE key + 1

Raised(n, key) == AtOrAbove(n, Highest({key}, db[n].seq))

\* Mutant: the sequence is raised while an append holds a lower key.
RaiseUnlocked(n) ==
    /\ sync[n].stage = "raise"
    /\ db' = IF sync[n].rows = {} THEN db
             ELSE [db EXCEPT ![n].seq = Raised(n, Max(KeysOf(sync[n].rows)))]
    /\ sync' = [sync EXCEPT ![n].stage = "apply"]
    /\ UNCHANGED <<open, backup, left>>

\* raise_share_sequence_above, under ORDER_LOCK: no append is open.
RaiseSequence(n) ==
    /\ sync[n].stage = "raise"
    /\ sync[n].rows # {} => open[n].append = NoAppend
    /\ db' = IF sync[n].rows = {} THEN db
             ELSE [db EXCEPT ![n].seq = Raised(n, Max(KeysOf(sync[n].rows)))]
    /\ sync' = [sync EXCEPT ![n].stage = "apply"]
    /\ UNCHANGED <<open, backup, left>>

\* The rows refused whole: the header is credited here to another share, or
\* the key is held with other content.
Refused(n, rows) ==
    {s \in rows : \E held \in db[n].shares :
        held # s /\ (held.header = s.header \/ held.key = s.key)}

\* apply_share_batch: rows, conflicts and cursor in one transaction.
ApplyShares(n) ==
    /\ sync[n].stage = "apply"
    /\ LET refused == Refused(n, sync[n].rows)
       IN  db' = [db EXCEPT
              ![n].shares = @ \cup (sync[n].rows \ refused),
              ![n].refused = @ \cup KeysOf(refused),
              ![n].mark = Highest({@}, sync[n].through)]
    /\ sync' = [sync EXCEPT ![n].stage = "barrier", ![n].rows = {}, ![n].through = 0]
    /\ UNCHANGED <<open, backup, left>>

\* Tried exclusively; every open landing holds it shared.
BarrierTaken(p) == open[p].landings = {}

\* qbit_prism_sync_barrier: the peer's sequence, while no landing is open.
ReadBarrier(n) ==
    /\ sync[n].stage = "barrier"
    /\ LET p == Peer(n)
           safe == IF BarrierTaken(p) /\ db[p].syncSeq > 0
                   THEN Highest({sync[n].safe}, db[p].syncSeq)
                   ELSE sync[n].safe
       IN  sync' = [sync EXCEPT
              ![n].safe = safe,
              ![n].stage = IF safe = NoMark THEN "idle" ELSE "blocks"]
    /\ UNCHANGED <<db, open, backup, left>>

LastShare(b) == Highest(KeysOf(b.window), 0)

\* Mutant: a block is applied as soon as it is seen.
CoveredAlways(n, b) == TRUE

WindowCovered(n, b) == b.window # {} => db[n].mark >= LastShare(b)

Pending(n) ==
    {b \in OwnBlocks(Peer(n), Peer(n)) :
        b.sync > db[n].blockMark /\ b.sync <= sync[n].safe}

\* One block a pass: the lowest, applied whole once the share mark covers
\* its window; with none left the cursor settles at the safe mark.
PullBlock(n) ==
    /\ sync[n].stage = "blocks"
    /\ \/ /\ Pending(n) = {}
          /\ db' = [db EXCEPT ![n].blockMark = Highest({@}, sync[n].safe)]
       \/ \E b \in Pending(n) :
             /\ \A other \in Pending(n) : b.sync <= other.sync
             /\ IF WindowCovered(n, b)
                THEN db' = [db EXCEPT ![n].blocks = @ \cup {b},
                                      ![n].blockMark = Highest({@}, b.sync)]
                ELSE UNCHANGED db
    /\ sync' = [sync EXCEPT ![n].stage = "idle"]
    /\ UNCHANGED <<open, backup, left>>

\* Rows that fail to apply fail only their stream: the pass goes on.
FailShares(n) ==
    /\ sync[n].stage \in {"raise", "apply"} /\ left.failures > 0
    /\ sync' = [sync EXCEPT ![n].stage = "barrier", ![n].rows = {}, ![n].through = 0]
    /\ left' = [left EXCEPT !.failures = @ - 1]
    /\ UNCHANGED <<db, open, backup>>

\* A pass that fails drops the path, and with it the safe mark.
FailPass(n) ==
    /\ sync[n].stage \notin {"idle", "diverged"} /\ left.failures > 0
    /\ sync' = [sync EXCEPT ![n].stage = "idle", ![n].rows = {},
                            ![n].through = 0, ![n].safe = NoMark]
    /\ left' = [left EXCEPT !.failures = @ - 1]
    /\ UNCHANGED <<db, open, backup>>

-----------------------------------------------------------------------------
(* The latch and own-log recovery.                                         *)

Unlatched(n) == ~CaughtUp(n) /\ sync[n].stage = "idle"

\* latch_without_peer: only on the server the own log was last verified on.
LatchWithoutPeer(n) ==
    /\ Unlatched(n) /\ db[n].verified = db[n].timeline
    /\ sync' = [sync EXCEPT ![n].latch = db[n].timeline]
    /\ UNCHANGED <<db, open, backup, left>>

MissingShares(n) ==
    {s \in OwnShares(n, Peer(n)) : s.key > Highest(KeysOf(OwnShares(n, n)), 0)}

\* Mutant: the highest block held is taken to prove a prefix.
BlocksAbove(n) ==
    {b \in OwnBlocks(n, Peer(n)) :
        b.sync > Highest({held.sync : held \in OwnBlocks(n, n)}, 0)}

\* Landings commit out of order: every one the peer holds is compared.
MissingBlocks(n) == OwnBlocks(n, Peer(n)) \ OwnBlocks(n, n)

\* Mutant: a recovery that finds nothing missing never goes on.
RecoverStalls(n) ==
    /\ Unlatched(n)
    /\ \E s \in MissingShares(n) :
         /\ \A other \in MissingShares(n) : s.key <= other.key
         /\ db' = [db EXCEPT ![n].shares = @ \cup {s},
                             ![n].seq = Raised(n, s.key),
                             ![n].verified = NoTimeline]
         /\ sync' = [sync EXCEPT ![n].stage = "ownBlocks"]
    /\ UNCHANGED <<open, backup, left>>

\* One own row above the highest held, taken back in key order after the
\* last verification is forgotten.  A conflict means the own log diverged:
\* the latch stays unset until an operator decides.
RecoverShares(n) ==
    /\ Unlatched(n)
    /\ IF MissingShares(n) = {}
       THEN /\ sync' = [sync EXCEPT ![n].stage = "ownBlocks"]
            /\ UNCHANGED db
       ELSE \E s \in MissingShares(n) :
            /\ \A other \in MissingShares(n) : s.key <= other.key
            /\ db' = [db EXCEPT ![n].shares = @ \cup ({s} \ Refused(n, {s})),
                                ![n].seq = Raised(n, s.key),
                                ![n].verified = NoTimeline]
            /\ sync' = [sync EXCEPT ![n].stage =
                           IF Refused(n, {s}) = {} THEN @ ELSE "diverged"]
    /\ UNCHANGED <<open, backup, left>>

\* Every own block the peer holds that is missing here, whatever its number.
RecoverBlocks(n) ==
    /\ sync[n].stage = "ownBlocks"
    /\ db' = [db EXCEPT
          ![n].blocks = @ \cup MissingBlocks(n),
          ![n].verified = IF MissingBlocks(n) = {} THEN @ ELSE NoTimeline]
    /\ sync' = [sync EXCEPT ![n].stage = "floors"]
    /\ UNCHANGED <<open, backup, left>>

\* The peer's cursors over this node and the highest own rows it holds.
ReadFloors(n) ==
    /\ sync[n].stage = "floors"
    /\ LET p == Peer(n)
       IN  sync' = [sync EXCEPT ![n].stage = "verify",
              ![n].through = Highest(KeysOf(OwnShares(n, p)), db[p].mark),
              ![n].syncFloor = Highest({b.sync : b \in OwnBlocks(n, p)},
                                       db[p].blockMark)]
    /\ UNCHANGED <<db, open, backup, left>>

\* raise_own_sequences, record_own_log_verified, and the latch.
Verify(n) ==
    /\ sync[n].stage = "verify"
    /\ db' = [db EXCEPT
          ![n].seq = Raised(n, Highest(KeysOf(db[n].shares), sync[n].through)),
          ![n].syncSeq = Highest({@}, sync[n].syncFloor),
          ![n].verified = db[n].timeline]
    /\ sync' = [sync EXCEPT ![n] = [FreshSync EXCEPT !.latch = db[n].timeline]]
    /\ UNCHANGED <<open, backup, left>>

-----------------------------------------------------------------------------
(* Crashes, backups and restores.                                          *)

Crash(n) ==
    /\ left.failures > 0
    /\ sync' = [sync EXCEPT ![n] = FreshSync]
    /\ open' = [open EXCEPT ![n] = [append |-> NoAppend, landings |-> {}]]
    /\ left' = [left EXCEPT !.failures = @ - 1]
    /\ UNCHANGED <<db, backup>>

TakeBackup(n) ==
    /\ n \in Restorable /\ backup[n] = NoBackup /\ left.restores > 0
    /\ backup' = [backup EXCEPT ![n] = db[n]]
    /\ UNCHANGED <<db, open, sync, left>>

\* A restore, or the promotion of a standby that lags, under a frontend that
\* runs: it starts a new timeline, and every transaction open is gone.  The
\* peer's next read finds the connection gone and drops its safe mark.  A
\* batch the peer read before is applied long before the restore is over.
Restore(n) ==
    /\ n \in Restorable /\ backup[n] # NoBackup
    /\ left.restores > 0 /\ db[n].timeline < MaxRestores
    /\ sync[Peer(n)].stage \notin {"raise", "apply"}
    /\ db' = [db EXCEPT ![n] = [backup[n] EXCEPT !.timeline = db[n].timeline + 1]]
    /\ open' = [open EXCEPT ![n] = [append |-> NoAppend, landings |-> {}]]
    /\ sync' = [sync EXCEPT
          ![Peer(n)].stage = IF @ \in {"verify", "diverged"} THEN @ ELSE "idle",
          ![Peer(n)].safe = NoMark,
          ![n] = [FreshSync EXCEPT !.latch = sync[n].latch]]
    /\ left' = [left EXCEPT !.restores = @ - 1]
    /\ UNCHANGED backup

\* The first check of a pass: the database changed under the frontend.
StopFrontend(n) ==
    /\ CaughtUp(n) /\ ~SameServer(n) /\ sync[n].stage = "idle"
    /\ sync' = [sync EXCEPT ![n] = FreshSync]
    /\ open' = [open EXCEPT ![n] = [append |-> NoAppend, landings |-> {}]]
    /\ UNCHANGED <<db, backup, left>>

-----------------------------------------------------------------------------
Work(n) ==
    \/ ReadShares(n) \/ RaiseSequence(n) \/ ApplyShares(n)
    \/ ReadBarrier(n) \/ PullBlock(n)
    \/ RecoverShares(n) \/ RecoverBlocks(n) \/ ReadFloors(n) \/ Verify(n)
    \/ StopFrontend(n)

Next ==
    \E n \in Node :
       \/ DrawShare(n) \/ EndAppend(n)
       \/ BeginLanding(n) \/ CommitLanding(n) \/ AbortLanding(n)
       \/ ReadShares(n) \/ RaiseSequence(n) \/ ApplyShares(n)
       \/ ReadBarrier(n) \/ PullBlock(n) \/ FailShares(n) \/ FailPass(n)
       \/ LatchWithoutPeer(n)
       \/ RecoverShares(n) \/ RecoverBlocks(n) \/ ReadFloors(n) \/ Verify(n)
       \/ Crash(n) \/ TakeBackup(n) \/ Restore(n) \/ StopFrontend(n)

Spec == Init /\ [][Next]_vars

FairSpec ==
    /\ Spec
    /\ \A n \in Node : WF_vars(Work(n)) /\ WF_vars(EndAppend(n))
                       /\ WF_vars(CommitLanding(n) \/ AbortLanding(n))

-----------------------------------------------------------------------------
(* Properties.                                                             *)

\* No cursor passes a row of the peer's that is not here.  Shares: every one
\* at or below scanned_through is held or was refused, although the scan
\* counts rows of both origins and appends are open.  Blocks: in whatever
\* order landings commit and whatever the peer was restored to.
CursorsComplete ==
    \A n \in Node :
        /\ \A s \in OwnShares(Peer(n), Peer(n)) : s.key <= db[n].mark =>
               s \in db[n].shares \/ s.key \in db[n].refused
        /\ \A b \in OwnBlocks(Peer(n), Peer(n)) :
               b.sync <= db[n].blockMark => b \in db[n].blocks

\* A node that holds a block of the peer's holds every share of the block's
\* window, of either origin, but for the ones it refused: the block's audit
\* is verifiable when this node confirms it.
WindowHeld ==
    \A n \in Node : \A b \in OwnBlocks(Peer(n), n) : \A s \in b.window :
        s \in db[n].shares \/ s.key \in db[n].refused

\* A node that serves holds every share and block of its own that the peer
\* holds, with the peer's content: no key is ever drawn twice, whatever
\* backup it was restored from.
OwnLogWhole ==
    \A n \in Node : CaughtUp(n) /\ SameServer(n) =>
        /\ OwnShares(n, Peer(n)) \subseteq OwnShares(n, n)
        /\ OwnBlocks(n, Peer(n)) \subseteq OwnBlocks(n, n)

Converged ==
    \A n \in Node :
        /\ CaughtUp(n)
        /\ \A s \in OwnShares(Peer(n), Peer(n)) :
              s \in db[n].shares \/ s.key \in db[n].refused
        /\ OwnBlocks(Peer(n), Peer(n)) \subseteq db[n].blocks

\* Once failures stop and the local writers rest, both nodes serve and hold
\* each other's shares and blocks.
PairConverges == <>[]Converged

=============================================================================
