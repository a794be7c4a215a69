# Verification of qbitleap-umbrel: the PRISM pool's ledger and the app's block history

TLA+ models of the parts of this repository whose correctness depends on the order of
steps of several actors, TLC configurations that check them on small instances, and
TLAPS proofs. `PROJECT.json` lists components, runs, mutants, the map from definitions
to source lines, hazards, findings and theorems.

In this file `server/` is
`src/qbitleap-solo-miner/upstream/qbit-mining-bootstrap/crates/qbit-prism-server/src/`,
`prism/` is the crate `qbit-prism` beside it (`crates/qbit-prism/src/`), and
`backend/` is `src/qbitleap-solo-miner/backend/`.

## 1. Inventory

The repository is an Umbrel app (a qbit node, CKPool, a stratum router, a telemetry
poller and a dashboard) together with a pinned copy of the mining server it builds on,
PRISM: a pool that pays miners in proportion to their recent shares, keeps carried
balances in PostgreSQL, runs several stateless frontends on one database and can run as
a pair of nodes with a database each ("dual writer").

| Component | State | Operations | Hard behaviours |
|---|---|---|---|
| Carry owner (`server/carry_owner.rs`, `carry_owner/transfer.rs`) | role journal of both nodes, setting, guard memory, carry gate | guard check (local read, live read, seed, decide, apply), `release`, `transfer` | two databases, stale or missing reads, restores under a running process, commands that interleave with the guards and with one another |
| Role journal sync (`server/peer_sync/engine.rs`) | copies of the peer's rows, own-log latch and verification | recover own log, latch without peer, pull | crash between pulling rows and recording it, restores |
| Carry gate (`server/ledger/carry.rs`) | paying, fence pending, generation | open/close, fence, checks by reservation and offer | gate moves between reservation and call |
| Candidate outbox (`server/ledger/{candidates,divergence,blocks}.rs`, `server/coordinator.rs`) | candidate row (state, claim, outcome), pool block, payout revision, submission hold | claim, take over, screen, reserve, wait for standby, offer, record, land, settle, reconcile, recover, abandon, hold | several frontends and operators on a row, lost replies, crashes, reorgs, failover |
| Share submission (`server/coordinator/{miner_submit,submit_ledger}.rs`, `ledger/window.rs`) | spawned append or enqueue, commit gate, share row, outbox row, the answer | admit, append, enqueue, fence, commit, answer, capture, credit a deferred share | deadline and disconnect against COMMIT, revision moving underneath, replication cancelled, failover, resubmission |
| Chain view (`server/ledger/window.rs`, `connect.rs`) | best tip seen, payout revision | observe, require revision | stale observations |
| Telemetry poller (`backend/permissionless_telemetry.py`) | counters, history, waiting events, scanned height; one state file | snapshot, scan, save | RPC failure in mid-scan, restarts of CKPool and poller |
| Dashboard and hall of blocks (`backend/main.py`) | one JSON file | update per page view | counter resets |
| Router (`backend/router.py`) | connection count | proxy | little |
| CTV broadcaster (`server/broadcaster.rs`, `ledger/fanout.rs`) | fanout claims, tracked confirmations, scan anchors, CPFP packages, retired funding; the wallet's locks | claim, take over, look up, scan, reserve, lock, sign, save, send, complete, hand back | death between any two of these, reorganisations, evictions, an owner who spends, two nodes sponsoring one fanout |
| Peer sync streams (`server/peer_sync/engine.rs`, `ledger/peer_sync.rs`) | cursors over shares, blocks, prepared records; sequences; own-log verification and latch | scan, raise, apply, barrier, pull block, recover, latch | order between streams, commits out of order, restores |
| Stratum, retained jobs, stale grace, vardiff | per-connection job and difficulty state | subscribe, submit, retarget | stale jobs against new tips |
| Window, payout policy, settlement (`prism/lib.rs`, `settlement.rs`) | none (pure) | window, largest-remainder split, floor and dust, direct and fanout outputs, fanout fees | rounding, boundaries, debts |
| Carried balances (`prism/../sql/001_share_ledger.sql`, `server/ledger/{divergence,blocks}.rs`) | summary of balances kept by triggers, divergence records, maturity, fatal state | land, confirm, disconnect, mature, capture of superseded work | late confirmations, reorganisations in any order |

How they interact. A share and the block it may carry enter the ledger in one append; the
guard loop writes the gate; building work reads it together with
the journal (`job_prior_balance_sql_in`); a found block carries the payout revision its
work was issued at; the reservation compares that revision, the gate and its fence; the
offer compares the gate's generation once more. Lanes, recovery and the reorg reconciler
settle the same pool block and are fenced against one another by the payout revision,
which every newly observed tip and every settlement that changes balances moves.
Confirmed and disconnected blocks move the carried balances through triggers, and the
next work pays those. A mature block's fanouts are relayed by the broadcaster. The peer sync carries one node's shares and blocks to the other. On the
Umbrel side CKPool's status file and the node's chain meet in the poller's state file,
which the dashboard reads.

What makes them correct: at most one node of a pair pays carried balances, and a new
owner only on a chain on which the old owner's payments are buried; a found block is
handed to the node at most once and never forgotten; a proof is credited once, what the
miner was told of it stays true, and the block it carries reaches the outbox; the newest view of the chain
decides about a block; no sequence of blocks creates or loses a satoshi of carried
balance, and every debt is bounded and recorded; each fanout gets one child whose coin
nobody else spends, and is paid out; the nodes of a pair never skip a row of one another
and a restored one serves only with its own log whole; a worker is credited once per block.

## 2. Plan

Done: `CarryOwner`, `CandidateOutbox` and the abstract `OneOffer` it refines, `Fanout`,
`ShareAppend`, `PeerSync`, `PayoutPolicy`, `PayoutLedger` and `BlockHistory`, all with
proofs of their safety properties.

Next, in this order:

1. `OneOwner` (at most one payer, handover by release and acquire), with `CarryOwner`
   refining it, and a composition of the journal, the gate and work issued by both nodes.
2. Publication leases (`publication_authority.rs`, `tip_observation.rs`), whose verdict is
   a free choice in `ShareAppend`.
3. The window cut of two writers, the incremental window cache, instance fencing.

## 3. Modules

### CarryOwner

Two nodes, `0` and `1`. `journal[n][o]` holds the rows of origin `o` in node `n`'s
database; a row keeps the epoch, the claim, the action, the tip and, for an acquire, the
peer epoch it was made over. `guard[n]` is the guard loop between its reads, with
`Guard::peer_confirmed` (`confirmed`) and `Guard::highest_own_epoch` (`highest`).

| Action | Code |
|---|---|
| `GuardReadLocal`, `GuardReadPeer` | `check`: local journal, live read (primary, fallback or failed), `Guard::decide` |
| `GuardSeed`, `GuardSeedFails` | `seed_role`, the re-read and the decision; or an error, with or without the row |
| `GuardApply` | `set_carry_paying` in `run` |
| `Release` | `release` under the settlement lock |
| `TransferCheck`, `TransferCopy`, `TransferAcquire`, `TransferStop` | `transfer`: checks; second read of the peer and copy of its row; acquire under the lock; refusal, error or kill |
| `LatchWithoutPeer`, `RecoverOwnLog`, `RecoverOwnLogStops`, `PullRoles` | peer sync of the journal |
| `TipAdvance`, `Backup`, `Restore`, `Restart` | environment |

Abstractions. The fallback URL answers from the backup, an older copy of the peer's
database. A node's database and layout identity is a `fault` a check may meet. Epochs
are values of one synchronised clock (the code uses milliseconds and assumes NTP on both
nodes); every row moves the clock on. The views `transfer` takes before its write are
one step, because each row it read is compared again later; its chain scan either
passes or is `TransferStop`. A failed local read changes nothing and is no step.
Blocks are not reorganised here: a reorganised tip is a refused transfer. One frontend
runs per node. `MayPay` is the condition of `job_prior_balance_sql_in`; a node that may
pay is taken to pay at once, the worst case.

Timing. `TipAdvance` requires `GuardKeepsUp`: a guard with an open gate completes a
check that began on the present tip before the next block. The code checks every two
seconds with a two-second bound on reads, against blocks minutes apart; it is this
assumption that lets `MIN_RELEASE_DEPTH` be two.

### CandidateOutbox

One candidate row, its pool block, the frontends that may claim it, the reorg
reconciler, the operator's commands, the node and a standby. `attempt[f]` is the
program counter of what frontend `f` does with the row and what it remembers.
`kind` fixes what never changes of a candidate: leased or screened, carry-paying or
not, capture off, within or over the overpay ceiling.

| Actions | Code |
|---|---|
| `Claim`, `TakeOver`, `Recover` | `claim_candidate`, `take_over_claim`, `claim_candidate_for_recovery` |
| `SkipScreen`, `Screen`, `Adopt`, `Abandon` | first part of `offer_candidate` |
| `Reserve`, `Capture` | the two transactions of `reserve_offer_within` |
| `AwaitStandby`, `Renew`, `CarryCheck`, `JournalUnreadable` | between reservation and call |
| `SendOffer`, `OfferNotExecuted`, `CallReturns`, `RecordOffer`, `ReleaseUnsent` | `submit_block`, `classify_offer`, `record_offer`, `release_unsent` |
| `LaneSettle`, `Land`, `Landing`, `Settle`, `FinishSubmitted`, `Orphan`, `NotSettled`, `Reconcile` | `settle_offered_candidate`, `land_offered`, `commit_landing`, the settlements |
| `RecoverScreen` | `recover_candidate_inner` |
| `Fail`, `Crash`, `ReleaseClaim`, `ReleaseGivesUp` | errors, process death, claim release and its failure |
| `AbandonCandidate`, `SetHold`, `ClearHold` | operator commands |
| `ReconcileObserve`, `ReconcileWrite`, `ReconcileStop` | `Coordinator::reconcile` |
| `SetCarryPaying`, `FenceCarryChange`, `ReleaseCarry` | the carry gate and a release by another process |
| `NodeExecutes`, `ChainMoves`, `Replicate`, `Failover` | environment |

Abstractions. Claim tokens come from those nobody remembers any more: a UUID nobody
holds is as good as a new one. Leases have no timing: a claim may be taken over while
its owner is alive, at the price of a fault. A lost COMMIT reply is the step followed by
`Fail`. A refused rebuild of the audit is `Fail`. The chain is what the node shows at
the block's height; work strictly grows with every change of tip, so tips of equal work
are left out. `ReconcileStop` covers passes whose tip moved and passes that listed the
blocks before this one landed. `ClearHold` is the form with
`--offer-pending-candidates`. `FenceCarryChange` is one step although the code clears
`fence_pending` before the COMMIT: the reservation reads the revision under the same
cluster row's lock, so it waits for that COMMIT; the instant after a COMMIT that fails
is not modelled. Dual writers have no failover standby, so `Replicate` and `Failover` exclude
carry-paying work.

`OneOffer` is what the outbox promises of a block: offered at most once and never after
it was given up, its answer kept, one verdict, credited at most once and only after it
went out. `KeepsPromise` is `Promise!Spec` with `Promise == INSTANCE OneOffer WITH` the
number of calls the node got, the row's verdict, whether the outcome is on record and
the found-block counter. One step of the outbox that a reader would not expect is
allowed there: a frontend whose claim was taken over may still make the call it had
reserved after the new holder settled the row as orphaned.

### PayoutPolicy and PayoutLedger

`PayoutPolicy` holds pure operators: the share window (`Counted`), the largest-remainder
split (`Allocate`), what each account is paid (`Onchain`, with `SelectOnchain`), the
settlement as direct outputs and fanout chunks (`Direct`, `Chunk`) and the chunks' fees.
Errors of the code are the operators `Pays` and `Settles`. A payout program is its place
in the canonical account order; recipients who share a program are already one account.

`PayoutLedger` runs the pool on them. A share log is accepted; work is issued from the
balances of the moment; blocks are found on the newest work and on the one before.

| Actions | Code |
|---|---|
| `AcceptShare` | `append_probed`; clocks of frontends differ by a step |
| `IssueWork` | job balances, `apply_payout_policy`, settlement |
| `FindBlock` | `reserve_offer_within` (current, or capture within the ceiling), `commit_landing`, the offer |
| `ObserveTip` | `observe_chain_view_checked` |
| `SettleCandidate` | `finish_candidate_counted_at_revision`, with `record_confirmation` and the triggers |
| `BeginReconcile`, `RowConfirm`, `RowDeactivate`, `RowKept`, `RowFatal`, `CommitReconcile` | `reconcile_blocks_in`, row by row in height order, `qbit_mark_mature_pool_payouts`; a mature block that left the chain stops every writer |
| `ChainMoves` | environment |

Abstractions. The payout revision is only compared with the one of a piece of work, so it
is the flag `current`. Reservation, landing and call are one step, since `CandidateOutbox`
takes them apart. All shares come before the first work. The rows of one reconciliation
are separate steps under the locks they are made under.

### PeerSync

Two nodes, each with a database (shares, sequences, blocks, cursors, refused keys,
timeline, own-log verification), open transactions and the sync task's memory. Keys of
node `n` have parity `n`. Shares commit in key order under `ORDER_LOCK`; landings draw a
`sync_seq` and commit in any order.

| Actions | Code |
|---|---|
| `DrawShare`, `EndAppend`; `BeginLanding`, `CommitLanding`, `AbortLanding` | share append, `commit_landing` |
| `ReadShares`, `RaiseSequence`, `ApplyShares` | `shares_scanned`, `raise_share_sequence_above`, `apply_share_batch` |
| `ReadBarrier`, `PullBlock` | `sync_barrier`, `window_covered`, `apply_block` |
| `FailShares`, `FailPass`, `Crash` | errors of a stream, of a pass, process death |
| `LatchWithoutPeer`, `RecoverShares`, `RecoverBlocks`, `ReadFloors`, `Verify` | `latch_without_peer`, `recover_own_log`, `raise_own_sequences`, `record_own_log_verified` |
| `StopFrontend` | `pass`: the database changed under the frontend |
| `TakeBackup`, `Restore` | environment |

Abstractions. A share is its key and header. One block per pass. Prepared jobs travel
like blocks without a window and are left out. A restore starts a new timeline; a batch
the peer read before a restore is applied before the restore is over.

### Fanout

Frontends (`worker`), the artifact rows, CPFP packages and retired funding, the
sponsorship wallet, and a node with its chain and mempool. Attempts are taken apart where
the code waits for the database, the node or the wallet.

| Actions | Code |
|---|---|
| `Claim`, `TakeOver`, `TakeOverLate` | `claim_fanout`, `take_over_fanout` |
| `Begin`, `BeginDeferred` | `process`, `cleanup_retired_funding`, `maintain_funding_reservation` |
| `CheckTracked`, `Halt`, `CheckIndexed`, `Scan`, `NotOnChain`, `TipMoved` | `process_view`, `halt_fanout_reorg`, `scan_spender` |
| `Reserve`, `CheckFunding`, `Replay`, `LockCoin`, `Sign` | `build_child` and its ledger calls |
| `Send` | renewal, tip check, `submitpackage` or `sendrawtransaction` |
| `Finish`, `HandBack`, `Abandon`, `Crash` | `finish_fanout` with `apply_progress`; the three ways to hand a claim back; errors; process death |
| `Mine`, `Reorg`, `Evict`, `OwnerSpends`, `PeerSends` | environment |

Abstractions. Schedules are left to chance, so any claimable fanout may be claimed. A
running attempt ends by its own deadline before any frontend has watched its claim for a
lease, so only the claim of a holder that is gone is taken over, and that of one whose
completion hangs. The payout revision that fences a completion only ever refuses it
(`HandBack`). The node modelled is the one that sponsors; `PeerSends` is the child of the
other one. Every parent block is mature and stays so. One node answers all frontends.

### ShareAppend

The submissions of one proof (a miner that lost its answer sends it again, over the same
or another session), the primary and its standby. `sub[s]` is a submission: its path, its
commit gate, its spawned task and transaction, and its answer. `db` holds what the ledger
knows of the proof: the payout revision, its share rows and its outbox row.

| Actions | Code |
|---|---|
| `SubmitCurrent`, `SubmitLeased`, `SubmitGrace`, `SubmitDeferred`, `SubmitBlockOnly` | the paths of `submit_share` |
| `Statements` | `append_prepared`, `append_called` under `ORDER_LOCK`: revision fence, probe, share and candidate, or the capture in their place |
| `Hook`, `RetryAfterContention` | `CommitGate::begin_commit` with the lease's fence, `commit_gated`, `retry_after_contention` |
| `ProbeShare`, `Enqueue` | the task of `persist_block_only` |
| `ServerCommits`, `ServerCommitsLocally`, `ServerRefuses`, `StatementFails`, `ConnectionLost`, `Failover` | environment: the database |
| `AppendJoined`, `Deadline`, `GraceEnds` | `persist_share_pass`, `classify_share_append`, `sync_rep_unknown` |
| `EnqueueJoined`, `BoundEnds`, `Poll` | `persist_block_only`, `deferred_share_disposition` |
| `Aborted`, `Disconnect` | `AppendTask::abort`, `AppendTask::drop` |
| `Confirm`, `Bump` | `finish_candidate` with `credit_deferred_share`; another block's settlement |
| `Offer`, `Lose`, `Abandon`, `BlockActive`, `TipMoves` | environment: the outbox lanes (`CandidateOutbox`) and the chain |

Abstractions. One job, issued at revision 0, and one proof that passes the share target,
the block target or both. Admission is an input, limited by the tip and the revision it
reads. The lease's fence answers freely. Of a share's payload only `credit_policy` can
differ between two submissions of one proof: it is the flag `grace`. `own` says that an
answer speaks of the submission's own write; answers read from the outbox
(`deferred_share_disposition`) speak of the block's settlement, which may itself have
committed without the standby, so `AcceptedSurvives` is not about them. A settlement
commits on both databases. `ORDER_LOCK` is held by whoever has an open transaction.

### BlockHistory

The poller with CKPool and the chain as environment. A poll is one action: `Snapshot`
(counters to events, events to scanned blocks), `ScanTo` (heights to rows) up to the
tip or to the height where an RPC call failed, and the state file, which may fail to be
written. `cut` records that a scan stopped after it had given events to blocks.
`Reorganise` puts a longer branch on any height; the code never revisits a scanned height,
so its row stays and a new block of the app's there gets none: `replaced` keeps these
heights apart, and everything else must still be right. Which block of a worker's is which
is not told apart (CKPool counts blocks and does not name them). Rows of old releases
without a hash and the 100-row cap are left out; events wait in order of time, so the
code's sort is the identity.

### MC modules and proofs

The `MC` modules give budgets, starting points
(empty databases; a seeded pair and a pair just after a release, both reachable from
`Init`) and symmetry.
Eight modules hold the theorems: `CarryOwnerProofs`, `CandidateOutboxProofs`,
`FanoutProofs`, `PayoutPolicyProofs` and, on top of it, `PayoutLedgerProofs`,
`ShareAppendProofs`, `PeerSyncProofs`, `BlockHistoryProofs`.

## 4. Runs

| Run | Instance | States | Properties |
|---|---|---|---|
| `carry_handover` | seeded pair, fairness; rows to epoch 4, 2 blocks, a backup or a restart of the taker | 0.12 M | `HandoverBuried`, `OwnerPays`, `ReleasedGateCloses` |
| `carry_restore` | empty databases, any settings, 3 rows, a restore of node 0, no blocks; and a pair just released, with a restore of each database, or one of node 0's and a restart of it | 0.81 M | `AtMostOnePayer`, `NoReseedAfterHandover`, `RowsAgree` |
| `outbox_offer` | 2 frontends, 3 tokens; leased and screened, all captures; 2 tip changes and 2 faults without capture, 2 or 3 and 1 with it | 2.1 M | `TypeOK`, `AtMostOnce`, `AbandonedNeverOffered`, `NewestVerdict`, `KeepsPromise` |
| `outbox_carry` | 1 frontend, 2 tokens, 2 faults; carry-paying with 3 gate moves, single writer with 1 failover | 4.7 M | `CarrySentClean`, `FlushedOfferSurvives` |
| `outbox_live` | 2 frontends, 1 tip change, 1 fault, fairness | 0.22 M | `ActiveBlockSettles` |
| `payout_ledger` | 2 programs, 3 shares, 25 carried balances; then 3 blocks, chain to height 3 | 0.94 M | `BalancesExact`, `DebtWithinFloat`, `CaptureWithinCeiling`, `WindowExact`, `PolicySound`, `SettlementFits`, `DebtRecorded` |
| `peer_sync` | five budgets: up to 3 appends, 2 landings, 1 failure, 1 restore; fairness | 0.93 M | `TypeOK`, `CursorsComplete`, `WindowHeld`, `OwnLogWhole`, `PairConverges` |
| `fanout` | six budgets over 3 fanouts, 2 coins, 2 frontends; deep is 2; fairness | 0.35 M | `OneChild`, `ScanSound`, `SettledOnce`, `FundingKept`, `PaysOut` |
| `share_append` | 2 submissions, every kind of proof, 1 settlement, 1 fault, 1 failover | 1.3 M | `AcceptedSurvives`, `RefusedWroteNothing`, `ProofCreditedOnce`, `BlockReachesOutbox`, `CreditedAtRevision` |
| `share_capture` | 2 submissions, 1 settlement, no database faults, fairness | - | `CaptureSettles`, violated |
| `history_poll` | 2 workers, 2 blocks, 2 clock ticks, 1 fault or reorganisation | 2.0 M | `TypeOK`, `ScannedRecorded`, `CreditedOnce` |
| `history_cut` | the same | - | `NoCreditTwice`, violated |

Why the bounds suffice to meet the interesting cases:

- Three rows are a seed of each node and a release or acquire; four are two seeds, a
  release and an acquire. Two blocks are the release depth.
  A restore of each database covers both orders of losing a claim and losing a release.
- Two frontends and two faults are a takeover of a live claim and a crash, error or
  timeout of either; a third token lets a third attempt meet the row both left behind.
  Three tip changes disconnect a block and connect it again.
- Three gate moves are shut, open and shut again within one offer. The failover is met
  by one frontend: its two faults are a crash and a claim again, before or after the
  promotion; a second frontend adds takeovers, which `outbox_offer` covers.
- Three blocks are two that pay one balance and one between them; a chain of three lets
  each be disconnected and returned. The coinbase, floor, fee and ceiling are chosen so
  that one miner's part is dust, a capture is allowed for some balances and refused for
  others, and a fanout is needed beside the direct outputs. One opening debt and one
  opening credit start the ledger, so debts are met and repaid.
- The budgets of `peer_sync` are the combinations of faults that meet: landings out of
  order, a window ahead of the share cursor, keys and landings through a restore, a
  recovery that fails. Those of `fanout` are a coin the owner wants, a disconnected
  block, the peer's child with a reorganisation and with an owner who spends, two fanouts
  for the coins, and one with a fee of its own. Two coins let a retired reservation be
  replaced.
- Two submissions are a proof and its resubmission at any moment, over any two paths; one
  settlement supersedes the job's revision before, between or after them; one fault and
  one failover are a commit the standby never got and its loss.
- Two blocks and two workers are an event before, and an event after, the scan of its
  block, and a scan that fails between two blocks. The clock's two ticks and
  `MatchWindow = 1` put an event within and outside the window.

What they show beyond "no error found": every property has a mutant of the code (listed
in `PROJECT.json`) that breaks it under the same configuration, such as an epoch without
the clock, a lagging copy taken for the peer, a release buried one block only, a
timed-out call taken for one not made, a sequence raised while an append is open, a child
sent before it is saved, a deadline that closes a committing gate, or a check that looks
at the gate and not at its generation.

Limits of what holds:

- `HandoverBuried` is checked and proved without restores. When both databases go back to
  before a release, nobody knows of the handover any more.
- `AtMostOnePayer` is proved without restores, and checked with one restore of each
  database from a backup that still holds the node's claim. A restore under a running
  frontend to a backup from *before its acquire* can break it: the node still pays until
  its guard looks again (2 s); if within that time both operators run a transfer, the peer
  acquires over the row the restore brought back, and the node acquires once more with an
  epoch above the highest one its guard remembers, which hides the rollback from
  `Guard::decide`. Both gates are open until one guard has seen the other's row.
- `NoReseedAfterHandover` is proved with one node that may be restored. With both it can
  fail: a node pulls the peer's acquire, the peer loses it and the node's rows by a
  restore, the node is restored too and seeds again.
- `CursorsComplete` is checked and proved with one node that may be restored. With both, a node that
  recovers a block from its peer and is then interrupted by the peer's restore to before
  that block raises its `sync_seq` to the peer's new, lower floor (`raise_own_sequences`,
  `peer_sync.rs:1042`) and draws the recovered block's number again; the peer may then
  hold a cursor past a block it does not have. Share keys are raised over the node's own
  table and do not repeat.
- With failovers and an offer whose standby wait did not confirm, `AtMostOnce`,
  `KeepsPromise` and `NewestVerdict` can fail. `docs/prism-ledger-ops.md` ("Found blocks
  and the failover standby") accepts that loss and tells the operator to reconcile;
  `FlushedOfferSurvives` states what is promised.
- `OwnLogWhole` is checked and proved with `AppendsInGap = FALSE`: a frontend that runs through a
  restore writes nothing before its next pass finds the new timeline and stops it. With
  `TRUE` it is violated: a share appended in that gap stands above the ones the restore
  lost, `own_rows_missing` reads only own shares above the highest one held, and the node
  latches without the lost ones, while `docs/prism-ledger-ops.md:4398` says the latch is
  set once the node holds every row it originated that the peer holds. The gap is one
  pass; an operator who stops the frontends around a restore never meets it.
- `PaysOut` is checked with one eviction beside the peer's child. With two evictions and
  an owner who spends the coin the wallet freed when the peer's child took ours' place,
  the committed child can never be relayed again; the code keeps it and fails, for an
  operator to see.
- `BlockReachesOutbox` excuses an append the database refused, a block whose capture may
  not be held, a superseded block with capture off, and a promotion that lost it: the code
  answers the miner failed or stale, and drops them.
- `PaysOut` accepts a fanout once it was recorded deep: of the deep ones the code watches
  only the newest.

Fairness. `carry_handover`: the guard loop of a running frontend goes on
(`carry_owner::run` never ends), and a peer that is asked again and again answers over
its primary URL again and again: strong fairness, since each single read may fail.
Operators, blocks, sync and failures owe nothing. `outbox_live`: the submit loops poll
and a running attempt takes its next step (`submit_loop_with`), the refresh loop keeps
reconciling; takeovers, operators, blocks, errors and crashes owe nothing. `peer_sync`:
each node's sync loop takes its next step (`run` never ends) and open transactions end.
`fanout`: running attempts go on, a transaction in the mempool is mined, and, as the lane
serves the oldest schedule first, a fanout that can be claimed again and again is claimed
(strong fairness per fanout); failures, the owner and the peer owe nothing. `share_capture`:
a spawned task takes its next step, PostgreSQL ends the COMMIT it was
sent and serves those who wait for `ORDER_LOCK` in turn (strong fairness), and the landing
loop keeps trying a block that is active; miners, deadlines and settlements owe nothing.

### Findings

`share_capture`: a block captured on a superseded revision defers its share; if the miner
gets `ledger-outcome-unknown` and sends the proof again after the tip moved (the captured
block may be the new tip), it is credited under stale grace, with the policy
`stale-grace` on the row (`miner_submit.rs:546`). The settlement of the captured block then
appends the deferred share, finds the row of another payload and fails
(`window.rs:1285`), each time it is tried. `miner_submit.rs:903` says the block and the
deferred share "are still landed and credited once". The proof is credited once
(`ProofCreditedOnce`); it is the block that stays unconfirmed in the ledger.

`history_cut`: `scan_qbit_blocks` returns from the middle of its loop when an RPC call
fails (`permissionless_telemetry.py:156`), before it stores the list of waiting events it
has taken from (line 168). The rows stay, and so do the events: an event given to one
block is given to the next paid block too, and its worker is credited twice.
`test_permissionless_telemetry.py:130` asserts that an event given to a block no longer
waits. `CreditedOnce` shows that this is the only way to that outcome within the model.

## 5. Proofs

`CarryOwnerProofs` proves, for every value of the bounds and every release depth allowed
by the assumptions (`BoundsAssumption`, `DepthAssumption`):

- `TypeCorrect == Spec => []TypeOK`. `TypeOK` is inductive; the lemmas say that reading
  a journal yields a row, that `Decide` and the guard's updates keep the guard's type
  and that an append keeps the journal's.
- `JournalsAgree == Spec => []RowsAgree`. `RowsAgree` alone is not inductive: a node
  could write an epoch that some copy already holds. The inductive invariant `AgreeInv`
  adds `EpochsPast`: every epoch in a journal or a backup lies before the clock. A new
  row takes the clock or a later value (`AgreeAppend`); every other action moves rows
  between copies or drops them (`AgreeCopied`), so the copies of an origin never gain a
  row. The argument rests on one clock for both nodes.

Its second part proves, under `NoRestores` (the limits above say why it is needed), for
any release depth of two or more and any number of rows, blocks, backups and restarts:

- `OnePayer == Spec => []AtMostOnePayer`.
- `PaidOverBuried == Spec => []HandoverBuried`.

The inductive invariant `GateInv` follows a handover from the first row to the second
gate. Every copy of a log shows only what its node wrote (`CopiesBehind`); after a row that
disowns only an acquire owns again (`RowsWritten`); an acquire, under way or done, took a
row of the peer's that disowns, a release only when it was buried (`TransfersVetted`); a
guard's memory is of rows that were written, and between decisions it is confirmed exactly
when the gate is open (`GuardReads`); a node that may still seed has never been acquired
from (`FirstCheck`); the guard needs one block at most to see a release and another to shut
the gate (`ReleaseSeen`), which is why the depth must be two or more. From these follow
`OneArmed`, one open gate of one owner, and `Burial`, an open gate over what the peer paid.
The gate is counted as open from the moment its guard has decided (`Armed`), as nothing
stops it any more.

Its third part proves, under `OneRestored` (one database is never restored, the other
any number of times; the limits say why):

- `NoReseed == Spec => []NoReseedAfterHandover`.

The database that is never restored, the keeper's, remembers. The invariant `SeedInv` says
that an acquire leaves a trace there which no restore removes (`TraceKept`): the keeper's
own acquire copied a row of the other node first, and the other node's acquire was over a
row of the keeper's own log, which holds every copy of its rows (`LogsKept`). So a check
that may still seed (`SeedChecks`) has seen nothing of its node's that is older than the
check, and from the moment the peer's primary knew no row of it, or where nothing is lost,
the peer has never acquired (`Untaken`); that the peer does not acquire before the seed is
written is the release depth again, as in the second part. `SeedsFirst` states the property
of every copy of a row, so that it survives a return to a backup.

`CandidateOutboxProofs` proves, for any number of frontends, tokens, faults, tips and
promotions:

- `OutboxTypeCorrect == Spec => []TypeOK`.
- `FlushedSurvives == Spec => []FlushedOfferSurvives`.
- `OneOfferOnly` and `AbandonedForGood`: with one database (`MaxFailovers = 0`),
  `Spec => []AtMostOnce` and `Spec => []AbandonedNeverOffered`. With promotions both can
  fail, as the limits say.

The invariant `OfferInv` covers both cases at once. A reservation is *sure* when no
promotion can undo it: there is one database, or the standby confirmed. A claim's token is
known to one attempt (`TokensApart`); who has not reserved shows no copy of a reservation
(`FreshPending`); a sure reservation is the only one, with the block not yet out
(`ReservedOnce`); once the block is out, no copy shows the row pending or abandoned and no
other reservation can become sure (`OfferedOnce`); a reservation that only the standby
still shows is not lost to a second one (`StandbyFollows`). Most steps are calm (they
neither claim, reserve, copy nor send) and preserve it together.

Its second part goes on from there:

- `PromiseKept`: with one database `Spec => KeepsPromise`, the refinement of `OneOffer`,
  step by step.
- `VerdictsInOrder`: with one database `Spec => NewestVerdict`.
- `CarryClean == Spec => []CarrySentClean`, for any number of promotions and gate moves.

`Books` says in eight cases what a step does to the row, the block and the counts,
`Follows` what it does to an attempt, `Onwards` that revision and tip only grow and the tip
never without the revision. The invariant `PromiseInv` (the node shows the block only after
a call, an answer is recorded once, a first confirmation is one that publishes, an
observation is of the past or of the newest tip) and every step of the promise follow from
these three, so each action is looked at once. The carry gate has an invariant of its own
(`CarryInv`): an attempt knows its gate's generation or an older one, and a gate that moved
has another generation.

`FanoutProofs` proves, for any fanouts, coins, frontends and depth and any number of
takeovers, crashes, reorganisations and evictions, the children of other nodes included:

- `OneChildEver == Spec => []OneChild` and `CoinKept == Spec => FundingKept`.
- `ScanMissesNothing == Spec => []ScanSound`.
- `SettledForGood == Spec => []SettledOnce`.

The invariant `FanoutInv` has a part for each thing an attempt relies on between two of its
steps. A working attempt holds its fanout's claim (`Holding`), for a claim is taken over
only from a frontend that is gone or hangs in its completion. A coin is reserved for one
fanout or retired for good (`Reservations`); what was decided still stands when it is acted
on, and what was sent is the committed child (`Progress`, `SentCommitted`). The coin of a
committed child is locked in the wallet until the node has had the child (`Locked`), and
the node knows a child with a coin of ours only from us (`RelayedAll`), so an owner who is
free to spend the coin finds a conflict. Blocks are numbered as they are mined, so an
anchor that has left the chain never returns (`Counted`). A recorded confirmation is no
deeper than the chain makes it (`Depths`) and the chain is only replaced by one at least as
long, so the evidence of a settled fanout stays deep (`Settled`).

`PayoutPolicyProofs` has no state: it says what the operators of `PayoutPolicy` compute for
any programs, weights, balances, policy and settlement parameters (`ProgramAssumption`,
`PolicyAssumption`, `SettlementAssumption`). Sums over sets, the share window and the
selection of the accounts paid on chain are recursive functions, so each is a `CHOOSE` among
the functions that satisfy an equation: a solution is shown to exist, which makes the
equation usable, and what it computes follows by induction, over numbers or over the subsets
of a finite set (`LeastNumber` and what is derived from it; no operator is a parameter).

- `AllocateExact`: the largest-remainder division loses and invents nothing. The
  remainders sum to a multiple of the total weight and each is smaller than it, so the
  units left over are fewer than the programs, and giving one to each of the first places
  in the order (`Places`) gives out exactly those. `AllocateSame`: weights that
  already add up to the total are returned as they are.
- The lemmas above them say what the window counts (`CountedForm`), that
  `select_onchain_accounts` ends with a set that its own tests accept (`SelectSolves`,
  `SelectWithin`), what `apply_payout_policy` pays (`PolicyPays`), and which outputs a
  settlement makes direct and how it splits the fee of a fanout (`DirectFacts`,
  `LargestDirect`, `ChunkFeeExact`).

`PayoutLedgerProofs` proves, for any programs, opening balances, shares, policy and
settlement parameters and any number of blocks (the assumptions above and
`LedgerAssumption`), every property of `payout_ledger`:

- `LedgerTypeCorrect == Spec => []TypeOK`, which says among others that no amount on
  chain and no recorded overpay is negative.
- `DebtBounded == Spec => []DebtWithinFloat`. The inductive invariant `DebtInv` adds that
  no work and no block pays an account more than its carried balance and its part of the
  reward (`WithinBalance`, from the last check of `apply_payout_policy`, `Pays`); a block
  keeps what its work promised (`IssuedWork`), and `DebtStep` is the arithmetic: whatever
  balance `x` the rows meet, the debt rises by at most what they take beyond the reward.
- `DebtOnRecord == Spec => DebtRecorded`: only `Confirm` makes a block confirmed, and it
  records exactly the rise of the debt.
- `CaptureHeld == Spec => []CaptureWithinCeiling`. `CaptureInv` adds to `DebtInv` that the
  float a captured block was issued with lies within the ceiling (`CapturesBound`, the one
  check of `reserve_offer_within`); what its rows overpay later is a sum of debts, each
  within the float of its account by `DebtBounded`.
- `BalancesHold == Spec => []BalancesExact`. The property speaks of the balances and of what
  the pool owes in all, and the second needs to know that every work and every block
  divides the whole reward (`WorksWhole`, `BlocksWhole`, from `AllocateExact` when work is
  issued). `BalanceInv` is the conjunction: a confirmation adds the block to the set that
  counts, a disconnection takes it out, and both sides of the equation move by its rows.
- `WindowCounts == Spec => []WindowExact`, `PolicyPaysWhole == Spec => []PolicySound` and
  `SettlementHolds == Spec => []SettlementFits` are statements about the operators at every
  log and every balance the ledger reaches; they follow from type correctness and the
  lemmas of `PayoutPolicyProofs`.

Amounts are integers without a width in these theorems, as in the model: the code's checked
128-bit sums and their error returns are not modelled.

`ShareAppendProofs` proves, for any number of submissions, settlements, faults and
promotions (`AppendAssumption`):

- `AppendTypeCorrect == Spec => []TypeOK`.
- `CreditedOnce == Spec => []ProofCreditedOnce`,
  `RefusalFinal == Spec => []RefusedWroteNothing` and
  `AcceptanceDurable == Spec => []AcceptedSurvives`. None is inductive alone. The invariant
  has four parts: the fields of one submission fit together (`SubFits`: COMMIT is sent
  behind a committing gate and no other, and a refusal is given only with the task ended
  or the gate closed); one transaction holds `ORDER_LOCK`, and the row it is about to
  insert is absent and decided at the revision that still stands (`LockInv`); who has not
  passed the gate, was rolled back or was refused has left nothing on either database
  (`CleanInv`); an insert answered in time is on the standby (`KeptInv`). Every step of a
  submission is either quiet (it claims no more than its task has shown) or a COMMIT; a
  promotion ends all transactions and keeps what the standby holds.
- `RevisionFenced == Spec => CreditedAtRevision`, from `LockInv` and `CleanInv`: only a
  COMMIT adds a submission's row.
- `BlockLanded == Spec => []BlockReachesOutbox`. `LandedInv` says of every submission with
  a block how far its task has brought it: still under way, in the outbox, or excused.

`PeerSyncProofs` proves, for any headers, batch size, writers of blocks and any number of
keys, landings, failures, backups and restores, under `OneRestored` (one node at most is
ever restored, and its frontend writes nothing before it finds the restore; the limits say
what happens otherwise):

- `NothingSkipped == Spec => []CursorsComplete`,
  `WindowWithBlock == Spec => []WindowHeld` and `ServesWhole == Spec => []OwnLogWhole`.
- `TypesKept == Spec => []TypeOK` needs no such hypothesis.

The three properties hold one another up across a restore, so they are parts of one
invariant, `SyncInv`, and each part is stated of a node's database and of the backup it may
return to (`Kept`). *Who may act:* a node that serves was verified on the server that runs,
and only such a node pulls or writes (`Latched`); a backup holds nothing its database lacks
(`Behind`). *Numbers:* no key is held twice and all lie below the sequence (`Keyed`), an
open append has a key above all the node holds, all it is about to apply and all the peer
has scanned (`RaisedFirst`, `Drawn`); a node's block numbers are apart from one another and
from those its open landings drew (`OneNumber`), and once recovered its sequences stand at
or above the peer's cursors (`Ahead`). *Streams:* a batch that waits for `apply` is still
all there is up to its end (`Batch`); of its own shares a node lacks none below one it
holds (`Prefix`), which is what makes `own_rows_missing` and its single key enough; an open
landing stands above the barrier the peer took or among what it still has to pull
(`Landing`). *Result:* a verified database holds its own log whole (`Whole`), cursors are
complete (`Complete`), a block's window is here (`Windowed`), also the window of a block
that is about to be pulled (`Vouched`). An action changes one node; its effect is stated
once (`PullEffect`, `RestoreEffect`, ...), and the proofs of the parts speak of how a
database moved (`From`, `Moved`) and not of each action again.

`BlockHistoryProofs` proves, for any finite set of workers and any matching window, reach
of the first scan, clock, chain and number of faults (`NamesAssumption`,
`BoundsAssumption`):

- `TypeCorrect == Spec => []TypeOK`, which says among others that a height has one row.
- `OneFindOneCredit == Spec => []CreditedOnce`: a scan cut short after it gave events to
  blocks is the only way to a second credit (the finding above).
- `NoGap == Spec => []GapFree`: however far back the first scan reaches, only blocks older
  than every row can be missing up to the scanned height, and no row is of another's block;
  heights a reorganisation of any depth replaced after the scan are excepted.
  `ScanComplete`: where the first scan reaches the first block (`MaxTip <= ScanBack`),
  `Spec => []ScannedRecorded`.

A poll is two folds: of the new events over the state, then of the heights read. The
library defines a fold by a recursive function over the subsets of its indices; `FoldExists`
shows that there is one and that its value is the last of a path of states, each got from
the one before by one step (`ReadPath` for the heights). What one `Attribute` and one
`ScanHeight` keep (`AttributeKeeps`, `ScanHeightKeeps`) then holds of the whole poll
(`SnapshotKeeps`, `ScanKeeps`). The invariant `HistoryInv` has three parts: the world
around the poller (`World`), rows that cover what was scanned from where the first scan
began, in memory and in the file (`Polled`, `Covered`), and the credits (`Credits`). A
worker's rows and waiting events alone say too little, for the next poll adds what the
counters have gained (`Gain`): `Accounted` bounds them together with what CKPool's present
counters would add, and also with what the status file would add and the present counters
after it. A restart of CKPool, a status written anew, a poll and a return to the file each
take one of these bounds into the other.

Only model-checked: `AtMostOnePayer` where databases are restored (see the limits).
`AtMostOnce`, `AbandonedNeverOffered`, `KeepsPromise` and
`NewestVerdict` have theorems for one database only, as promotions break them. Type
correctness of `CarryOwner`, `PayoutLedger`, `ShareAppend` and `Fanout` is proved and not
model-checked again. Liveness is out of the prover's reach:
`OwnerPays`, `ReleasedGateCloses`, `ActiveBlockSettles`, `PairConverges`, `PaysOut`.

## 6. Not modelled

Of about 164,000 lines of code the models stand for the part whose correctness depends on
orders of steps or on balances. The rest has little for a model checker to decide: schema
migration and archives (SQL and file I/O, run by one process under a lock), the encoding
of coinbases, covenant transactions and audit bundles (bytes and hashes), stratum sessions
and vardiff (per-connection and floating point), load generators, simulators and the lab's
coordinator (tools, not deployed), tests, the dashboard's pages and the router. Modelling
those to raise the share of lines would be transliteration.

Within the modelled parts: parking of undecodable rows, lease timing, the wait for the
peer's ingest, graceful shutdown, several frontends per dual-writer node in `CarryOwner`,
prepared jobs and payload retention in `PeerSync`, the finder's liveness that makes the
other node sponsor and the release of artifacts whose parent is reorganised in `Fanout`,
admission and the lease's authority in `ShareAppend`, window cuts of two writers and overflow checks of 128-bit sums in `PayoutPolicy`.
`PROJECT.json` gives the reason for each component.
