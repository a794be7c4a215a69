------------------------------- MODULE Fanout -------------------------------
(***************************************************************************)
(* The CTV fanout broadcaster (broadcaster.rs, ledger/fanout.rs and the    *)
(* fanout claims of ledger/blocks.rs): frontends claim mature fanouts,     *)
(* look each one up on the node's chain, fund the CPFP child of a zero-fee *)
(* one from the sponsorship wallet, send it and record what they saw.      *)
(* Claims are taken over, processes die at any step, blocks are            *)
(* disconnected, packages fall out of the mempool and the wallet's owner   *)
(* spends coins the wallet has not locked.                                 *)
(*                                                                         *)
(* Every block here is above the fanouts' maturity.  Schedules are left to *)
(* chance; the payout revision that fences a completion only ever refuses  *)
(* it, so a refusal is a choice.  The node, its wallet and their owner are *)
(* external, and one node answers every frontend: none of them lags.       *)
(***************************************************************************)
EXTENDS Integers, Sequences, FiniteSets, SequencesExt

CONSTANTS
    Txid,         \* fanout_txid, ordered
    Sponsored,    \* the ones without a built-in fee
    Coin,         \* the outpoints of the sponsorship wallet
    Worker,       \* frontends
    Deep,         \* 1000 in the code
    NoCoin, NoWorker,
    Budgets       \* bounds: the fanouts, the frontends, how high empty blocks
                  \* are mined and how often each fault happens

ASSUME FanoutAssumption ==
    /\ Txid \subseteq Nat \ {0} /\ Sponsored \subseteq Txid
    /\ NoCoin \notin Coin /\ NoWorker \notin Worker
    /\ Deep \in Nat \ {0}
    /\ Budgets \subseteq [mature : SUBSET Txid, up : SUBSET Worker, height : Nat,
                          failures : Nat, reorgs : Nat, evictions : Nat,
                          spends : Nat, peers : Nat]

VARIABLES
    row,       \* qbit_ctv_fanout_artifacts
    package,   \* qbit_prism_cpfp_packages
    retired,   \* qbit_prism_cpfp_retired_funding
    fatal,     \* fatal_error
    worker,    \* the attempt of each frontend
    wallet,    \* the wallet: its locks, and the coins its owner spent
    chain,     \* the node's best chain: each block's id and transactions
    mempool,
    blocks,    \* blocks ever mined, which name a block
    children,  \* children ever signed, which name a child
    sent,      \* history: the children handed to the node, by fanout
    settled,   \* history: the fanouts recorded Deep confirmations deep
    left       \* what is left of the budget

ledger == <<row, package, retired, fatal>>
node == <<chain, mempool, blocks>>
history == <<sent, settled>>
vars == <<ledger, worker, wallet, node, children, history, left>>

NoTxid == 0
NoChild == 0
Unconfirmed == [height |-> 0, id |-> 0, depth |-> 0]
NoPackage == [coin |-> NoCoin, child |-> NoChild, released |-> FALSE]
Resting == [pc |-> "idle", txid |-> NoTxid, tip |-> 0, child |-> NoChild,
            status |-> "failed", seen |-> Unconfirmed]

Init ==
    /\ left \in Budgets
    /\ row = [f \in Txid |->
                [status |-> IF f \in left.mature THEN "broadcastable"
                            ELSE "awaiting_maturity",
                 claim |-> NoWorker, next |-> 1, anchor |-> Unconfirmed,
                 confirmed |-> Unconfirmed]]
    /\ package = [f \in Txid |-> NoPackage]
    /\ retired = {} /\ fatal = FALSE
    /\ worker = [w \in Worker |-> Resting]
    /\ wallet = [locked |-> {}, lost |-> {}]
    /\ chain = <<[id |-> 1, txs |-> {}]>> /\ mempool = {} /\ blocks = 1
    /\ children = 0
    /\ sent = [f \in Txid |-> {}] /\ settled = {}

Spend(failure) == left' = [left EXCEPT ![failure] = @ - 1]

-----------------------------------------------------------------------------
(* The node.                                                               *)

Tip == Last(chain).id
Active(height, id) == height \in 1..Len(chain) /\ chain[height].id = id
OnChain == UNION {chain[h].txs : h \in 1..Len(chain)}
HeightsOf(f) == {h \in 1..Len(chain) : \E tx \in chain[h].txs : tx.txid = f}
InChain(f) == HeightsOf(f) # {}
InMempool(f) == \E tx \in mempool : tx.txid = f

\* gettxout without and with the mempool; the owner's spends are confirmed.
Unspent(coin) == coin \notin wallet.lost /\ \A tx \in OnChain : tx.coin # coin
Unclaimed(coin) == Unspent(coin) /\ \A tx \in mempool : tx.coin # coin

\* A child of f other than the one this wallet's coin funds.
Conflicted(f, coin) ==
    \E tx \in OnChain \cup mempool : tx.txid = f /\ tx.coin # coin

\* The wallet keeps its owner off locked coins, and off the coin of a child
\* it has seen, on the chain, in the mempool or evicted, unless another child
\* took its place.
Protected ==
    wallet.locked \cup
    UNION {{s.coin : s \in {t \in sent[f] : ~Conflicted(f, t.coin)}} :
           f \in Txid}

Mine ==
    /\ mempool # {} \/ Len(chain) < left.height
    /\ chain' = Append(chain, [id |-> blocks + 1, txs |-> mempool])
    /\ mempool' = {} /\ blocks' = blocks + 1
    /\ UNCHANGED <<ledger, worker, wallet, children, history, left>>

\* The blocks from some height on are replaced by as many others.  What they
\* held is mined again in the first of those, returns to the mempool, or is
\* forgotten.
Reorg ==
    /\ left.reorgs > 0 /\ Spend("reorgs")
    /\ \E h \in 1..Len(chain) :
         LET gone == UNION {chain[i].txs : i \in h..Len(chain)} IN
         \E again \in SUBSET gone : \E back \in SUBSET (gone \ again) :
           /\ chain' = [i \in DOMAIN chain |->
                IF i < h THEN chain[i]
                ELSE [id |-> blocks + i - h + 1,
                      txs |-> IF i = h THEN again ELSE {}]]
           /\ mempool' = mempool \cup back
           /\ blocks' = blocks + Len(chain) - h + 1
    /\ UNCHANGED <<ledger, worker, wallet, children, history>>

Evict ==
    /\ left.evictions > 0 /\ Spend("evictions")
    /\ \E tx \in mempool : mempool' = mempool \ {tx}
    /\ UNCHANGED <<ledger, worker, wallet, chain, blocks, children, history>>

OwnerSpends ==
    /\ left.spends > 0 /\ Spend("spends")
    /\ \E c \in Coin \ Protected :
         Unclaimed(c) /\ wallet' = [wallet EXCEPT !.lost = @ \cup {c}]
    /\ UNCHANGED <<ledger, worker, node, children, history>>

\* The other node of a pair relays the fanout with a child of its own.
PeerSends ==
    /\ left.peers > 0 /\ Spend("peers")
    /\ \E f \in Sponsored \cap left.mature :
         /\ ~InMempool(f) /\ ~InChain(f)
         /\ mempool' = mempool \cup {[txid |-> f, coin |-> NoCoin]}
    /\ UNCHANGED <<ledger, worker, wallet, chain, blocks, children, history>>

-----------------------------------------------------------------------------
(* Claims.                                                                 *)

DeepRows ==
    {f \in Txid : row[f].status = "confirmed" /\ row[f].confirmed.depth >= Deep}

Newer(f, g) ==
    \/ row[f].confirmed.height > row[g].confirmed.height
    \/ row[f].confirmed.height = row[g].confirmed.height /\ f > g

\* FANOUT_CLAIMABLE_SQL: of the deep confirmations only the newest.
Claimable(f) ==
    /\ row[f].status # "awaiting_maturity"
    /\ f \in DeepRows => \A g \in DeepRows \ {f} : Newer(f, g)

Take(w, f) ==
    /\ row' = [row EXCEPT ![f].claim = w]
    /\ worker' = [worker EXCEPT ![w] =
                    [Resting EXCEPT !.pc = "begin", !.txid = f]]
    /\ UNCHANGED <<package, retired, fatal, wallet, node, children, history>>

Claim(w, f) ==
    /\ worker[w].pc = "idle" /\ w \in left.up /\ ~fatal
    /\ row[f].claim = NoWorker /\ Claimable(f)
    /\ Take(w, f)
    /\ UNCHANGED left

Held(f) == row[f].claim # NoWorker /\ Claimable(f)

\* take_over_fanout, of a holder that is gone.  A running attempt ends by its
\* own deadline before any frontend has watched its claim for a lease.
TakeOver(w, f) ==
    /\ worker[w].pc = "idle" /\ w \in left.up /\ ~fatal
    /\ Held(f) /\ worker[row[f].claim].txid # f
    /\ Take(w, f)
    /\ UNCHANGED left

\* The same, while the completion of the attempt hangs.
TakeOverLate(w, f) ==
    /\ worker[w].pc = "idle" /\ w \in left.up /\ ~fatal
    /\ Held(f) /\ worker[row[f].claim].txid = f
    /\ worker[row[f].claim].pc = "finish"
    /\ left.failures > 0 /\ Spend("failures")
    /\ Take(w, f)

\* require_fanout, and writable.
Fenced(w) == ~fatal /\ row[worker[w].txid].claim = w

-----------------------------------------------------------------------------
(* An attempt.                                                             *)

Goes(w, pc) == worker' = [worker EXCEPT ![w].pc = pc]

Ends(w, status, seen) ==
    worker' = [worker EXCEPT ![w].pc = "finish", ![w].status = status,
                             ![w].seen = seen]

Fails(w) == Ends(w, "failed", Unconfirmed)

SameTip(w) == worker[w].tip = Tip

\* Mutant: a release is never taken back.
MaintainedForGood(f) ==
    LET p == package[f] IN
    IF p.child = NoChild \/ p.released \/ Unspent(p.coin)
    THEN [lock |-> {}, free |-> {}, package |-> p]
    ELSE [lock |-> {}, free |-> {p.coin},
          package |-> [p EXCEPT !.released = TRUE]]

\* maintain_funding_reservation: a signed child's coin is locked until the
\* child is confirmed, and released then.
Maintained(f) ==
    LET p == package[f] IN
    IF p.child = NoChild THEN [lock |-> {}, free |-> {}, package |-> p]
    ELSE IF Unspent(p.coin)
    THEN [lock |-> {p.coin} \ Protected, free |-> {},
          package |-> [p EXCEPT !.released = FALSE]]
    ELSE IF [txid |-> f, coin |-> p.coin] \in OnChain
    THEN [lock |-> {}, free |-> {p.coin},
          package |-> [p EXCEPT !.released = TRUE]]
    ELSE [lock |-> {}, free |-> {}, package |-> p]

\* cleanup_retired_funding: the coins a retirement left locked are unlocked.
Cleanup(f) == {r.coin : r \in {q \in retired : q.txid = f /\ ~q.released}}

Views(w) == worker' = [worker EXCEPT ![w].pc = "check", ![w].tip = Tip]

\* process: the claim is renewed, the chain is read, the wallet is put right.
Begin(w) ==
    LET f == worker[w].txid
        kept == Maintained(f)
    IN  /\ worker[w].pc = "begin"
        /\ IF Fenced(w)
           THEN /\ wallet' = [wallet EXCEPT !.locked =
                       ((@ \ Cleanup(f)) \ kept.free) \cup kept.lock]
                /\ retired' = {[r EXCEPT !.released = @ \/ r.txid = f] :
                                r \in retired}
                /\ package' = [package EXCEPT ![f] = kept.package]
                /\ Views(w)
           ELSE Fails(w) /\ UNCHANGED <<wallet, retired, package>>
        /\ UNCHANGED <<row, fatal, node, children, history, left>>

\* A wallet that does not answer only defers its maintenance.
BeginDeferred(w) ==
    /\ worker[w].pc = "begin" /\ Fenced(w)
    /\ left.failures > 0 /\ Spend("failures")
    /\ Views(w)
    /\ UNCHANGED <<ledger, wallet, node, children, history>>

At(h) == [height |-> h, id |-> chain[h].id, depth |-> Len(chain) - h + 1]

Tracked(f) == row[f].confirmed # Unconfirmed

\* A tracked confirmation that is still active.
CheckTracked(w) ==
    LET f == worker[w].txid
        c == row[f].confirmed
    IN  /\ worker[w].pc = "check" /\ SameTip(w)
        /\ Tracked(f) /\ Active(c.height, c.id)
        /\ Ends(w, "confirmed", At(c.height))
        /\ UNCHANGED <<ledger, wallet, node, children, history, left>>

DeepGone(f) ==
    LET c == row[f].confirmed
    IN  Tracked(f) /\ ~Active(c.height, c.id) /\ c.depth >= Deep

\* halt_fanout_reorg: a deep confirmation left the chain.
Halt(w) ==
    /\ worker[w].pc = "check" /\ SameTip(w) /\ DeepGone(worker[w].txid)
    /\ fatal' = (fatal \/ Fenced(w))
    /\ Fails(w)
    /\ UNCHANGED <<row, package, retired, wallet, node, children, history, left>>

Untracked(f) ==
    /\ ~DeepGone(f)
    /\ Tracked(f) => ~Active(row[f].confirmed.height, row[f].confirmed.id)

\* getrawtransaction, on a node with an index or that still knows the block.
CheckIndexed(w) ==
    /\ worker[w].pc = "check" /\ SameTip(w) /\ Untracked(worker[w].txid)
    /\ \E h \in HeightsOf(worker[w].txid) : Ends(w, "confirmed", At(h))
    /\ UNCHANGED <<ledger, wallet, node, children, history, left>>

\* Mutant: a search goes on although its anchor left the chain.
ScanFromNext(f) == row[f].next

\* Where a search goes on: past the anchor while it is on the chain.
ScanFrom(f) ==
    LET a == row[f].anchor
    IN  IF a # Unconfirmed /\ ~Active(a.height, a.id) THEN 1 ELSE row[f].next

\* scan_spender, a page of one block.
Scan(w) ==
    LET f == worker[w].txid
        h == ScanFrom(f)
    IN  /\ worker[w].pc = "check" /\ SameTip(w) /\ Untracked(f) /\ InChain(f)
        /\ IF h > Len(chain)
           THEN Ends(w, "broadcastable", Unconfirmed) /\ UNCHANGED row
           ELSE IF ~Fenced(w) THEN Fails(w) /\ UNCHANGED row
           ELSE IF h \in HeightsOf(f)
           THEN Ends(w, "confirmed", At(h)) /\ UNCHANGED row
           ELSE /\ row' = [row EXCEPT ![f].next = h + 1, ![f].anchor = At(h)]
                /\ Ends(w, "broadcastable", Unconfirmed)
        /\ UNCHANGED <<package, retired, fatal, wallet, node,
                       children, history, left>>

\* Not spent: known to the mempool, sent with its own fee, or funded.
NotOnChain(w) ==
    LET f == worker[w].txid
    IN  /\ worker[w].pc = "check" /\ SameTip(w) /\ Untracked(f) /\ ~InChain(f)
        /\ IF InMempool(f) THEN Ends(w, "broadcast_submitted", Unconfirmed)
           ELSE Goes(w, IF f \in Sponsored THEN "fund" ELSE "send")
        /\ UNCHANGED <<ledger, wallet, node, children, history, left>>

-----------------------------------------------------------------------------
(* Funding a child.                                                        *)

Unavailable ==
    {package[f].coin : f \in Txid} \cup {r.coin : r \in retired}

\* select_cpfp_funding and reserve_cpfp_funding, under CPFP_FUNDING_LOCK.
Reserve(w) ==
    LET f == worker[w].txid
        coins == {c \in Coin \ (Protected \cup Unavailable) : Unclaimed(c)}
    IN  /\ worker[w].pc = "fund" /\ package[f] = NoPackage
        /\ IF coins # {} /\ Fenced(w)
           THEN /\ \E c \in coins : package' = [package EXCEPT ![f] =
                       [NoPackage EXCEPT !.coin = c]]
                /\ UNCHANGED worker
           ELSE Fails(w) /\ UNCHANGED package
        /\ UNCHANGED <<row, retired, fatal, wallet, node, children, history, left>>

\* retire_unsigned_funding: for good, and the wallet is unlocked later.
Retire(f) ==
    /\ package' = [package EXCEPT ![f] = NoPackage]
    /\ retired' = retired \cup
         {[txid |-> f, coin |-> package[f].coin, released |-> FALSE]}

\* An unsigned reservation is checked before it is used.
CheckFunding(w) ==
    LET f == worker[w].txid
    IN  /\ worker[w].pc = "fund" /\ package[f] # NoPackage
        /\ package[f].child = NoChild
        /\ IF Unclaimed(package[f].coin)
           THEN Goes(w, "lock") /\ UNCHANGED <<package, retired>>
           ELSE IF Fenced(w) THEN Retire(f) /\ UNCHANGED worker
           ELSE Fails(w) /\ UNCHANGED <<package, retired>>
        /\ UNCHANGED <<row, fatal, wallet, node, children, history, left>>

\* A committed child is relayed as it is, by any frontend.
Replay(w) ==
    LET p == package[worker[w].txid]
    IN  /\ worker[w].pc = "fund" /\ p.child # NoChild
        /\ IF p.released THEN Fails(w)
           ELSE worker' = [worker EXCEPT ![w].pc = "send", ![w].child = p.child]
        /\ UNCHANGED <<ledger, wallet, node, children, history, left>>

\* Mutant: the coin is not locked.
LockCoinNever(w) ==
    LET f == worker[w].txid
    IN  /\ worker[w].pc = "lock"
        /\ IF Fenced(w) THEN Goes(w, "sign") ELSE Fails(w)
        /\ UNCHANGED <<ledger, wallet, node, children, history, left>>

\* The wallet refuses to lock a coin that is spent.
LockCoin(w) ==
    LET f == worker[w].txid
    IN  /\ worker[w].pc = "lock"
        /\ IF Fenced(w) /\ Unclaimed(package[f].coin)
           THEN /\ package' = [package EXCEPT ![f].released = FALSE]
                /\ wallet' = [wallet EXCEPT !.locked = @ \cup {package[f].coin}]
                /\ Goes(w, "sign")
           ELSE Fails(w) /\ UNCHANGED <<package, wallet>>
        /\ UNCHANGED <<row, retired, fatal, node, children, history, left>>

\* Mutant: the child is sent before it is saved.
SignUnsaved(w) ==
    /\ worker[w].pc = "sign" /\ Fenced(w)
    /\ children' = children + 1
    /\ worker' = [worker EXCEPT ![w].pc = "send", ![w].child = children']
    /\ UNCHANGED <<ledger, wallet, node, history, left>>

\* A signature has a change address of its own, so no two children are the
\* same.  The coin is checked once more; a saved child is never replaced.
Sign(w) ==
    LET f == worker[w].txid
    IN  /\ worker[w].pc = "sign"
        /\ IF ~Fenced(w) \/ package[f].child # NoChild
           THEN Fails(w) /\ UNCHANGED <<package, retired, children>>
           ELSE IF ~Unclaimed(package[f].coin)
           THEN Retire(f) /\ Fails(w) /\ UNCHANGED children
           ELSE /\ children' = children + 1
                /\ package' = [package EXCEPT ![f].child = children']
                /\ worker' = [worker EXCEPT ![w].pc = "send",
                                            ![w].child = children']
                /\ UNCHANGED retired
        /\ UNCHANGED <<row, fatal, wallet, node, history, left>>

\* The claim is renewed and the tip is the one the attempt read.  The node
\* refuses a child whose coin is spent; the wallet drops its lock when it
\* sees the child.
Send(w) ==
    LET f == worker[w].txid
        coin == package[f].coin
    IN  /\ worker[w].pc = "send"
        /\ IF /\ Fenced(w) /\ SameTip(w) /\ ~InChain(f) /\ ~InMempool(f)
              /\ f \in Sponsored => Unspent(coin)
           THEN /\ mempool' = mempool \cup {[txid |-> f, coin |-> coin]}
                /\ sent' = [sent EXCEPT ![f] =
                             @ \cup {[coin |-> coin, child |-> worker[w].child]}]
                /\ wallet' = [wallet EXCEPT !.locked = @ \ {coin}]
                /\ Ends(w, "broadcast_submitted", Unconfirmed)
           ELSE Fails(w) /\ UNCHANGED <<mempool, sent, wallet>>
        /\ UNCHANGED <<ledger, chain, blocks, children, settled, left>>

-----------------------------------------------------------------------------
(* The end of an attempt.                                                  *)

\* Mutant: a failed attempt clears the evidence of the ones before it.
FinishForgets(w) ==
    LET f == worker[w].txid
        seen == worker[w].seen
    IN  /\ worker[w].pc = "finish"
        /\ row' = IF ~Fenced(w) THEN row
                  ELSE [row EXCEPT ![f].claim = NoWorker,
                                   ![f].status = worker[w].status,
                                   ![f].confirmed = seen]
        /\ settled' = IF Fenced(w) /\ seen.depth >= Deep
                      THEN settled \cup {f} ELSE settled
        /\ worker' = [worker EXCEPT ![w] = Resting]
        /\ UNCHANGED <<package, retired, fatal, wallet, node,
                       children, sent, left>>

\* finish_fanout and observe_fanout with apply_progress: a failure changes
\* no evidence, and leaves a confirmed row confirmed.
Finish(w) ==
    LET f == worker[w].txid
        result == worker[w].status
        seen == worker[w].seen
    IN  /\ worker[w].pc = "finish"
        /\ row' = IF ~Fenced(w) THEN row
                  ELSE IF result = "failed"
                  THEN [row EXCEPT ![f].claim = NoWorker, ![f].status =
                           IF @ = "confirmed" THEN @ ELSE "failed"]
                  ELSE [row EXCEPT ![f].claim = NoWorker, ![f].status = result,
                                   ![f].confirmed = seen]
        /\ settled' = IF Fenced(w) /\ seen.depth >= Deep
                      THEN settled \cup {f} ELSE settled
        /\ worker' = [worker EXCEPT ![w] = Resting]
        /\ UNCHANGED <<package, retired, fatal, wallet, node,
                       children, sent, left>>

\* requeue_refused_fanout, release_failed_fanout, or the release at a
\* shutdown or a hold: the claim is handed back and no evidence is recorded.
HandBack(w) ==
    LET f == worker[w].txid
    IN  /\ worker[w].pc # "idle" /\ left.failures > 0 /\ Spend("failures")
        /\ row' = IF Fenced(w) THEN [row EXCEPT ![f].claim = NoWorker] ELSE row
        /\ worker' = [worker EXCEPT ![w] = Resting]
        /\ UNCHANGED <<package, retired, fatal, wallet, node, children, history>>

\* The tip moved, an RPC failed or the deadline passed.
TipMoved(w) ==
    /\ worker[w].pc = "check" /\ ~SameTip(w)
    /\ Fails(w)
    /\ UNCHANGED <<ledger, wallet, node, children, history, left>>

Abandon(w) ==
    /\ worker[w].pc \notin {"idle", "finish"}
    /\ left.failures > 0 /\ Spend("failures")
    /\ Fails(w)
    /\ UNCHANGED <<ledger, wallet, node, children, history>>

Crash(w) ==
    /\ worker[w].pc # "idle" /\ left.failures > 0 /\ Spend("failures")
    /\ worker' = [worker EXCEPT ![w] = Resting]
    /\ UNCHANGED <<ledger, wallet, node, children, history>>

-----------------------------------------------------------------------------
Attempt(w) ==
    \/ Begin(w) \/ CheckTracked(w) \/ Halt(w) \/ CheckIndexed(w) \/ Scan(w)
    \/ NotOnChain(w) \/ Reserve(w) \/ CheckFunding(w) \/ Replay(w)
    \/ LockCoin(w) \/ Sign(w) \/ Send(w) \/ Finish(w) \/ TipMoved(w)

Next ==
    \/ Mine \/ Reorg \/ Evict \/ OwnerSpends \/ PeerSends
    \/ \E w \in Worker :
         \/ \E f \in Txid : Claim(w, f) \/ TakeOver(w, f) \/ TakeOverLate(w, f)
         \/ Attempt(w)
         \/ BeginDeferred(w) \/ HandBack(w) \/ Abandon(w) \/ Crash(w)

Spec == Init /\ [][Next]_vars

\* Frontends run, blocks are found while there is something to mine, and the
\* lane serves the oldest schedule first, so every fanout has its turn.
FairSpec ==
    /\ Spec
    /\ WF_vars(Mine)
    /\ \A w \in Worker : WF_vars(Attempt(w))
    /\ \A f \in Txid : SF_vars(\E w \in Worker : Claim(w, f) \/ TakeOver(w, f))

-----------------------------------------------------------------------------
\* Every child handed to the node for a fanout is the same transaction, and
\* no coin funds two fanouts (the package is committed before submitpackage
\* and replayed verbatim, 002_multi_instance.sql:85-87).
OneChild ==
    \A f, g \in Txid : \A s \in sent[f], t \in sent[g] :
        (f = g \/ s.coin = t.coin) /\ f \in Sponsored => f = g /\ s = t

\* The owner never takes the coin of a committed child, whichever frontend
\* died between locking and relaying, unless another node's child took its
\* place (maintain_funding_reservation).
FundingKept ==
    [][\A f \in Txid :
         LET c == package[f].coin IN
         package[f].child # NoChild /\ c \in wallet'.lost \ wallet.lost
           => Conflicted(f, c)]_vars

\* A search that goes on from its anchor has missed nothing below it
\* (scan_spender).
ScanSound ==
    \A f \in Txid :
        LET a == row[f].anchor IN
        a # Unconfirmed /\ Active(a.height, a.id) =>
            row[f].next = a.height + 1 /\ \A h \in HeightsOf(f) : h > a.height

\* A fanout once recorded deep is never sent again: its disappearance stops
\* the pool instead (halt_fanout_reorg).
SettledOnce ==
    \A w \in Worker :
        worker[w].pc \in {"fund", "lock", "sign", "send"} =>
            worker[w].txid \notin settled

\* Every mature fanout ends up recorded at the block of the chain that holds
\* it, or deep enough to be settled, or the pool has stopped for an operator.
PaysOut ==
    \A f \in Txid :
        <>[](f \in left.mature =>
               \/ fatal \/ f \in settled
               \/ /\ row[f].status = "confirmed"
                  /\ row[f].confirmed.height \in HeightsOf(f))

=============================================================================
