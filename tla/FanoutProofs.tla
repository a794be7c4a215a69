----------------------------- MODULE FanoutProofs -----------------------------
(***************************************************************************)
(* The fanout broadcaster: no fanout gets a second child, a committed      *)
(* child's coin is not lost to the wallet's owner, a search misses nothing *)
(* below its anchor and a settled fanout is never sent again.  Proved for  *)
(* any fanouts, coins, frontends and depth, and for any number of faults.  *)
(***************************************************************************)
EXTENDS Fanout, SequenceTheorems, TLAPS

-----------------------------------------------------------------------------
(* The inductive invariant.                                                *)

Seen == [height : Nat, id : Nat, depth : Nat]
Funds == Coin \cup {NoCoin}
Tx == [txid : Txid, coin : Funds]
Statuses == {"awaiting_maturity", "broadcastable", "broadcast_submitted",
             "confirmed", "failed"}
Working == {"begin", "check", "fund", "lock", "sign", "send"}

Rows == [status : Statuses, claim : Worker \cup {NoWorker},
         next : Nat \ {0}, anchor : Seen, confirmed : Seen]
Packages == [coin : Funds, child : Nat, released : BOOLEAN]
Retirements == [txid : Txid, coin : Funds, released : BOOLEAN]
Attempts == [pc : Working \cup {"idle", "finish"}, txid : Txid \cup {NoTxid},
             tip : Nat, child : Nat, status : Statuses, seen : Seen]
Blocks == [id : Nat, txs : SUBSET Tx]
Remaining == [mature : SUBSET Txid, up : SUBSET Worker, height : Nat,
          failures : Nat, reorgs : Nat, evictions : Nat, spends : Nat,
          peers : Nat]

Typed ==
    /\ row \in [Txid -> Rows] /\ package \in [Txid -> Packages]
    /\ retired \subseteq Retirements /\ fatal \in BOOLEAN
    /\ worker \in [Worker -> Attempts]
    /\ wallet \in [locked : SUBSET Funds, lost : SUBSET Coin]
    /\ chain \in Seq(Blocks) /\ Len(chain) > 0
    /\ mempool \subseteq Tx /\ blocks \in Nat /\ children \in Nat
    /\ sent \in [Txid -> SUBSET [coin : Funds, child : Nat]]
    /\ settled \subseteq Txid /\ left \in Remaining

\* An attempt that still works holds its fanout's claim: a frontend takes a
\* claim over only when its holder is gone or hangs in its completion.
Holding ==
    \A w \in Worker :
        /\ worker[w].pc # "idle" => worker[w].txid \in Txid
        /\ worker[w].pc \in Working => row[worker[w].txid].claim = w

\* A coin is reserved for one fanout, a sponsored one, or retired for good.
Reservations ==
    /\ \A f \in Txid :
         f \notin Sponsored \/ package[f].coin = NoCoin => package[f] = NoPackage
    /\ \A f, g \in Txid :
         f # g /\ package[f].coin = package[g].coin => package[f].coin = NoCoin
    /\ \A r \in retired :
         r.coin # NoCoin /\ \A f \in Txid : package[f].coin # r.coin

\* What an attempt has decided still stands when it acts on it.
ProgressAt(w) ==
    LET f == worker[w].txid
        pc == worker[w].pc
    IN  /\ pc \in {"fund", "lock", "sign"} => f \in Sponsored
        /\ pc \in {"lock", "sign"} => package[f] # NoPackage
        /\ pc = "send" /\ f \in Sponsored =>
             package[f].child # NoChild /\ worker[w].child = package[f].child

Progress == \A w \in Worker : ProgressAt(w)

\* What was sent for a fanout is its package; a package with a child sent is
\* committed.
SentCommitted ==
    \A f \in Txid : \A s \in sent[f] :
        /\ s.coin = package[f].coin
        /\ f \in Sponsored =>
             package[f].child # NoChild /\ s.child = package[f].child

Relayed(tx) == tx.coin # NoCoin => \E s \in sent[tx.txid] : s.coin = tx.coin

\* A coin is locked before its child is signed.
LockedAt(w) ==
    worker[w].pc = "sign" => package[worker[w].txid].coin \in wallet.locked

\* A committed child's coin is locked until the node has had the child.
KeptAt(f) ==
    package[f].child # NoChild =>
         \/ package[f].coin \in wallet.locked
         \/ \E s \in sent[f] : s.coin = package[f].coin

\* What the node knows with a coin of this wallet, this pool sent.
RelayedAll == \A tx \in OnChain \cup mempool : Relayed(tx)

Locked ==
    /\ \A w \in Worker : LockedAt(w)
    /\ \A f \in Txid : KeptAt(f)

\* Blocks are numbered in the order they were mined, so a block that has left
\* the chain does not come back.
Counted ==
    /\ \A h \in 1..Len(chain) : chain[h].id <= blocks
    /\ \A f \in Txid : row[f].anchor.id <= blocks
    /\ \A f \in Txid : row[f].anchor = Unconfirmed => row[f].next = 1
    /\ ScanSound

\* A confirmation only gets deeper while its block stays: the node's chain is
\* replaced by one at least as long.
Deepening(evidence) == evidence.depth <= Len(chain) - evidence.height + 1

Depths ==
    /\ \A f \in Txid : Deepening(row[f].confirmed)
    /\ \A w \in Worker :
         /\ Deepening(worker[w].seen)
         /\ worker[w].status = "failed" => worker[w].seen = Unconfirmed

\* The evidence of a settled fanout stays deep, and an attempt that is about
\* to record anything shallower has lost its claim.
Settled ==
    /\ \A f \in settled : row[f].confirmed.depth >= Deep
    /\ \A w \in Worker :
         LET f == worker[w].txid IN
         f \in settled /\ worker[w].pc = "finish" /\ row[f].claim = w
           => worker[w].status = "failed" \/ worker[w].seen.depth >= Deep
    /\ SettledOnce

FanoutInv ==
    /\ Typed /\ Holding /\ Depths /\ Settled /\ Counted
    /\ Reservations /\ Progress /\ SentCommitted /\ RelayedAll /\ Locked

-----------------------------------------------------------------------------
(* Types, and what each step changes.                                      *)

LEMMA IsSequence ==
    ASSUME NEW S, NEW n \in Nat, NEW s \in [1..n -> S]
    PROVE  s \in Seq(S)
  BY SMT

LEMMA MineEffect ==
    ASSUME Typed, Mine
    PROVE  /\ chain' \in Seq(Blocks)
           /\ Len(chain') = Len(chain) + 1 /\ Len(chain) \in Nat
           /\ \A h \in 1..Len(chain) : chain'[h] = chain[h]
           /\ chain'[Len(chain) + 1] = [id |-> blocks + 1, txs |-> mempool]
           /\ blocks' = blocks + 1 /\ mempool' = {}
  BY DEF Typed, Mine, Blocks

LEMMA ReorgEffect ==
    ASSUME Typed, Reorg
    PROVE  \E h \in 1..Len(chain), again \in SUBSET OnChain :
           /\ chain' \in Seq(Blocks)
           /\ Len(chain') = Len(chain) /\ Len(chain) \in Nat
           /\ \A i \in 1..Len(chain) : i < h => chain'[i] = chain[i]
           /\ \A i \in 1..Len(chain) : i >= h =>
                /\ chain'[i].id > blocks /\ chain'[i].id <= blocks'
                /\ chain'[i].txs \subseteq again
           /\ mempool' \subseteq mempool \cup OnChain
           /\ blocks' \in Nat /\ blocks <= blocks'
<1>1. PICK h \in 1..Len(chain) : 
        LET gone == UNION {chain[i].txs : i \in h..Len(chain)} IN
         \E again \in SUBSET gone : \E back \in SUBSET (gone \ again) :
           /\ chain' = [i \in DOMAIN chain |->
                IF i < h THEN chain[i]
                ELSE [id |-> blocks + i - h + 1,
                      txs |-> IF i = h THEN again ELSE {}]]
           /\ mempool' = mempool \cup back
           /\ blocks' = blocks + Len(chain) - h + 1
  BY Zenon DEF Reorg
<1> DEFINE gone == UNION {chain[i].txs : i \in h..Len(chain)}
<1>2. PICK again \in SUBSET gone : \E back \in SUBSET (gone \ again) :
           /\ chain' = [i \in DOMAIN chain |->
                IF i < h THEN chain[i]
                ELSE [id |-> blocks + i - h + 1,
                      txs |-> IF i = h THEN again ELSE {}]]
           /\ mempool' = mempool \cup back
           /\ blocks' = blocks + Len(chain) - h + 1
  BY <1>1
<1>3. /\ Len(chain) \in Nat /\ DOMAIN chain = 1..Len(chain) /\ blocks \in Nat
      /\ h \in Nat /\ h >= 1 /\ h <= Len(chain)
      /\ \A i \in 1..Len(chain) : chain[i] \in Blocks
  <2>1. Len(chain) \in Nat /\ DOMAIN chain = 1..Len(chain) /\ blocks \in Nat
    BY DEF Typed
  <2>2. \A i \in 1..Len(chain) : chain[i] \in Blocks
    BY DEF Typed
  <2> QED BY <2>1, <2>2
<1>4. gone \subseteq OnChain /\ OnChain \subseteq Tx
  <2>1. ASSUME NEW tx \in gone PROVE tx \in OnChain
    <3>1. PICK i \in h..Len(chain) : tx \in chain[i].txs OBVIOUS
    <3>2. i \in 1..Len(chain) BY <1>3, <3>1
    <3> QED BY <3>1, <3>2 DEF OnChain
  <2>2. ASSUME NEW tx \in OnChain PROVE tx \in Tx
    <3>1. PICK i \in 1..Len(chain) : tx \in chain[i].txs BY <2>2 DEF OnChain
    <3> QED BY <1>3, <3>1 DEF Blocks
  <2> QED BY <2>1, <2>2
<1>5. again \subseteq Tx /\ mempool' \subseteq mempool \cup OnChain
  BY <1>2, <1>4
<1>6. blocks' \in Nat /\ blocks <= blocks'
  BY <1>2, <1>3
<1>7. \A i \in 1..Len(chain) :
        /\ chain'[i] \in Blocks
        /\ i < h => chain'[i] = chain[i]
        /\ i >= h => /\ chain'[i].id > blocks /\ chain'[i].id <= blocks'
                     /\ chain'[i].txs \subseteq again
  BY <1>2, <1>3, <1>5 DEF Blocks
<1>8. chain' \in Seq(Blocks) /\ Len(chain') = Len(chain)
  <2>1. chain' = [i \in 1..Len(chain) |-> chain'[i]]
    BY <1>2, <1>3
  <2>2. chain' \in [1..Len(chain) -> Blocks]
    BY <1>7, <2>1
  <2>3. chain' \in Seq(Blocks)
    BY <1>3, <2>2, IsSequence
  <2>4. Len(chain') \in Nat /\ DOMAIN chain' = 1..Len(chain')
    BY <2>3, LenProperties, Zenon
  <2> QED BY <1>3, <2>1, <2>3, <2>4
<1> QED BY <1>2, <1>3, <1>4, <1>5, <1>6, <1>7, <1>8

LEMMA Blocked ==
    ASSUME Typed
    PROVE  /\ Len(chain) \in Nat /\ Len(chain) > 0 /\ DOMAIN chain = 1..Len(chain)
           /\ \A i \in 1..Len(chain) :
                chain[i] \in Blocks /\ chain[i].id \in Nat /\ chain[i].txs \subseteq Tx
           /\ Tip \in Nat
<1>1. Len(chain) \in Nat /\ Len(chain) > 0 /\ DOMAIN chain = 1..Len(chain)
  BY DEF Typed
<1>2. \A i \in 1..Len(chain) :
                chain[i] \in Blocks /\ chain[i].id \in Nat /\ chain[i].txs \subseteq Tx
  <2>1. \A i \in 1..Len(chain) : chain[i] \in Blocks
    BY DEF Typed
  <2> QED BY <2>1 DEF Blocks
<1>3. Last(chain) = chain[Len(chain)] BY DEF Last
<1> QED BY <1>1, <1>2, <1>3 DEF Tip

LEMMA AtSeen ==
    ASSUME Typed, NEW h \in 1..Len(chain)
    PROVE  /\ At(h) \in Seen /\ At(h).height = h /\ At(h).id = chain[h].id
           /\ At(h).depth = Len(chain) - h + 1 /\ At(h) # Unconfirmed
           /\ Len(chain) \in Nat /\ h + 1 \in Nat
<1>1. Len(chain) \in Nat /\ h \in Nat /\ h <= Len(chain) /\ h >= 1 /\ chain[h].id \in Nat
  BY Blocked
<1> QED BY <1>1 DEF At, Seen, Unconfirmed

LEMMA SpendTyped ==
    ASSUME Typed,
           NEW b \in {"failures", "reorgs", "evictions", "spends", "peers"},
           left[b] > 0, Spend(b)
    PROVE  left' \in Remaining
  BY DEF Typed, Spend, Remaining

LEMMA RestingTyped == Resting \in Attempts /\ Unconfirmed \in Seen /\ NoPackage \in Packages
  BY DEF Resting, Attempts, Working, Unconfirmed, Seen, Statuses, NoTxid, NoPackage, Packages, NoChild, Funds

LEMMA EndsTyped ==
    ASSUME Typed, NEW w \in Worker, NEW status \in Statuses, NEW seen \in Seen,
           Ends(w, status, seen)
    PROVE  /\ worker' \in [Worker -> Attempts]
           /\ worker'[w].pc = "finish" /\ worker'[w].txid = worker[w].txid
           /\ worker'[w].status = status /\ worker'[w].seen = seen
           /\ \A v \in Worker \ {w} : worker'[v] = worker[v]
  BY ZenonT(60) DEF Typed, Ends, Attempts

LEMMA FailsTyped ==
    ASSUME Typed, NEW w \in Worker, Fails(w)
    PROVE  /\ worker' \in [Worker -> Attempts]
           /\ worker'[w].pc = "finish" /\ worker'[w].txid = worker[w].txid
           /\ worker'[w].status = "failed" /\ worker'[w].seen = Unconfirmed
           /\ \A v \in Worker \ {w} : worker'[v] = worker[v]
<1>1. "failed" \in Statuses BY DEF Statuses
<1> QED BY <1>1, RestingTyped, EndsTyped DEF Fails

LEMMA GoesTyped ==
    ASSUME Typed, NEW w \in Worker, NEW pc \in Working, Goes(w, pc)
    PROVE  /\ worker' \in [Worker -> Attempts]
           /\ worker'[w].pc = pc /\ worker'[w].txid = worker[w].txid
           /\ worker'[w].status = worker[w].status
           /\ worker'[w].seen = worker[w].seen
           /\ \A v \in Worker \ {w} : worker'[v] = worker[v]
  BY DEF Typed, Goes, Attempts

LEMMA ViewsTyped ==
    ASSUME Typed, NEW w \in Worker, Views(w)
    PROVE  /\ worker' \in [Worker -> Attempts]
           /\ worker'[w].pc = "check" /\ worker'[w].txid = worker[w].txid
           /\ worker'[w].status = worker[w].status
           /\ worker'[w].seen = worker[w].seen
           /\ \A v \in Worker \ {w} : worker'[v] = worker[v]
<1> DEFINE n == [worker[w] EXCEPT !.pc = "check", !.tip = Tip]
<1>1. worker \in [Worker -> Attempts] /\ worker[w] \in Attempts /\ Tip \in Nat
  BY Blocked DEF Typed
<1>2. /\ n \in Attempts /\ n.pc = "check" /\ n.txid = worker[w].txid
      /\ n.status = worker[w].status /\ n.seen = worker[w].seen
  BY <1>1 DEF Attempts, Working
<1>3. worker' = [worker EXCEPT ![w] = n]
  BY <1>1 DEF Views
<1> HIDE DEF n
<1> QED BY <1>1, <1>2, <1>3

LEMMA SendsTyped ==
    ASSUME Typed, NEW w \in Worker, NEW child \in Nat,
           worker' = [worker EXCEPT ![w].pc = "send", ![w].child = child]
    PROVE  /\ worker' \in [Worker -> Attempts]
           /\ worker'[w].pc = "send" /\ worker'[w].txid = worker[w].txid
           /\ worker'[w].child = child
           /\ worker'[w].status = worker[w].status
           /\ worker'[w].seen = worker[w].seen
           /\ \A v \in Worker \ {w} : worker'[v] = worker[v]
<1> DEFINE n == [worker[w] EXCEPT !.pc = "send", !.child = child]
<1>1. worker \in [Worker -> Attempts] /\ worker[w] \in Attempts
  BY DEF Typed
<1>2. /\ n \in Attempts /\ n.pc = "send" /\ n.txid = worker[w].txid
      /\ n.status = worker[w].status /\ n.seen = worker[w].seen
      /\ n.child = child
  BY <1>1 DEF Attempts, Working
<1>3. worker' = [worker EXCEPT ![w] = n]
  BY <1>1
<1> HIDE DEF n
<1> QED BY <1>1, <1>2, <1>3

LEMMA RestsTyped ==
    ASSUME Typed, NEW w \in Worker, worker' = [worker EXCEPT ![w] = Resting]
    PROVE  /\ worker' \in [Worker -> Attempts] /\ worker'[w] = Resting
           /\ \A v \in Worker \ {w} : worker'[v] = worker[v]
  BY RestingTyped DEF Typed

LEMMA TakeTyped ==
    ASSUME Typed, NEW w \in Worker, NEW f \in Txid, Take(w, f)
    PROVE  /\ worker' \in [Worker -> Attempts]
           /\ worker'[w].pc = "begin" /\ worker'[w].txid = f
           /\ worker'[w].status = "failed" /\ worker'[w].seen = Unconfirmed
           /\ \A v \in Worker \ {w} : worker'[v] = worker[v]
           /\ row' \in [Txid -> Rows] /\ row'[f].claim = w
           /\ \A g \in Txid \ {f} : row'[g] = row[g]
           /\ \A g \in Txid : /\ row'[g].next = row[g].next
                              /\ row'[g].anchor = row[g].anchor
                              /\ row'[g].confirmed = row[g].confirmed
<1> DEFINE a == [Resting EXCEPT !.pc = "begin", !.txid = f]
           n == [row[f] EXCEPT !.claim = w]
<1>1. /\ a \in Attempts /\ a.pc = "begin" /\ a.txid = f
      /\ a.status = "failed" /\ a.seen = Unconfirmed
  BY RestingTyped DEF Attempts, Working, Resting
<1>2. /\ n \in Rows /\ n.claim = w /\ n.next = row[f].next
      /\ n.anchor = row[f].anchor /\ n.confirmed = row[f].confirmed
  BY DEF Typed, Rows
<1>3. worker' = [worker EXCEPT ![w] = a] /\ row' = [row EXCEPT ![f] = n]
  BY DEF Take, Typed
<1> HIDE DEF a, n
<1>4. worker \in [Worker -> Attempts] /\ row \in [Txid -> Rows] BY DEF Typed
<1> QED BY <1>1, <1>2, <1>3, <1>4

LEMMA TypedInit == Init => Typed
<1> SUFFICES ASSUME Init PROVE Typed OBVIOUS
<1>1. chain \in Seq(Blocks) /\ Len(chain) > 0
  BY DEF Init, Blocks
<1>2. row \in [Txid -> Rows]
  BY RestingTyped DEF Init, Rows, Statuses
<1>3. left \in Remaining
  BY FanoutAssumption DEF Init, Remaining
<1> QED BY <1>1, <1>2, <1>3, RestingTyped DEF Init, Typed

LEMMA MaintainedTyped ==
    ASSUME Typed, NEW f \in Txid
    PROVE  /\ Maintained(f).lock \subseteq Funds
           /\ Maintained(f).package \in Packages
           /\ Maintained(f).package.coin = package[f].coin
           /\ Maintained(f).package.child = package[f].child
           /\ package[f].child = NoChild => Maintained(f).package = package[f]
           /\ \A c \in Maintained(f).free :
                 c = package[f].coin /\ [txid |-> f, coin |-> c] \in OnChain
           /\ Maintained(f).lock \subseteq {package[f].coin}
<1>1. package[f] \in Packages /\ package[f].coin \in Funds
  BY DEF Typed, Packages
<1> DEFINE p == package[f]
<1>2. CASE p.child = NoChild
  BY <1>1, <1>2 DEF Maintained
<1>3. CASE p.child # NoChild /\ Unspent(p.coin)
  <2>1. Maintained(f) = [lock |-> {p.coin} \ Protected, free |-> {},
                         package |-> [p EXCEPT !.released = FALSE]]
    BY <1>3 DEF Maintained
  <2>2. /\ [p EXCEPT !.released = FALSE] \in Packages
        /\ [p EXCEPT !.released = FALSE].coin = p.coin
        /\ [p EXCEPT !.released = FALSE].child = p.child
    BY <1>1 DEF Packages
  <2> HIDE DEF p
  <2>3. /\ Maintained(f).lock = {p.coin} \ Protected
        /\ Maintained(f).free = {}
        /\ Maintained(f).package = [p EXCEPT !.released = FALSE]
    BY <2>1
  <2>4. p = package[f] BY DEF p
  <2> QED BY <1>1, <1>3, <2>2, <2>3, <2>4
<1>4. CASE p.child # NoChild /\ ~Unspent(p.coin)
                /\ [txid |-> f, coin |-> p.coin] \in OnChain
  <2>1. Maintained(f) = [lock |-> {}, free |-> {p.coin},
                         package |-> [p EXCEPT !.released = TRUE]]
    BY <1>4 DEF Maintained
  <2>2. /\ [p EXCEPT !.released = TRUE] \in Packages
        /\ [p EXCEPT !.released = TRUE].coin = p.coin
        /\ [p EXCEPT !.released = TRUE].child = p.child
    BY <1>1 DEF Packages
  <2> HIDE DEF p
  <2>3. /\ Maintained(f).lock = {}
        /\ Maintained(f).free = {p.coin}
        /\ Maintained(f).package = [p EXCEPT !.released = TRUE]
    BY <2>1
  <2>4. p = package[f] BY DEF p
  <2> QED BY <1>1, <1>4, <2>2, <2>3, <2>4
<1>5. CASE p.child # NoChild /\ ~Unspent(p.coin)
                /\ [txid |-> f, coin |-> p.coin] \notin OnChain
  <2>1. Maintained(f) = [lock |-> {}, free |-> {}, package |-> p]
    BY <1>5 DEF Maintained
  <2> QED BY <1>1, <1>5, <2>1
<1> QED BY <1>2, <1>3, <1>4, <1>5

LEMMA RetireTyped ==
    ASSUME Typed, NEW f \in Txid, Retire(f)
    PROVE  /\ package' \in [Txid -> Packages] /\ package'[f] = NoPackage
           /\ \A g \in Txid \ {f} : package'[g] = package[g]
           /\ retired' \subseteq Retirements
<1>1. package[f].coin \in Funds BY DEF Typed, Packages
<1>2. [txid |-> f, coin |-> package[f].coin, released |-> FALSE] \in Retirements
  BY <1>1 DEF Retirements
<1>3. package' = [package EXCEPT ![f] = NoPackage]
  BY DEF Retire
<1>4. retired' \subseteq Retirements
  BY <1>2 DEF Retire, Typed
<1> QED BY <1>3, <1>4, RestingTyped DEF Typed

\* What a search does to its row, and what the attempt concludes.
LEMMA ScanTyped ==
    ASSUME Typed, NEW w \in Worker, worker[w].txid \in Txid, Scan(w)
    PROVE  LET f == worker[w].txid
               h == ScanFrom(f)
           IN
           /\ worker' \in [Worker -> Attempts] /\ row' \in [Txid -> Rows]
           /\ \/ UNCHANGED row
              \/ /\ h \in 1..Len(chain) /\ h \notin HeightsOf(f)
                 /\ row'[f] = [row[f] EXCEPT !.next = h + 1, !.anchor = At(h)]
                 /\ \A g \in Txid \ {f} : row'[g] = row[g]
           /\ \A g \in Txid : /\ row'[g].claim = row[g].claim
                              /\ row'[g].confirmed = row[g].confirmed
           /\ worker'[w].pc = "finish" /\ worker'[w].txid = f
           /\ \/ worker'[w].seen = Unconfirmed
              \/ /\ h \in 1..Len(chain) /\ worker'[w].seen = At(h)
                 /\ worker'[w].status # "failed"
           /\ \A v \in Worker \ {w} : worker'[v] = worker[v]
<1> DEFINE f == worker[w].txid
           h == ScanFrom(f)
<1>1. h \in Nat \ {0} /\ Len(chain) \in Nat
  BY Blocked DEF ScanFrom, Typed, Rows
<1>2. "failed" \in Statuses /\ "broadcastable" \in Statuses /\ "confirmed" \in Statuses
      /\ Unconfirmed \in Seen
  BY RestingTyped DEF Statuses
<1>3. row \in [Txid -> Rows] BY DEF Typed
<1>4. CASE Ends(w, "broadcastable", Unconfirmed) /\ UNCHANGED row
  BY <1>2, <1>3, <1>4, EndsTyped
<1>5. CASE Fails(w) /\ UNCHANGED row
  BY <1>3, <1>5, FailsTyped
<1>6. CASE h \in 1..Len(chain) /\ Ends(w, "confirmed", At(h)) /\ UNCHANGED row
  <2>1. At(h) \in Seen BY <1>6, AtSeen
  <2> QED BY <1>2, <1>3, <1>6, <2>1, EndsTyped
<1>7. CASE /\ h \in 1..Len(chain) /\ h \notin HeightsOf(f)
           /\ row' = [row EXCEPT ![f].next = h + 1, ![f].anchor = At(h)]
           /\ Ends(w, "broadcastable", Unconfirmed)
  <2>1. At(h) \in Seen /\ h + 1 \in Nat \ {0} BY <1>1, <1>7, AtSeen
  <2> DEFINE n == [row[f] EXCEPT !.next = h + 1, !.anchor = At(h)]
  <2>2. n \in Rows /\ n.claim = row[f].claim /\ n.confirmed = row[f].confirmed
    BY <1>3, <2>1 DEF Rows
  <2>3. row' \in [Txid -> Rows] /\ row'[f] = n
        /\ \A g \in Txid \ {f} : row'[g] = row[g]
    BY <1>3, <1>7, <2>2
  <2>4. /\ worker' \in [Worker -> Attempts]
        /\ worker'[w].pc = "finish" /\ worker'[w].txid = f
        /\ worker'[w].seen = Unconfirmed
        /\ \A v \in Worker \ {w} : worker'[v] = worker[v]
    BY <1>2, <1>7, EndsTyped
  <2> QED BY <1>7, <2>3, <2>4
<1>8. CASE h > Len(chain) BY <1>4, <1>8 DEF Scan
<1>9. CASE ~(h > Len(chain))
  <2>1. h \in 1..Len(chain) BY <1>1, <1>9
  <2> QED BY <1>5, <1>6, <1>7, <1>9, <2>1 DEF Scan
<1> QED BY <1>8, <1>9

LEMMA FinishTyped ==
    ASSUME Typed, NEW w \in Worker, worker[w].txid \in Txid, Finish(w)
    PROVE  LET f == worker[w].txid IN
           /\ row' \in [Txid -> Rows]
           /\ \A g \in Txid \ {f} : row'[g] = row[g]
           /\ row'[f].next = row[f].next /\ row'[f].anchor = row[f].anchor
           /\ ~Fenced(w) => row' = row
           /\ Fenced(w) =>
                /\ row'[f].claim = NoWorker
                /\ row'[f].confirmed = IF worker[w].status = "failed"
                                       THEN row[f].confirmed
                                       ELSE worker[w].seen
<1> DEFINE f == worker[w].txid
<1>1. row \in [Txid -> Rows] /\ worker[w].status \in Statuses /\ worker[w].seen \in Seen
  BY DEF Typed, Attempts
<1>2. CASE ~Fenced(w) BY <1>1, <1>2 DEF Finish
<1>3. CASE Fenced(w) /\ worker[w].status = "failed"
  <2> DEFINE n == [row[f] EXCEPT !.claim = NoWorker, !.status =
                     IF @ = "confirmed" THEN @ ELSE "failed"]
  <2>1. /\ n \in Rows /\ n.next = row[f].next /\ n.anchor = row[f].anchor
        /\ n.claim = NoWorker /\ n.confirmed = row[f].confirmed
    BY ZenonT(60), <1>1 DEF Rows, Statuses
  <2>2. row' = [row EXCEPT ![f] = n]
    BY <1>1, <1>3 DEF Finish
  <2> HIDE DEF n
  <2> QED BY <1>1, <1>3, <2>1, <2>2
<1>4. CASE Fenced(w) /\ worker[w].status # "failed"
  <2> DEFINE n == [row[f] EXCEPT !.claim = NoWorker, !.status = worker[w].status,
                                 !.confirmed = worker[w].seen]
  <2>1. /\ n \in Rows /\ n.next = row[f].next /\ n.anchor = row[f].anchor
        /\ n.claim = NoWorker /\ n.confirmed = worker[w].seen
    BY <1>1 DEF Rows
  <2>2. row' = [row EXCEPT ![f] = n]
    BY <1>1, <1>4 DEF Finish
  <2> HIDE DEF n
  <2> QED BY <1>1, <1>4, <2>1, <2>2
<1> QED BY <1>2, <1>3, <1>4

LEMMA Awake ==
    ASSUME NEW w \in Worker, Attempt(w) PROVE worker[w].pc # "idle"
<1>1. CASE Begin(w) BY <1>1 DEF Begin
<1>2. CASE CheckTracked(w) BY <1>2 DEF CheckTracked
<1>3. CASE Halt(w) BY <1>3 DEF Halt
<1>4. CASE CheckIndexed(w) BY <1>4 DEF CheckIndexed
<1>5. CASE Scan(w) BY <1>5 DEF Scan
<1>6. CASE NotOnChain(w) BY <1>6 DEF NotOnChain
<1>7. CASE Reserve(w) BY <1>7 DEF Reserve
<1>8. CASE CheckFunding(w) BY <1>8 DEF CheckFunding
<1>9. CASE Replay(w) BY <1>9 DEF Replay
<1>10. CASE LockCoin(w) BY <1>10 DEF LockCoin
<1>11. CASE Sign(w) BY <1>11 DEF Sign
<1>12. CASE Send(w) BY <1>12 DEF Send
<1>13. CASE Finish(w) BY <1>13 DEF Finish
<1>14. CASE TipMoved(w) BY <1>14 DEF TipMoved
<1> QED BY <1>1, <1>2, <1>3, <1>4, <1>5, <1>6, <1>7, <1>8, <1>9, <1>10,
           <1>11, <1>12, <1>13, <1>14 DEF Attempt

LEMMA TypedStep == Typed /\ Holding /\ [Next]_vars => Typed'
<1> SUFFICES ASSUME Typed, Holding, [Next]_vars PROVE Typed' OBVIOUS
<1> USE DEF ledger, node, history
<1>0. CASE UNCHANGED vars BY <1>0 DEF Typed, vars
<1>1. CASE Mine BY <1>1, MineEffect DEF Typed, Mine
<1>2. CASE Reorg
  <2>1. left' \in Remaining BY <1>2, SpendTyped DEF Reorg
  <2>2. chain' \in Seq(Blocks) /\ Len(chain') > 0 /\ mempool' \subseteq Tx /\ blocks' \in Nat
    <3>1. PICK h \in 1..Len(chain), again \in SUBSET OnChain :
           /\ chain' \in Seq(Blocks)
           /\ Len(chain') = Len(chain) /\ Len(chain) \in Nat
           /\ mempool' \subseteq mempool \cup OnChain
           /\ blocks' \in Nat
      BY <1>2, ReorgEffect
    <3>2. OnChain \subseteq Tx BY Blocked DEF OnChain
    <3> QED BY <3>1, <3>2 DEF Typed
  <2> QED BY <1>2, <2>1, <2>2 DEF Typed, Reorg
<1>3. CASE Evict
  <2>1. left' \in Remaining BY <1>3, SpendTyped DEF Evict
  <2> QED BY <1>3, <2>1 DEF Typed, Evict
<1>4. CASE OwnerSpends
  <2>1. left' \in Remaining BY <1>4, SpendTyped DEF OwnerSpends
  <2>2. PICK c \in Coin : wallet' = [wallet EXCEPT !.lost = @ \cup {c}]
    BY <1>4 DEF OwnerSpends
  <2>3. wallet' \in [locked : SUBSET Funds, lost : SUBSET Coin]
    BY <2>2 DEF Typed
  <2> QED BY <1>4, <2>1, <2>3 DEF Typed, OwnerSpends
<1>5. CASE PeerSends
  <2>1. left' \in Remaining BY <1>5, SpendTyped DEF PeerSends
  <2>2. mempool' \subseteq Tx
    BY <1>5 DEF PeerSends, Tx, Funds, Typed, Remaining
  <2> QED BY <1>5, <2>1, <2>2 DEF Typed, PeerSends
<1>6. ASSUME NEW w \in Worker, NEW f \in Txid,
             Claim(w, f) \/ TakeOver(w, f) \/ TakeOverLate(w, f)
      PROVE  Typed'
  <2>1. Take(w, f) BY <1>6 DEF Claim, TakeOver, TakeOverLate
  <2>2. left' \in Remaining
    BY <1>6, SpendTyped DEF Claim, TakeOver, TakeOverLate, Typed
  <2> QED BY <2>1, <2>2, TakeTyped DEF Take, Typed
<1>7. ASSUME NEW w \in Worker, Attempt(w) PROVE Typed'
  <2> DEFINE f == worker[w].txid
  <2> SUFFICES ASSUME f \in Txid PROVE Typed'
    BY <1>7, Awake DEF Holding
  <2>1. CASE Begin(w)
    <3> DEFINE kept == Maintained(f)
    <3>1. CASE Fenced(w)
      <4>1. kept.lock \subseteq Funds /\ kept.package \in Packages
        BY MaintainedTyped
      <4>2. wallet' \in [locked : SUBSET Funds, lost : SUBSET Coin]
        <5>1. wallet' = [wallet EXCEPT !.locked =
                          ((@ \ Cleanup(f)) \ kept.free) \cup kept.lock]
          BY <2>1, <3>1 DEF Begin
        <5> QED BY <4>1, <5>1 DEF Typed
      <4>3. retired' \subseteq Retirements
        <5>1. retired' = {[r EXCEPT !.released = @ \/ r.txid = f] : r \in retired}
          BY <2>1, <3>1 DEF Begin
        <5>2. \A r \in retired : [r EXCEPT !.released = @ \/ r.txid = f] \in Retirements
          BY DEF Typed, Retirements
        <5> QED BY <5>1, <5>2
      <4>4. package' \in [Txid -> Packages]
        BY <2>1, <3>1, <4>1 DEF Begin, Typed
      <4>5. worker' \in [Worker -> Attempts]
        BY <2>1, <3>1, ViewsTyped DEF Begin
      <4> QED BY <2>1, <4>2, <4>3, <4>4, <4>5 DEF Begin, Typed
    <3>2. CASE ~Fenced(w)
      BY <2>1, <3>2, FailsTyped DEF Begin, Typed
    <3> QED BY <3>1, <3>2
  <2>2. CASE CheckTracked(w)
    <3>1. row[f].confirmed.height \in 1..Len(chain)
      BY <2>2 DEF CheckTracked, Active
    <3>2. At(row[f].confirmed.height) \in Seen /\ "confirmed" \in Statuses
      BY <3>1, AtSeen DEF Statuses
    <3>3. worker' \in [Worker -> Attempts]
      BY <2>2, <3>2, EndsTyped DEF CheckTracked
    <3> QED BY <2>2, <3>3 DEF CheckTracked, Typed
  <2>3. CASE Halt(w)
    <3>1. fatal' \in BOOLEAN BY <2>3 DEF Halt, Typed, Fenced
    <3> QED BY <2>3, <3>1, FailsTyped DEF Halt, Typed
  <2>4. CASE CheckIndexed(w)
    <3>1. PICK h \in HeightsOf(f) : Ends(w, "confirmed", At(h))
      BY <2>4 DEF CheckIndexed
    <3>2. h \in 1..Len(chain) BY DEF HeightsOf
    <3>3. At(h) \in Seen /\ "confirmed" \in Statuses
      BY <3>2, AtSeen DEF Statuses
    <3>4. worker' \in [Worker -> Attempts]
      BY <3>1, <3>3, EndsTyped
    <3> QED BY <2>4, <3>4 DEF CheckIndexed, Typed
  <2>5. CASE Scan(w)
    <3>1. worker' \in [Worker -> Attempts] /\ row' \in [Txid -> Rows]
      BY <2>5, ScanTyped
    <3> QED BY <2>5, <3>1 DEF Scan, Typed
  <2>6. CASE NotOnChain(w)
    <3>1. CASE InMempool(f)
      <4>1. "broadcast_submitted" \in Statuses BY DEF Statuses
      <4>2. worker' \in [Worker -> Attempts]
        BY <2>6, <3>1, <4>1, EndsTyped, RestingTyped DEF NotOnChain
      <4> QED BY <2>6, <4>2 DEF NotOnChain, Typed
    <3>2. CASE ~InMempool(f)
      <4>1. PICK pc \in Working : Goes(w, pc)
        BY <2>6, <3>2 DEF NotOnChain, Working
      <4>2. worker' \in [Worker -> Attempts] BY <4>1, GoesTyped
      <4> QED BY <2>6, <4>2 DEF NotOnChain, Typed
    <3> QED BY <3>1, <3>2
  <2>7. CASE Reserve(w)
    <3>1. worker' \in [Worker -> Attempts] /\ package' \in [Txid -> Packages]
      <4>1. CASE UNCHANGED package /\ Fails(w)
        BY <4>1, FailsTyped DEF Typed
      <4>2. ASSUME NEW c \in Coin,
                   package' = [package EXCEPT ![f] = [NoPackage EXCEPT !.coin = c]],
                   UNCHANGED worker
            PROVE  worker' \in [Worker -> Attempts] /\ package' \in [Txid -> Packages]
        <5>1. [NoPackage EXCEPT !.coin = c] \in Packages
          BY RestingTyped DEF Packages, Funds
        <5> QED BY <4>2, <5>1 DEF Typed
      <4> QED BY <2>7, <4>1, <4>2 DEF Reserve
    <3> QED BY <2>7, <3>1 DEF Reserve, Typed
  <2>8. CASE CheckFunding(w)
    <3>1. CASE Goes(w, "lock") /\ UNCHANGED <<package, retired>>
      <4>1. worker' \in [Worker -> Attempts]
        BY <3>1, GoesTyped DEF Working
      <4> QED BY <2>8, <3>1, <4>1 DEF CheckFunding, Typed
    <3>2. CASE Retire(f) /\ UNCHANGED worker
      BY <2>8, <3>2, RetireTyped DEF CheckFunding, Typed
    <3>3. CASE Fails(w) /\ UNCHANGED <<package, retired>>
      BY <2>8, <3>3, FailsTyped DEF CheckFunding, Typed
    <3> QED BY <2>8, <3>1, <3>2, <3>3 DEF CheckFunding
  <2>9. CASE Replay(w)
    <3>1. worker' \in [Worker -> Attempts]
      <4>1. CASE Fails(w) BY <4>1, FailsTyped
      <4>2. CASE worker' = [worker EXCEPT ![w].pc = "send",
                                          ![w].child = package[f].child]
        <5>1. package[f].child \in Nat BY DEF Typed, Packages
        <5> QED BY <4>2, <5>1, SendsTyped
      <4> QED BY <2>9, <4>1, <4>2 DEF Replay
    <3> QED BY <2>9, <3>1 DEF Replay, Typed
  <2>10. CASE LockCoin(w)
    <3>1. CASE Fails(w) /\ UNCHANGED <<package, wallet>>
      BY <2>10, <3>1, FailsTyped DEF LockCoin, Typed
    <3>2. CASE /\ package' = [package EXCEPT ![f].released = FALSE]
               /\ wallet' = [wallet EXCEPT !.locked = @ \cup {package[f].coin}]
               /\ Goes(w, "sign")
      <4>1. package' \in [Txid -> Packages] BY <3>2 DEF Typed, Packages
      <4>2. wallet' \in [locked : SUBSET Funds, lost : SUBSET Coin]
        BY <3>2 DEF Typed, Packages
      <4>3. worker' \in [Worker -> Attempts]
        BY <3>2, GoesTyped DEF Working
      <4> QED BY <2>10, <4>1, <4>2, <4>3 DEF LockCoin, Typed
    <3> QED BY <2>10, <3>1, <3>2 DEF LockCoin
  <2>11. CASE Sign(w)
    <3>1. CASE Fails(w) /\ UNCHANGED <<package, retired, children>>
      BY <2>11, <3>1, FailsTyped DEF Sign, Typed
    <3>2. CASE Retire(f) /\ Fails(w) /\ UNCHANGED children
      BY <2>11, <3>2, FailsTyped, RetireTyped DEF Sign, Typed
    <3>3. CASE /\ children' = children + 1
               /\ package' = [package EXCEPT ![f].child = children']
               /\ worker' = [worker EXCEPT ![w].pc = "send",
                                           ![w].child = children']
               /\ UNCHANGED retired
      <4>1. children' \in Nat BY <3>3 DEF Typed
      <4>2. package' \in [Txid -> Packages] BY <3>3, <4>1 DEF Typed, Packages
      <4>3. worker' \in [Worker -> Attempts]
        BY <3>3, <4>1, SendsTyped
      <4> QED BY <2>11, <3>3, <4>1, <4>2, <4>3 DEF Sign, Typed
    <3> QED BY <2>11, <3>1, <3>2, <3>3 DEF Sign
  <2>12. CASE Send(w)
    <3>1. CASE Fails(w) /\ UNCHANGED <<mempool, sent, wallet>>
      BY <2>12, <3>1, FailsTyped DEF Send, Typed
    <3>2. CASE /\ mempool' = mempool \cup {[txid |-> f, coin |-> package[f].coin]}
               /\ sent' = [sent EXCEPT ![f] = @ \cup
                    {[coin |-> package[f].coin, child |-> worker[w].child]}]
               /\ wallet' = [wallet EXCEPT !.locked = @ \ {package[f].coin}]
               /\ Ends(w, "broadcast_submitted", Unconfirmed)
      <4>1. worker' \in [Worker -> Attempts]
        BY <3>2, EndsTyped, RestingTyped DEF Statuses
      <4>2. package[f].coin \in Funds /\ worker[w].child \in Nat
        BY DEF Typed, Packages, Attempts
      <4>3. mempool' \subseteq Tx BY <3>2, <4>2 DEF Typed, Tx
      <4>4. sent' \in [Txid -> SUBSET [coin : Funds, child : Nat]]
        BY <3>2, <4>2 DEF Typed
      <4>5. wallet' \in [locked : SUBSET Funds, lost : SUBSET Coin]
        BY <3>2 DEF Typed
      <4> QED BY <2>12, <4>1, <4>3, <4>4, <4>5 DEF Send, Typed
    <3> QED BY <2>12, <3>1, <3>2 DEF Send
  <2>13. CASE Finish(w)
    <3>1. row' \in [Txid -> Rows] BY <2>13, FinishTyped
    <3>2. settled' \subseteq Txid BY <2>13 DEF Finish, Typed
    <3>3. worker' \in [Worker -> Attempts] BY <2>13, RestsTyped DEF Finish
    <3> QED BY <2>13, <3>1, <3>2, <3>3 DEF Finish, Typed
  <2>14. CASE TipMoved(w)
    BY <2>14, FailsTyped DEF Typed, TipMoved
  <2> QED BY <1>7, <2>1, <2>2, <2>3, <2>4, <2>5, <2>6, <2>7, <2>8, <2>9,
             <2>10, <2>11, <2>12, <2>13, <2>14 DEF Attempt
<1>8. ASSUME NEW w \in Worker, BeginDeferred(w) PROVE Typed'
  <2>1. left' \in Remaining BY <1>8, SpendTyped DEF BeginDeferred
  <2>2. worker' \in [Worker -> Attempts]
    BY <1>8, ViewsTyped DEF BeginDeferred
  <2> QED BY <1>8, <2>1, <2>2 DEF Typed, BeginDeferred
<1>9. ASSUME NEW w \in Worker, HandBack(w) PROVE Typed'
  <2>1. left' \in Remaining BY <1>9, SpendTyped DEF HandBack
  <2>2. row' \in [Txid -> Rows]
    BY ZenonT(60), <1>9 DEF HandBack, Typed, Rows, Holding
  <2> QED BY <1>9, <2>1, <2>2, RestsTyped DEF Typed, HandBack
<1>10. ASSUME NEW w \in Worker, Abandon(w) PROVE Typed'
  <2>1. left' \in Remaining BY <1>10, SpendTyped DEF Abandon
  <2> QED BY <1>10, <2>1, FailsTyped DEF Typed, Abandon
<1>11. ASSUME NEW w \in Worker, Crash(w) PROVE Typed'
  <2>1. left' \in Remaining BY <1>11, SpendTyped DEF Crash
  <2> QED BY <1>11, <2>1, RestsTyped DEF Typed, Crash
<1> QED BY <1>0, <1>1, <1>2, <1>3, <1>4, <1>5, <1>6, <1>7, <1>8, <1>9,
           <1>10, <1>11 DEF Next

-----------------------------------------------------------------------------
(* What a step of an attempt does to the claims and to the evidence.       *)

\* The steps that lead to a child being sent.
Spending == {"fund", "lock", "sign", "send"}

\* What an attempt may conclude about its fanout.
Concludes(w) ==
    LET f == worker[w].txid
        seen == worker'[w].seen
        result == worker'[w].status
    IN  \/ result = "failed" /\ seen = Unconfirmed
        \/ /\ result # "failed"
           /\ \/ seen = Unconfirmed
              \/ \E h \in 1..Len(chain) : seen = At(h)
           /\ Untracked(f) \/ worker[w].pc = "send"
        \/ /\ result # "failed"
           /\ row[f].confirmed.height \in 1..Len(chain)
           /\ seen = At(row[f].confirmed.height)

LEMMA AttemptStep ==
    ASSUME Typed, NEW w \in Worker, worker[w].txid \in Txid,
           Attempt(w), ~Finish(w)
    PROVE  /\ worker[w].pc \in Working
           /\ worker'[w].txid = worker[w].txid
           /\ \A v \in Worker \ {w} : worker'[v] = worker[v]
           /\ UNCHANGED <<settled, chain, blocks>> /\ (Scan(w) \/ UNCHANGED row)
           /\ \A g \in Txid : /\ row'[g].claim = row[g].claim
                              /\ row'[g].confirmed = row[g].confirmed
           /\ \/ /\ worker'[w].pc \in Working
                 /\ worker'[w].seen = worker[w].seen
                 /\ worker'[w].status = worker[w].status
                 /\ worker'[w].pc \in Spending =>
                      Untracked(worker[w].txid) \/ worker[w].pc \in Spending
              \/ worker'[w].pc = "finish" /\ Concludes(w)
<1> DEFINE f == worker[w].txid
<1> USE DEF node, history, ledger
<1>0. "failed" \in Statuses /\ "broadcast_submitted" \in Statuses
      /\ "confirmed" \in Statuses /\ Unconfirmed \in Seen
  BY RestingTyped DEF Statuses
<1>1. ASSUME Fails(w)
      PROVE  /\ worker'[w].txid = f /\ worker'[w].pc = "finish" /\ Concludes(w)
             /\ \A v \in Worker \ {w} : worker'[v] = worker[v]
  BY <1>1, FailsTyped DEF Concludes
<1>2. CASE Begin(w)
  BY <1>1, <1>2, ViewsTyped DEF Begin, Working, Spending
<1>3. CASE CheckTracked(w)
  <2>1. row[f].confirmed.height \in 1..Len(chain)
    BY <1>3 DEF CheckTracked, Active
  <2>2. At(row[f].confirmed.height) \in Seen BY <2>1, AtSeen
  <2>3. Ends(w, "confirmed", At(row[f].confirmed.height))
    BY <1>3 DEF CheckTracked
  <2>4. /\ worker'[w].pc = "finish" /\ worker'[w].txid = f
        /\ worker'[w].status = "confirmed"
        /\ worker'[w].seen = At(row[f].confirmed.height)
        /\ \A v \in Worker \ {w} : worker'[v] = worker[v]
    BY <1>0, <2>2, <2>3, EndsTyped
  <2>5. Concludes(w) BY <2>1, <2>4 DEF Concludes
  <2> QED BY <1>3, <2>4, <2>5 DEF CheckTracked, Working
<1>4. CASE Halt(w) BY <1>1, <1>4 DEF Halt, Working
<1>5. CASE CheckIndexed(w)
  <2>1. PICK h \in HeightsOf(f) : Ends(w, "confirmed", At(h))
    BY <1>5 DEF CheckIndexed
  <2>2. h \in 1..Len(chain) BY DEF HeightsOf
  <2>3. At(h) \in Seen BY <2>2, AtSeen
  <2>4. /\ worker'[w].pc = "finish" /\ worker'[w].txid = f
        /\ worker'[w].status = "confirmed" /\ worker'[w].seen = At(h)
        /\ \A v \in Worker \ {w} : worker'[v] = worker[v]
    BY <1>0, <2>1, <2>3, EndsTyped
  <2>5. Concludes(w) BY <1>5, <2>2, <2>4 DEF Concludes, CheckIndexed
  <2> QED BY <1>5, <2>4, <2>5 DEF CheckIndexed, Working
<1>6. CASE Scan(w)
  <2>1. /\ worker'[w].pc = "finish" /\ worker'[w].txid = f
        /\ \A v \in Worker \ {w} : worker'[v] = worker[v]
        /\ \A g \in Txid : /\ row'[g].claim = row[g].claim
                           /\ row'[g].confirmed = row[g].confirmed
        /\ \/ worker'[w].seen = Unconfirmed
           \/ \E h \in 1..Len(chain) :
                worker'[w].seen = At(h) /\ worker'[w].status # "failed"
    BY <1>6, ScanTyped
  <2>2. Concludes(w) BY <1>6, <2>1 DEF Concludes, Scan
  <2> QED BY <1>6, <2>1, <2>2 DEF Scan, Working
<1>7. CASE NotOnChain(w)
  <2>1. CASE InMempool(f)
    <3>1. Ends(w, "broadcast_submitted", Unconfirmed)
      BY <1>7, <2>1 DEF NotOnChain
    <3>2. /\ worker'[w].pc = "finish" /\ worker'[w].txid = f
          /\ worker'[w].status = "broadcast_submitted"
          /\ worker'[w].seen = Unconfirmed
          /\ \A v \in Worker \ {w} : worker'[v] = worker[v]
      BY <1>0, <3>1, EndsTyped
    <3>3. Concludes(w) BY <1>7, <3>2 DEF Concludes, NotOnChain
    <3> QED BY <1>7, <3>2, <3>3 DEF NotOnChain, Working
  <2>2. CASE ~InMempool(f)
    <3>1. PICK pc \in Working : Goes(w, pc)
      BY <1>7, <2>2 DEF NotOnChain, Working
    <3> QED BY <1>7, <3>1, GoesTyped DEF NotOnChain, Working, Spending
  <2> QED BY <2>1, <2>2
<1>8. CASE Reserve(w)
  BY <1>1, <1>8 DEF Reserve, Working, Spending
<1>9. CASE CheckFunding(w)
  <2>1. Goes(w, "lock") \/ Fails(w) \/ UNCHANGED worker
    BY <1>9 DEF CheckFunding
  <2> QED BY <1>1, <1>9, <2>1, GoesTyped DEF CheckFunding, Working, Spending
<1>10. CASE Replay(w)
  <2>1. package[f].child \in Nat BY DEF Typed, Packages
  <2> QED BY <1>1, <1>10, <2>1, SendsTyped DEF Replay, Working, Spending
<1>11. CASE LockCoin(w)
  <2>1. Goes(w, "sign") \/ Fails(w) BY <1>11 DEF LockCoin
  <2> QED BY <1>1, <1>11, <2>1, GoesTyped DEF LockCoin, Working, Spending
<1>12. CASE Sign(w)
  <2>1. children + 1 \in Nat BY DEF Typed
  <2>2. \/ Fails(w)
        \/ worker' = [worker EXCEPT ![w].pc = "send", ![w].child = children + 1]
    BY <1>12 DEF Sign
  <2> QED BY <1>1, <1>12, <2>1, <2>2, SendsTyped DEF Sign, Working, Spending
<1>13. CASE Send(w)
  <2>1. CASE Fails(w) BY <1>1, <1>13, <2>1 DEF Send, Working
  <2>2. CASE Ends(w, "broadcast_submitted", Unconfirmed)
    <3>1. /\ worker'[w].pc = "finish" /\ worker'[w].txid = f
          /\ worker'[w].status = "broadcast_submitted"
          /\ worker'[w].seen = Unconfirmed
          /\ \A v \in Worker \ {w} : worker'[v] = worker[v]
      BY <1>0, <2>2, EndsTyped
    <3>2. Concludes(w) BY <1>13, <3>1 DEF Concludes, Send
    <3> QED BY <1>13, <3>1, <3>2 DEF Send, Working
  <2> QED BY <1>13, <2>1, <2>2 DEF Send
<1>14. CASE TipMoved(w) BY <1>1, <1>14 DEF TipMoved, Working
<1> QED BY <1>2, <1>3, <1>4, <1>5, <1>6, <1>7, <1>8, <1>9, <1>10, <1>11,
           <1>12, <1>13, <1>14 DEF Attempt

\* The faults that end an attempt or begin it without its maintenance.
LEMMA FaultStep ==
    ASSUME Typed, NEW w \in Worker, worker[w].txid \in Txid,
           BeginDeferred(w) \/ Abandon(w) \/ Crash(w)
    PROVE  /\ worker[w].pc # "idle"
           /\ \A v \in Worker \ {w} : worker'[v] = worker[v]
           /\ UNCHANGED <<row, package, retired, sent, settled, chain, blocks, wallet, mempool>>
           /\ \/ /\ worker[w].pc \in Working /\ worker'[w].pc = "check"
                 /\ worker'[w].txid = worker[w].txid
                 /\ worker'[w].seen = worker[w].seen
                 /\ worker'[w].status = worker[w].status
              \/ /\ worker'[w].pc = "finish"
                 /\ worker'[w].txid = worker[w].txid
                 /\ worker'[w].seen = Unconfirmed
                 /\ worker'[w].status = "failed"
              \/ worker'[w] = Resting
<1> USE DEF node, history, ledger
<1>1. CASE BeginDeferred(w)
  BY <1>1, ViewsTyped DEF BeginDeferred, Working
<1>2. CASE Abandon(w) BY <1>2, FailsTyped DEF Abandon
<1>3. CASE Crash(w) BY <1>3, RestsTyped DEF Crash
<1> QED BY <1>1, <1>2, <1>3

-----------------------------------------------------------------------------
(* Claims, evidence and searches.                                          *)

LEMMA HoldingStep == Typed /\ Holding /\ [Next]_vars => Holding'
<1> SUFFICES ASSUME Typed, Holding, [Next]_vars PROVE Holding' OBVIOUS
<1> USE DEF node, history, ledger
<1>1. CASE UNCHANGED <<row, worker>> BY <1>1 DEF Holding
<1>2. CASE UNCHANGED vars BY <1>1, <1>2 DEF vars
<1>3. CASE Mine \/ Reorg \/ Evict \/ OwnerSpends \/ PeerSends
  BY <1>1, <1>3 DEF Mine, Reorg, Evict, OwnerSpends, PeerSends
<1>4. ASSUME NEW w \in Worker, NEW f \in Txid,
             Claim(w, f) \/ TakeOver(w, f) \/ TakeOverLate(w, f)
      PROVE  Holding'
  <2>1. /\ Take(w, f) /\ worker[w].pc = "idle"
        /\ \A v \in Worker : v # w /\ worker[v].pc \in Working => worker[v].txid # f
    <3>1. CASE Claim(w, f)
      BY <1>4, <3>1, FanoutAssumption DEF Claim, Holding
    <3>2. CASE TakeOver(w, f)
      BY <1>4, <3>2 DEF TakeOver, Holding
    <3>3. CASE TakeOverLate(w, f)
      BY <1>4, <3>3 DEF TakeOverLate, Holding, Working
    <3> QED BY <1>4, <3>1, <3>2, <3>3
  <2>2. worker'[w].txid = f /\ worker'[w].pc = "begin"
    BY <2>1, TakeTyped
  <2>3. row'[f].claim = w BY <2>1, TakeTyped
  <2>4. ASSUME NEW v \in Worker
        PROVE /\ worker'[v].pc # "idle" => worker'[v].txid \in Txid
              /\ worker'[v].pc \in Working => row'[worker'[v].txid].claim = v
    BY <2>1, <2>2, <2>3, TakeTyped DEF Holding, Working
  <2> QED BY <2>4 DEF Holding
<1>5. ASSUME NEW w \in Worker, Attempt(w), ~Finish(w) PROVE Holding'
  BY <1>5, Awake, AttemptStep DEF Holding, Working
<1>6. ASSUME NEW w \in Worker, Finish(w) PROVE Holding'
  <2>1. worker[w].txid \in Txid BY <1>6 DEF Finish, Holding
  <2>2. worker'[w].pc = "idle" /\ \A v \in Worker \ {w} : worker'[v] = worker[v]
    BY <1>6, RestsTyped DEF Finish, Resting
  <2>3. \A g \in Txid : row'[g].claim = row[g].claim \/ row[g].claim = w
    BY <1>6, <2>1, FinishTyped DEF Fenced
  <2> QED BY <2>2, <2>3 DEF Holding, Working
<1>7. ASSUME NEW w \in Worker, BeginDeferred(w) \/ Abandon(w) \/ Crash(w)
      PROVE  Holding'
  <2>1. worker[w].pc # "idle"
    BY <1>7 DEF BeginDeferred, Abandon, Crash
  <2> QED BY <1>7, <2>1, FaultStep DEF Holding, Working, Resting
<1>8. ASSUME NEW w \in Worker, HandBack(w) PROVE Holding'
  <2>1. worker[w].txid \in Txid BY <1>8 DEF HandBack, Holding
  <2>2. worker'[w].pc = "idle" /\ \A v \in Worker \ {w} : worker'[v] = worker[v]
    BY <1>8, RestsTyped DEF HandBack, Resting
  <2>3. \A g \in Txid : row'[g].claim = row[g].claim \/ row[g].claim = w
    BY <1>8, <2>1 DEF Fenced, HandBack, Typed, Rows
  <2> QED BY <2>2, <2>3 DEF Holding, Working
<1> QED BY <1>2, <1>3, <1>4, <1>5, <1>6, <1>7, <1>8 DEF Next

LEMMA HandBackStep ==
    ASSUME Typed, NEW w \in Worker, worker[w].txid \in Txid, HandBack(w)
    PROVE  /\ worker'[w] = Resting
           /\ \A v \in Worker \ {w} : worker'[v] = worker[v]
           /\ UNCHANGED <<package, retired, sent, settled, chain, blocks, wallet, mempool>>
           /\ \A g \in Txid : /\ row'[g].claim \in {row[g].claim, NoWorker}
                              /\ row'[g].next = row[g].next
                              /\ row'[g].anchor = row[g].anchor
                              /\ row'[g].confirmed = row[g].confirmed
<1> USE DEF node, history, ledger
<1>1. \A g \in Txid : /\ row'[g].claim \in {row[g].claim, NoWorker}
                      /\ row'[g].next = row[g].next
                      /\ row'[g].anchor = row[g].anchor
                      /\ row'[g].confirmed = row[g].confirmed
  BY DEF HandBack, Typed, Rows
<1> QED BY <1>1, RestsTyped DEF HandBack

LEMMA Evidence ==
    ASSUME Typed
    PROVE  /\ Len(chain) \in Nat /\ Deep \in Nat \ {0} /\ blocks \in Nat
           /\ \A f \in Txid : /\ row[f].confirmed \in Seen /\ row[f].anchor \in Seen
                              /\ row[f].confirmed.depth \in Nat
                              /\ row[f].confirmed.height \in Nat
                              /\ row[f].anchor.height \in Nat
                              /\ row[f].anchor.id \in Nat
                              /\ row[f].next \in Nat \ {0}
           /\ \A w \in Worker : /\ worker[w].seen.depth \in Nat
                                /\ worker[w].seen.height \in Nat
                                /\ worker[w].txid \in Txid \cup {NoTxid}
  BY Blocked, FanoutAssumption DEF Typed, Rows, Seen, Attempts

LEMMA DepthsStep == Typed /\ Holding /\ Depths /\ [Next]_vars => Depths'
<1> SUFFICES ASSUME Typed, Holding, Depths, [Next]_vars PROVE Depths' OBVIOUS
<1> USE DEF node, history, ledger
<1>a. Unconfirmed.depth = 0 /\ Unconfirmed.height = 0 BY DEF Unconfirmed
<1>b. ASSUME NEW h \in 1..Len(chain)
      PROVE  At(h).height = h /\ At(h).depth = Len(chain) - h + 1
  BY AtSeen
<1>1. CASE UNCHANGED <<row, worker, chain>> BY <1>1 DEF Depths, Deepening
<1>2. CASE UNCHANGED vars BY <1>1, <1>2 DEF vars
<1>3. CASE Evict \/ OwnerSpends \/ PeerSends
  BY <1>1, <1>3 DEF Evict, OwnerSpends, PeerSends
<1>4. CASE Mine
  <2>1. Len(chain') = Len(chain) + 1 BY <1>4, MineEffect
  <2>2. UNCHANGED <<row, worker>> BY <1>4 DEF Mine
  <2>3. ASSUME NEW f \in Txid PROVE Deepening(row[f].confirmed)'
    <3>1. row[f].confirmed.depth <= Len(chain) - row[f].confirmed.height + 1
      BY DEF Depths, Deepening
    <3> QED BY SMTT(30), <2>1, <2>2, <3>1, Evidence DEF Deepening
  <2>4. ASSUME NEW w \in Worker PROVE Deepening(worker[w].seen)'
    <3>1. worker[w].seen.depth <= Len(chain) - worker[w].seen.height + 1
      BY DEF Depths, Deepening
    <3> QED BY <2>1, <2>2, <3>1, Evidence DEF Deepening
  <2> QED BY <2>2, <2>3, <2>4 DEF Depths
<1>5. CASE Reorg
  <2>1. Len(chain') = Len(chain) BY <1>5, ReorgEffect
  <2> QED BY <1>5, <2>1, Evidence DEF Reorg, Depths, Deepening
<1>6. ASSUME NEW w \in Worker, NEW f \in Txid,
             Claim(w, f) \/ TakeOver(w, f) \/ TakeOverLate(w, f)
      PROVE  Depths'
  <2>1. Take(w, f) BY <1>6 DEF Claim, TakeOver, TakeOverLate
  <2>2. UNCHANGED chain BY <2>1 DEF Take
  <2> QED BY <1>a, <2>1, <2>2, TakeTyped, Evidence DEF Depths, Deepening
<1>7. ASSUME NEW w \in Worker, Attempt(w), ~Finish(w) PROVE Depths'
  <2>1. worker[w].txid \in Txid BY <1>7, Awake DEF Holding
  <2>2. /\ Deepening(worker'[w].seen)
        /\ worker'[w].status = "failed" => worker'[w].seen = Unconfirmed
    <3>1. CASE /\ worker'[w].seen = worker[w].seen
               /\ worker'[w].status = worker[w].status
      BY <3>1 DEF Depths
    <3>2. CASE Concludes(w)
      BY SMTT(30), <1>a, <1>b, <2>1, <3>2, Evidence DEF Concludes, Deepening
    <3> QED BY <1>7, <2>1, <3>1, <3>2, AttemptStep
  <2>3. /\ UNCHANGED chain
        /\ \A g \in Txid : row'[g].confirmed = row[g].confirmed
        /\ \A v \in Worker \ {w} : worker'[v] = worker[v]
    BY <1>7, <2>1, AttemptStep
  <2> QED BY <2>2, <2>3 DEF Depths, Deepening
<1>8. ASSUME NEW w \in Worker, Finish(w) PROVE Depths'
  <2>1. worker[w].txid \in Txid BY <1>8 DEF Finish, Holding
  <2>2. \A g \in Txid : Deepening(row'[g].confirmed)
    BY <1>8, <2>1, FinishTyped DEF Depths
  <2>3. UNCHANGED chain /\ worker'[w] = Resting
        /\ \A v \in Worker \ {w} : worker'[v] = worker[v]
    BY <1>8, RestsTyped DEF Finish
  <2>4. Deepening(Resting.seen) /\ Resting.seen = Unconfirmed
    BY <1>a, Evidence DEF Resting, Deepening
  <2> QED BY <2>2, <2>3, <2>4 DEF Depths, Deepening
<1>9. ASSUME NEW w \in Worker,
             BeginDeferred(w) \/ Abandon(w) \/ Crash(w) \/ HandBack(w)
      PROVE  Depths'
  <2>1. worker[w].txid \in Txid
    BY <1>9 DEF BeginDeferred, Abandon, Crash, HandBack, Holding
  <2>2. Deepening(Unconfirmed) /\ Resting.seen = Unconfirmed
    BY <1>a, Evidence DEF Resting, Deepening
  <2>3. /\ UNCHANGED chain
        /\ \A g \in Txid : row'[g].confirmed = row[g].confirmed
        /\ \A v \in Worker \ {w} : worker'[v] = worker[v]
    BY <1>9, <2>1, FaultStep, HandBackStep
  <2>4. \/ worker'[w].seen = Unconfirmed
        \/ /\ worker'[w].seen = worker[w].seen
           /\ worker'[w].status = worker[w].status
    BY <1>9, <2>1, <2>2, FaultStep, HandBackStep
  <2>5. /\ Deepening(worker'[w].seen)
        /\ worker'[w].status = "failed" => worker'[w].seen = Unconfirmed
    <3>1. CASE worker'[w].seen = Unconfirmed BY <2>2, <3>1
    <3>2. CASE /\ worker'[w].seen = worker[w].seen
               /\ worker'[w].status = worker[w].status
      BY <3>2 DEF Depths
    <3> QED BY <2>4, <3>1, <3>2
  <2> QED BY <2>3, <2>5 DEF Depths, Deepening
<1> QED BY <1>2, <1>3, <1>4, <1>5, <1>6, <1>7, <1>8, <1>9 DEF Next

LEMMA SettledStep ==
    Typed /\ Holding /\ Depths /\ Settled /\ [Next]_vars => Settled'
<1> SUFFICES ASSUME Typed, Holding, Depths, Settled, [Next]_vars PROVE Settled'
  OBVIOUS
<1> USE DEF node, history, ledger
<1>a. Unconfirmed.depth = 0 /\ Unconfirmed.height = 0 BY DEF Unconfirmed
<1>b. settled \subseteq Txid /\ NoTxid \notin Txid /\ NoWorker \notin Worker
  BY FanoutAssumption DEF Typed, NoTxid
<1>c. \A f \in settled : ~Untracked(f)
  BY <1>a, <1>b, Evidence DEF Settled, Untracked, DeepGone, Tracked
<1>1. CASE UNCHANGED <<row, worker, settled>>
  BY <1>1 DEF Settled, SettledOnce
<1>2. CASE UNCHANGED vars BY <1>1, <1>2 DEF vars
<1>3. CASE Mine \/ Reorg \/ Evict \/ OwnerSpends \/ PeerSends
  BY <1>1, <1>3 DEF Mine, Reorg, Evict, OwnerSpends, PeerSends
<1>4. ASSUME NEW w \in Worker, NEW f \in Txid,
             Claim(w, f) \/ TakeOver(w, f) \/ TakeOverLate(w, f)
      PROVE  Settled'
  <2>1. Take(w, f) BY <1>4 DEF Claim, TakeOver, TakeOverLate
  <2>2. UNCHANGED settled BY <2>1 DEF Take
  <2>3. \A g \in settled : row'[g].confirmed.depth >= Deep
    BY <1>b, <2>1, TakeTyped DEF Settled
  <2>4. ASSUME NEW v \in Worker \ {w}, worker'[v].txid \in settled,
               worker'[v].pc = "finish", row'[worker'[v].txid].claim = v
        PROVE  worker'[v].status = "failed" \/ worker'[v].seen.depth >= Deep
    <3>1. worker'[v] = worker[v] BY <2>1, TakeTyped
    <3>2. worker[v].txid # f BY <2>1, <2>4, <3>1, TakeTyped
    <3>3. row'[worker[v].txid] = row[worker[v].txid]
      BY <1>b, <2>1, <2>4, <3>1, <3>2, TakeTyped
    <3> QED BY <2>4, <3>1, <3>3 DEF Settled
  <2>5. worker'[w].pc = "begin" /\ \A v \in Worker \ {w} : worker'[v] = worker[v]
    BY <2>1, TakeTyped
  <2> QED BY <2>2, <2>3, <2>4, <2>5 DEF Settled, SettledOnce
<1>5. ASSUME NEW w \in Worker, Attempt(w), ~Finish(w) PROVE Settled'
  <2> DEFINE f == worker[w].txid
  <2>1. f \in Txid BY <1>5, Awake DEF Holding
  <2>2. /\ UNCHANGED settled
        /\ \A g \in Txid : /\ row'[g].claim = row[g].claim
                           /\ row'[g].confirmed = row[g].confirmed
        /\ \A v \in Worker \ {w} : worker'[v] = worker[v]
        /\ worker'[w].txid = f
    BY <1>5, <2>1, AttemptStep
  <2>3. ASSUME f \in settled
        PROVE  /\ worker'[w].pc = "finish" =>
                    worker'[w].status = "failed" \/ worker'[w].seen.depth >= Deep
               /\ worker'[w].pc \notin Spending
    <3>1. ~Untracked(f) /\ worker[w].pc \notin Spending
      BY <1>c, <2>3 DEF Settled, SettledOnce, Spending
    <3>2. CASE worker'[w].pc \in Working /\ worker'[w].pc \notin Spending
      BY <3>2 DEF Working
    <3>3. CASE worker'[w].pc = "finish" /\ Concludes(w)
      <4>1. CASE worker'[w].status = "failed" BY <3>3, <4>1 DEF Spending
      <4>2. CASE /\ row[f].confirmed.height \in 1..Len(chain)
                 /\ worker'[w].seen = At(row[f].confirmed.height)
        <5>1. worker'[w].seen.depth = Len(chain) - row[f].confirmed.height + 1
          BY <4>2, AtSeen
        <5>2. row[f].confirmed.depth <= Len(chain) - row[f].confirmed.height + 1
          BY <2>1 DEF Depths, Deepening
        <5>3. row[f].confirmed.depth >= Deep BY <2>3 DEF Settled
        <5> QED BY <2>1, <3>3, <5>1, <5>2, <5>3, Evidence DEF Spending
      <4> QED BY <3>1, <3>3, <4>1, <4>2 DEF Concludes, Spending
    <3> QED BY <1>5, <2>1, <3>1, <3>2, <3>3, AttemptStep
  <2>4. \A g \in settled : row'[g].confirmed.depth >= Deep
    BY <1>b, <2>2 DEF Settled
  <2>5. ASSUME NEW v \in Worker, worker'[v].txid \in settled,
               worker'[v].pc = "finish", row'[worker'[v].txid].claim = v
        PROVE  worker'[v].status = "failed" \/ worker'[v].seen.depth >= Deep
    BY <1>b, <2>2, <2>3, <2>5 DEF Settled
  <2>6. SettledOnce'
    BY <2>2, <2>3 DEF Settled, SettledOnce, Spending
  <2> QED BY <2>2, <2>4, <2>5, <2>6 DEF Settled
<1>6. ASSUME NEW w \in Worker, Finish(w) PROVE Settled'
  <2> DEFINE f == worker[w].txid
  <2>1. f \in Txid BY <1>6 DEF Finish, Holding
  <2>2. worker'[w].pc = "idle" /\ \A v \in Worker \ {w} : worker'[v] = worker[v]
    BY <1>6, RestsTyped DEF Finish, Resting
  <2>3. CASE ~Fenced(w)
    <3>1. UNCHANGED <<row, settled>> BY <1>6, <2>1, <2>3 DEF Finish
    <3> QED BY <2>2, <3>1 DEF Settled, SettledOnce
  <2>4. CASE Fenced(w)
    <3>1. /\ settled' = IF worker[w].seen.depth >= Deep THEN settled \cup {f}
                        ELSE settled
          /\ row'[f].claim = NoWorker /\ row[f].claim = w
          /\ row'[f].confirmed = IF worker[w].status = "failed"
                                 THEN row[f].confirmed ELSE worker[w].seen
          /\ \A g \in Txid \ {f} : row'[g] = row[g]
      BY <1>6, <2>1, <2>4, FinishTyped DEF Finish, Fenced
    <3>2. ASSUME f \in settled' PROVE row'[f].confirmed.depth >= Deep
      <4>1. CASE worker[w].status = "failed"
        <5>1. worker[w].seen.depth = 0 BY <1>a, <4>1 DEF Depths
        <5>2. f \in settled BY <3>1, <3>2, <5>1, Evidence
        <5> QED BY <3>1, <4>1, <5>2 DEF Settled
      <4>2. CASE worker[w].status # "failed"
        BY <1>6, <3>1, <3>2, <4>2 DEF Settled, Finish
      <4> QED BY <4>1, <4>2
    <3>3. \A g \in settled' : row'[g].confirmed.depth >= Deep
      BY <1>b, <3>1, <3>2 DEF Settled
    <3>4. ASSUME NEW v \in Worker, worker'[v].txid \in settled',
                 worker'[v].pc = "finish", row'[worker'[v].txid].claim = v
          PROVE  worker'[v].status = "failed" \/ worker'[v].seen.depth >= Deep
      <4>1. v # w /\ worker'[v] = worker[v] BY <2>2, <3>4
      <4>2. worker[v].txid # f BY <1>b, <3>1, <3>4, <4>1
      <4>3. worker[v].txid \in settled /\ worker[v].txid \in Txid
        BY <1>b, <3>1, <3>4, <4>1, <4>2
      <4> QED BY <3>1, <3>4, <4>1, <4>2, <4>3 DEF Settled
    <3>5. ASSUME NEW v \in Worker, worker'[v].pc \in Spending
          PROVE  worker'[v].txid \notin settled'
      <4>1. v # w /\ worker'[v] = worker[v] BY <2>2, <3>5 DEF Spending
      <4>2. row[worker[v].txid].claim = v
        BY <3>5, <4>1 DEF Holding, Spending, Working
      <4>3. worker[v].txid # f BY <3>1, <4>1, <4>2
      <4> QED BY <3>1, <3>5, <4>1, <4>3 DEF Settled, SettledOnce, Spending
    <3> QED BY <3>3, <3>4, <3>5 DEF Settled, SettledOnce, Spending
  <2> QED BY <2>3, <2>4
<1>7. ASSUME NEW w \in Worker,
             BeginDeferred(w) \/ Abandon(w) \/ Crash(w) \/ HandBack(w)
      PROVE  Settled'
  <2>1. worker[w].txid \in Txid
    BY <1>7 DEF BeginDeferred, Abandon, Crash, HandBack, Holding
  <2>2. /\ UNCHANGED settled
        /\ \A g \in Txid : /\ row'[g].claim \in {row[g].claim, NoWorker}
                           /\ row'[g].confirmed = row[g].confirmed
        /\ \A v \in Worker \ {w} : worker'[v] = worker[v]
    BY <1>7, <2>1, FaultStep, HandBackStep
  <2>3. \/ worker'[w].pc \in {"idle", "check"}
        \/ worker'[w].pc = "finish" /\ worker'[w].status = "failed"
    BY <1>7, <2>1, FaultStep, HandBackStep DEF Resting
  <2>4. \A g \in settled : row'[g].confirmed.depth >= Deep
    BY <1>b, <2>2 DEF Settled
  <2>5. ASSUME NEW v \in Worker, worker'[v].txid \in settled,
               worker'[v].pc = "finish", row'[worker'[v].txid].claim = v
        PROVE  worker'[v].status = "failed" \/ worker'[v].seen.depth >= Deep
    <3>1. CASE v = w BY <2>3, <2>5, <3>1
    <3>2. CASE v # w
      <4>1. worker'[v] = worker[v] BY <2>2, <3>2
      <4>2. row[worker[v].txid].claim = v BY <1>b, <2>2, <2>5, <4>1
      <4> QED BY <2>5, <4>1, <4>2 DEF Settled
    <3> QED BY <3>1, <3>2
  <2>6. SettledOnce'
    BY <2>2, <2>3 DEF Settled, SettledOnce
  <2> QED BY <2>2, <2>4, <2>5, <2>6 DEF Settled
<1> QED BY <1>2, <1>3, <1>4, <1>5, <1>6, <1>7 DEF Next

LEMMA CountedStep == Typed /\ Holding /\ Counted /\ [Next]_vars => Counted'
<1> SUFFICES ASSUME Typed, Holding, Counted, [Next]_vars PROVE Counted' OBVIOUS
<1> USE DEF node, history, ledger
<1>1. CASE /\ UNCHANGED <<chain, blocks>>
           /\ \A g \in Txid : /\ row'[g].next = row[g].next
                              /\ row'[g].anchor = row[g].anchor
  BY <1>1 DEF Counted, ScanSound, Active, HeightsOf
<1>2. CASE UNCHANGED vars BY <1>1, <1>2 DEF vars
<1>3. CASE Evict \/ OwnerSpends \/ PeerSends
  BY <1>1, <1>3 DEF Evict, OwnerSpends, PeerSends
<1>4. CASE Mine
  <2>1. /\ Len(chain') = Len(chain) + 1 /\ UNCHANGED row
        /\ \A h \in 1..Len(chain) : chain'[h] = chain[h]
        /\ chain'[Len(chain) + 1].id = blocks + 1
        /\ blocks' = blocks + 1
    BY <1>4, MineEffect DEF Mine
  <2>2. \A h \in 1..Len(chain') : chain'[h].id <= blocks'
    BY <2>1, Evidence, Blocked DEF Counted
  <2>3. \A g \in Txid : row'[g].anchor.id <= blocks'
    BY <2>1, Evidence DEF Counted
  <2>4. ScanSound'
    <3> SUFFICES ASSUME NEW g \in Txid, row[g].anchor # Unconfirmed,
                        row[g].anchor.height \in 1..Len(chain'),
                        chain'[row[g].anchor.height].id = row[g].anchor.id
                 PROVE  /\ row[g].next = row[g].anchor.height + 1
                        /\ \A h \in HeightsOf(g)' : h > row[g].anchor.height
      BY <2>1 DEF ScanSound, Active
    <3>1. row[g].anchor.height \in 1..Len(chain)
      BY <2>1, Evidence DEF Counted
    <3>2. /\ row[g].next = row[g].anchor.height + 1
          /\ \A h \in HeightsOf(g) : h > row[g].anchor.height
      BY <2>1, <3>1 DEF Counted, ScanSound, Active
    <3>3. ASSUME NEW h \in HeightsOf(g)' PROVE h > row[g].anchor.height
      <4>1. CASE h \in 1..Len(chain)
        BY <2>1, <3>2, <4>1 DEF HeightsOf
      <4>2. CASE h \notin 1..Len(chain)
        BY <2>1, <3>1, <4>2, Evidence DEF HeightsOf
      <4> QED BY <4>1, <4>2
    <3> QED BY <3>2, <3>3
  <2> QED BY <2>1, <2>2, <2>3, <2>4 DEF Counted
<1>5. CASE Reorg
  <2>0. UNCHANGED row BY <1>5 DEF Reorg
  <2>1. PICK b \in 1..Len(chain) :
           /\ Len(chain') = Len(chain)
           /\ \A i \in 1..Len(chain) : i < b => chain'[i] = chain[i]
           /\ \A i \in 1..Len(chain) : i >= b =>
                chain'[i].id > blocks /\ chain'[i].id <= blocks'
           /\ blocks' \in Nat /\ blocks <= blocks'
    BY <1>5, ReorgEffect
  <2>2. \A h \in 1..Len(chain') : chain'[h].id <= blocks'
    BY <2>1, Evidence, Blocked DEF Counted
  <2>3. \A g \in Txid : row'[g].anchor.id <= blocks'
    BY <2>0, <2>1, Evidence DEF Counted
  <2>4. ScanSound'
    <3> SUFFICES ASSUME NEW g \in Txid, row[g].anchor # Unconfirmed,
                        row[g].anchor.height \in 1..Len(chain'),
                        chain'[row[g].anchor.height].id = row[g].anchor.id
                 PROVE  /\ row[g].next = row[g].anchor.height + 1
                        /\ \A h \in HeightsOf(g)' : h > row[g].anchor.height
      BY <2>0 DEF ScanSound, Active
    <3>1. row[g].anchor.height < b
      BY <2>1, Evidence DEF Counted
    <3>2. /\ row[g].next = row[g].anchor.height + 1
          /\ \A h \in HeightsOf(g) : h > row[g].anchor.height
      BY <2>1, <3>1 DEF Counted, ScanSound, Active
    <3>3. ASSUME NEW h \in HeightsOf(g)' PROVE h > row[g].anchor.height
      <4>1. CASE h < b
        BY <2>1, <3>2, <4>1 DEF HeightsOf
      <4>2. CASE ~(h < b)
        BY <2>1, <3>1, <4>2, Evidence DEF HeightsOf
      <4> QED BY <4>1, <4>2
    <3> QED BY <3>2, <3>3
  <2> QED BY <2>0, <2>2, <2>3, <2>4 DEF Counted
<1>6. ASSUME NEW w \in Worker, NEW f \in Txid,
             Claim(w, f) \/ TakeOver(w, f) \/ TakeOverLate(w, f)
      PROVE  Counted'
  <2>1. Take(w, f) BY <1>6 DEF Claim, TakeOver, TakeOverLate
  <2> QED BY <1>1, <2>1, TakeTyped DEF Take
<1>7. ASSUME NEW w \in Worker, Attempt(w), ~Finish(w), ~Scan(w) PROVE Counted'
  BY <1>1, <1>7, Awake, AttemptStep DEF Holding
<1>8. ASSUME NEW w \in Worker, Scan(w) PROVE Counted'
  <2> DEFINE f == worker[w].txid
             h == ScanFrom(f)
             a == row[f].anchor
  <2>1. f \in Txid BY <1>8, Awake DEF Holding, Attempt
  <2>2. UNCHANGED <<chain, blocks>> BY <1>8 DEF Scan
  <2>3. CASE UNCHANGED row BY <1>1, <2>2, <2>3
  <2>4. CASE /\ h \in 1..Len(chain) /\ h \notin HeightsOf(f)
             /\ row'[f] = [row[f] EXCEPT !.next = h + 1, !.anchor = At(h)]
             /\ \A g \in Txid \ {f} : row'[g] = row[g]
    <3>1. row'[f].next = h + 1 /\ row'[f].anchor = At(h)
      BY <2>1, <2>4 DEF Typed, Rows
    <3>2. /\ At(h).height = h /\ At(h).id = chain[h].id
          /\ At(h) # Unconfirmed
      BY <2>4, AtSeen
    <3>3. ASSUME NEW i \in HeightsOf(f) PROVE i > h
      <4>1. i \in Nat /\ i >= 1 /\ i # h BY <2>4 DEF HeightsOf
      <4>2. CASE h = 1 BY <4>1, <4>2
      <4>3. CASE h # 1
        <5>1. a # Unconfirmed /\ Active(a.height, a.id) /\ h = row[f].next
          BY <2>1, <4>3 DEF ScanFrom, Counted
        <5>2. h = a.height + 1 /\ i > a.height
          BY <2>1, <5>1 DEF Counted, ScanSound
        <5> QED BY <2>1, <4>1, <5>2, Evidence
      <4> QED BY <4>2, <4>3
    <3>4. chain[h].id <= blocks BY <2>4 DEF Counted
    <3>5. ASSUME NEW g \in Txid
          PROVE  /\ row'[g].anchor.id <= blocks'
                 /\ row'[g].anchor = Unconfirmed => row'[g].next = 1
                 /\ row'[g].anchor # Unconfirmed
                     /\ Active(row'[g].anchor.height, row'[g].anchor.id) =>
                       /\ row'[g].next = row'[g].anchor.height + 1
                       /\ \A i \in HeightsOf(g) : i > row'[g].anchor.height
      <4>1. CASE g = f BY <2>2, <3>1, <3>2, <3>3, <3>4, <4>1
      <4>2. CASE g # f
        BY <2>2, <2>4, <4>2 DEF Counted, ScanSound
      <4> QED BY <4>1, <4>2
    <3> QED BY <2>2, <3>5 DEF Counted, ScanSound, Active, HeightsOf
  <2> QED BY <1>8, <2>1, <2>3, <2>4, ScanTyped
<1>9. ASSUME NEW w \in Worker, Finish(w) PROVE Counted'
  <2>1. worker[w].txid \in Txid BY <1>9 DEF Finish, Holding
  <2>2. UNCHANGED <<chain, blocks>> BY <1>9 DEF Finish
  <2> QED BY <1>1, <1>9, <2>1, <2>2, FinishTyped
<1>10. ASSUME NEW w \in Worker,
             BeginDeferred(w) \/ Abandon(w) \/ Crash(w) \/ HandBack(w)
      PROVE  Counted'
  <2>1. worker[w].txid \in Txid
    BY <1>10 DEF BeginDeferred, Abandon, Crash, HandBack, Holding
  <2> QED BY <1>1, <1>10, <2>1, FaultStep, HandBackStep
<1> QED BY <1>2, <1>3, <1>4, <1>5, <1>6, <1>7, <1>8, <1>9, <1>10 DEF Next

-----------------------------------------------------------------------------
(* What a step of an attempt does to the reservations.                     *)

RetiredCoins == {r.coin : r \in retired}

Keeps(f) ==
    /\ package'[f].coin = package[f].coin
    /\ package'[f].child = package[f].child
    /\ package[f] = NoPackage => package'[f] = NoPackage
    /\ RetiredCoins' \subseteq RetiredCoins

Reserves(f) ==
    /\ f \in Sponsored /\ package[f] = NoPackage
    /\ package'[f].coin \in Coin \ Unavailable
    /\ package'[f].child = NoChild
    /\ RetiredCoins' \subseteq RetiredCoins

Retires(f) ==
    /\ f \in Sponsored /\ package[f].child = NoChild
    /\ package[f] # NoPackage /\ package'[f] = NoPackage
    /\ RetiredCoins' \subseteq RetiredCoins \cup {package[f].coin}

Signs(w, f) ==
    /\ f \in Sponsored /\ worker[w].pc = "sign"
    /\ package[f].child = NoChild /\ package[f] # NoPackage
    /\ package'[f].coin = package[f].coin /\ package'[f].child # NoChild
    /\ RetiredCoins' \subseteq RetiredCoins

LEMMA RetireCoins ==
    ASSUME NEW f \in Txid, Retire(f)
    PROVE  RetiredCoins' \subseteq RetiredCoins \cup {package[f].coin}
<1> SUFFICES ASSUME NEW c \in RetiredCoins'
             PROVE  c \in RetiredCoins \cup {package[f].coin}
  OBVIOUS
<1>1. PICK r \in retired' : c = r.coin BY DEF RetiredCoins
<1>2. \/ r \in retired
      \/ r = [txid |-> f, coin |-> package[f].coin, released |-> FALSE]
  BY DEF Retire
<1>3. CASE r \in retired BY <1>1, <1>3 DEF RetiredCoins
<1>4. CASE r = [txid |-> f, coin |-> package[f].coin, released |-> FALSE]
  BY <1>1, <1>4
<1> QED BY <1>2, <1>3, <1>4

\* Of an attempt's steps only its own reservation is touched, in one of four
\* ways, and the attempt goes on with what it then holds.
LEMMA PackageStep ==
    ASSUME Typed, Reservations, Progress, NEW w \in Worker,
           worker[w].txid \in Txid, Attempt(w)
    PROVE  LET f == worker[w].txid IN
           /\ \A g \in Txid \ {f} : package'[g] = package[g]
           /\ Keeps(f) \/ Reserves(f) \/ Retires(f) \/ Signs(w, f)
           /\ ProgressAt(w)'
<1> DEFINE f == worker[w].txid
<1> USE DEF node, history, ledger
<1>a. ASSUME UNCHANGED <<package, retired>>
      PROVE  Keeps(f) /\ \A g \in Txid \ {f} : package'[g] = package[g]
  BY <1>a DEF Keeps, RetiredCoins
<1>b. ASSUME worker'[w].pc \in {"idle", "finish", "begin", "check"}
      PROVE  ProgressAt(w)'
  BY <1>b DEF ProgressAt
<1>c. ASSUME Fails(w) PROVE ProgressAt(w)'
  BY <1>b, <1>c, FailsTyped
<1>d. ProgressAt(w) /\ package \in [Txid -> Packages] /\ package[f] \in Packages
  BY DEF Progress, Typed
<1>1. CASE Begin(w)
  <2>1. CASE Fenced(w)
    <3> DEFINE p == Maintained(f).package
    <3>1. package' = [package EXCEPT ![f] = p] /\ Views(w)
          /\ retired' = {[r EXCEPT !.released = @ \/ r.txid = f] : r \in retired}
      BY <1>1, <2>1 DEF Begin
    <3>2. p.coin = package[f].coin /\ p.child = package[f].child
          /\ (package[f] = NoPackage => p = NoPackage)
      BY MaintainedTyped DEF NoPackage
    <3> HIDE DEF p
    <3>3. package'[f] = p /\ \A g \in Txid \ {f} : package'[g] = package[g]
      BY <1>d, <3>1
    <3>4. ASSUME NEW c \in RetiredCoins' PROVE c \in RetiredCoins
      <4>1. PICK q \in retired' : c = q.coin BY DEF RetiredCoins
      <4>2. PICK r \in retired : q = [r EXCEPT !.released = @ \/ r.txid = f]
        BY <3>1
      <4>3. q.coin = r.coin BY <4>2 DEF Typed, Retirements
      <4> QED BY <4>1, <4>2, <4>3 DEF RetiredCoins
    <3>5. Keeps(f) BY <3>2, <3>3, <3>4 DEF Keeps
    <3> QED BY <1>b, <3>1, <3>3, <3>5, ViewsTyped
  <2>2. CASE ~Fenced(w) BY <1>1, <1>a, <1>c, <2>2 DEF Begin
  <2> QED BY <2>1, <2>2
<1>2. CASE CheckTracked(w) \/ Halt(w) \/ CheckIndexed(w) \/ Scan(w) \/ TipMoved(w)
  <2>1. UNCHANGED <<package, retired>>
    BY <1>2 DEF CheckTracked, Halt, CheckIndexed, Scan, TipMoved
  <2>2. worker'[w].pc = "finish" /\ worker'[w].txid = f
    <3>1. CASE CheckTracked(w)
      <4>1. row[f].confirmed.height \in 1..Len(chain)
        BY <3>1 DEF CheckTracked, Active
      <4> QED BY <3>1, <4>1, AtSeen, EndsTyped DEF CheckTracked, Statuses
    <3>2. CASE Halt(w) BY <3>2, FailsTyped DEF Halt
    <3>3. CASE CheckIndexed(w)
      <4>1. PICK h \in 1..Len(chain) : Ends(w, "confirmed", At(h))
        BY <3>3 DEF CheckIndexed, HeightsOf
      <4> QED BY <4>1, AtSeen, EndsTyped DEF Statuses
    <3>4. CASE Scan(w) BY <3>4, ScanTyped
    <3>5. CASE TipMoved(w) BY <3>5, FailsTyped DEF TipMoved
    <3> QED BY <1>2, <3>1, <3>2, <3>3, <3>4, <3>5
  <2> QED BY <1>a, <1>b, <2>1, <2>2
<1>3. CASE NotOnChain(w)
  <2>1. UNCHANGED <<package, retired>> BY <1>3 DEF NotOnChain
  <2>2. CASE InMempool(f)
    <3>1. Ends(w, "broadcast_submitted", Unconfirmed)
      BY <1>3, <2>2 DEF NotOnChain
    <3>2. worker'[w].pc = "finish" BY <3>1, EndsTyped, RestingTyped DEF Statuses
    <3> QED BY <1>a, <1>b, <2>1, <3>2
  <2>3. CASE ~InMempool(f) /\ f \in Sponsored
    <3>1. Goes(w, "fund") BY <1>3, <2>3 DEF NotOnChain
    <3>2. worker'[w].pc = "fund" /\ worker'[w].txid = f
      BY <3>1, GoesTyped DEF Working
    <3> QED BY <1>a, <2>1, <2>3, <3>2 DEF ProgressAt
  <2>4. CASE ~InMempool(f) /\ f \notin Sponsored
    <3>1. Goes(w, "send") BY <1>3, <2>4 DEF NotOnChain
    <3>2. worker'[w].pc = "send" /\ worker'[w].txid = f
      BY <3>1, GoesTyped DEF Working
    <3> QED BY <1>a, <2>1, <2>4, <3>2 DEF ProgressAt
  <2> QED BY <2>2, <2>3, <2>4
<1>4. CASE Reserve(w)
  <2>1. f \in Sponsored /\ package[f] = NoPackage /\ UNCHANGED retired
        /\ worker[w].pc = "fund"
    BY <1>4, <1>d DEF Reserve, ProgressAt
  <2>2. CASE Fails(w) /\ UNCHANGED package
    BY <1>a, <1>c, <2>1, <2>2
  <2>3. ASSUME NEW c \in Coin \ Unavailable, UNCHANGED worker,
               package' = [package EXCEPT ![f] = [NoPackage EXCEPT !.coin = c]]
        PROVE  /\ \A g \in Txid \ {f} : package'[g] = package[g]
               /\ Reserves(f) /\ ProgressAt(w)'
    <3>1. package'[f].coin = c /\ package'[f].child = NoChild
      BY <1>d, <2>3 DEF NoPackage
    <3> QED BY <1>d, <2>1, <2>3, <3>1 DEF Reserves, RetiredCoins, ProgressAt
  <2>4. \/ Fails(w) /\ UNCHANGED package
        \/ \E c \in Coin \ Unavailable :
             /\ package' = [package EXCEPT ![f] = [NoPackage EXCEPT !.coin = c]]
             /\ UNCHANGED worker
    BY <1>4 DEF Reserve
  <2> QED BY <2>2, <2>3, <2>4
<1>5. CASE CheckFunding(w)
  <2>1. /\ f \in Sponsored /\ package[f] # NoPackage
        /\ package[f].child = NoChild /\ worker[w].pc = "fund"
    BY <1>5, <1>d DEF CheckFunding, ProgressAt
  <2>2. CASE Goes(w, "lock") /\ UNCHANGED <<package, retired>>
    <3>1. worker'[w].pc = "lock" /\ worker'[w].txid = f
      BY <2>2, GoesTyped DEF Working
    <3> QED BY <1>a, <2>1, <2>2, <3>1 DEF ProgressAt
  <2>3. CASE Retire(f) /\ UNCHANGED worker
    <3>1. Retires(f) /\ \A g \in Txid \ {f} : package'[g] = package[g]
      BY <2>1, <2>3, RetireTyped, RetireCoins DEF Retires
    <3> QED BY <2>1, <2>3, <3>1 DEF ProgressAt
  <2>4. CASE Fails(w) /\ UNCHANGED <<package, retired>>
    BY <1>a, <1>c, <2>4
  <2> QED BY <1>5, <2>2, <2>3, <2>4 DEF CheckFunding
<1>6. CASE Replay(w)
  <2>1. f \in Sponsored /\ UNCHANGED <<package, retired>>
        /\ package[f].child # NoChild /\ package[f].child \in Nat
    BY <1>6, <1>d DEF Replay, ProgressAt, Packages
  <2>2. CASE Fails(w) BY <1>a, <1>c, <2>1, <2>2
  <2>3. CASE worker' = [worker EXCEPT ![w].pc = "send",
                                      ![w].child = package[f].child]
    <3>1. worker'[w].pc = "send" /\ worker'[w].txid = f
          /\ worker'[w].child = package[f].child
      BY <2>1, <2>3, SendsTyped
    <3> QED BY <1>a, <2>1, <3>1 DEF ProgressAt
  <2> QED BY <1>6, <2>2, <2>3 DEF Replay
<1>7. CASE LockCoin(w)
  <2>1. f \in Sponsored /\ package[f] # NoPackage /\ UNCHANGED retired
    BY <1>7, <1>d DEF LockCoin, ProgressAt
  <2>2. CASE Fails(w) /\ UNCHANGED package BY <1>a, <1>c, <2>1, <2>2
  <2>3. CASE package' = [package EXCEPT ![f].released = FALSE] /\ Goes(w, "sign")
    <3>1. package'[f].coin = package[f].coin /\ package'[f].child = package[f].child
      BY <1>d, <2>3 DEF Packages
    <3>2. package[f].coin # NoCoin
      BY <2>1 DEF Reservations
    <3>3. package'[f] # NoPackage BY <3>1, <3>2 DEF NoPackage
    <3>4. Keeps(f) /\ \A g \in Txid \ {f} : package'[g] = package[g]
      BY <1>d, <2>1, <2>3, <3>1 DEF Keeps, RetiredCoins
    <3>5. worker'[w].pc = "sign" /\ worker'[w].txid = f
      BY <2>3, GoesTyped DEF Working
    <3> QED BY <2>1, <3>3, <3>4, <3>5 DEF ProgressAt
  <2> QED BY <1>7, <2>2, <2>3 DEF LockCoin
<1>8. CASE Sign(w)
  <2>1. f \in Sponsored /\ package[f] # NoPackage /\ worker[w].pc = "sign"
    BY <1>8, <1>d DEF Sign, ProgressAt
  <2>2. CASE Fails(w) /\ UNCHANGED <<package, retired>>
    BY <1>a, <1>c, <2>2
  <2>3. CASE Retire(f) /\ Fails(w) /\ package[f].child = NoChild
    <3>1. Retires(f) /\ \A g \in Txid \ {f} : package'[g] = package[g]
      BY <2>1, <2>3, RetireTyped, RetireCoins DEF Retires
    <3> QED BY <1>c, <2>3, <3>1
  <2>4. CASE /\ children' = children + 1 /\ package[f].child = NoChild
             /\ package' = [package EXCEPT ![f].child = children']
             /\ worker' = [worker EXCEPT ![w].pc = "send",
                                         ![w].child = children']
             /\ UNCHANGED retired
    <3>1. children' \in Nat /\ children' # NoChild
      BY <2>4 DEF Typed, NoChild
    <3>2. package'[f].coin = package[f].coin /\ package'[f].child = children'
          /\ \A g \in Txid \ {f} : package'[g] = package[g]
      BY <1>d, <2>4 DEF Packages
    <3>3. worker'[w].pc = "send" /\ worker'[w].txid = f
          /\ worker'[w].child = children'
      BY <2>4, <3>1, SendsTyped
    <3>4. Signs(w, f) BY <2>1, <2>4, <3>1, <3>2 DEF Signs, RetiredCoins
    <3>5. ProgressAt(w)' BY <3>1, <3>2, <3>3 DEF ProgressAt
    <3> QED BY <3>2, <3>4, <3>5
  <2> QED BY <1>8, <2>2, <2>3, <2>4 DEF Sign
<1>9. CASE Send(w)
  <2>1. UNCHANGED <<package, retired>> BY <1>9 DEF Send
  <2>2. worker'[w].pc = "finish"
    BY <1>9, FailsTyped, EndsTyped, RestingTyped DEF Send, Statuses
  <2> QED BY <1>a, <1>b, <2>1, <2>2
<1>10. CASE Finish(w)
  <2>1. UNCHANGED <<package, retired>> BY <1>10 DEF Finish
  <2>2. worker'[w].pc = "idle" BY <1>10, RestsTyped DEF Finish, Resting
  <2> QED BY <1>a, <1>b, <2>1, <2>2
<1> QED BY <1>1, <1>2, <1>3, <1>4, <1>5, <1>6, <1>7, <1>8, <1>9, <1>10
        DEF Attempt

\* The steps that leave the reservations alone.
LEMMA PackageUntouched ==
    ASSUME Mine \/ Reorg \/ Evict \/ OwnerSpends \/ PeerSends
           \/ (\E w \in Worker, f \in Txid :
                 Claim(w, f) \/ TakeOver(w, f) \/ TakeOverLate(w, f))
           \/ (\E w \in Worker :
                 BeginDeferred(w) \/ HandBack(w) \/ Abandon(w) \/ Crash(w))
    PROVE  UNCHANGED <<package, retired, sent>>
  BY DEF Mine, Reorg, Evict, OwnerSpends, PeerSends, Claim, TakeOver,
         TakeOverLate, Take, BeginDeferred, HandBack, Abandon, Crash,
         node, history, ledger

\* An attempt holds its fanout's claim alone.
LEMMA AloneOn ==
    ASSUME Holding, NEW w \in Worker, NEW v \in Worker,
           worker[w].pc \in Working, worker[v].pc \in Working,
           worker[w].txid = worker[v].txid
    PROVE  v = w
  BY DEF Holding

-----------------------------------------------------------------------------
(* Reservations, children and locks.                                       *)

LEMMA ReservationsStep ==
    Typed /\ Holding /\ Reservations /\ Progress /\ [Next]_vars => Reservations'
<1> SUFFICES ASSUME Typed, Holding, Reservations, Progress, [Next]_vars
             PROVE  Reservations'
  OBVIOUS
<1>1. CASE UNCHANGED <<package, retired>> BY <1>1 DEF Reservations
<1>2. ASSUME NEW w \in Worker, Attempt(w) PROVE Reservations'
  <2> DEFINE f == worker[w].txid
  <2>1. f \in Txid BY <1>2, Awake DEF Holding
  <2>2. /\ \A g \in Txid \ {f} : package'[g] = package[g]
        /\ Keeps(f) \/ Reserves(f) \/ Retires(f) \/ Signs(w, f)
    BY <1>2, <2>1, PackageStep
  <2>3. NoPackage.coin = NoCoin BY DEF NoPackage
  <2>4. \A c \in RetiredCoins : c # NoCoin /\ \A g \in Txid : package[g].coin # c
    BY DEF Reservations, RetiredCoins
  <2> SUFFICES /\ f \notin Sponsored \/ package'[f].coin = NoCoin => package'[f] = NoPackage
               /\ \A g \in Txid \ {f} : package'[f].coin = package[g].coin =>
                    package[g].coin = NoCoin
               /\ \A c \in RetiredCoins' :
                    c # NoCoin /\ \A g \in Txid : package'[g].coin # c
    <3>1. \A r \in retired' : r.coin \in RetiredCoins' BY DEF RetiredCoins
    <3> QED BY <2>1, <2>2, <3>1 DEF Reservations
  <2>5. CASE Keeps(f)
    BY <2>1, <2>2, <2>4, <2>5 DEF Keeps, Reservations
  <2>6. CASE Reserves(f)
    <3>1. \A g \in Txid : package[g].coin # package'[f].coin
      BY <2>6 DEF Reserves, Unavailable
    <3>2. package'[f].coin \notin RetiredCoins /\ package'[f].coin # NoCoin
      BY <2>6, FanoutAssumption DEF Reserves, Unavailable, RetiredCoins
    <3> QED BY <2>1, <2>2, <2>4, <2>6, <3>1, <3>2 DEF Reserves
  <2>7. CASE Retires(f)
    <3>1. package[f].coin # NoCoin BY <2>1, <2>7 DEF Retires, Reservations
    <3>2. \A g \in Txid \ {f} : package[g].coin # package[f].coin
      BY <2>1, <3>1 DEF Reservations
    <3>3. package'[f].coin = NoCoin BY <2>3, <2>7 DEF Retires
    <3> QED BY <2>1, <2>2, <2>4, <2>7, <3>1, <3>2, <3>3 DEF Retires
  <2>8. CASE Signs(w, f)
    <3>1. package[f].coin # NoCoin BY <2>1, <2>8 DEF Signs, Reservations
    <3> QED BY <2>1, <2>2, <2>4, <2>8, <3>1 DEF Signs, Reservations
  <2> QED BY <2>2, <2>5, <2>6, <2>7, <2>8
<1>3. CASE UNCHANGED vars BY <1>1, <1>3 DEF vars, ledger
<1> QED BY <1>1, <1>2, <1>3, PackageUntouched DEF Next

LEMMA ProgressStep ==
    Typed /\ Holding /\ Reservations /\ Progress /\ [Next]_vars => Progress'
<1> SUFFICES ASSUME Typed, Holding, Reservations, Progress, [Next]_vars
             PROVE  Progress'
  OBVIOUS
<1> USE DEF node, history, ledger
<1>1. CASE UNCHANGED <<package, worker>> BY <1>1 DEF Progress, ProgressAt
<1>2. CASE UNCHANGED vars BY <1>1, <1>2 DEF vars
<1>3. CASE Mine \/ Reorg \/ Evict \/ OwnerSpends \/ PeerSends
  BY <1>1, <1>3 DEF Mine, Reorg, Evict, OwnerSpends, PeerSends
<1>4. ASSUME NEW w \in Worker, NEW f \in Txid,
             Claim(w, f) \/ TakeOver(w, f) \/ TakeOverLate(w, f)
      PROVE  Progress'
  <2>1. Take(w, f) BY <1>4 DEF Claim, TakeOver, TakeOverLate
  <2>2. UNCHANGED package BY <2>1 DEF Take
  <2>3. worker'[w].pc = "begin" /\ \A v \in Worker \ {w} : worker'[v] = worker[v]
    BY <2>1, TakeTyped
  <2> QED BY <2>2, <2>3 DEF Progress, ProgressAt
<1>5. ASSUME NEW w \in Worker, Attempt(w) PROVE Progress'
  <2> DEFINE f == worker[w].txid
  <2>1. f \in Txid BY <1>5, Awake DEF Holding
  <2>2. ProgressAt(w)' /\ \A g \in Txid \ {f} : package'[g] = package[g]
    BY <1>5, <2>1, PackageStep
  <2>3. ASSUME NEW v \in Worker \ {w} PROVE ProgressAt(v)'
    <3>1. worker'[v] = worker[v]
      <4>1. CASE Finish(w) BY <4>1, RestsTyped DEF Finish
      <4>2. CASE ~Finish(w) BY <1>5, <2>1, <4>2, AttemptStep
      <4> QED BY <4>1, <4>2
    <3>2. ProgressAt(v) BY DEF Progress
    <3>3. CASE worker[v].pc \notin Working
      BY <3>1, <3>2, <3>3 DEF ProgressAt, Working
    <3>4. CASE worker[v].pc \in Working
      <4>1. worker[v].txid \in Txid
        BY <3>4 DEF Holding, Working
      <4>2. CASE Finish(w)
        <5>1. UNCHANGED package BY <4>2 DEF Finish
        <5> QED BY <3>1, <3>2, <5>1 DEF ProgressAt
      <4>3. CASE ~Finish(w)
        <5>1. worker[w].pc \in Working BY <1>5, <2>1, <4>3, AttemptStep
        <5>2. worker[v].txid # f BY <3>4, <5>1, AloneOn
        <5>3. package'[worker[v].txid] = package[worker[v].txid]
          BY <2>2, <4>1, <5>2
        <5> QED BY <3>1, <3>2, <5>3 DEF ProgressAt
      <4> QED BY <4>2, <4>3
    <3> QED BY <3>3, <3>4
  <2> QED BY <2>2, <2>3 DEF Progress
<1>6. ASSUME NEW w \in Worker,
             BeginDeferred(w) \/ Abandon(w) \/ Crash(w) \/ HandBack(w)
      PROVE  Progress'
  <2>1. worker[w].txid \in Txid
    BY <1>6 DEF BeginDeferred, Abandon, Crash, HandBack, Holding
  <2>2. /\ UNCHANGED package
        /\ \A v \in Worker \ {w} : worker'[v] = worker[v]
        /\ worker'[w].pc \in {"idle", "check", "finish"}
    BY <1>6, <2>1, FaultStep, HandBackStep DEF Resting
  <2> QED BY <2>2 DEF Progress, ProgressAt
<1> QED BY <1>2, <1>3, <1>4, <1>5, <1>6 DEF Next

LEMMA SentStep ==
    ASSUME Typed, NEW w \in Worker, worker[w].txid \in Txid, Attempt(w)
    PROVE  LET f == worker[w].txid IN
           /\ \A g \in Txid \ {f} : sent'[g] = sent[g]
           /\ \/ sent'[f] = sent[f]
              \/ /\ worker[w].pc = "send" /\ UNCHANGED <<package, retired>>
                 /\ sent'[f] = sent[f] \cup
                      {[coin |-> package[f].coin, child |-> worker[w].child]}
<1> USE DEF node, history, ledger
<1>1. CASE Send(w)
  BY <1>1 DEF Send, Typed
<1>2. CASE ~Send(w)
  <2>1. UNCHANGED sent
    BY <1>2 DEF Attempt, Begin, CheckTracked, Halt, CheckIndexed, Scan,
       NotOnChain, Reserve, CheckFunding, Replay, LockCoin, Sign, Finish,
       TipMoved
  <2> QED BY <2>1
<1> QED BY <1>1, <1>2

LEMMA SentCommittedStep ==
    Typed /\ Holding /\ Reservations /\ Progress /\ SentCommitted /\ [Next]_vars
      => SentCommitted'
<1> SUFFICES ASSUME Typed, Holding, Reservations, Progress, SentCommitted,
                    [Next]_vars
             PROVE  SentCommitted'
  OBVIOUS
<1>1. CASE UNCHANGED <<package, sent>> BY <1>1 DEF SentCommitted
<1>2. ASSUME NEW w \in Worker, Attempt(w) PROVE SentCommitted'
  <2> DEFINE f == worker[w].txid
  <2>1. f \in Txid BY <1>2, Awake DEF Holding
  <2>2. /\ \A g \in Txid \ {f} : package'[g] = package[g]
        /\ Keeps(f) \/ Reserves(f) \/ Retires(f) \/ Signs(w, f)
    BY <1>2, <2>1, PackageStep
  <2>3. \A g \in Txid \ {f} : sent'[g] = sent[g]
    BY <1>2, <2>1, SentStep
  <2>4. ASSUME NEW s \in sent'[f]
        PROVE  /\ s.coin = package'[f].coin
               /\ f \in Sponsored =>
                    package'[f].child # NoChild /\ s.child = package'[f].child
    <3>1. CASE sent'[f] = sent[f]
      <4>1. /\ s.coin = package[f].coin
            /\ f \in Sponsored =>
                 package[f].child # NoChild /\ s.child = package[f].child
        BY <2>1, <2>4, <3>1 DEF SentCommitted
      <4>2. Keeps(f)
        BY <2>2, <4>1 DEF Reserves, Retires, Signs, NoPackage
      <4> QED BY <4>1, <4>2 DEF Keeps
    <3>2. CASE /\ worker[w].pc = "send" /\ UNCHANGED <<package, retired>>
               /\ sent'[f] = sent[f] \cup
                    {[coin |-> package[f].coin, child |-> worker[w].child]}
      <4>1. CASE s \in sent[f] BY <2>1, <3>2, <4>1 DEF SentCommitted
      <4>2. CASE s = [coin |-> package[f].coin, child |-> worker[w].child]
        BY <3>2, <4>2 DEF Progress, ProgressAt
      <4> QED BY <2>4, <3>2, <4>1, <4>2
    <3> QED BY <1>2, <2>1, <3>1, <3>2, SentStep
  <2> QED BY <2>1, <2>2, <2>3, <2>4 DEF SentCommitted
<1>3. CASE UNCHANGED vars BY <1>1, <1>3 DEF vars, ledger, history
<1> QED BY <1>1, <1>2, <1>3, PackageUntouched DEF Next

\* Sent children are never taken back.
LEMMA SentGrows ==
    ASSUME Typed, Holding, [Next]_vars
    PROVE  \A f \in Txid : sent[f] \subseteq sent'[f]
<1>1. CASE UNCHANGED sent BY <1>1
<1>2. ASSUME NEW w \in Worker, Attempt(w)
      PROVE  \A f \in Txid : sent[f] \subseteq sent'[f]
  <2>1. worker[w].txid \in Txid BY <1>2, Awake DEF Holding
  <2> QED BY <1>2, <2>1, SentStep
<1>3. CASE UNCHANGED vars BY <1>1, <1>3 DEF vars, history
<1> QED BY <1>1, <1>2, <1>3, PackageUntouched DEF Next

LEMMA RelayedStep ==
    Typed /\ Holding /\ RelayedAll /\ [Next]_vars => RelayedAll'
<1> SUFFICES ASSUME Typed, Holding, RelayedAll, [Next]_vars,
                    NEW tx \in (OnChain \cup mempool)',
                    tx.coin # NoCoin
             PROVE  \E s \in sent'[tx.txid] : s.coin = tx.coin
  BY DEF RelayedAll, Relayed
<1> USE DEF node, history, ledger
<1>1. CASE tx \in OnChain \cup mempool
  <2>1. tx.txid \in Txid
    BY <1>1, Blocked DEF OnChain, Typed, Tx
  <2>2. \E s \in sent[tx.txid] : s.coin = tx.coin
    BY <1>1 DEF RelayedAll, Relayed
  <2> QED BY <2>1, <2>2, SentGrows
<1>2. CASE UNCHANGED <<chain, mempool>> BY <1>1, <1>2 DEF OnChain
<1>3. CASE Mine
  <2>1. tx \in OnChain'
    BY <1>3, MineEffect
  <2>2. PICK h \in 1..Len(chain') : tx \in chain'[h].txs
    BY <2>1 DEF OnChain
  <2>3. CASE h \in 1..Len(chain)
    <3>1. tx \in OnChain BY <1>3, <2>2, <2>3, MineEffect DEF OnChain
    <3> QED BY <1>1, <3>1
  <2>4. CASE h \notin 1..Len(chain)
    <3>1. h = Len(chain) + 1 BY <1>3, <2>4, MineEffect
    <3>2. tx \in mempool BY <1>3, <2>2, <3>1, MineEffect
    <3> QED BY <1>1, <3>2
  <2> QED BY <2>3, <2>4
<1>4. CASE Reorg
  <2>1. PICK b \in 1..Len(chain), again \in SUBSET OnChain :
           /\ Len(chain') = Len(chain)
           /\ \A i \in 1..Len(chain) : i < b => chain'[i] = chain[i]
           /\ \A i \in 1..Len(chain) : i >= b => chain'[i].txs \subseteq again
           /\ mempool' \subseteq mempool \cup OnChain
    BY <1>4, ReorgEffect
  <2>2. CASE tx \in mempool' BY <1>1, <2>1, <2>2
  <2>3. CASE tx \in OnChain'
    <3>1. PICK h \in 1..Len(chain) : tx \in chain'[h].txs
      BY <2>1, <2>3 DEF OnChain
    <3>2. CASE h < b
      <4>1. tx \in OnChain BY <2>1, <3>1, <3>2 DEF OnChain
      <4> QED BY <1>1, <4>1
    <3>3. CASE ~(h < b)
      <4>1. tx \in again BY <2>1, <3>1, <3>3, Evidence
      <4> QED BY <1>1, <4>1
    <3> QED BY <3>2, <3>3
  <2> QED BY <2>2, <2>3
<1>5. CASE Evict BY <1>1, <1>5 DEF Evict, OnChain
<1>6. CASE PeerSends BY <1>1, <1>6 DEF PeerSends, OnChain
<1>7. CASE OwnerSpends BY <1>2, <1>7 DEF OwnerSpends
<1>8. ASSUME NEW w \in Worker, NEW f \in Txid,
             Claim(w, f) \/ TakeOver(w, f) \/ TakeOverLate(w, f)
      PROVE  UNCHANGED <<chain, mempool>>
  BY <1>8 DEF Claim, TakeOver, TakeOverLate, Take
<1>9. ASSUME NEW w \in Worker, Attempt(w)
      PROVE  \E s \in sent'[tx.txid] : s.coin = tx.coin
  <2> DEFINE f == worker[w].txid
  <2>1. f \in Txid BY <1>9, Awake DEF Holding
  <2>2. CASE Send(w) /\ ~(UNCHANGED mempool)
    <3>1. /\ mempool' = mempool \cup {[txid |-> f, coin |-> package[f].coin]}
          /\ sent' = [sent EXCEPT ![f] = @ \cup
                       {[coin |-> package[f].coin, child |-> worker[w].child]}]
          /\ UNCHANGED chain
      BY <2>2 DEF Send
    <3>2. CASE tx = [txid |-> f, coin |-> package[f].coin]
      <4>1. [coin |-> package[f].coin, child |-> worker[w].child] \in sent'[f]
        BY <2>1, <3>1 DEF Typed
      <4> QED BY <3>2, <4>1
    <3> QED BY <1>1, <3>1, <3>2 DEF OnChain
  <2>3. CASE Send(w) /\ UNCHANGED mempool
    BY <1>2, <2>3 DEF Send
  <2>4. CASE ~Send(w)
    <3>1. UNCHANGED <<chain, mempool>>
      BY <1>9, <2>4 DEF Attempt, Begin, CheckTracked, Halt, CheckIndexed, Scan,
         NotOnChain, Reserve, CheckFunding, Replay, LockCoin, Sign, Finish,
         TipMoved
    <3> QED BY <1>2, <3>1
  <2> QED BY <2>2, <2>3, <2>4
<1>10. ASSUME NEW w \in Worker,
              BeginDeferred(w) \/ Abandon(w) \/ Crash(w) \/ HandBack(w)
       PROVE  UNCHANGED <<chain, mempool>>
  BY <1>10 DEF BeginDeferred, Abandon, Crash, HandBack
<1>11. CASE UNCHANGED vars BY <1>2, <1>11 DEF vars
<1> QED BY <1>2, <1>3, <1>4, <1>5, <1>6, <1>7, <1>8, <1>9, <1>10, <1>11 DEF Next

\* Which locks an attempt gives up, and what it holds when it signs.
LEMMA WalletStep ==
    ASSUME Typed, Progress, RelayedAll, NEW w \in Worker,
           worker[w].txid \in Txid, Attempt(w)
    PROVE  LET f == worker[w].txid IN
           /\ \A c \in wallet.locked \ wallet'.locked :
                \/ c \in RetiredCoins \/ c = NoCoin
                \/ c = package[f].coin /\ \E s \in sent'[f] : s.coin = c
           /\ LockedAt(w)'
<1> DEFINE f == worker[w].txid
<1> USE DEF node, history, ledger
<1>a. ASSUME worker'[w].pc # "sign" PROVE LockedAt(w)'
  BY <1>a DEF LockedAt
<1>b. wallet \in [locked : SUBSET Funds, lost : SUBSET Coin] BY DEF Typed
<1>1. CASE Begin(w)
  <2>1. worker'[w].pc # "sign"
    BY <1>1, ViewsTyped, FailsTyped DEF Begin
  <2>2. CASE Fenced(w)
    <3>1. wallet' = [wallet EXCEPT !.locked =
               ((@ \ Cleanup(f)) \ Maintained(f).free) \cup Maintained(f).lock]
          /\ UNCHANGED sent
      BY <1>1, <2>2 DEF Begin
    <3>2. ASSUME NEW c \in wallet.locked \ wallet'.locked
          PROVE  \/ c \in RetiredCoins \/ c = NoCoin
                 \/ c = package[f].coin /\ \E s \in sent'[f] : s.coin = c
      <4>1. c \in Cleanup(f) \cup Maintained(f).free BY <1>b, <3>1, <3>2
      <4>2. CASE c \in Cleanup(f) BY <4>2 DEF Cleanup, RetiredCoins
      <4>3. CASE c \in Maintained(f).free /\ c # NoCoin
        <5>1. c = package[f].coin /\ [txid |-> f, coin |-> c] \in OnChain
          BY <4>3, MaintainedTyped
        <5>2. Relayed([txid |-> f, coin |-> c]) BY <5>1 DEF RelayedAll
        <5> QED BY <3>1, <4>3, <5>1, <5>2 DEF Relayed
      <4> QED BY <4>1, <4>2, <4>3
    <3> QED BY <1>a, <2>1, <3>2
  <2>3. CASE ~Fenced(w)
    <3>1. UNCHANGED wallet BY <1>1, <2>3 DEF Begin
    <3> QED BY <1>a, <2>1, <3>1
  <2> QED BY <2>2, <2>3
<1>2. CASE LockCoin(w)
  <2>1. CASE Fails(w) /\ UNCHANGED wallet
    BY <1>a, <2>1, FailsTyped
  <2>2. CASE /\ package' = [package EXCEPT ![f].released = FALSE]
             /\ wallet' = [wallet EXCEPT !.locked = @ \cup {package[f].coin}]
             /\ Goes(w, "sign")
    <3>1. worker'[w].txid = f BY <2>2, GoesTyped DEF Working
    <3>2. package'[f].coin = package[f].coin
      BY <2>2 DEF Typed, Packages
    <3>3. wallet'.locked = wallet.locked \cup {package[f].coin}
      BY <1>b, <2>2
    <3> QED BY <3>1, <3>2, <3>3 DEF LockedAt
  <2> QED BY <1>2, <2>1, <2>2 DEF LockCoin
<1>3. CASE Send(w)
  <2>1. worker'[w].pc # "sign"
    BY <1>3, FailsTyped, EndsTyped, RestingTyped DEF Send, Statuses
  <2>2. CASE UNCHANGED wallet BY <1>a, <2>1, <2>2
  <2>3. CASE ~(UNCHANGED wallet)
    <3>1. /\ wallet' = [wallet EXCEPT !.locked = @ \ {package[f].coin}]
          /\ sent' = [sent EXCEPT ![f] = @ \cup
                       {[coin |-> package[f].coin, child |-> worker[w].child]}]
      BY <1>3, <2>3 DEF Send
    <3>2. [coin |-> package[f].coin, child |-> worker[w].child] \in sent'[f]
      BY <3>1 DEF Typed
    <3>3. \A c \in wallet.locked \ wallet'.locked : c = package[f].coin
      BY <1>b, <3>1
    <3> QED BY <1>a, <2>1, <3>2, <3>3
  <2> QED BY <2>2, <2>3
<1>4. CASE ~Begin(w) /\ ~LockCoin(w) /\ ~Send(w)
  <2>1. UNCHANGED wallet
    BY <1>4 DEF Attempt, CheckTracked, Halt, CheckIndexed, Scan,
       NotOnChain, Reserve, CheckFunding, Replay, Sign, Finish, TipMoved
  <2>2. worker'[w].pc # "sign"
    <3>1. CASE Finish(w) BY <3>1, RestsTyped DEF Finish, Resting
    <3>2. CASE NotOnChain(w)
      <4>1. \/ Ends(w, "broadcast_submitted", Unconfirmed)
            \/ Goes(w, "fund") \/ Goes(w, "send")
        BY <3>2 DEF NotOnChain
      <4>2. ASSUME Ends(w, "broadcast_submitted", Unconfirmed)
            PROVE  worker'[w].pc # "sign"
        BY <4>2, EndsTyped, RestingTyped DEF Statuses
      <4> QED BY <4>1, <4>2, GoesTyped DEF Working
    <3>3. CASE Reserve(w) BY <3>3, FailsTyped DEF Reserve
    <3>4. CASE CheckFunding(w)
      BY <3>4, FailsTyped, GoesTyped DEF CheckFunding, Working
    <3>5. CASE Replay(w)
      <4>1. package[f].child \in Nat BY DEF Typed, Packages
      <4> QED BY <3>5, <4>1, FailsTyped, SendsTyped DEF Replay
    <3>6. CASE Sign(w)
      <4>1. children + 1 \in Nat BY DEF Typed
      <4>2. \/ Fails(w)
            \/ worker' = [worker EXCEPT ![w].pc = "send", ![w].child = children + 1]
        BY <3>6 DEF Sign
      <4> QED BY <4>1, <4>2, FailsTyped, SendsTyped
    <3>7. CASE CheckTracked(w) \/ Halt(w) \/ CheckIndexed(w) \/ Scan(w) \/ TipMoved(w)
      <4>1. ~Finish(w) /\ worker[w].pc = "check"
        BY <3>7 DEF CheckTracked, Halt, CheckIndexed, Scan, TipMoved, Finish
      <4>2. CASE Scan(w) BY <4>2, ScanTyped
      <4>3. CASE Halt(w) \/ TipMoved(w) BY <4>3, FailsTyped DEF Halt, TipMoved
      <4>4. CASE CheckTracked(w)
        <5>1. row[f].confirmed.height \in 1..Len(chain)
          BY <4>4 DEF CheckTracked, Active
        <5> QED BY <4>4, <5>1, AtSeen, EndsTyped DEF CheckTracked, Statuses
      <4>5. CASE CheckIndexed(w)
        <5>1. PICK h \in 1..Len(chain) : Ends(w, "confirmed", At(h))
          BY <4>5 DEF CheckIndexed, HeightsOf
        <5> QED BY <5>1, AtSeen, EndsTyped DEF Statuses
      <4> QED BY <3>7, <4>2, <4>3, <4>4, <4>5
    <3> QED BY <1>4, <3>1, <3>2, <3>3, <3>4, <3>5, <3>6, <3>7 DEF Attempt
  <2> QED BY <1>a, <2>1, <2>2
<1> QED BY <1>1, <1>2, <1>3, <1>4

LEMMA LockedStep ==
    /\ Typed /\ Holding /\ Reservations /\ Progress /\ RelayedAll /\ Locked
    /\ [Next]_vars
    => Locked'
<1> SUFFICES ASSUME Typed, Holding, Reservations, Progress, RelayedAll,
                    \A v \in Worker : LockedAt(v), \A f \in Txid : KeptAt(f),
                    [Next]_vars
             PROVE  /\ \A v \in Worker : LockedAt(v)'
                    /\ \A f \in Txid : KeptAt(f)'
  BY DEF Locked
<1> USE DEF node, history, ledger
<1>1. CASE UNCHANGED <<package, worker, sent>> /\ wallet'.locked = wallet.locked
  BY <1>1 DEF LockedAt, KeptAt
<1>2. CASE UNCHANGED vars BY <1>1, <1>2 DEF vars
<1>3. CASE Mine \/ Reorg \/ Evict \/ OwnerSpends \/ PeerSends
  <2>1. wallet'.locked = wallet.locked
    BY <1>3 DEF Mine, Reorg, Evict, OwnerSpends, PeerSends, Typed
  <2> QED BY <1>1, <1>3, <2>1 DEF Mine, Reorg, Evict, OwnerSpends, PeerSends
<1>4. ASSUME NEW w \in Worker, NEW f \in Txid,
             Claim(w, f) \/ TakeOver(w, f) \/ TakeOverLate(w, f)
      PROVE  /\ \A v \in Worker : LockedAt(v)'
             /\ \A g \in Txid : KeptAt(g)'
  <2>1. Take(w, f) BY <1>4 DEF Claim, TakeOver, TakeOverLate
  <2>2. UNCHANGED <<package, wallet, sent>> BY <2>1 DEF Take
  <2>3. worker'[w].pc = "begin" /\ \A v \in Worker \ {w} : worker'[v] = worker[v]
    BY <2>1, TakeTyped
  <2> QED BY <2>2, <2>3 DEF LockedAt, KeptAt
<1>5. ASSUME NEW w \in Worker,
             BeginDeferred(w) \/ Abandon(w) \/ Crash(w) \/ HandBack(w)
      PROVE  /\ \A v \in Worker : LockedAt(v)'
             /\ \A g \in Txid : KeptAt(g)'
  <2>1. worker[w].txid \in Txid
    BY <1>5 DEF BeginDeferred, Abandon, Crash, HandBack, Holding
  <2>2. /\ UNCHANGED <<package, sent, wallet>>
        /\ \A v \in Worker \ {w} : worker'[v] = worker[v]
        /\ worker'[w].pc \in {"idle", "check", "finish"}
    BY <1>5, <2>1, FaultStep, HandBackStep DEF Resting
  <2> QED BY <2>2 DEF LockedAt, KeptAt
<1>6. ASSUME NEW w \in Worker, Attempt(w)
      PROVE  /\ \A v \in Worker : LockedAt(v)'
             /\ \A g \in Txid : KeptAt(g)'
  <2> DEFINE f == worker[w].txid
  <2>1. f \in Txid BY <1>6, Awake DEF Holding
  <2>2. /\ \A g \in Txid \ {f} : package'[g] = package[g]
        /\ Keeps(f) \/ Reserves(f) \/ Retires(f) \/ Signs(w, f)
    BY <1>6, <2>1, PackageStep
  <2>3. \A c \in wallet.locked \ wallet'.locked :
                \/ c \in RetiredCoins \/ c = NoCoin
                \/ c = package[f].coin /\ \E s \in sent'[f] : s.coin = c
    BY <1>6, <2>1, WalletStep
  <2>4. \A c \in RetiredCoins : \A g \in Txid : package[g].coin # c
    BY DEF Reservations, RetiredCoins
  <2>5. \A g \in Txid : sent[g] \subseteq sent'[g] BY SentGrows
  <2>6. ASSUME NEW g \in Txid \ {f}, package[g].coin # NoCoin,
               package[g].coin \in wallet.locked
        PROVE  package[g].coin \in wallet'.locked
    <3>1. package[g].coin # package[f].coin
      BY <2>1, <2>6 DEF Reservations
    <3> QED BY <2>3, <2>4, <2>6, <3>1
  <2>7. ASSUME NEW v \in Worker \ {w} PROVE LockedAt(v)'
    <3>1. worker'[v] = worker[v]
      <4>1. CASE Finish(w) BY <4>1, RestsTyped DEF Finish
      <4>2. CASE ~Finish(w) BY <1>6, <2>1, <4>2, AttemptStep
      <4> QED BY <4>1, <4>2
    <3>2. CASE worker[v].pc # "sign" BY <3>1, <3>2 DEF LockedAt
    <3>3. CASE worker[v].pc = "sign"
      <4>1. /\ worker[v].txid \in Txid
            /\ package[worker[v].txid].coin \in wallet.locked
            /\ package[worker[v].txid].coin # NoCoin
        BY <3>3 DEF Holding, LockedAt, Progress, ProgressAt, Reservations
      <4>2. CASE Finish(w)
        <5>1. UNCHANGED <<package, wallet>> BY <4>2 DEF Finish
        <5> QED BY <3>1, <3>3, <4>1, <5>1 DEF LockedAt
      <4>3. CASE ~Finish(w)
        <5>1. worker[w].pc \in Working BY <1>6, <2>1, <4>3, AttemptStep
        <5>2. worker[v].txid # f BY <3>3, <5>1, AloneOn DEF Working
        <5> QED BY <2>2, <2>6, <3>1, <3>3, <4>1, <5>2 DEF LockedAt
      <4> QED BY <4>2, <4>3
    <3> QED BY <3>2, <3>3
  <2>8. LockedAt(w)' BY <1>6, <2>1, WalletStep
  <2>9. ASSUME NEW g \in Txid \ {f} PROVE KeptAt(g)'
    <3>1. package'[g] = package[g] BY <2>2
    <3>2. KeptAt(g) OBVIOUS
    <3>3. package[g].child # NoChild => package[g].coin # NoCoin
      BY DEF Reservations, NoPackage
    <3> QED BY <2>5, <2>6, <3>1, <3>2, <3>3 DEF KeptAt
  <2>10. ASSUME NEW g \in Txid, g = f PROVE KeptAt(g)'
    <3> SUFFICES ASSUME package'[g].child # NoChild
                 PROVE  \/ package'[g].coin \in wallet'.locked
                        \/ \E s \in sent'[g] : s.coin = package'[g].coin
      BY DEF KeptAt
    <3>0. NoPackage.child = NoChild BY DEF NoPackage
    <3>1. Keeps(g) \/ Signs(w, g)
      BY <2>2, <2>10, <3>0 DEF Reserves, Retires
    <3>2. /\ package'[g].coin = package[g].coin /\ package[g].coin # NoCoin
          /\ \/ package[g].coin \in wallet.locked
             \/ \E s \in sent[g] : s.coin = package[g].coin
      <4>1. CASE Keeps(g)
        <5>1. KeptAt(g) /\ package[g].child # NoChild BY <4>1 DEF Keeps
        <5> QED BY <3>0, <4>1, <5>1 DEF KeptAt, Keeps, Reservations
      <4>2. CASE Signs(w, g)
        <5>1. LockedAt(w) OBVIOUS
        <5> QED BY <2>10, <4>2, <5>1 DEF LockedAt, Signs, Reservations
      <4> QED BY <3>1, <4>1, <4>2
    <3> QED BY <2>3, <2>4, <2>5, <2>10, <3>2
  <2> QED BY <2>7, <2>8, <2>9, <2>10
<1> QED BY <1>2, <1>3, <1>4, <1>5, <1>6 DEF Next

-----------------------------------------------------------------------------
(* The theorems.                                                           *)

\* Only the owner's own spend takes a coin.
LEMMA LostOnly ==
    ASSUME Typed, [Next]_vars, ~OwnerSpends
    PROVE  wallet'.lost = wallet.lost
<1> USE DEF node, history, ledger
<1>1. CASE UNCHANGED wallet BY <1>1
<1>2. ASSUME NEW w \in Worker, Attempt(w) PROVE wallet'.lost = wallet.lost
  <2>1. wallet \in [locked : SUBSET Funds, lost : SUBSET Coin] BY DEF Typed
  <2>2. CASE Begin(w) BY <2>1, <2>2 DEF Begin
  <2>3. CASE LockCoin(w) BY <2>1, <2>3 DEF LockCoin
  <2>4. CASE Send(w) BY <2>1, <2>4 DEF Send
  <2>5. CASE ~Begin(w) /\ ~LockCoin(w) /\ ~Send(w)
    BY <1>2, <2>5 DEF Attempt, CheckTracked, Halt, CheckIndexed, Scan,
       NotOnChain, Reserve, CheckFunding, Replay, Sign, Finish, TipMoved
  <2> QED BY <2>2, <2>3, <2>4, <2>5
<1>3. ASSUME Mine \/ Reorg \/ Evict \/ PeerSends PROVE UNCHANGED wallet
  BY <1>3 DEF Mine, Reorg, Evict, PeerSends
<1>4. ASSUME NEW w \in Worker,
             \/ \E f \in Txid : Claim(w, f) \/ TakeOver(w, f) \/ TakeOverLate(w, f)
             \/ BeginDeferred(w) \/ HandBack(w) \/ Abandon(w) \/ Crash(w)
      PROVE  UNCHANGED wallet
  BY <1>4 DEF Claim, TakeOver, TakeOverLate, Take, BeginDeferred, HandBack,
     Abandon, Crash
<1>5. CASE UNCHANGED vars BY <1>5 DEF vars
<1> QED BY <1>1, <1>2, <1>3, <1>4, <1>5 DEF Next

LEMMA FanoutInit == Init => FanoutInv
<1> SUFFICES ASSUME Init PROVE FanoutInv OBVIOUS
<1>1. Typed BY TypedInit
<1>2. /\ \A w \in Worker : worker[w] = Resting
      /\ \A f \in Txid : /\ row[f].next = 1 /\ row[f].anchor = Unconfirmed
                         /\ row[f].confirmed = Unconfirmed
                         /\ package[f] = NoPackage /\ sent[f] = {}
      /\ settled = {} /\ retired = {} /\ mempool = {} /\ blocks = 1
      /\ Len(chain) = 1 /\ chain[1].id = 1 /\ chain[1].txs = {}
  BY DEF Init
<1>3. Resting.pc = "idle" /\ Resting.status = "failed" /\ Resting.seen = Unconfirmed
  BY DEF Resting
<1>4. Unconfirmed.depth = 0 /\ Unconfirmed.height = 0 /\ Unconfirmed.id = 0
  BY DEF Unconfirmed
<1>5. NoPackage.coin = NoCoin /\ NoPackage.child = NoChild BY DEF NoPackage
<1>6. Holding /\ Depths /\ Settled
  BY <1>2, <1>3, <1>4 DEF Holding, Depths, Deepening, Settled, SettledOnce, Working
<1>7. Counted BY <1>2, <1>4 DEF Counted, ScanSound
<1>8. Reservations /\ Progress /\ SentCommitted /\ Locked
  BY <1>2, <1>3, <1>5 DEF Reservations, Progress, ProgressAt, SentCommitted,
     Locked, LockedAt, KeptAt
<1>9. RelayedAll BY <1>2 DEF RelayedAll, OnChain
<1> QED BY <1>1, <1>6, <1>7, <1>8, <1>9 DEF FanoutInv

LEMMA FanoutStep == FanoutInv /\ [Next]_vars => FanoutInv'
  BY TypedStep, HoldingStep, DepthsStep, SettledStep, CountedStep,
     ReservationsStep, ProgressStep, SentCommittedStep, RelayedStep, LockedStep
  DEF FanoutInv

\* Every reachable state satisfies the inductive invariant.
THEOREM FanoutInvariant == Spec => []FanoutInv
<1>1. Init => FanoutInv BY FanoutInit
<1>2. FanoutInv /\ [Next]_vars => FanoutInv' BY FanoutStep
<1> QED BY <1>1, <1>2, PTL DEF Spec

\* Every child handed to the node for a fanout is the same transaction and no
\* coin funds two fanouts, however many frontends claim, die and take over
\* (reserve_cpfp_funding, the commit before submitpackage, the replay).
THEOREM OneChildEver == Spec => []OneChild
<1>1. FanoutInv => OneChild
  <2> SUFFICES ASSUME FanoutInv, NEW f \in Txid, NEW g \in Txid,
                      NEW s \in sent[f], NEW t \in sent[g],
                      f = g \/ s.coin = t.coin, f \in Sponsored
               PROVE  f = g /\ s = t
    BY DEF OneChild
  <2>1. /\ s.coin = package[f].coin /\ t.coin = package[g].coin
        /\ package[f].child # NoChild /\ s.child = package[f].child
    BY DEF FanoutInv, SentCommitted
  <2>2. package[f].coin # NoCoin
    BY <2>1 DEF FanoutInv, Reservations, NoPackage
  <2>3. f = g BY <2>1, <2>2 DEF FanoutInv, Reservations
  <2>4. t.child = s.child BY <2>1, <2>3 DEF FanoutInv, SentCommitted
  <2>5. s \in [coin : Funds, child : Nat] /\ t \in [coin : Funds, child : Nat]
    BY DEF FanoutInv, Typed
  <2> QED BY <2>1, <2>3, <2>4, <2>5
<1> QED BY <1>1, FanoutInvariant, PTL

\* The owner takes the coin of a committed child only when another node's
\* child took the child's place (maintain_funding_reservation).
THEOREM CoinKept == Spec => FundingKept
<1>1. FanoutInv /\ [Next]_vars =>
        [\A f \in Txid :
           LET c == package[f].coin IN
           package[f].child # NoChild /\ c \in wallet'.lost \ wallet.lost
             => Conflicted(f, c)]_vars
  <2> SUFFICES ASSUME FanoutInv, [Next]_vars, NEW f \in Txid,
                      package[f].child # NoChild,
                      package[f].coin \in wallet'.lost \ wallet.lost
               PROVE  Conflicted(f, package[f].coin)
    OBVIOUS
  <2>1. CASE wallet'.lost = wallet.lost BY <2>1
  <2>2. CASE OwnerSpends
    <3>1. PICK c \in Coin \ Protected : wallet' = [wallet EXCEPT !.lost = @ \cup {c}]
      BY <2>2 DEF OwnerSpends
    <3>2. c = package[f].coin BY <3>1 DEF FanoutInv, Typed
    <3>3. c \notin wallet.locked BY <3>1 DEF Protected
    <3>4. PICK s \in sent[f] : s.coin = c
      BY <3>2, <3>3 DEF FanoutInv, Locked, KeptAt
    <3>5. Conflicted(f, s.coin) BY <3>1, <3>4 DEF Protected
    <3> QED BY <3>2, <3>4, <3>5
  <2>3. CASE ~OwnerSpends
    <3>1. wallet'.lost = wallet.lost
      BY <2>3, LostOnly DEF FanoutInv
    <3> QED BY <2>1, <3>1
  <2> QED BY <2>2, <2>3
<1> QED BY <1>1, FanoutInvariant, PTL DEF Spec, FundingKept

\* A search that goes on from an active anchor has missed nothing below it,
\* whatever was disconnected in between (scan_spender).
THEOREM ScanMissesNothing == Spec => []ScanSound
<1>1. FanoutInv => ScanSound BY DEF FanoutInv, Counted
<1> QED BY <1>1, FanoutInvariant, PTL

\* A fanout once recorded deep is never funded, signed or sent again
\* (halt_fanout_reorg).
THEOREM SettledForGood == Spec => []SettledOnce
<1>1. FanoutInv => SettledOnce BY DEF FanoutInv, Settled
<1> QED BY <1>1, FanoutInvariant, PTL
=============================================================================
