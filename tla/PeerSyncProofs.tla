---------------------------- MODULE PeerSyncProofs ----------------------------
(***************************************************************************)
(* Proofs about the peer sync, for every batch size and every number of    *)
(* headers, keys, landings, failures and restores, while one node at most  *)
(* is ever restored and its frontend writes nothing in the gap: no cursor  *)
(* passes a row that is not here, a block comes with its window, and a     *)
(* node that serves holds its own log whole.                               *)
(***************************************************************************)
EXTENDS PeerSync, WellFoundedInduction, TLAPS

-----------------------------------------------------------------------------
(* The inductive invariant.                                                *)

\* One node is restored at most, and its frontend writes nothing before it
\* finds the restore.
OneRestored ==
    AppendsInGap = FALSE /\ \E n \in Node : Restorable \subseteq {n}

\* The own log was verified on the server that runs.
Good(n) == db[n].verified = db[n].timeline
Serving(n) == CaughtUp(n) /\ SameServer(n)

Pulling == {"raise", "apply", "barrier", "blocks"}
Recovering == {"ownBlocks", "floors", "verify", "diverged"}

\* The copies of a node's database: itself, and the backup it may return to.
Kept(n) == {db[n]} \cup (IF backup[n] = NoBackup THEN {} ELSE {backup[n]})

\* Cursors are keys, not the positions a sequence may reach above them.
Typed ==
    /\ TypeOK
    /\ left \in [appends : Nat, landings : Nat, failures : Nat, restores : Nat]
    /\ \A n \in Node :
         /\ db[n].mark <= MaxKey /\ sync[n].through <= MaxKey
         /\ backup[n] # NoBackup =>
              /\ n \in Restorable /\ backup[n].mark <= MaxKey
              /\ Origin(backup[n].seq) = n

\* Who serves is verified, who pulls or writes serves, who recovers does not,
\* and a node that is never restored stays verified.
LatchedAt(n) ==
    /\ db[n].verified <= db[n].timeline /\ sync[n].latch <= db[n].timeline
    /\ backup[n] # NoBackup =>
         /\ backup[n].verified <= backup[n].timeline
         /\ backup[n].timeline <= db[n].timeline
    /\ Serving(n) => Good(n)
    /\ sync[n].stage \in Pulling => Serving(n)
    /\ sync[n].stage \in Recovering => ~CaughtUp(n)
    /\ open[n].append # NoAppend \/ open[n].landings # {} => Serving(n)
    /\ n \notin Restorable => Good(n)

\* A backup holds nothing the database lacks.
BehindAt(n, D) ==
    /\ D.shares \subseteq db[n].shares /\ D.blocks \subseteq db[n].blocks
    /\ D.mark <= db[n].mark /\ D.blockMark <= db[n].blockMark

\* A database's keys lie below its sequence, and no key is held twice.
KeyedIn(D) ==
    /\ \A s \in D.shares : s.key <= D.seq
    /\ \A s \in D.shares : \A t \in D.shares : s.key = t.key => s = t

\* The sequence is raised above a batch before it is applied.
RaisedAt(n) ==
    sync[n].stage = "apply" => \A s \in sync[n].rows : s.key <= db[n].seq

\* An open append has a key above all the node holds or is about to apply,
\* and above all the peer has scanned.
DrawnAt(n) ==
    open[n].append # NoAppend =>
      LET k == open[n].append.key
          p == Peer(n)
      IN  /\ Origin(k) = n /\ k <= db[n].seq
          /\ \A s \in db[n].shares : s.key < k
          /\ db[p].mark < k
          /\ sync[p].stage \in {"raise", "apply"} => sync[p].through < k
          /\ sync[n].stage = "apply" => \A s \in sync[n].rows : s.key < k

\* A batch is all the peer holds of its own between the cursor and the key
\* the scan went through, which is a key the peer holds.
BatchAt(n) ==
    sync[n].stage \in {"raise", "apply"} =>
      LET p == Peer(n) IN
      /\ sync[n].rows \subseteq OwnShares(p, p)
      /\ \A s \in OwnShares(p, p) :
           db[n].mark < s.key /\ s.key <= sync[n].through =>
              s \in sync[n].rows \/ s \in db[n].shares
      /\ \/ sync[n].through <= db[n].mark
         \/ \E s \in db[p].shares : sync[n].through <= s.key

\* What a copy holds of the node's own shares is all there is up to there.
PrefixIn(n, D) ==
    \A s \in OwnShares(n, n) \cup OwnShares(n, Peer(n)) :
      \A t \in D.shares : Origin(t.key) = n /\ s.key <= t.key => s \in D.shares

\* A verified node has its own log whole, and a recovery part of it.
WholeAt(n) ==
    /\ Good(n) \/ sync[n].stage \in {"ownBlocks", "floors", "verify"} =>
          OwnShares(n, Peer(n)) \subseteq OwnShares(n, n)
    /\ Good(n) \/ sync[n].stage \in {"floors", "verify"} =>
          OwnBlocks(n, Peer(n)) \subseteq OwnBlocks(n, n)

\* The sequences of a verified node are ahead of the peer's cursors; those of
\* one about to be verified will be.
AheadAt(n) ==
    LET p == Peer(n) IN
    /\ Good(n) =>
         /\ db[p].mark < db[n].seq + 2 /\ db[p].blockMark <= db[n].syncSeq
         /\ \A b \in OwnBlocks(n, n) : b.sync <= db[n].syncSeq
    /\ sync[n].stage = "verify" =>
         /\ \/ db[p].mark <= sync[n].through
            \/ \E s \in db[n].shares : db[p].mark <= s.key
         /\ \/ db[p].blockMark <= sync[n].syncFloor
            \/ db[p].blockMark <= db[n].syncSeq
         /\ \A b \in OwnBlocks(n, n) :
              b.sync <= sync[n].syncFloor \/ b.sync <= db[n].syncSeq
    /\ sync[p].safe <= db[n].syncSeq

\* An open landing is above what the peer has settled or may settle.
LandingAt(n) ==
    \A b \in open[n].landings :
      /\ b.origin = n /\ b.sync <= db[n].syncSeq
      /\ b.window \subseteq db[n].shares
      /\ db[Peer(n)].blockMark < b.sync /\ sync[Peer(n)].safe < b.sync

\* A block of the node's own was landed with its window on the sequence the
\* copy shows, or the peer, which is never restored, holds it.
VouchedIn(n, D) ==
    \A b \in D.blocks : b.origin = n =>
      \/ Peer(n) \notin Restorable /\ b \in db[Peer(n)].blocks
      \/ b.sync <= D.syncSeq /\ b.window \subseteq D.shares

\* No sync_seq is drawn twice.
Numbered(n) == OwnBlocks(n, n) \cup OwnBlocks(n, Peer(n)) \cup open[n].landings
OneNumberAt(n) ==
    \A b \in Numbered(n) : \A c \in Numbered(n) : b.sync = c.sync => b = c

\* CursorsComplete and WindowHeld, of every copy.
CompleteIn(n, D) ==
    /\ \A s \in OwnShares(Peer(n), Peer(n)) : s.key <= D.mark =>
           s \in D.shares \/ s.key \in D.refused
    /\ \A b \in OwnBlocks(Peer(n), Peer(n)) :
           b.sync <= D.blockMark => b \in D.blocks

WindowedIn(n, D) ==
    \A b \in D.blocks : b.origin = Peer(n) =>
       \A s \in b.window : s \in D.shares \/ s.key \in D.refused

Latched == \A n \in Node : LatchedAt(n)
Behind == \A n \in Node : \A D \in Kept(n) : BehindAt(n, D)
Keyed == \A n \in Node : \A D \in Kept(n) : KeyedIn(D)
RaisedFirst == \A n \in Node : RaisedAt(n)
Drawn == \A n \in Node : DrawnAt(n)
Batch == \A n \in Node : BatchAt(n)
Prefix == \A n \in Node : \A D \in Kept(n) : PrefixIn(n, D)
Whole == \A n \in Node : WholeAt(n)
Ahead == \A n \in Node : AheadAt(n)
Landing == \A n \in Node : LandingAt(n)
Vouched == \A n \in Node : \A D \in Kept(n) : VouchedIn(n, D)
OneNumber == \A n \in Node : OneNumberAt(n)
Complete == \A n \in Node : \A D \in Kept(n) : CompleteIn(n, D)
Windowed == \A n \in Node : \A D \in Kept(n) : WindowedIn(n, D)

SyncInv ==
    /\ Typed /\ Latched /\ Behind /\ Keyed /\ RaisedFirst /\ Drawn /\ Batch
    /\ Prefix /\ Whole /\ Ahead /\ Landing /\ Vouched /\ OneNumber
    /\ Complete /\ Windowed

-----------------------------------------------------------------------------
(* Numbers.                                                                *)

LEMMA Maximum ==
    ASSUME NEW a \in Int, NEW b \in Int, NEW S \in SUBSET (a..b), S # {}
    PROVE  Max(S) \in S /\ \A y \in S : y <= Max(S)
<1> DEFINE T == {b - y : y \in S}
<1>1. T \subseteq Nat
  <2> SUFFICES ASSUME NEW y \in S PROVE b - y \in Nat OBVIOUS
  <2>1. y \in a..b OBVIOUS
  <2> QED BY <2>1
<1>2. T # {} OBVIOUS
<1>3. PICK t \in T : \A u \in T : ~(<<u, t>> \in OpToRel(<, Nat))
  <2> HIDE DEF T
  <2> QED BY <1>1, <1>2, NatLessThanWellFounded, WFMin
<1>4. PICK x \in S : t = b - x OBVIOUS
<1>5. ASSUME NEW y \in S PROVE y <= x
  <2>1. b - y \in T OBVIOUS
  <2>2. ~(<<b - y, t>> \in OpToRel(<, Nat)) BY <1>3, <2>1
  <2>3. b - y \in Nat /\ t \in Nat BY <1>1, <2>1
  <2>4. ~(b - y < t) BY <2>2, <2>3 DEF OpToRel
  <2>5. x \in a..b /\ y \in a..b OBVIOUS
  <2> QED BY <1>4, <2>4, <2>5
<1>6. x \in S /\ \A y \in S : x >= y
  <2>1. \A y \in S : y \in Int /\ x \in Int OBVIOUS
  <2> QED BY <1>5, <2>1
<1>7. Max(S) \in S /\ \A y \in S : Max(S) >= y BY <1>6 DEF Max
<1> QED
  <2>1. \A y \in S : y \in Int OBVIOUS
  <2> HIDE DEF T
  <2>2. ASSUME NEW m \in S, \A y \in S : m >= y PROVE \A y \in S : y <= m
    BY <2>1, <2>2
  <2> QED BY <1>7, <2>2

\* The highest of some numbers and a least one.
LEMMA HighestOf ==
    ASSUME NEW a \in Int, NEW b \in Int, NEW least \in a..b,
           NEW S \in SUBSET (a..b)
    PROVE  /\ Highest(S, least) \in S \cup {least}
           /\ least <= Highest(S, least)
           /\ \A y \in S : y <= Highest(S, least)
  BY Maximum DEF Highest

LEMMA HighestIn ==
    ASSUME NEW m \in Nat, NEW S \in SUBSET (0..m), NEW least \in 0..m
    PROVE  /\ Highest(S, least) \in S \cup {least}
           /\ least <= Highest(S, least)
           /\ \A y \in S : y <= Highest(S, least)
  BY HighestOf

LEMMA Parity ==
    /\ \A k \in Nat : Origin(k) \in Node /\ Origin(k + 2) = Origin(k)
    /\ \A k \in Nat : Origin(k + 1) = Peer(Origin(k))
  BY DEF Origin, Node, Peer

LEMMA Peers ==
    \A n \in Node : Peer(n) \in Node /\ Peer(n) # n /\ Peer(Peer(n)) = n
  BY DEF Node, Peer
-----------------------------------------------------------------------------
(* Types, and what each step changes.                                      *)

USE SyncAssumption

LEMMA ShareFacts ==
    ASSUME NEW s \in Share
    PROVE  s.key \in Nat /\ s.key >= 2 /\ s.key <= MaxKey
  BY DEF Share, Keys, Floor

LEMMA BlockFacts ==
    ASSUME NEW b \in Block
    PROVE  /\ b.sync \in Nat /\ b.sync >= 1 /\ b.sync <= MaxSync
           /\ b.origin \in Node /\ b.window \subseteq Share
  BY DEF Block

\* The fields of a database.
IsDatabase(D) ==
    /\ D.shares \subseteq Share /\ D.seq \in Nat /\ D.seq <= MaxKey + 1
    /\ D.blocks \subseteq Block /\ D.syncSeq \in Nat /\ D.syncSeq <= MaxSync
    /\ D.mark \in Nat /\ D.mark <= MaxKey + 1
    /\ D.blockMark \in Nat /\ D.blockMark <= MaxSync
    /\ D.refused \subseteq Keys
    /\ D.timeline \in Nat /\ D.timeline <= MaxRestores
    /\ D.verified \in Int /\ D.verified >= NoTimeline /\ D.verified <= MaxRestores

LEMMA DatabaseFacts ==
    ASSUME NEW D \in Database
    PROVE  IsDatabase(D)
  BY DEF Database, IsDatabase, Positions, NoTimeline

\* The fields of a node's database, transactions and sync task.
FactsOf(n) ==
    /\ IsDatabase(db[n]) /\ Origin(db[n].seq) = n /\ db[n].mark <= MaxKey
    /\ open[n].append \in Share \cup {NoAppend} /\ open[n].landings \subseteq Block
    /\ backup[n] # NoBackup => IsDatabase(backup[n]) /\ n \in Restorable
    /\ sync[n].latch \in Int /\ sync[n].latch >= NoTimeline
    /\ sync[n].stage \in Stages /\ sync[n].rows \subseteq Share
    /\ sync[n].through \in Nat /\ sync[n].through <= MaxKey
    /\ sync[n].safe \in Int /\ sync[n].safe >= NoMark /\ sync[n].safe <= MaxSync
    /\ sync[n].syncFloor \in Nat /\ sync[n].syncFloor <= MaxSync

LEMMA Facts ==
    ASSUME Typed, NEW n \in Node
    PROVE  FactsOf(n)
<1>1. db[n] \in Database /\ Origin(db[n].seq) = n BY DEF Typed, TypeOK
<1>2. backup[n] # NoBackup => backup[n] \in Database BY DEF Typed, TypeOK
<1>3. /\ open[n].append \in Share \cup {NoAppend} /\ open[n].landings \subseteq Block
  BY DEF Typed, TypeOK
<1>4. /\ sync[n].latch \in {NoTimeline} \cup 0..MaxRestores
      /\ sync[n].stage \in Stages /\ sync[n].rows \subseteq Share
      /\ sync[n].through \in Positions
      /\ sync[n].safe \in {NoMark} \cup 0..MaxSync
      /\ sync[n].syncFloor \in 0..MaxSync
  BY DEF Typed, TypeOK
<1>5. /\ sync[n].latch \in Int /\ sync[n].latch >= NoTimeline
      /\ sync[n].through \in Nat
      /\ sync[n].safe \in Int /\ sync[n].safe >= NoMark /\ sync[n].safe <= MaxSync
      /\ sync[n].syncFloor \in Nat /\ sync[n].syncFloor <= MaxSync
  BY <1>4 DEF Positions, NoTimeline, NoMark
<1>6. /\ db[n].mark <= MaxKey /\ sync[n].through <= MaxKey
      /\ backup[n] # NoBackup => n \in Restorable
  BY DEF Typed
<1> QED BY <1>1, <1>2, <1>3, <1>4, <1>5, <1>6, DatabaseFacts DEF FactsOf

\* The other node is left alone.
Still(n) ==
    /\ db'[n] = db[n] /\ open'[n] = open[n]
    /\ backup'[n] = backup[n] /\ sync'[n] = sync[n]

SameLog(n) == db'[n].shares = db[n].shares /\ db'[n].blocks = db[n].blocks
SameCounters(n) == db'[n].seq = db[n].seq /\ db'[n].syncSeq = db[n].syncSeq
SameMarks(n) ==
    /\ db'[n].mark = db[n].mark /\ db'[n].blockMark = db[n].blockMark
    /\ db'[n].refused = db[n].refused
SameLine(n) ==
    db'[n].timeline = db[n].timeline /\ db'[n].verified = db[n].verified

LEMMA DrawEffect ==
    ASSUME Typed, NEW n \in Node, DrawShare(n)
    PROVE  /\ Still(Peer(n)) /\ backup'[n] = backup[n] /\ sync'[n] = sync[n]
           /\ SameLog(n) /\ SameMarks(n) /\ SameLine(n)
           /\ db'[n].syncSeq = db[n].syncSeq /\ db'[n].seq = db[n].seq + 2
           /\ open[n].append = NoAppend /\ open'[n].landings = open[n].landings
           /\ open'[n].append.key = db[n].seq + 2
           /\ open'[n].append \in Share /\ db[n].seq + 2 <= MaxKey
           /\ Writes(n)
<1>1. PICK h \in Header :
        /\ db[n].seq + 2 <= MaxKey
        /\ db' = [db EXCEPT ![n].seq = @ + 2]
        /\ open' = [open EXCEPT ![n].append = [key |-> db[n].seq + 2, header |-> h]]
  BY DEF DrawShare
<1>2. db \in [Node -> Database] /\ db[n] \in Database
      /\ open \in [Node -> [append : Share \cup {NoAppend}, landings : SUBSET Block]]
  BY DEF Typed, TypeOK
<1>3. [key |-> db[n].seq + 2, header |-> h] \in Share
  <2>1. db[n].seq \in Nat BY Facts DEF FactsOf, IsDatabase
  <2> QED BY <1>1, <2>1 DEF Share, Keys, Floor
<1>4. Peer(n) \in Node /\ Peer(n) # n BY Peers
<1>5. db'[n] = [db[n] EXCEPT !.seq = db[n].seq + 2] /\ db'[Peer(n)] = db[Peer(n)]
  BY <1>1, <1>2, <1>4
<1>6. /\ open'[n] = [open[n] EXCEPT !.append = [key |-> db[n].seq + 2, header |-> h]]
      /\ open'[Peer(n)] = open[Peer(n)]
  BY <1>1, <1>2, <1>4
<1> QED
  BY <1>1, <1>2, <1>3, <1>5, <1>6
  DEF DrawShare, Still, SameLog, SameMarks, SameLine, Database

LEMMA AppendEffect ==
    ASSUME Typed, NEW n \in Node, EndAppend(n)
    PROVE  /\ Still(Peer(n)) /\ backup'[n] = backup[n] /\ sync'[n] = sync[n]
           /\ SameCounters(n) /\ SameMarks(n) /\ SameLine(n)
           /\ db'[n].blocks = db[n].blocks
           /\ open[n].append # NoAppend /\ open[n].append \in Share
           /\ open'[n].append = NoAppend /\ open'[n].landings = open[n].landings
           /\ \/ db'[n].shares = db[n].shares
              \/ db'[n].shares = db[n].shares \cup {open[n].append}
<1>1. db \in [Node -> Database] /\ db[n] \in Database
      /\ open \in [Node -> [append : Share \cup {NoAppend}, landings : SUBSET Block]]
  BY DEF Typed, TypeOK
<1>2. Peer(n) \in Node /\ Peer(n) # n BY Peers
<1>3. /\ db'[Peer(n)] = db[Peer(n)]
      /\ \/ db'[n] = db[n]
         \/ db'[n] = [db[n] EXCEPT !.shares = db[n].shares \cup {open[n].append}]
  BY <1>1, <1>2 DEF EndAppend
<1>4. /\ open'[n] = [open[n] EXCEPT !.append = NoAppend]
      /\ open'[Peer(n)] = open[Peer(n)]
  BY <1>1, <1>2 DEF EndAppend
<1>5. open[n].append \in Share BY Facts DEF EndAppend, FactsOf
<1> QED
  BY <1>1, <1>3, <1>4, <1>5
  DEF EndAppend, Still, SameCounters, SameMarks, SameLine, Database

LEMMA LandingEffect ==
    ASSUME Typed, NEW n \in Node, BeginLanding(n)
    PROVE  /\ Still(Peer(n)) /\ backup'[n] = backup[n] /\ sync'[n] = sync[n]
           /\ SameLog(n) /\ SameMarks(n) /\ SameLine(n)
           /\ db'[n].seq = db[n].seq /\ db'[n].syncSeq = db[n].syncSeq + 1
           /\ open'[n].append = open[n].append
           /\ db[n].syncSeq < MaxSync /\ Writes(n)
           /\ \E b \in Block :
                /\ open'[n].landings = open[n].landings \cup {b}
                /\ b.sync = db[n].syncSeq + 1 /\ b.origin = n
                /\ b.window = db[n].shares
<1> DEFINE b == [sync |-> db[n].syncSeq + 1, origin |-> n,
                 timeline |-> db[n].timeline, window |-> db[n].shares]
<1>1. db \in [Node -> Database] /\ db[n] \in Database
      /\ open \in [Node -> [append : Share \cup {NoAppend}, landings : SUBSET Block]]
  BY DEF Typed, TypeOK
<1>2. Peer(n) \in Node /\ Peer(n) # n BY Peers
<1>3. db'[n] = [db[n] EXCEPT !.syncSeq = db[n].syncSeq + 1] /\ db'[Peer(n)] = db[Peer(n)]
  BY <1>1, <1>2 DEF BeginLanding
<1>4. /\ open'[n] = [open[n] EXCEPT !.landings = open[n].landings \cup {b}]
      /\ open'[Peer(n)] = open[Peer(n)]
  BY <1>1, <1>2 DEF BeginLanding
<1>5. b \in Block
  <2>1. /\ db[n].syncSeq \in Nat /\ db[n].timeline \in 0..MaxRestores
        /\ db[n].shares \in SUBSET Share
    BY <1>1, Facts DEF FactsOf, IsDatabase
  <2>2. db[n].syncSeq < MaxSync BY DEF BeginLanding
  <2>3. db[n].syncSeq + 1 \in 1..MaxSync BY <2>1, <2>2
  <2> QED BY <2>1, <2>3 DEF Block
<1>6. b.sync = db[n].syncSeq + 1 /\ b.origin = n /\ b.window = db[n].shares OBVIOUS
<1> HIDE DEF b
<1>7. open'[n].landings = open[n].landings \cup {b} /\ open'[n].append = open[n].append
  BY <1>1, <1>4
<1> QED
  BY <1>1, <1>3, <1>4, <1>5, <1>6, <1>7
  DEF BeginLanding, Still, SameLog, SameMarks, SameLine, Database

LEMMA CommitEffect ==
    ASSUME Typed, NEW n \in Node, CommitLanding(n)
    PROVE  /\ Still(Peer(n)) /\ backup'[n] = backup[n] /\ sync'[n] = sync[n]
           /\ SameCounters(n) /\ SameMarks(n) /\ SameLine(n)
           /\ db'[n].shares = db[n].shares
           /\ open'[n].append = open[n].append
           /\ \E b \in open[n].landings :
                /\ db'[n].blocks = db[n].blocks \cup {b}
                /\ open'[n].landings = open[n].landings \ {b}
<1>1. db \in [Node -> Database] /\ db[n] \in Database
      /\ open \in [Node -> [append : Share \cup {NoAppend}, landings : SUBSET Block]]
  BY DEF Typed, TypeOK
<1>2. Peer(n) \in Node /\ Peer(n) # n BY Peers
<1>3. PICK b \in open[n].landings :
         /\ db' = [db EXCEPT ![n].blocks = @ \cup {b}]
         /\ open' = [open EXCEPT ![n].landings = @ \ {b}]
         /\ UNCHANGED <<backup, sync, left>>
  BY DEF CommitLanding
<1>4. db'[n] = [db[n] EXCEPT !.blocks = db[n].blocks \cup {b}] /\ db'[Peer(n)] = db[Peer(n)]
  BY <1>1, <1>2, <1>3
<1>5. /\ open'[n] = [open[n] EXCEPT !.landings = open[n].landings \ {b}]
      /\ open'[Peer(n)] = open[Peer(n)]
  BY <1>1, <1>2, <1>3
<1> QED
  BY <1>1, <1>3, <1>4, <1>5 DEF Still, SameCounters, SameMarks, SameLine, Database

\* A step that touches no database.
Quiet(n) ==
    /\ Still(Peer(n)) /\ db'[n] = db[n] /\ backup'[n] = backup[n]
    /\ open'[n].append \in {open[n].append, NoAppend}
    /\ open'[n].landings \subseteq open[n].landings

\* The pass of node n goes from one stage to another.
Goes(n, from, to) == sync[n].stage \in from /\ sync'[n].stage = to
SameBatch(n) ==
    sync'[n].rows = sync[n].rows /\ sync'[n].through = sync[n].through
EmptyBatch(n) == sync'[n].rows = {} /\ sync'[n].through = 0
SameLatch(n) == sync'[n].latch = sync[n].latch
SameSafe(n) == sync'[n].safe = sync[n].safe
SameFloor(n) == sync'[n].syncFloor = sync[n].syncFloor

LEMMA ReadEffect ==
    ASSUME Typed, NEW n \in Node, ReadShares(n)
    PROVE  /\ Quiet(n)
           /\ open'[n] = open[n] /\ Goes(n, {"idle"}, "raise") /\ Serving(n)
           /\ SameLatch(n) /\ SameSafe(n) /\ SameFloor(n)
           /\ sync'[n].through = Highest(Scanned(n), db[n].mark)
           /\ sync'[n].rows = {s \in OwnShares(Peer(n), Peer(n)) :
                                 s.key > db[n].mark /\ s.key <= sync'[n].through}
<1>1. db \in [Node -> Database] /\ db[n] \in Database
      /\ open \in [Node -> [append : Share \cup {NoAppend}, landings : SUBSET Block]]
      /\ sync \in [Node -> [latch : {NoTimeline} \cup 0..MaxRestores,
                            stage : Stages, rows : SUBSET Share,
                            through : Positions, safe : {NoMark} \cup 0..MaxSync,
                            syncFloor : 0..MaxSync]]
  BY DEF Typed, TypeOK
<1>2. Peer(n) \in Node /\ Peer(n) # n BY Peers
<1>3. /\ db' = db /\ backup' = backup
      /\ sync' = [sync EXCEPT ![n] = sync'[n]]
      /\ sync'[n] = [sync[n] EXCEPT
            !.stage = "raise", !.through = Highest(Scanned(n), db[n].mark),
            !.rows = {s \in OwnShares(Peer(n), Peer(n)) :
                s.key > db[n].mark /\ s.key <= Highest(Scanned(n), db[n].mark)}]
  BY <1>1, <1>2 DEF ReadShares
<1>4. sync'[Peer(n)] = sync[Peer(n)] /\ open'[Peer(n)] = open[Peer(n)]
  BY <1>1, <1>2, <1>3 DEF ReadShares
<1> QED
  BY <1>1, <1>2, <1>3, <1>4
  DEF ReadShares, Serving, Quiet, Still, Goes, SameBatch, EmptyBatch, SameLatch, SameSafe, SameFloor

LEMMA BarrierEffect ==
    ASSUME Typed, NEW n \in Node, ReadBarrier(n)
    PROVE  /\ Quiet(n)
           /\ open'[n] = open[n] /\ sync[n].stage = "barrier"
           /\ sync'[n].stage \in {"idle", "blocks"}
           /\ SameLatch(n) /\ SameBatch(n) /\ SameFloor(n)
           /\ \/ SameSafe(n)
              \/ /\ BarrierTaken(Peer(n))
                 /\ sync'[n].safe = Highest({sync[n].safe}, db[Peer(n)].syncSeq)
<1>1. db \in [Node -> Database] /\ db[n] \in Database
      /\ open \in [Node -> [append : Share \cup {NoAppend}, landings : SUBSET Block]]
      /\ sync \in [Node -> [latch : {NoTimeline} \cup 0..MaxRestores,
                            stage : Stages, rows : SUBSET Share,
                            through : Positions, safe : {NoMark} \cup 0..MaxSync,
                            syncFloor : 0..MaxSync]]
  BY DEF Typed, TypeOK
<1>2. Peer(n) \in Node /\ Peer(n) # n BY Peers
<1>3. /\ db' = db /\ backup' = backup
      /\ sync' = [sync EXCEPT ![n] = sync'[n]]
      /\ \E q \in {"idle", "blocks"} :
           sync'[n] = [sync[n] EXCEPT !.safe = sync'[n].safe, !.stage = q]
      /\ \/ sync'[n].safe = sync[n].safe
         \/ /\ BarrierTaken(Peer(n))
            /\ sync'[n].safe = Highest({sync[n].safe}, db[Peer(n)].syncSeq)
  BY <1>1, <1>2 DEF ReadBarrier
<1>4. sync'[Peer(n)] = sync[Peer(n)] /\ open'[Peer(n)] = open[Peer(n)]
  BY <1>1, <1>2, <1>3 DEF ReadBarrier
<1> QED
  BY <1>1, <1>2, <1>3, <1>4
  DEF ReadBarrier, Quiet, Still, Goes, SameBatch, EmptyBatch, SameLatch, SameSafe, SameFloor

LEMMA FailSharesEffect ==
    ASSUME Typed, NEW n \in Node, FailShares(n)
    PROVE  /\ Quiet(n)
           /\ open'[n] = open[n] /\ Goes(n, {"raise", "apply"}, "barrier")
           /\ SameLatch(n) /\ SameSafe(n) /\ SameFloor(n) /\ EmptyBatch(n)
<1>1. db \in [Node -> Database] /\ db[n] \in Database
      /\ open \in [Node -> [append : Share \cup {NoAppend}, landings : SUBSET Block]]
      /\ sync \in [Node -> [latch : {NoTimeline} \cup 0..MaxRestores,
                            stage : Stages, rows : SUBSET Share,
                            through : Positions, safe : {NoMark} \cup 0..MaxSync,
                            syncFloor : 0..MaxSync]]
  BY DEF Typed, TypeOK
<1>2. Peer(n) \in Node /\ Peer(n) # n BY Peers
<1>3. /\ db' = db /\ backup' = backup
      /\ sync' = [sync EXCEPT ![n] = sync'[n]]
      /\ sync'[n] = [sync[n] EXCEPT !.stage = "barrier", !.rows = {}, !.through = 0]
  BY <1>1, <1>2 DEF FailShares
<1>4. sync'[Peer(n)] = sync[Peer(n)] /\ open'[Peer(n)] = open[Peer(n)]
  BY <1>1, <1>2, <1>3 DEF FailShares
<1> QED
  BY <1>1, <1>2, <1>3, <1>4
  DEF FailShares, Quiet, Still, Goes, SameBatch, EmptyBatch, SameLatch, SameSafe, SameFloor

LEMMA FailPassEffect ==
    ASSUME Typed, NEW n \in Node, FailPass(n)
    PROVE  /\ Quiet(n)
           /\ open'[n] = open[n] /\ sync'[n].stage = "idle"
           /\ SameLatch(n) /\ SameFloor(n) /\ EmptyBatch(n) /\ sync'[n].safe = NoMark
<1>1. db \in [Node -> Database] /\ db[n] \in Database
      /\ open \in [Node -> [append : Share \cup {NoAppend}, landings : SUBSET Block]]
      /\ sync \in [Node -> [latch : {NoTimeline} \cup 0..MaxRestores,
                            stage : Stages, rows : SUBSET Share,
                            through : Positions, safe : {NoMark} \cup 0..MaxSync,
                            syncFloor : 0..MaxSync]]
  BY DEF Typed, TypeOK
<1>2. Peer(n) \in Node /\ Peer(n) # n BY Peers
<1>3. /\ db' = db /\ backup' = backup
      /\ sync' = [sync EXCEPT ![n] = sync'[n]]
      /\ sync'[n] = [sync[n] EXCEPT !.stage = "idle", !.rows = {},
                                 !.through = 0, !.safe = NoMark]
  BY <1>1, <1>2 DEF FailPass
<1>4. sync'[Peer(n)] = sync[Peer(n)] /\ open'[Peer(n)] = open[Peer(n)]
  BY <1>1, <1>2, <1>3 DEF FailPass
<1> QED
  BY <1>1, <1>2, <1>3, <1>4
  DEF FailPass, Quiet, Still, Goes, SameBatch, EmptyBatch, SameLatch, SameSafe, SameFloor

LEMMA LatchEffect ==
    ASSUME Typed, NEW n \in Node, LatchWithoutPeer(n)
    PROVE  /\ Quiet(n)
           /\ open'[n] = open[n] /\ Goes(n, {"idle"}, "idle") /\ Good(n) /\ ~CaughtUp(n)
           /\ SameSafe(n) /\ SameFloor(n) /\ SameBatch(n) /\ sync'[n].latch = db[n].timeline
<1>1. db \in [Node -> Database] /\ db[n] \in Database
      /\ open \in [Node -> [append : Share \cup {NoAppend}, landings : SUBSET Block]]
      /\ sync \in [Node -> [latch : {NoTimeline} \cup 0..MaxRestores,
                            stage : Stages, rows : SUBSET Share,
                            through : Positions, safe : {NoMark} \cup 0..MaxSync,
                            syncFloor : 0..MaxSync]]
  BY DEF Typed, TypeOK
<1>2. Peer(n) \in Node /\ Peer(n) # n BY Peers
<1>3. /\ db' = db /\ backup' = backup
      /\ sync' = [sync EXCEPT ![n] = sync'[n]]
      /\ sync'[n] = [sync[n] EXCEPT !.latch = db[n].timeline]
  BY <1>1, <1>2 DEF LatchWithoutPeer
<1>4. sync'[Peer(n)] = sync[Peer(n)] /\ open'[Peer(n)] = open[Peer(n)]
  BY <1>1, <1>2, <1>3 DEF LatchWithoutPeer
<1> QED
  BY <1>1, <1>2, <1>3, <1>4
  DEF LatchWithoutPeer, Unlatched, Good, Quiet, Still, Goes, SameBatch, EmptyBatch, SameLatch, SameSafe, SameFloor

LEMMA FloorsEffect ==
    ASSUME Typed, NEW n \in Node, ReadFloors(n)
    PROVE  /\ Quiet(n)
           /\ open'[n] = open[n] /\ Goes(n, {"floors"}, "verify")
           /\ SameLatch(n) /\ SameSafe(n) /\ sync'[n].rows = sync[n].rows
           /\ sync'[n].through =
                Highest(KeysOf(OwnShares(n, Peer(n))), db[Peer(n)].mark)
           /\ sync'[n].syncFloor =
                Highest({b.sync : b \in OwnBlocks(n, Peer(n))}, db[Peer(n)].blockMark)
<1>1. db \in [Node -> Database] /\ db[n] \in Database
      /\ open \in [Node -> [append : Share \cup {NoAppend}, landings : SUBSET Block]]
      /\ sync \in [Node -> [latch : {NoTimeline} \cup 0..MaxRestores,
                            stage : Stages, rows : SUBSET Share,
                            through : Positions, safe : {NoMark} \cup 0..MaxSync,
                            syncFloor : 0..MaxSync]]
  BY DEF Typed, TypeOK
<1>2. Peer(n) \in Node /\ Peer(n) # n BY Peers
<1>3. /\ db' = db /\ backup' = backup
      /\ sync' = [sync EXCEPT ![n] = sync'[n]]
      /\ sync'[n] = [sync[n] EXCEPT !.stage = "verify",
            !.through = Highest(KeysOf(OwnShares(n, Peer(n))), db[Peer(n)].mark),
            !.syncFloor = Highest({b.sync : b \in OwnBlocks(n, Peer(n))},
                                  db[Peer(n)].blockMark)]
  BY <1>1, <1>2 DEF ReadFloors
<1>4. sync'[Peer(n)] = sync[Peer(n)] /\ open'[Peer(n)] = open[Peer(n)]
  BY <1>1, <1>2, <1>3 DEF ReadFloors
<1> QED
  BY <1>1, <1>2, <1>3, <1>4
  DEF ReadFloors, Quiet, Still, Goes, SameBatch, EmptyBatch, SameLatch, SameSafe, SameFloor

LEMMA CrashEffect ==
    ASSUME Typed, NEW n \in Node, Crash(n)
    PROVE  /\ Quiet(n)
           /\ open'[n].append = NoAppend /\ open'[n].landings = {}
           /\ sync'[n] = FreshSync
<1>1. db \in [Node -> Database] /\ db[n] \in Database
      /\ open \in [Node -> [append : Share \cup {NoAppend}, landings : SUBSET Block]]
      /\ sync \in [Node -> [latch : {NoTimeline} \cup 0..MaxRestores,
                            stage : Stages, rows : SUBSET Share,
                            through : Positions, safe : {NoMark} \cup 0..MaxSync,
                            syncFloor : 0..MaxSync]]
  BY DEF Typed, TypeOK
<1>2. Peer(n) \in Node /\ Peer(n) # n BY Peers
<1>3. /\ db' = db /\ backup' = backup
      /\ sync' = [sync EXCEPT ![n] = sync'[n]]
      /\ sync'[n] = FreshSync
      /\ open'[n] = [append |-> NoAppend, landings |-> {}]
  BY <1>1, <1>2 DEF Crash
<1>4. sync'[Peer(n)] = sync[Peer(n)] /\ open'[Peer(n)] = open[Peer(n)]
  BY <1>1, <1>2, <1>3 DEF Crash
<1> QED
  BY <1>1, <1>2, <1>3, <1>4
  DEF Crash, Quiet, Still, Goes, SameBatch, EmptyBatch, SameLatch, SameSafe, SameFloor

LEMMA StopEffect ==
    ASSUME Typed, NEW n \in Node, StopFrontend(n)
    PROVE  /\ Quiet(n)
           /\ open'[n].append = NoAppend /\ open'[n].landings = {}
           /\ sync'[n] = FreshSync
<1>1. db \in [Node -> Database] /\ db[n] \in Database
      /\ open \in [Node -> [append : Share \cup {NoAppend}, landings : SUBSET Block]]
      /\ sync \in [Node -> [latch : {NoTimeline} \cup 0..MaxRestores,
                            stage : Stages, rows : SUBSET Share,
                            through : Positions, safe : {NoMark} \cup 0..MaxSync,
                            syncFloor : 0..MaxSync]]
  BY DEF Typed, TypeOK
<1>2. Peer(n) \in Node /\ Peer(n) # n BY Peers
<1>3. /\ db' = db /\ backup' = backup
      /\ sync' = [sync EXCEPT ![n] = sync'[n]]
      /\ sync'[n] = FreshSync
      /\ open'[n] = [append |-> NoAppend, landings |-> {}]
  BY <1>1, <1>2 DEF StopFrontend
<1>4. sync'[Peer(n)] = sync[Peer(n)] /\ open'[Peer(n)] = open[Peer(n)]
  BY <1>1, <1>2, <1>3 DEF StopFrontend
<1> QED
  BY <1>1, <1>2, <1>3, <1>4
  DEF StopFrontend, Quiet, Still, Goes, SameBatch, EmptyBatch, SameLatch, SameSafe, SameFloor

LEMMA AbortEffect ==
    ASSUME Typed, NEW n \in Node, AbortLanding(n)
    PROVE  /\ Quiet(n)
           /\ sync'[n] = sync[n] /\ open'[n].append = open[n].append
<1>1. db \in [Node -> Database] /\ db[n] \in Database
      /\ open \in [Node -> [append : Share \cup {NoAppend}, landings : SUBSET Block]]
      /\ sync \in [Node -> [latch : {NoTimeline} \cup 0..MaxRestores,
                            stage : Stages, rows : SUBSET Share,
                            through : Positions, safe : {NoMark} \cup 0..MaxSync,
                            syncFloor : 0..MaxSync]]
  BY DEF Typed, TypeOK
<1>2. Peer(n) \in Node /\ Peer(n) # n BY Peers
<1>3. /\ db' = db /\ backup' = backup
      /\ sync' = [sync EXCEPT ![n] = sync'[n]]
      /\ \E b \in open[n].landings :
           open'[n] = [open[n] EXCEPT !.landings = open[n].landings \ {b}]
  BY <1>1, <1>2 DEF AbortLanding
<1>4. sync'[Peer(n)] = sync[Peer(n)] /\ open'[Peer(n)] = open[Peer(n)]
  BY <1>1, <1>2, <1>3 DEF AbortLanding
<1> QED
  BY <1>1, <1>2, <1>3, <1>4
  DEF AbortLanding, Quiet, Still, Goes, SameBatch, EmptyBatch, SameLatch, SameSafe, SameFloor

LEMMA KeyFacts ==
    ASSUME NEW S \in SUBSET Share
    PROVE  /\ KeysOf(S) \subseteq 0..MaxKey /\ KeysOf(S) \subseteq 0..MaxKey + 1
           /\ \A s \in S : s.key \in KeysOf(S)
           /\ \A k \in KeysOf(S) : \E s \in S : s.key = k
<1>1. ASSUME NEW k \in KeysOf(S) PROVE \E s \in S : s.key = k
  BY DEF KeysOf
<1>2. ASSUME NEW k \in KeysOf(S) PROVE k \in 0..MaxKey /\ k \in 0..MaxKey + 1
  <2>1. PICK s \in S : s.key = k BY <1>1
  <2>2. s \in Share OBVIOUS
  <2> QED BY <2>1, <2>2, ShareFacts
<1> QED BY <1>1, <1>2 DEF KeysOf

\* The highest key of some shares, or a least one.
LEMMA HighestKey ==
    ASSUME NEW S \in SUBSET Share, NEW least \in Nat, least <= MaxKey + 1
    PROVE  LET h == Highest(KeysOf(S), least) IN
           /\ h \in Nat /\ least <= h /\ \A s \in S : s.key <= h
           /\ h = least \/ \E s \in S : s.key = h
<1> DEFINE h == Highest(KeysOf(S), least)
<1>1. least \in 0..MaxKey + 1 OBVIOUS
<1>2. KeysOf(S) \in SUBSET (0..MaxKey + 1) BY KeyFacts
<1>3. /\ h \in KeysOf(S) \cup {least} /\ least <= h
      /\ \A y \in KeysOf(S) : y <= h
  BY <1>1, <1>2, HighestOf
<1> HIDE DEF h
<1>4. h = least \/ \E s \in S : s.key = h BY <1>3, KeyFacts
<1>5. \A s \in S : s.key <= h BY <1>3, KeyFacts
<1>6. h \in Nat
  <2>1. \A s \in S : s.key \in Nat BY ShareFacts
  <2> QED BY <1>4, <2>1
<1> QED BY <1>3, <1>4, <1>5, <1>6 DEF h

\* The higher of two numbers.
LEMMA HigherOf ==
    ASSUME NEW a \in Int, NEW b \in Int
    PROVE  Highest({a}, b) = IF a <= b THEN b ELSE a
<1>1. CASE a <= b
  <2>1. {a} \in SUBSET (a..b) /\ b \in a..b BY <1>1
  <2>2. Highest({a}, b) \in {a} \cup {b} /\ b <= Highest({a}, b)
    BY <2>1, HighestOf
  <2> QED BY <1>1, <2>2
<1>2. CASE ~(a <= b)
  <2>1. {a} \in SUBSET (b..a) /\ b \in b..a BY <1>2
  <2>2. /\ Highest({a}, b) \in {a} \cup {b}
        /\ \A y \in {a} : y <= Highest({a}, b)
    BY <2>1, HighestOf
  <2> QED BY <1>2, <2>2
<1> QED BY <1>1, <1>2

\* The raised sequence has the node's parity and reaches the key.
LEMMA RaisedFacts ==
    ASSUME Typed, NEW n \in Node, NEW key \in Nat, key <= MaxKey
    PROVE  /\ Raised(n, key) \in Nat /\ Raised(n, key) <= MaxKey + 1
           /\ key <= Raised(n, key) /\ db[n].seq <= Raised(n, key)
           /\ Origin(Raised(n, key)) = n
<1>1. db[n].seq \in Nat /\ db[n].seq <= MaxKey + 1 /\ Origin(db[n].seq) = n
  BY Facts DEF FactsOf, IsDatabase
<1> DEFINE h == Highest({key}, db[n].seq)
<1>2. h = IF key <= db[n].seq THEN db[n].seq ELSE key BY <1>1, HigherOf
<1>3. Raised(n, key) = IF Origin(h) = n THEN h ELSE h + 1
  BY DEF Raised, AtOrAbove
<1> HIDE DEF h
<1>4. h \in Nat /\ key <= h /\ db[n].seq <= h BY <1>1, <1>2
<1>5. CASE Origin(h) = n BY <1>1, <1>2, <1>3, <1>4, <1>5
<1>6. CASE Origin(h) # n
  <2>1. h = key BY <1>1, <1>2, <1>6
  <2>2. Origin(h + 1) = n BY <1>4, <1>6, Parity, Peers DEF Node, Peer
  <2>3. Raised(n, key) = h + 1 BY <1>3, <1>6
  <2>4. h + 1 <= MaxKey + 1 BY <1>4, <2>1
  <2>5. h + 1 \in Nat /\ key <= h + 1 /\ db[n].seq <= h + 1 BY <1>1, <1>4
  <2> QED BY <2>2, <2>3, <2>4, <2>5
<1> QED BY <1>5, <1>6

LEMMA RaiseEffect ==
    ASSUME Typed, NEW n \in Node, RaiseSequence(n)
    PROVE  /\ Still(Peer(n)) /\ backup'[n] = backup[n] /\ open'[n] = open[n]
           /\ SameLog(n) /\ SameMarks(n) /\ SameLine(n) /\ db'[n].syncSeq = db[n].syncSeq
           /\ db'[n].seq \in Nat /\ db[n].seq <= db'[n].seq /\ db'[n].seq <= MaxKey + 1
           /\ Origin(db'[n].seq) = n
           /\ \A s \in sync[n].rows : s.key <= db'[n].seq
           /\ sync[n].rows # {} => open[n].append = NoAppend
           /\ Goes(n, {"raise"}, "apply")
           /\ SameLatch(n) /\ SameSafe(n) /\ SameFloor(n) /\ SameBatch(n)
<1>1. db \in [Node -> Database] /\ db[n] \in Database
      /\ open \in [Node -> [append : Share \cup {NoAppend}, landings : SUBSET Block]]
      /\ sync \in [Node -> [latch : {NoTimeline} \cup 0..MaxRestores,
                            stage : Stages, rows : SUBSET Share,
                            through : Positions, safe : {NoMark} \cup 0..MaxSync,
                            syncFloor : 0..MaxSync]]
  BY DEF Typed, TypeOK
<1>2. Peer(n) \in Node /\ Peer(n) # n BY Peers
<1>3. /\ db'[Peer(n)] = db[Peer(n)]
      /\ \/ sync[n].rows = {} /\ db'[n] = db[n]
         \/ /\ sync[n].rows # {}
            /\ db'[n] = [db[n] EXCEPT !.seq = Raised(n, Max(KeysOf(sync[n].rows)))]
  BY <1>1, <1>2 DEF RaiseSequence
<1>4. /\ sync'[Peer(n)] = sync[Peer(n)]
      /\ sync'[n] = [sync[n] EXCEPT !.stage = "apply"]
  BY <1>1, <1>2 DEF RaiseSequence
<1>5. open' = open /\ backup' = backup BY DEF RaiseSequence
<1>6. db[n].seq \in Nat /\ db[n].seq <= MaxKey + 1 /\ Origin(db[n].seq) = n
      /\ sync[n].rows \in SUBSET Share
  BY Facts DEF FactsOf, IsDatabase
<1>7. ASSUME sync[n].rows # {}
      PROVE  LET r == Raised(n, Max(KeysOf(sync[n].rows))) IN
             /\ r \in Nat /\ db[n].seq <= r /\ r <= MaxKey + 1 /\ Origin(r) = n
             /\ \A s \in sync[n].rows : s.key <= r
  <2> DEFINE K == KeysOf(sync[n].rows)
             m == Max(K)
  <2>1. K \in SUBSET (0..MaxKey) BY <1>6, KeyFacts
  <2>2. K # {} BY <1>6, <1>7, KeyFacts
  <2>3. m \in K /\ \A y \in K : y <= m BY <2>1, <2>2, Maximum
  <2>4. \A s \in sync[n].rows : s.key \in K BY <1>6, KeyFacts
  <2> HIDE DEF K, m
  <2>5. m \in 0..MaxKey BY <2>1, <2>3
  <2>6. m \in Nat /\ m <= MaxKey BY <2>5
  <2>7. /\ Raised(n, m) \in Nat /\ Raised(n, m) <= MaxKey + 1
        /\ m <= Raised(n, m) /\ db[n].seq <= Raised(n, m)
        /\ Origin(Raised(n, m)) = n
    BY <2>6, RaisedFacts
  <2>8. ASSUME NEW s \in sync[n].rows PROVE s.key <= Raised(n, m)
    <3>1. s \in Share BY <1>6
    <3>2. s.key \in Nat /\ s.key <= m BY <2>3, <2>4, <3>1, ShareFacts
    <3> QED BY <2>6, <2>7, <3>2
  <2> QED BY <2>7, <2>8 DEF m, K
<1>8. CASE sync[n].rows = {}
  BY <1>1, <1>3, <1>4, <1>5, <1>6, <1>8
  DEF RaiseSequence, Still, SameLog, SameMarks, SameLine, Goes, SameBatch,
      SameLatch, SameSafe, SameFloor
<1>9. CASE sync[n].rows # {}
  <2> DEFINE r == Raised(n, Max(KeysOf(sync[n].rows)))
  <2>1. /\ r \in Nat /\ db[n].seq <= r /\ r <= MaxKey + 1 /\ Origin(r) = n
        /\ \A s \in sync[n].rows : s.key <= r
    BY <1>7, <1>9
  <2>2. db'[n] = [db[n] EXCEPT !.seq = r] BY <1>3, <1>9
  <2> HIDE DEF r
  <2> QED
    BY <1>1, <1>3, <1>4, <1>5, <1>9, <2>1, <2>2
    DEF RaiseSequence, Still, SameLog, SameMarks, SameLine, Goes, SameBatch,
        SameLatch, SameSafe, SameFloor, Database
<1> QED BY <1>8, <1>9

LEMMA ApplyEffect ==
    ASSUME Typed, NEW n \in Node, ApplyShares(n)
    PROVE  /\ Still(Peer(n)) /\ backup'[n] = backup[n] /\ open'[n] = open[n]
           /\ SameCounters(n) /\ SameLine(n)
           /\ db'[n].blocks = db[n].blocks /\ db'[n].blockMark = db[n].blockMark
           /\ db'[n].shares = db[n].shares \cup (sync[n].rows \ Refused(n, sync[n].rows))
           /\ db'[n].refused = db[n].refused \cup KeysOf(Refused(n, sync[n].rows))
           /\ db'[n].mark = IF db[n].mark <= sync[n].through THEN sync[n].through
                            ELSE db[n].mark
           /\ Goes(n, {"apply"}, "barrier") /\ EmptyBatch(n)
           /\ SameLatch(n) /\ SameSafe(n) /\ SameFloor(n)
<1>1. db \in [Node -> Database] /\ db[n] \in Database
      /\ open \in [Node -> [append : Share \cup {NoAppend}, landings : SUBSET Block]]
      /\ sync \in [Node -> [latch : {NoTimeline} \cup 0..MaxRestores,
                            stage : Stages, rows : SUBSET Share,
                            through : Positions, safe : {NoMark} \cup 0..MaxSync,
                            syncFloor : 0..MaxSync]]
  BY DEF Typed, TypeOK
<1>2. Peer(n) \in Node /\ Peer(n) # n BY Peers
<1>3. /\ db'[Peer(n)] = db[Peer(n)]
      /\ db'[n] = [db[n] EXCEPT
            !.shares = db[n].shares \cup (sync[n].rows \ Refused(n, sync[n].rows)),
            !.refused = db[n].refused \cup KeysOf(Refused(n, sync[n].rows)),
            !.mark = Highest({db[n].mark}, sync[n].through)]
  BY <1>1, <1>2 DEF ApplyShares
<1>4. /\ sync'[Peer(n)] = sync[Peer(n)]
      /\ sync'[n] = [sync[n] EXCEPT !.stage = "barrier", !.rows = {}, !.through = 0]
  BY <1>1, <1>2 DEF ApplyShares
<1>5. open' = open /\ backup' = backup BY DEF ApplyShares
<1>6. Highest({db[n].mark}, sync[n].through) =
        IF db[n].mark <= sync[n].through THEN sync[n].through ELSE db[n].mark
  <2>1. db[n].mark \in Int /\ sync[n].through \in Int
    BY Facts DEF FactsOf, IsDatabase
  <2> QED BY <2>1, HigherOf
<1> QED
  BY <1>1, <1>2, <1>3, <1>4, <1>5, <1>6
  DEF ApplyShares, Still, SameLog, SameCounters, SameMarks, SameLine, Goes,
     SameBatch, EmptyBatch, SameLatch, SameSafe, SameFloor, Database

LEMMA PullEffect ==
    ASSUME Typed, NEW n \in Node, PullBlock(n)
    PROVE  /\ Still(Peer(n)) /\ backup'[n] = backup[n] /\ open'[n] = open[n]
           /\ SameCounters(n) /\ SameLine(n)
           /\ db'[n].shares = db[n].shares /\ db'[n].mark = db[n].mark
           /\ db'[n].refused = db[n].refused
           /\ Goes(n, {"blocks"}, "idle") /\ SameBatch(n)
           /\ SameLatch(n) /\ SameSafe(n) /\ SameFloor(n)
           /\ \/ db'[n].blocks = db[n].blocks /\ db'[n].blockMark = db[n].blockMark
              \/ /\ Pending(n) = {} /\ db'[n].blocks = db[n].blocks
                 /\ db'[n].blockMark = IF db[n].blockMark <= sync[n].safe
                                         THEN sync[n].safe ELSE db[n].blockMark
              \/ \E b \in Pending(n) :
                   /\ \A other \in Pending(n) : b.sync <= other.sync
                   /\ WindowCovered(n, b)
                   /\ db'[n].blocks = db[n].blocks \cup {b}
                   /\ db'[n].blockMark = b.sync
<1>1. db \in [Node -> Database] /\ db[n] \in Database
      /\ open \in [Node -> [append : Share \cup {NoAppend}, landings : SUBSET Block]]
      /\ sync \in [Node -> [latch : {NoTimeline} \cup 0..MaxRestores,
                            stage : Stages, rows : SUBSET Share,
                            through : Positions, safe : {NoMark} \cup 0..MaxSync,
                            syncFloor : 0..MaxSync]]
  BY DEF Typed, TypeOK
<1>2. Peer(n) \in Node /\ Peer(n) # n BY Peers
<1>3. /\ db'[Peer(n)] = db[Peer(n)]
      /\ \/ db'[n] = db[n]
         \/ /\ Pending(n) = {}
            /\ db'[n] = [db[n] EXCEPT
                   !.blockMark = Highest({db[n].blockMark}, sync[n].safe)]
         \/ \E b \in Pending(n) :
              /\ \A other \in Pending(n) : b.sync <= other.sync
              /\ WindowCovered(n, b)
              /\ db'[n] = [db[n] EXCEPT !.blocks = db[n].blocks \cup {b},
                             !.blockMark = Highest({db[n].blockMark}, b.sync)]
  BY <1>1, <1>2 DEF PullBlock
<1>4. /\ sync'[Peer(n)] = sync[Peer(n)]
      /\ sync[n].stage = "blocks" /\ sync'[n] = [sync[n] EXCEPT !.stage = "idle"]
  BY <1>1, <1>2 DEF PullBlock
<1>5. open' = open /\ backup' = backup BY DEF PullBlock
<1>6. Highest({db[n].blockMark}, sync[n].safe) =
        IF db[n].blockMark <= sync[n].safe THEN sync[n].safe ELSE db[n].blockMark
  <2>1. db[n].blockMark \in Int /\ sync[n].safe \in Int
    BY Facts DEF FactsOf, IsDatabase
  <2> QED BY <2>1, HigherOf
<1>7. ASSUME NEW b \in Pending(n)
      PROVE  Highest({db[n].blockMark}, b.sync) = b.sync
  <2>1. b \in Block /\ b.sync > db[n].blockMark
    BY <1>2, Facts DEF Pending, OwnBlocks, FactsOf, IsDatabase
  <2>2. db[n].blockMark \in Int BY Facts DEF FactsOf, IsDatabase
  <2>3. b.sync \in Int /\ db[n].blockMark <= b.sync
    BY <2>1, <2>2, BlockFacts
  <2> QED BY <2>2, <2>3, HigherOf
<1>8. \/ db'[n] = db[n]
      \/ /\ Pending(n) = {}
         /\ db'[n] = [db[n] EXCEPT
                !.blockMark = Highest({db[n].blockMark}, sync[n].safe)]
      \/ \E b \in Pending(n) :
           /\ \A other \in Pending(n) : b.sync <= other.sync
           /\ WindowCovered(n, b)
           /\ db'[n] = [db[n] EXCEPT !.blocks = db[n].blocks \cup {b},
                                     !.blockMark = b.sync]
  <2>1. CASE \E b \in Pending(n) :
              /\ \A other \in Pending(n) : b.sync <= other.sync
              /\ WindowCovered(n, b)
              /\ db'[n] = [db[n] EXCEPT !.blocks = db[n].blocks \cup {b},
                             !.blockMark = Highest({db[n].blockMark}, b.sync)]
    BY <1>7, <2>1
  <2> QED BY <1>3, <2>1
<1>9. db[n].blocks \subseteq Block BY Facts DEF FactsOf, IsDatabase
<1>10. /\ sync'[n].stage = "idle" /\ SameBatch(n)
       /\ SameLatch(n) /\ SameSafe(n) /\ SameFloor(n)
  BY <1>1, <1>4 DEF SameBatch, SameLatch, SameSafe, SameFloor
<1>11. CASE db'[n] = db[n]
  BY <1>2, <1>3, <1>4, <1>5, <1>10, <1>11 DEF Still, SameCounters, SameLine, Goes
<1>12. CASE /\ Pending(n) = {}
            /\ db'[n] = [db[n] EXCEPT
                   !.blockMark = Highest({db[n].blockMark}, sync[n].safe)]
  <2> DEFINE m == Highest({db[n].blockMark}, sync[n].safe)
  <2>1. m = IF db[n].blockMark <= sync[n].safe THEN sync[n].safe
            ELSE db[n].blockMark
    BY <1>6
  <2>2. db'[n] = [db[n] EXCEPT !.blockMark = m] BY <1>12
  <2> HIDE DEF m
  <2>3. /\ SameCounters(n) /\ SameLine(n) /\ db'[n].shares = db[n].shares
        /\ db'[n].mark = db[n].mark /\ db'[n].refused = db[n].refused
        /\ db'[n].blocks = db[n].blocks /\ db'[n].blockMark = m
    BY <1>1, <2>2 DEF SameCounters, SameLine, Database
  <2> QED BY <1>3, <1>4, <1>5, <1>10, <1>12, <2>1, <2>3 DEF Still, Goes
<1>13. ASSUME NEW b \in Pending(n),
              \A other \in Pending(n) : b.sync <= other.sync,
              WindowCovered(n, b),
              db'[n] = [db[n] EXCEPT !.blocks = db[n].blocks \cup {b},
                                     !.blockMark = b.sync]
       PROVE  /\ SameCounters(n) /\ SameLine(n) /\ db'[n].shares = db[n].shares
              /\ db'[n].mark = db[n].mark /\ db'[n].refused = db[n].refused
              /\ db'[n].blocks = db[n].blocks \cup {b}
              /\ db'[n].blockMark = b.sync
  BY <1>1, <1>13 DEF SameCounters, SameLine, Database
<1>14. CASE \E b \in Pending(n) :
              /\ \A other \in Pending(n) : b.sync <= other.sync
              /\ WindowCovered(n, b)
              /\ db'[n] = [db[n] EXCEPT !.blocks = db[n].blocks \cup {b},
                                        !.blockMark = b.sync]
  BY <1>3, <1>4, <1>5, <1>10, <1>13, <1>14 DEF Still, Goes
<1> QED BY <1>8, <1>11, <1>12, <1>14

LEMMA RecoverEffect ==
    ASSUME Typed, NEW n \in Node, RecoverShares(n)
    PROVE  /\ Still(Peer(n)) /\ backup'[n] = backup[n] /\ open'[n] = open[n]
           /\ SameMarks(n) /\ db'[n].syncSeq = db[n].syncSeq
           /\ db'[n].blocks = db[n].blocks /\ db'[n].timeline = db[n].timeline
           /\ SameLatch(n) /\ SameSafe(n) /\ SameFloor(n) /\ SameBatch(n)
           /\ sync[n].stage = "idle" /\ ~CaughtUp(n)
           /\ \/ /\ MissingShares(n) = {} /\ db'[n] = db[n]
                 /\ sync'[n].stage = "ownBlocks"
              \/ \E s \in MissingShares(n) :
                   /\ \A other \in MissingShares(n) : s.key <= other.key
                   /\ db'[n].shares = db[n].shares \cup ({s} \ Refused(n, {s}))
                   /\ db'[n].seq = Raised(n, s.key)
                   /\ db'[n].verified = NoTimeline
                   /\ sync'[n].stage \in {"idle", "diverged"}
<1>1. db \in [Node -> Database] /\ db[n] \in Database
      /\ open \in [Node -> [append : Share \cup {NoAppend}, landings : SUBSET Block]]
      /\ sync \in [Node -> [latch : {NoTimeline} \cup 0..MaxRestores,
                            stage : Stages, rows : SUBSET Share,
                            through : Positions, safe : {NoMark} \cup 0..MaxSync,
                            syncFloor : 0..MaxSync]]
  BY DEF Typed, TypeOK
<1>2. Peer(n) \in Node /\ Peer(n) # n BY Peers
<1>3. open' = open /\ backup' = backup /\ sync[n].stage = "idle" /\ ~CaughtUp(n)
  BY DEF RecoverShares, Unlatched
<1>4. CASE MissingShares(n) = {}
  <2>1. /\ db' = db /\ sync'[n] = [sync[n] EXCEPT !.stage = "ownBlocks"]
        /\ sync'[Peer(n)] = sync[Peer(n)]
    BY <1>1, <1>2, <1>4 DEF RecoverShares
  <2> QED
    BY <1>1, <1>2, <1>3, <1>4, <2>1
    DEF Still, SameMarks, SameLatch, SameSafe, SameFloor, SameBatch
<1>5. CASE MissingShares(n) # {}
  <2>1. PICK s \in MissingShares(n) :
          /\ \A other \in MissingShares(n) : s.key <= other.key
          /\ db' = [db EXCEPT ![n].shares = @ \cup ({s} \ Refused(n, {s})),
                              ![n].seq = Raised(n, s.key),
                              ![n].verified = NoTimeline]
          /\ sync' = [sync EXCEPT ![n].stage =
                         IF Refused(n, {s}) = {} THEN @ ELSE "diverged"]
    BY <1>5 DEF RecoverShares
  <2>2. /\ db'[n] = [db[n] EXCEPT
              !.shares = db[n].shares \cup ({s} \ Refused(n, {s})),
              !.seq = Raised(n, s.key), !.verified = NoTimeline]
        /\ db'[Peer(n)] = db[Peer(n)]
    BY <1>1, <1>2, <2>1
  <2>3. /\ \E q \in {"idle", "diverged"} : sync'[n] = [sync[n] EXCEPT !.stage = q]
        /\ sync'[Peer(n)] = sync[Peer(n)]
    BY <1>1, <1>2, <1>3, <2>1
  <2>4. /\ db'[n].shares = db[n].shares \cup ({s} \ Refused(n, {s}))
        /\ db'[n].seq = Raised(n, s.key) /\ db'[n].verified = NoTimeline
        /\ SameMarks(n) /\ db'[n].syncSeq = db[n].syncSeq
        /\ db'[n].blocks = db[n].blocks /\ db'[n].timeline = db[n].timeline
    BY <1>1, <2>2 DEF SameMarks, Database
  <2>5. /\ sync'[n].stage \in {"idle", "diverged"}
        /\ SameLatch(n) /\ SameSafe(n) /\ SameFloor(n) /\ SameBatch(n)
    BY <1>1, <2>3 DEF SameLatch, SameSafe, SameFloor, SameBatch
  <2> QED BY <1>3, <2>1, <2>2, <2>3, <2>4, <2>5 DEF Still
<1> QED BY <1>4, <1>5

LEMMA BlocksEffect ==
    ASSUME Typed, NEW n \in Node, RecoverBlocks(n)
    PROVE  /\ Still(Peer(n)) /\ backup'[n] = backup[n] /\ open'[n] = open[n]
           /\ SameCounters(n) /\ SameMarks(n) /\ db'[n].timeline = db[n].timeline
           /\ db'[n].shares = db[n].shares
           /\ db'[n].blocks = db[n].blocks \cup MissingBlocks(n)
           /\ db'[n].verified = IF MissingBlocks(n) = {} THEN db[n].verified
                                ELSE NoTimeline
           /\ Goes(n, {"ownBlocks"}, "floors") /\ SameBatch(n)
           /\ SameLatch(n) /\ SameSafe(n) /\ SameFloor(n)
<1>1. db \in [Node -> Database] /\ db[n] \in Database
      /\ open \in [Node -> [append : Share \cup {NoAppend}, landings : SUBSET Block]]
      /\ sync \in [Node -> [latch : {NoTimeline} \cup 0..MaxRestores,
                            stage : Stages, rows : SUBSET Share,
                            through : Positions, safe : {NoMark} \cup 0..MaxSync,
                            syncFloor : 0..MaxSync]]
  BY DEF Typed, TypeOK
<1>2. Peer(n) \in Node /\ Peer(n) # n BY Peers
<1>3. /\ db'[Peer(n)] = db[Peer(n)]
      /\ db'[n] = [db[n] EXCEPT
            !.blocks = db[n].blocks \cup MissingBlocks(n),
            !.verified = IF MissingBlocks(n) = {} THEN db[n].verified
                         ELSE NoTimeline]
  BY <1>1, <1>2 DEF RecoverBlocks
<1>4. /\ sync'[Peer(n)] = sync[Peer(n)]
      /\ sync'[n] = [sync[n] EXCEPT !.stage = "floors"]
  BY <1>1, <1>2 DEF RecoverBlocks
<1>5. open' = open /\ backup' = backup BY DEF RecoverBlocks
<1> QED
  BY <1>1, <1>2, <1>3, <1>4, <1>5
  DEF RecoverBlocks, Still, SameLog, SameCounters, SameMarks, SameLine, Goes,
     SameBatch, EmptyBatch, SameLatch, SameSafe, SameFloor, Database

LEMMA VerifyEffect ==
    ASSUME Typed, NEW n \in Node, Verify(n)
    PROVE  /\ Still(Peer(n)) /\ backup'[n] = backup[n] /\ open'[n] = open[n]
           /\ SameLog(n) /\ SameMarks(n) /\ db'[n].timeline = db[n].timeline
           /\ db'[n].verified = db[n].timeline
           /\ db'[n].seq = Raised(n, Highest(KeysOf(db[n].shares), sync[n].through))
           /\ db'[n].syncSeq = IF db[n].syncSeq <= sync[n].syncFloor
                               THEN sync[n].syncFloor ELSE db[n].syncSeq
           /\ sync[n].stage = "verify" /\ sync'[n].stage = "idle" /\ EmptyBatch(n)
           /\ sync'[n].latch = db[n].timeline /\ sync'[n].safe = NoMark
           /\ sync'[n].syncFloor = 0
<1>1. db \in [Node -> Database] /\ db[n] \in Database
      /\ open \in [Node -> [append : Share \cup {NoAppend}, landings : SUBSET Block]]
      /\ sync \in [Node -> [latch : {NoTimeline} \cup 0..MaxRestores,
                            stage : Stages, rows : SUBSET Share,
                            through : Positions, safe : {NoMark} \cup 0..MaxSync,
                            syncFloor : 0..MaxSync]]
  BY DEF Typed, TypeOK
<1>2. Peer(n) \in Node /\ Peer(n) # n BY Peers
<1>3. /\ db'[Peer(n)] = db[Peer(n)]
      /\ db'[n] = [db[n] EXCEPT
            !.seq = Raised(n, Highest(KeysOf(db[n].shares), sync[n].through)),
            !.syncSeq = Highest({db[n].syncSeq}, sync[n].syncFloor),
            !.verified = db[n].timeline]
  BY <1>1, <1>2 DEF Verify
<1>4. /\ sync'[Peer(n)] = sync[Peer(n)]
      /\ sync'[n] = [FreshSync EXCEPT !.latch = db[n].timeline]
  BY <1>1, <1>2 DEF Verify
<1>5. open' = open /\ backup' = backup BY DEF Verify
<1>6. Highest({db[n].syncSeq}, sync[n].syncFloor) =
        IF db[n].syncSeq <= sync[n].syncFloor THEN sync[n].syncFloor
        ELSE db[n].syncSeq
  <2>1. db[n].syncSeq \in Int /\ sync[n].syncFloor \in Int
    BY Facts DEF FactsOf, IsDatabase
  <2> QED BY <2>1, HigherOf
<1> QED
  BY <1>1, <1>2, <1>3, <1>4, <1>5, <1>6
  DEF Verify, FreshSync, Still, SameLog, SameCounters, SameMarks, SameLine, Goes,
     SameBatch, EmptyBatch, SameLatch, SameSafe, SameFloor, Database

LEMMA BackupEffect ==
    ASSUME Typed, NEW n \in Node, TakeBackup(n)
    PROVE  /\ Still(Peer(n)) /\ db'[n] = db[n] /\ open'[n] = open[n]
           /\ sync'[n] = sync[n] /\ backup'[n] = db[n] /\ n \in Restorable
           /\ backup[n] = NoBackup
<1>1. backup \in [Node -> Database \cup {NoBackup}] BY DEF Typed, TypeOK
<1> QED BY <1>1, Peers DEF TakeBackup, Still

\* The database goes back to its backup, the peer's pass ends.
LEMMA RestoreEffect ==
    ASSUME Typed, NEW n \in Node, Restore(n)
    PROVE  LET p == Peer(n) IN
           /\ db'[p] = db[p] /\ open'[p] = open[p] /\ backup'[p] = backup[p]
           /\ backup'[n] = backup[n] /\ backup[n] # NoBackup /\ n \in Restorable
           /\ db'[n] = [backup[n] EXCEPT !.timeline = db[n].timeline + 1]
           /\ backup[n] \in Database /\ db[n].timeline < MaxRestores
           /\ open'[n].append = NoAppend /\ open'[n].landings = {}
           /\ sync'[n] = [FreshSync EXCEPT !.latch = sync[n].latch]
           /\ sync[p].stage \notin {"raise", "apply"}
           /\ sync'[p].stage = IF sync[p].stage \in {"verify", "diverged"}
                               THEN sync[p].stage ELSE "idle"
           /\ sync'[p].safe = NoMark
           /\ SameLatch(p) /\ SameBatch(p) /\ SameFloor(p)
<1>1. db \in [Node -> Database] /\ db[n] \in Database
      /\ open \in [Node -> [append : Share \cup {NoAppend}, landings : SUBSET Block]]
      /\ sync \in [Node -> [latch : {NoTimeline} \cup 0..MaxRestores,
                            stage : Stages, rows : SUBSET Share,
                            through : Positions, safe : {NoMark} \cup 0..MaxSync,
                            syncFloor : 0..MaxSync]]
  BY DEF Typed, TypeOK
<1>2. Peer(n) \in Node /\ Peer(n) # n BY Peers
<1>3. backup \in [Node -> Database \cup {NoBackup}] BY DEF Typed, TypeOK
<1>4. /\ db'[n] = [backup[n] EXCEPT !.timeline = db[n].timeline + 1]
      /\ db'[Peer(n)] = db[Peer(n)]
  BY <1>1, <1>2 DEF Restore
<1>5. /\ open'[n] = [append |-> NoAppend, landings |-> {}]
      /\ open'[Peer(n)] = open[Peer(n)]
  BY <1>1, <1>2 DEF Restore
<1>6. /\ sync'[n] = [FreshSync EXCEPT !.latch = sync[n].latch]
      /\ sync'[Peer(n)] = [sync[Peer(n)] EXCEPT
            !.stage = IF sync[Peer(n)].stage \in {"verify", "diverged"}
                      THEN sync[Peer(n)].stage ELSE "idle",
            !.safe = NoMark]
  BY <1>1, <1>2 DEF Restore
<1>7. backup' = backup /\ backup[n] # NoBackup /\ n \in Restorable
      /\ db[n].timeline < MaxRestores /\ sync[Peer(n)].stage \notin {"raise", "apply"}
  BY DEF Restore
<1>8. backup[n] \in Database BY <1>3, <1>7
<1>9. sync[Peer(n)] \in [latch : {NoTimeline} \cup 0..MaxRestores,
                          stage : Stages, rows : SUBSET Share,
                          through : Positions, safe : {NoMark} \cup 0..MaxSync,
                          syncFloor : 0..MaxSync]
  BY <1>1, <1>2
<1>10. /\ sync'[Peer(n)].stage = IF sync[Peer(n)].stage \in {"verify", "diverged"}
                                 THEN sync[Peer(n)].stage ELSE "idle"
       /\ sync'[Peer(n)].safe = NoMark
       /\ SameLatch(Peer(n)) /\ SameBatch(Peer(n)) /\ SameFloor(Peer(n))
  BY <1>6, <1>9 DEF SameLatch, SameBatch, SameFloor
<1> QED BY <1>4, <1>5, <1>6, <1>7, <1>8, <1>10

-----------------------------------------------------------------------------
(* Types.                                                                  *)

LEMMA TypedInit == Init => Typed
<1> SUFFICES ASSUME Init PROVE Typed OBVIOUS
<1> DEFINE d(n) == [shares |-> {}, seq |-> n, blocks |-> {}, syncSeq |-> 0,
                    mark |-> Floor, blockMark |-> 0, refused |-> {},
                    timeline |-> 0, verified |-> 0]
<1>1. db = [n \in Node |-> d(n)] BY DEF Init
<1>2. ASSUME NEW n \in Node PROVE d(n) \in Database /\ Origin(n) = n
  BY DEF Database, Positions, Floor, Node, Origin
<1>3. ASSUME NEW n \in Node
      PROVE  db[n].seq = n /\ db[n].mark <= MaxKey
  <2>1. db[n].seq = n /\ db[n].mark = Floor BY <1>1
  <2> QED BY <2>1 DEF Floor
<1> HIDE DEF d
<1>4. db \in [Node -> Database] BY <1>1, <1>2
<1>5. open \in [Node -> [append : Share \cup {NoAppend}, landings : SUBSET Block]]
  BY DEF Init
<1>6. backup \in [Node -> Database \cup {NoBackup}] /\ \A n \in Node : backup[n] = NoBackup
  BY DEF Init
<1>7. sync \in [Node -> [latch : {NoTimeline} \cup 0..MaxRestores,
                         stage : Stages, rows : SUBSET Share,
                         through : Positions, safe : {NoMark} \cup 0..MaxSync,
                         syncFloor : 0..MaxSync]]
  BY DEF Init, FreshSync, Stages, Positions
<1>8. \A n \in Node : sync[n].through <= MaxKey BY DEF Init, FreshSync
<1>9. left \in [appends : Nat, landings : Nat, failures : Nat, restores : Nat]
  BY DEF Init
<1>10. \E budget \in Budgets : \A what \in DOMAIN left : left[what] \in 0..budget[what]
  <2>1. left \in Budgets BY DEF Init
  <2>2. \A what \in DOMAIN left : left[what] \in Nat BY <1>9
  <2>3. \A what \in DOMAIN left : left[what] \in 0..left[what] BY <2>2
  <2> QED BY <2>1, <2>3
<1> QED
  BY <1>2, <1>3, <1>4, <1>5, <1>6, <1>7, <1>8, <1>9, <1>10 DEF Typed, TypeOK

LEMMA LeftTyped ==
    ASSUME Typed, [Next]_vars
    PROVE  /\ left' \in [appends : Nat, landings : Nat, failures : Nat, restores : Nat]
           /\ \E budget \in Budgets :
                \A what \in DOMAIN left' : left'[what] \in 0..budget[what]
<1> DEFINE What == {"appends", "landings", "failures", "restores"}
<1>1. \/ left' = left
      \/ \E w \in What : left[w] > 0 /\ left' = [left EXCEPT ![w] = @ - 1]
  <2>1. ASSUME NEW n \in Node, DrawShare(n)
        PROVE  left["appends"] > 0 /\ left' = [left EXCEPT !["appends"] = @ - 1]
    BY <2>1 DEF DrawShare
  <2>2. ASSUME NEW n \in Node, BeginLanding(n)
        PROVE  left["landings"] > 0 /\ left' = [left EXCEPT !["landings"] = @ - 1]
    BY <2>2 DEF BeginLanding
  <2>3. ASSUME NEW n \in Node, FailShares(n) \/ FailPass(n) \/ Crash(n)
        PROVE  left["failures"] > 0 /\ left' = [left EXCEPT !["failures"] = @ - 1]
    BY <2>3 DEF FailShares, FailPass, Crash
  <2>4. ASSUME NEW n \in Node, Restore(n)
        PROVE  left["restores"] > 0 /\ left' = [left EXCEPT !["restores"] = @ - 1]
    BY <2>4 DEF Restore
  <2>5. ASSUME NEW n \in Node,
               \/ EndAppend(n) \/ CommitLanding(n) \/ AbortLanding(n)
               \/ ReadShares(n) \/ RaiseSequence(n) \/ ApplyShares(n)
               \/ ReadBarrier(n) \/ PullBlock(n) \/ LatchWithoutPeer(n)
               \/ RecoverShares(n) \/ RecoverBlocks(n) \/ ReadFloors(n) \/ Verify(n)
               \/ TakeBackup(n) \/ StopFrontend(n)
        PROVE  left' = left
    BY <2>5 DEF EndAppend, CommitLanding, AbortLanding, ReadShares, RaiseSequence,
       ApplyShares, ReadBarrier, PullBlock, LatchWithoutPeer, RecoverShares,
       RecoverBlocks, ReadFloors, Verify, TakeBackup, StopFrontend
  <2>6. CASE UNCHANGED vars BY <2>6 DEF vars
  <2> QED BY <2>1, <2>2, <2>3, <2>4, <2>5, <2>6 DEF Next
<1>2. left \in [appends : Nat, landings : Nat, failures : Nat, restores : Nat]
  BY DEF Typed
<1>3. PICK budget \in Budgets : \A what \in DOMAIN left : left[what] \in 0..budget[what]
  BY DEF Typed, TypeOK
<1>4. CASE left' = left BY <1>2, <1>3, <1>4
<1>5. CASE \E w \in What : left[w] > 0 /\ left' = [left EXCEPT ![w] = @ - 1]
  <2>1. PICK w \in What : left[w] > 0 /\ left' = [left EXCEPT ![w] = @ - 1]
    BY <1>5
  <2>2. left[w] \in Nat /\ left[w] - 1 \in Nat BY <1>2, <2>1
  <2>3. left' \in [appends : Nat, landings : Nat, failures : Nat, restores : Nat]
    BY <1>2, <2>1, <2>2
  <2>4. DOMAIN left' = What /\ DOMAIN left = What BY <1>2, <2>3
  <2>5. ASSUME NEW v \in What PROVE left'[v] \in 0..budget[v]
    <3>1. left[v] \in 0..budget[v] BY <1>3, <2>4
    <3>2. CASE v = w
      <4>1. left'[v] = left[w] - 1 BY <1>2, <2>1, <3>2
      <4> QED BY <2>2, <3>1, <3>2, <4>1
    <3>3. CASE v # w BY <1>2, <2>1, <3>1, <3>3
    <3> QED BY <3>2, <3>3
  <2> QED BY <2>3, <2>4, <2>5
<1> QED BY <1>1, <1>4, <1>5

LEMMA DbTyped ==
    ASSUME Typed, [Next]_vars
    PROVE  /\ db' \in [Node -> Database]
           /\ \A n \in Node : Origin(db'[n].seq) = n /\ db'[n].mark <= MaxKey
<1>1. db \in [Node -> Database] /\ backup \in [Node -> Database \cup {NoBackup}]
  BY DEF Typed, TypeOK
<1> DEFINE Fine(n, D) == D \in Database /\ Origin(D.seq) = n /\ D.mark <= MaxKey
<1>2. \A n \in Node : FactsOf(n) BY Facts
<1>3. \A n \in Node : Fine(n, db[n]) BY <1>1, <1>2 DEF FactsOf
<1>4. ASSUME NEW n \in Node, NEW D, Fine(n, D), db' = [db EXCEPT ![n] = D]
      PROVE  db' \in [Node -> Database] /\ \A m \in Node : Fine(m, db'[m])
  BY <1>1, <1>3, <1>4
<1>5. ASSUME NEW n \in Node, NEW D \in Database,
             \/ \E x \in Positions : Origin(x) = n /\ D = [db[n] EXCEPT !.seq = x]
             \/ \E x \in SUBSET Share : D = [db[n] EXCEPT !.shares = x]
             \/ \E x \in SUBSET Block : D = [db[n] EXCEPT !.blocks = x]
             \/ \E x \in 0..MaxSync : D = [db[n] EXCEPT !.syncSeq = x]
             \/ \E x \in 0..MaxSync : D = [db[n] EXCEPT !.blockMark = x]
      PROVE  Fine(n, D)
  BY <1>1, <1>3, <1>5 DEF Database
<1> HIDE DEF Fine
<1>6. ASSUME NEW n \in Node, DrawShare(n)
      PROVE  \E D : Fine(n, D) /\ db' = [db EXCEPT ![n] = D]
  <2> DEFINE x == db[n].seq + 2
  <2>1. db' = [db EXCEPT ![n] = [db[n] EXCEPT !.seq = x]]
    BY <1>1, <1>6 DEF DrawShare
  <2>2. x <= MaxKey BY <1>6 DEF DrawShare
  <2>3. db[n].seq \in Nat /\ Origin(db[n].seq) = n
    BY <1>2 DEF FactsOf, IsDatabase
  <2>4. x \in Positions /\ Origin(x) = n BY <2>2, <2>3, Parity DEF Positions
  <2> HIDE DEF x
  <2>5. [db[n] EXCEPT !.seq = x] \in Database BY <1>1, <2>4 DEF Database
  <2> QED BY <1>5, <2>1, <2>4, <2>5
<1>7. ASSUME NEW n \in Node, EndAppend(n)
      PROVE  \E D : Fine(n, D) /\ db' = [db EXCEPT ![n] = D]
  <2> DEFINE x == db[n].shares \cup {open[n].append}
  <2>1. \/ db' = db
        \/ db' = [db EXCEPT ![n] = [db[n] EXCEPT !.shares = x]]
    BY <1>1, <1>7 DEF EndAppend
  <2>2. x \in SUBSET Share
    BY <1>2, <1>7 DEF EndAppend, FactsOf, IsDatabase
  <2> HIDE DEF x
  <2>3. [db[n] EXCEPT !.shares = x] \in Database BY <1>1, <2>2 DEF Database
  <2>4. Fine(n, [db[n] EXCEPT !.shares = x]) BY <1>5, <2>2, <2>3
  <2>5. db = [db EXCEPT ![n] = db[n]] BY <1>1
  <2> QED BY <1>3, <2>1, <2>4, <2>5
<1>8. ASSUME NEW n \in Node, BeginLanding(n)
      PROVE  \E D : Fine(n, D) /\ db' = [db EXCEPT ![n] = D]
  <2> DEFINE x == db[n].syncSeq + 1
  <2>1. db' = [db EXCEPT ![n] = [db[n] EXCEPT !.syncSeq = x]]
    BY <1>1, <1>8 DEF BeginLanding
  <2>2. x \in 0..MaxSync
    BY <1>2, <1>8 DEF BeginLanding, FactsOf, IsDatabase
  <2> HIDE DEF x
  <2>3. [db[n] EXCEPT !.syncSeq = x] \in Database BY <1>1, <2>2 DEF Database
  <2> QED BY <1>5, <2>1, <2>2, <2>3
<1>9. ASSUME NEW n \in Node, CommitLanding(n)
      PROVE  \E D : Fine(n, D) /\ db' = [db EXCEPT ![n] = D]
  <2>1. PICK b \in open[n].landings :
          db' = [db EXCEPT ![n].blocks = @ \cup {b}]
    BY <1>9 DEF CommitLanding
  <2> DEFINE x == db[n].blocks \cup {b}
  <2>2. db' = [db EXCEPT ![n] = [db[n] EXCEPT !.blocks = x]] BY <1>1, <2>1
  <2>3. x \in SUBSET Block BY <1>2, <2>1 DEF FactsOf, IsDatabase
  <2> HIDE DEF x
  <2>4. [db[n] EXCEPT !.blocks = x] \in Database BY <1>1, <2>3 DEF Database
  <2> QED BY <1>5, <2>2, <2>3, <2>4
<1>10. ASSUME NEW n \in Node, RaiseSequence(n)
       PROVE  \E D : Fine(n, D) /\ db' = [db EXCEPT ![n] = D]
  <2> DEFINE x == Raised(n, Max(KeysOf(sync[n].rows)))
  <2>1. \/ db' = db
        \/ /\ db' = [db EXCEPT ![n] = [db[n] EXCEPT !.seq = x]]
           /\ db'[n].seq = x
    BY <1>1, <1>10 DEF RaiseSequence, Database
  <2>2. /\ db'[n].seq \in Nat /\ db'[n].seq <= MaxKey + 1
        /\ Origin(db'[n].seq) = n
    BY <1>10, RaiseEffect
  <2>3. db = [db EXCEPT ![n] = db[n]] BY <1>1
  <2> HIDE DEF x
  <2>4. ASSUME x \in Positions, Origin(x) = n
        PROVE  Fine(n, [db[n] EXCEPT !.seq = x])
    <3>1. [db[n] EXCEPT !.seq = x] \in Database BY <1>1, <2>4 DEF Database
    <3> QED BY <1>5, <2>4, <3>1
  <2>5. CASE db'[n].seq = x /\ db' = [db EXCEPT ![n] = [db[n] EXCEPT !.seq = x]]
    <3>1. x \in Positions BY <2>2, <2>5 DEF Positions
    <3> QED BY <2>2, <2>4, <2>5, <3>1
  <2> QED BY <1>3, <2>1, <2>3, <2>5
<1>11. ASSUME NEW n \in Node, ApplyShares(n)
       PROVE  \E D : Fine(n, D) /\ db' = [db EXCEPT ![n] = D]
  <2> DEFINE x == db[n].shares \cup (sync[n].rows \ Refused(n, sync[n].rows))
             r == db[n].refused \cup KeysOf(Refused(n, sync[n].rows))
             m == Highest({db[n].mark}, sync[n].through)
             D == [db[n] EXCEPT !.shares = x, !.refused = r, !.mark = m]
  <2>1. db' = [db EXCEPT ![n] = D] BY <1>1, <1>11 DEF ApplyShares
  <2>2. x \in SUBSET Share BY <1>2 DEF FactsOf, IsDatabase
  <2>3. r \in SUBSET Keys
    <3>1. \A s \in sync[n].rows : s.key \in Keys BY <1>2 DEF FactsOf, Share
    <3>2. KeysOf(Refused(n, sync[n].rows)) \subseteq Keys
      BY <3>1 DEF KeysOf, Refused
    <3> QED BY <1>2, <3>2 DEF FactsOf, IsDatabase
  <2>4. m \in Nat /\ m <= MaxKey
    <3>1. /\ db[n].mark \in Nat /\ sync[n].through \in Nat
          /\ db[n].mark <= MaxKey /\ sync[n].through <= MaxKey
      BY <1>2 DEF FactsOf, IsDatabase
    <3> QED BY <3>1, HigherOf
  <2>5. m \in Positions BY <2>4 DEF Positions
  <2> HIDE DEF x, r, m
  <2>6. D \in Database /\ D.seq = db[n].seq /\ D.mark = m
    BY ZenonT(60), <1>1, <2>2, <2>3, <2>5 DEF Database
  <2>7. Fine(n, D) BY <1>3, <2>4, <2>6 DEF Fine
  <2> HIDE DEF D
  <2> QED BY <2>1, <2>7
<1>12. ASSUME NEW n \in Node, PullBlock(n)
       PROVE  \E D : Fine(n, D) /\ db' = [db EXCEPT ![n] = D]
  <2>1. db' = [db EXCEPT ![n] = db'[n]] BY <1>1, <1>12 DEF PullBlock
  <2>2. \/ db' = db
        \/ db'[n] = [db[n] EXCEPT !.blockMark = Highest({@}, sync[n].safe)]
        \/ \E b \in Pending(n) :
             db'[n] = [db[n] EXCEPT !.blocks = @ \cup {b},
                                    !.blockMark = Highest({@}, b.sync)]
    BY <1>1, <1>12 DEF PullBlock
  <2>3. /\ db[n].blockMark \in Nat /\ db[n].blockMark <= MaxSync
        /\ sync[n].safe \in Int /\ sync[n].safe <= MaxSync
        /\ db[n].blocks \subseteq Block
    BY <1>2 DEF FactsOf, IsDatabase
  <2>4. CASE db' = db BY <1>3, <2>1, <2>4
  <2>5. CASE db'[n] = [db[n] EXCEPT !.blockMark = Highest({@}, sync[n].safe)]
    <3> DEFINE m == Highest({db[n].blockMark}, sync[n].safe)
    <3>1. m \in 0..MaxSync BY <2>3, HigherOf
    <3>2. db'[n] = [db[n] EXCEPT !.blockMark = m] BY <2>5
    <3> HIDE DEF m
    <3>3. db'[n] \in Database BY <1>1, <3>1, <3>2 DEF Database
    <3>4. Fine(n, db'[n]) BY <1>5, <3>1, <3>2, <3>3
    <3> QED BY <2>1, <3>4
  <2>6. ASSUME NEW b \in Pending(n),
               db'[n] = [db[n] EXCEPT !.blocks = @ \cup {b},
                                      !.blockMark = Highest({@}, b.sync)]
        PROVE  Fine(n, db'[n])
    <3> DEFINE m == Highest({db[n].blockMark}, b.sync)
               x == db[n].blocks \cup {b}
    <3>1. b \in Block
      BY <1>2, Peers DEF Pending, OwnBlocks, FactsOf, IsDatabase
    <3>2. m \in 0..MaxSync
      <4>1. b.sync \in Nat /\ b.sync <= MaxSync BY <3>1, BlockFacts
      <4>2. m = IF db[n].blockMark <= b.sync THEN b.sync ELSE db[n].blockMark
        BY <2>3, <4>1, HigherOf
      <4> HIDE DEF m
      <4> QED BY <2>3, <4>1, <4>2
    <3>3. x \in SUBSET Block BY <2>3, <3>1
    <3>4. db'[n] = [db[n] EXCEPT !.blocks = x, !.blockMark = m] BY <2>6
    <3> HIDE DEF m, x
    <3>5. /\ db'[n] \in Database /\ db'[n].seq = db[n].seq
          /\ db'[n].mark = db[n].mark
      BY ZenonT(60), <1>1, <3>2, <3>3, <3>4 DEF Database
    <3> QED BY <1>3, <3>5 DEF Fine
  <2> QED BY <2>1, <2>2, <2>4, <2>5, <2>6
<1>13. ASSUME NEW n \in Node, RecoverShares(n)
       PROVE  \E D : Fine(n, D) /\ db' = [db EXCEPT ![n] = D]
  <2>1. CASE db' = db
    <3>1. db = [db EXCEPT ![n] = db[n]] BY <1>1
    <3> QED BY <1>3, <2>1, <3>1
  <2>2. ASSUME NEW s \in MissingShares(n),
               db' = [db EXCEPT ![n].shares = @ \cup ({s} \ Refused(n, {s})),
                                ![n].seq = Raised(n, s.key),
                                ![n].verified = NoTimeline]
        PROVE  \E D : Fine(n, D) /\ db' = [db EXCEPT ![n] = D]
    <3> DEFINE x == db[n].shares \cup ({s} \ Refused(n, {s}))
               q == Raised(n, s.key)
               D == [db[n] EXCEPT !.shares = x, !.seq = q, !.verified = NoTimeline]
    <3>1. s \in Share
      BY <1>2, Peers DEF MissingShares, OwnShares, FactsOf, IsDatabase
    <3>2. x \in SUBSET Share BY <1>2, <3>1 DEF FactsOf, IsDatabase
    <3>3. s.key \in Nat /\ s.key <= MaxKey BY <3>1, ShareFacts
    <3>4. q \in Nat /\ q <= MaxKey + 1 /\ Origin(q) = n BY <3>3, RaisedFacts
    <3>5. q \in Positions BY <3>4 DEF Positions
    <3>6. db' = [db EXCEPT ![n] = D] BY <1>1, <2>2
    <3> HIDE DEF x, q
    <3>7. D \in Database /\ D.seq = q /\ D.mark = db[n].mark
      BY ZenonT(60), <1>1, <3>2, <3>5 DEF Database
    <3>8. Fine(n, D) BY <1>3, <3>4, <3>7 DEF Fine
    <3> HIDE DEF D
    <3> QED BY <3>6, <3>8
  <2> QED BY <1>13, <2>1, <2>2 DEF RecoverShares
<1>14. ASSUME NEW n \in Node, RecoverBlocks(n)
       PROVE  \E D : Fine(n, D) /\ db' = [db EXCEPT ![n] = D]
  <2> DEFINE x == db[n].blocks \cup MissingBlocks(n)
             v == IF MissingBlocks(n) = {} THEN db[n].verified ELSE NoTimeline
             D == [db[n] EXCEPT !.blocks = x, !.verified = v]
  <2>1. x \in SUBSET Block
    BY <1>2, Peers DEF MissingBlocks, OwnBlocks, FactsOf, IsDatabase
  <2>2. v \in {NoTimeline} \cup 0..MaxRestores BY <1>1 DEF Database
  <2>3. db' = [db EXCEPT ![n] = D] BY <1>1, <1>14 DEF RecoverBlocks
  <2> HIDE DEF x, v
  <2>4. D \in Database /\ D.seq = db[n].seq /\ D.mark = db[n].mark
    BY <1>1, <2>1, <2>2 DEF Database
  <2>5. Fine(n, D) BY <1>3, <2>4 DEF Fine
  <2> HIDE DEF D
  <2> QED BY <2>3, <2>5
<1>15. ASSUME NEW n \in Node, Verify(n)
       PROVE  \E D : Fine(n, D) /\ db' = [db EXCEPT ![n] = D]
  <2> DEFINE k == Highest(KeysOf(db[n].shares), sync[n].through)
             q == Raised(n, k)
             f == Highest({db[n].syncSeq}, sync[n].syncFloor)
             D == [db[n] EXCEPT !.seq = q, !.syncSeq = f, !.verified = db[n].timeline]
  <2>1. /\ db[n].shares \in SUBSET Share /\ sync[n].through \in Nat
        /\ sync[n].through <= MaxKey /\ sync[n].through <= MaxKey + 1
    BY <1>2 DEF FactsOf, IsDatabase
  <2>2. k \in Nat /\ (k = sync[n].through \/ \E s \in db[n].shares : s.key = k)
    BY <2>1, HighestKey
  <2>3. k <= MaxKey
    <3>1. \A s \in db[n].shares : s.key <= MaxKey BY <2>1, ShareFacts
    <3> QED BY <2>1, <2>2, <3>1
  <2>4. q \in Nat /\ q <= MaxKey + 1 /\ Origin(q) = n
    BY <2>2, <2>3, RaisedFacts
  <2>5. q \in Positions BY <2>4 DEF Positions
  <2>6. f \in 0..MaxSync
    <3>1. /\ db[n].syncSeq \in Nat /\ db[n].syncSeq <= MaxSync
          /\ sync[n].syncFloor \in Nat /\ sync[n].syncFloor <= MaxSync
      BY <1>2 DEF FactsOf, IsDatabase
    <3> QED BY <3>1, HigherOf
  <2>7. db[n].timeline \in {NoTimeline} \cup 0..MaxRestores
    BY <1>1 DEF Database
  <2>8. db' = [db EXCEPT ![n] = D] BY <1>1, <1>15 DEF Verify
  <2> HIDE DEF q, f
  <2>9. D \in Database /\ D.seq = q /\ D.mark = db[n].mark
    BY ZenonT(60), <1>1, <2>5, <2>6, <2>7 DEF Database
  <2>10. Fine(n, D) BY <1>3, <2>4, <2>9 DEF Fine
  <2> HIDE DEF D
  <2> QED BY <2>8, <2>10
<1>16. ASSUME NEW n \in Node, Restore(n)
       PROVE  \E D : Fine(n, D) /\ db' = [db EXCEPT ![n] = D]
  <2> DEFINE t == db[n].timeline + 1
             D == [backup[n] EXCEPT !.timeline = t]
  <2>1. backup[n] # NoBackup /\ db[n].timeline < MaxRestores BY <1>16 DEF Restore
  <2>2. backup[n] \in Database BY <1>1, <2>1
  <2>3. t \in 0..MaxRestores BY <1>2, <2>1 DEF FactsOf, IsDatabase
  <2>4. Origin(backup[n].seq) = n /\ backup[n].mark <= MaxKey BY <2>1 DEF Typed
  <2>5. db' = [db EXCEPT ![n] = D] BY <1>1, <1>16 DEF Restore
  <2> HIDE DEF t
  <2>6. D \in Database /\ D.seq = backup[n].seq /\ D.mark = backup[n].mark
    BY <2>2, <2>3 DEF Database
  <2>7. Fine(n, D) BY <2>4, <2>6 DEF Fine
  <2> HIDE DEF D
  <2> QED BY <2>5, <2>7
<1>17. ASSUME NEW n \in Node,
              \/ AbortLanding(n) \/ ReadShares(n) \/ ReadBarrier(n)
              \/ FailShares(n) \/ FailPass(n) \/ LatchWithoutPeer(n)
              \/ ReadFloors(n) \/ Crash(n) \/ TakeBackup(n) \/ StopFrontend(n)
       PROVE  db' = db
  BY <1>17 DEF AbortLanding, ReadShares, ReadBarrier, FailShares, FailPass,
     LatchWithoutPeer, ReadFloors, Crash, TakeBackup, StopFrontend
<1>18. ASSUME UNCHANGED vars PROVE db' = db BY <1>18 DEF vars
<1>19. \/ db' = db \/ \E n \in Node : \E D : Fine(n, D) /\ db' = [db EXCEPT ![n] = D]
  BY <1>6, <1>7, <1>8, <1>9, <1>10, <1>11, <1>12, <1>13, <1>14, <1>15, <1>16,
     <1>17, <1>18 DEF Next
<1>20. CASE db' = db BY <1>1, <1>3, <1>20 DEF Fine
<1>21. ASSUME NEW n \in Node, NEW D, Fine(n, D), db' = [db EXCEPT ![n] = D]
       PROVE  /\ db' \in [Node -> Database]
              /\ \A m \in Node : Origin(db'[m].seq) = m /\ db'[m].mark <= MaxKey
  BY <1>4, <1>21 DEF Fine
<1> QED BY <1>19, <1>20, <1>21

Task == [latch : {NoTimeline} \cup 0..MaxRestores, stage : Stages,
         rows : SUBSET Share, through : Positions,
         safe : {NoMark} \cup 0..MaxSync, syncFloor : 0..MaxSync]
Transactions == [append : Share \cup {NoAppend}, landings : SUBSET Block]

LEMMA OpenTyped ==
    ASSUME Typed, [Next]_vars
    PROVE  open' \in [Node -> Transactions]
<1>1. open \in [Node -> Transactions] BY DEF Typed, TypeOK, Transactions
<1>2. ASSUME NEW n \in Node, NEW y \in Transactions, open' = [open EXCEPT ![n] = y]
      PROVE  open' \in [Node -> Transactions]
  BY <1>1, <1>2
<1>3. ASSUME NEW n \in Node,
             \/ DrawShare(n) \/ EndAppend(n) \/ BeginLanding(n)
             \/ CommitLanding(n) \/ AbortLanding(n)
             \/ Crash(n) \/ StopFrontend(n) \/ Restore(n)
      PROVE  \E y \in Transactions : open' = [open EXCEPT ![n] = y]
  <2>1. ASSUME NEW a \in Share \cup {NoAppend}, NEW L \in SUBSET Block
        PROVE  /\ [open[n] EXCEPT !.append = a] \in Transactions
               /\ [open[n] EXCEPT !.landings = L] \in Transactions
    BY <1>1, <2>1 DEF Transactions
  <2>2. [append |-> NoAppend, landings |-> {}] \in Transactions BY DEF Transactions
  <2>3. open[n].landings \in SUBSET Block BY <1>1 DEF Transactions
  <2>4. CASE DrawShare(n)
    <3>1. PICK h \in Header :
            open' = [open EXCEPT ![n].append = [key |-> db[n].seq + 2, header |-> h]]
      BY <2>4 DEF DrawShare
    <3> DEFINE a == [key |-> db[n].seq + 2, header |-> h]
    <3>2. open' = [open EXCEPT ![n] = [open[n] EXCEPT !.append = a]] BY <1>1, <3>1
    <3>3. open'[n].append = a BY <1>1, <3>2 DEF Transactions
    <3> HIDE DEF a
    <3>4. a \in Share BY <2>4, <3>3, DrawEffect
    <3> QED BY <2>1, <3>2, <3>4
  <2>5. CASE EndAppend(n)
    <3>1. open' = [open EXCEPT ![n] = [open[n] EXCEPT !.append = NoAppend]]
      BY <1>1, <2>5 DEF EndAppend
    <3> QED BY <2>1, <3>1
  <2>6. CASE BeginLanding(n)
    <3>1. open' = [open EXCEPT ![n] = [open[n] EXCEPT !.landings = open'[n].landings]]
      BY <1>1, <2>6 DEF BeginLanding, Transactions
    <3>2. open'[n].landings \in SUBSET Block BY <2>3, <2>6, LandingEffect
    <3> QED BY <2>1, <3>1, <3>2
  <2>7. CASE CommitLanding(n) \/ AbortLanding(n)
    <3>1. PICK b \in open[n].landings : open' = [open EXCEPT ![n].landings = @ \ {b}]
      BY <2>7 DEF CommitLanding, AbortLanding
    <3>2. open' = [open EXCEPT ![n] = [open[n] EXCEPT !.landings = open[n].landings \ {b}]]
      BY <1>1, <3>1
    <3>3. open[n].landings \ {b} \in SUBSET Block BY <2>3
    <3> QED BY <2>1, <3>2, <3>3
  <2>8. CASE Crash(n) \/ StopFrontend(n) \/ Restore(n)
    BY <2>2, <2>8 DEF Crash, StopFrontend, Restore
  <2> QED BY <1>3, <2>4, <2>5, <2>6, <2>7, <2>8
<1>4. ASSUME NEW n \in Node,
             \/ ReadShares(n) \/ RaiseSequence(n) \/ ApplyShares(n)
             \/ ReadBarrier(n) \/ PullBlock(n) \/ FailShares(n) \/ FailPass(n)
             \/ LatchWithoutPeer(n) \/ RecoverShares(n) \/ RecoverBlocks(n)
             \/ ReadFloors(n) \/ Verify(n) \/ TakeBackup(n)
      PROVE  open' = open
  BY <1>4 DEF ReadShares, RaiseSequence, ApplyShares, ReadBarrier, PullBlock,
     FailShares, FailPass, LatchWithoutPeer, RecoverShares, RecoverBlocks,
     ReadFloors, Verify, TakeBackup
<1>5. UNCHANGED vars => open' = open BY DEF vars
<1>6. \/ open' = open
      \/ \E n \in Node : \E y \in Transactions : open' = [open EXCEPT ![n] = y]
  BY <1>3, <1>4, <1>5 DEF Next
<1> QED BY <1>1, <1>2, <1>6

LEMMA BackupTyped ==
    ASSUME Typed, [Next]_vars
    PROVE  /\ backup' \in [Node -> Database \cup {NoBackup}]
           /\ \A n \in Node : backup'[n] # NoBackup =>
                /\ n \in Restorable /\ backup'[n].mark <= MaxKey
                /\ Origin(backup'[n].seq) = n
<1>1. /\ backup \in [Node -> Database \cup {NoBackup}] /\ db \in [Node -> Database]
      /\ \A n \in Node : backup[n] # NoBackup =>
           /\ n \in Restorable /\ backup[n].mark <= MaxKey
           /\ Origin(backup[n].seq) = n
      /\ \A n \in Node : db[n].mark <= MaxKey /\ Origin(db[n].seq) = n
  BY DEF Typed, TypeOK
<1>2. ASSUME NEW n \in Node, TakeBackup(n)
      PROVE  n \in Restorable /\ backup' = [backup EXCEPT ![n] = db[n]]
  BY <1>2 DEF TakeBackup
<1>3. ASSUME NEW n \in Node,
             \/ DrawShare(n) \/ EndAppend(n) \/ BeginLanding(n)
             \/ CommitLanding(n) \/ AbortLanding(n)
             \/ ReadShares(n) \/ RaiseSequence(n) \/ ApplyShares(n)
             \/ ReadBarrier(n) \/ PullBlock(n) \/ FailShares(n) \/ FailPass(n)
             \/ LatchWithoutPeer(n) \/ RecoverShares(n) \/ RecoverBlocks(n)
             \/ ReadFloors(n) \/ Verify(n) \/ Crash(n) \/ Restore(n)
             \/ StopFrontend(n)
      PROVE  backup' = backup
  BY <1>3 DEF DrawShare, EndAppend, BeginLanding, CommitLanding, AbortLanding,
     ReadShares, RaiseSequence, ApplyShares, ReadBarrier, PullBlock,
     FailShares, FailPass, LatchWithoutPeer, RecoverShares, RecoverBlocks,
     ReadFloors, Verify, Crash, Restore, StopFrontend
<1>4. UNCHANGED vars => backup' = backup BY DEF vars
<1>5. \/ backup' = backup
      \/ \E n \in Node : n \in Restorable /\ backup' = [backup EXCEPT ![n] = db[n]]
  BY <1>2, <1>3, <1>4 DEF Next
<1>6. CASE backup' = backup BY <1>1, <1>6
<1>7. ASSUME NEW n \in Node, n \in Restorable, backup' = [backup EXCEPT ![n] = db[n]]
      PROVE  /\ backup' \in [Node -> Database \cup {NoBackup}]
             /\ \A m \in Node : backup'[m] # NoBackup =>
                  /\ m \in Restorable /\ backup'[m].mark <= MaxKey
                  /\ Origin(backup'[m].seq) = m
  BY <1>1, <1>7
<1> QED BY <1>5, <1>6, <1>7

LEMMA SyncTyped ==
    ASSUME Typed, [Next]_vars
    PROVE  /\ sync' \in [Node -> Task]
           /\ \A n \in Node : sync'[n].through <= MaxKey
<1> DEFINE Fine(y) == y \in Task /\ y.through <= MaxKey
<1>1. sync \in [Node -> Task] BY DEF Typed, TypeOK, Task
<1>2. \A n \in Node : FactsOf(n) BY Facts
<1>3. \A n \in Node : Fine(sync[n]) BY <1>1, <1>2 DEF FactsOf
<1>4. ASSUME NEW n \in Node, NEW y, Fine(y), sync' = [sync EXCEPT ![n] = y]
      PROVE  sync' \in [Node -> Task] /\ \A m \in Node : sync'[m].through <= MaxKey
  BY <1>1, <1>3, <1>4
<1>5. ASSUME NEW n \in Node, NEW q \in Stages
      PROVE  /\ Fine([sync[n] EXCEPT !.stage = q])
             /\ Fine([sync[n] EXCEPT !.stage = q, !.rows = {}, !.through = 0])
             /\ Fine([sync[n] EXCEPT !.stage = q, !.rows = {}, !.through = 0,
                                     !.safe = NoMark])
  <2>1. sync[n] \in Task /\ 0 \in Positions /\ 0 <= MaxKey BY <1>1 DEF Positions
  <2>2. Fine([sync[n] EXCEPT !.stage = q]) BY <1>3, <2>1 DEF Task
  <2>3. Fine([sync[n] EXCEPT !.stage = q, !.rows = {}, !.through = 0])
    BY <2>1 DEF Task
  <2>4. Fine([sync[n] EXCEPT !.stage = q, !.rows = {}, !.through = 0,
                             !.safe = NoMark])
    BY <2>1 DEF Task
  <2> QED BY <2>2, <2>3, <2>4
<1>6. ASSUME NEW n \in Node, NEW t \in {NoTimeline} \cup 0..MaxRestores
      PROVE  /\ Fine([sync[n] EXCEPT !.latch = t])
             /\ Fine([FreshSync EXCEPT !.latch = t])
  BY <1>1, <1>3 DEF Task, Positions, FreshSync, Stages
<1>7. Fine(FreshSync) BY DEF Task, Positions, FreshSync, Stages
<1>8. ASSUME NEW n \in Node PROVE db[n].timeline \in {NoTimeline} \cup 0..MaxRestores
  BY <1>2 DEF FactsOf, IsDatabase
<1>9. ASSUME NEW n \in Node, ReadShares(n)
      PROVE  \E y : Fine(y) /\ sync' = [sync EXCEPT ![n] = y]
  <2> DEFINE t == Highest(Scanned(n), db[n].mark)
             R == {s \in OwnShares(Peer(n), Peer(n)) : s.key > db[n].mark /\ s.key <= t}
             y == [sync[n] EXCEPT !.stage = "raise", !.through = t, !.rows = R]
  <2>1. sync' = [sync EXCEPT ![n] = y] BY <1>1, <1>9 DEF ReadShares
  <2>2. Peer(n) \in Node BY Peers
  <2>3. db[Peer(n)].shares \in SUBSET Share BY <1>2, <2>2 DEF FactsOf, IsDatabase
  <2>4. R \subseteq Share BY <2>3 DEF OwnShares
  <2>5. t \in Nat /\ t <= MaxKey
    <3>1. Scanned(n) \in SUBSET (0..MaxKey) BY <2>3, KeyFacts DEF Scanned
    <3>2. db[n].mark \in 0..MaxKey BY <1>2 DEF FactsOf, IsDatabase
    <3>3. t \in Scanned(n) \cup {db[n].mark} BY <3>1, <3>2, HighestIn
    <3> QED BY <3>1, <3>2, <3>3
  <2>6. t \in Positions BY <2>5 DEF Positions
  <2> HIDE DEF t, R
  <2>7. Fine(y) BY <1>1, <2>4, <2>5, <2>6 DEF Task, Stages
  <2> QED BY <2>1, <2>7
<1>10. ASSUME NEW n \in Node, ReadBarrier(n)
       PROVE  \E y : Fine(y) /\ sync' = [sync EXCEPT ![n] = y]
  <2> DEFINE z == IF BarrierTaken(Peer(n)) /\ db[Peer(n)].syncSeq > 0
                  THEN Highest({sync[n].safe}, db[Peer(n)].syncSeq)
                  ELSE sync[n].safe
             q == IF z = NoMark THEN "idle" ELSE "blocks"
  <2>1. /\ z = sync[n].safe \/ z = Highest({sync[n].safe}, db[Peer(n)].syncSeq)
        /\ q \in {"idle", "blocks"}
        /\ sync' = [sync EXCEPT ![n].safe = z, ![n].stage = q]
    BY <1>10 DEF ReadBarrier
  <2> HIDE DEF z, q
  <2>2. sync' = [sync EXCEPT ![n] = [sync[n] EXCEPT !.safe = z, !.stage = q]]
    BY <1>1, <2>1
  <2>3. z \in {NoMark} \cup 0..MaxSync
    <3>1. Peer(n) \in Node BY Peers
    <3>2. /\ db[Peer(n)].syncSeq \in Nat /\ db[Peer(n)].syncSeq <= MaxSync
          /\ sync[n].safe \in {NoMark} \cup 0..MaxSync /\ sync[n].safe \in Int
      BY <1>1, <1>2, <3>1 DEF FactsOf, IsDatabase, Task
    <3>3. CASE z = sync[n].safe BY <3>2, <3>3
    <3>4. CASE z = Highest({sync[n].safe}, db[Peer(n)].syncSeq)
      <4>1. z = IF sync[n].safe <= db[Peer(n)].syncSeq THEN db[Peer(n)].syncSeq
                ELSE sync[n].safe
        BY <3>2, <3>4, HigherOf
      <4> QED BY <3>2, <4>1
    <3> QED BY <2>1, <3>3, <3>4
  <2>4. Fine([sync[n] EXCEPT !.safe = z, !.stage = q])
    BY <1>1, <1>3, <2>1, <2>3 DEF Task, Stages
  <2> QED BY <2>2, <2>4
<1>11. ASSUME NEW n \in Node, ReadFloors(n)
       PROVE  \E y : Fine(y) /\ sync' = [sync EXCEPT ![n] = y]
  <2> DEFINE p == Peer(n)
             t == Highest(KeysOf(OwnShares(n, p)), db[p].mark)
             f == Highest({b.sync : b \in OwnBlocks(n, p)}, db[p].blockMark)
             y == [sync[n] EXCEPT !.stage = "verify", !.through = t, !.syncFloor = f]
  <2>1. sync' = [sync EXCEPT ![n] = y] BY <1>1, <1>11 DEF ReadFloors
  <2>2. p \in Node BY Peers
  <2>3. /\ OwnShares(n, p) \in SUBSET Share /\ db[p].mark \in 0..MaxKey
        /\ OwnBlocks(n, p) \subseteq Block /\ db[p].blockMark \in 0..MaxSync
    BY <1>2, <2>2 DEF OwnShares, OwnBlocks, FactsOf, IsDatabase
  <2>4. t \in Nat /\ t <= MaxKey
    <3>1. KeysOf(OwnShares(n, p)) \in SUBSET (0..MaxKey) BY <2>3, KeyFacts
    <3>2. t \in KeysOf(OwnShares(n, p)) \cup {db[p].mark}
      BY <2>3, <3>1, HighestIn
    <3> QED BY <2>3, <3>1, <3>2
  <2>5. f \in 0..MaxSync
    <3> DEFINE S == {b.sync : b \in OwnBlocks(n, p)}
    <3>1. S \subseteq 0..MaxSync BY <2>3, BlockFacts
    <3> HIDE DEF S
    <3>2. Highest(S, db[p].blockMark) \in S \cup {db[p].blockMark}
      BY <2>3, <3>1, HighestIn
    <3> QED BY <2>3, <3>1, <3>2 DEF S
  <2>6. t \in Positions BY <2>4 DEF Positions
  <2> HIDE DEF t, f
  <2>7. Fine(y) BY <1>1, <2>4, <2>5, <2>6 DEF Task, Stages
  <2> QED BY <2>1, <2>7
<1>12. ASSUME NEW n \in Node,
              \/ RaiseSequence(n) \/ PullBlock(n) \/ RecoverShares(n)
              \/ RecoverBlocks(n)
       PROVE  \E y : Fine(y) /\ sync' = [sync EXCEPT ![n] = y]
  <2>1. \E q \in Stages : sync' = [sync EXCEPT ![n] = [sync[n] EXCEPT !.stage = q]]
    <3>1. \E q \in Stages : sync' = [sync EXCEPT ![n].stage = q]
      <4>1. CASE RecoverShares(n)
        <5>1. sync[n].stage \in Stages BY <1>2 DEF FactsOf
        <5> QED BY <4>1, <5>1 DEF RecoverShares, Stages
      <4> QED BY <1>12, <4>1 DEF RaiseSequence, PullBlock, RecoverBlocks, Stages
    <3> QED BY <1>1, <3>1
  <2> QED BY <1>5, <2>1
<1>13. ASSUME NEW n \in Node, ApplyShares(n) \/ FailShares(n)
       PROVE  \E y : Fine(y) /\ sync' = [sync EXCEPT ![n] = y]
  <2> DEFINE y == [sync[n] EXCEPT !.stage = "barrier", !.rows = {}, !.through = 0]
  <2>1. sync' = [sync EXCEPT ![n] = y] BY <1>1, <1>13 DEF ApplyShares, FailShares
  <2>2. "barrier" \in Stages BY DEF Stages
  <2> QED BY <1>5, <2>1, <2>2
<1>14. ASSUME NEW n \in Node, FailPass(n)
       PROVE  \E y : Fine(y) /\ sync' = [sync EXCEPT ![n] = y]
  <2> DEFINE y == [sync[n] EXCEPT !.stage = "idle", !.rows = {}, !.through = 0,
                                  !.safe = NoMark]
  <2>1. sync' = [sync EXCEPT ![n] = y] BY <1>1, <1>14 DEF FailPass
  <2>2. "idle" \in Stages BY DEF Stages
  <2> QED BY <1>5, <2>1, <2>2
<1>15. ASSUME NEW n \in Node,
              \/ LatchWithoutPeer(n) \/ Verify(n) \/ Crash(n) \/ StopFrontend(n)
       PROVE  \E y : Fine(y) /\ sync' = [sync EXCEPT ![n] = y]
  <2>1. \/ sync' = [sync EXCEPT ![n] = [sync[n] EXCEPT !.latch = db[n].timeline]]
        \/ sync' = [sync EXCEPT ![n] = [FreshSync EXCEPT !.latch = db[n].timeline]]
        \/ sync' = [sync EXCEPT ![n] = FreshSync]
    BY <1>1, <1>15 DEF LatchWithoutPeer, Verify, Crash, StopFrontend
  <2> QED BY <1>6, <1>7, <1>8, <2>1
<1>16. ASSUME NEW n \in Node, Restore(n)
       PROVE  sync' \in [Node -> Task] /\ \A m \in Node : sync'[m].through <= MaxKey
  <2> DEFINE p == Peer(n)
             q == IF sync[p].stage \in {"verify", "diverged"} THEN sync[p].stage
                  ELSE "idle"
             x == [sync[p] EXCEPT !.stage = q, !.safe = NoMark]
             y == [FreshSync EXCEPT !.latch = sync[n].latch]
  <2>1. p \in Node /\ p # n /\ \A m \in Node : m = n \/ m = p BY DEF Peer, Node
  <2>2. sync' = [sync EXCEPT ![p] = x, ![n] = y] BY <1>1, <1>16, <2>1 DEF Restore
  <2>3. q \in Stages BY DEF Stages
  <2> HIDE DEF q
  <2>4. Fine(x) BY <1>1, <1>3, <2>1, <2>3 DEF Task
  <2>5. Fine(y)
    <3>1. sync[n].latch \in {NoTimeline} \cup 0..MaxRestores BY <1>1 DEF Task
    <3> QED BY <1>6, <3>1
  <2> HIDE DEF x, y, p
  <2>6. sync' \in [Node -> Task] BY <1>1, <2>2, <2>4, <2>5
  <2>7. sync'[n] = y /\ sync'[p] = x BY <1>1, <2>1, <2>2
  <2> QED BY <2>1, <2>4, <2>5, <2>6, <2>7
<1>17. ASSUME NEW n \in Node,
              \/ DrawShare(n) \/ EndAppend(n) \/ BeginLanding(n)
              \/ CommitLanding(n) \/ AbortLanding(n) \/ TakeBackup(n)
       PROVE  sync' = sync
  BY <1>17 DEF DrawShare, EndAppend, BeginLanding, CommitLanding, AbortLanding,
     TakeBackup
<1>18. UNCHANGED vars => sync' = sync BY DEF vars
<1>19. CASE sync' = sync BY <1>1, <1>3, <1>19
<1>20. CASE \E n \in Node : Restore(n) BY <1>16, <1>20
<1>21. ASSUME NEW n \in Node, NEW y, Fine(y), sync' = [sync EXCEPT ![n] = y]
       PROVE  sync' \in [Node -> Task] /\ \A m \in Node : sync'[m].through <= MaxKey
  BY <1>4, <1>21
<1> HIDE DEF Fine
<1>22. \/ sync' = sync \/ \E n \in Node : Restore(n)
       \/ \E n \in Node : \E y : Fine(y) /\ sync' = [sync EXCEPT ![n] = y]
  BY <1>9, <1>10, <1>11, <1>12, <1>13, <1>14, <1>15, <1>17, <1>18 DEF Next
<1> QED BY <1>19, <1>20, <1>21, <1>22

LEMMA TypedStep == ASSUME Typed, [Next]_vars PROVE Typed'
  BY DbTyped, OpenTyped, BackupTyped, SyncTyped, LeftTyped
  DEF Typed, TypeOK, Task, Transactions

-----------------------------------------------------------------------------
(* What a step does to one node.                                           *)

Act(n) ==
    \/ DrawShare(n) \/ EndAppend(n)
    \/ BeginLanding(n) \/ CommitLanding(n) \/ AbortLanding(n)
    \/ ReadShares(n) \/ RaiseSequence(n) \/ ApplyShares(n)
    \/ ReadBarrier(n) \/ PullBlock(n) \/ FailShares(n) \/ FailPass(n)
    \/ LatchWithoutPeer(n)
    \/ RecoverShares(n) \/ RecoverBlocks(n) \/ ReadFloors(n) \/ Verify(n)
    \/ Crash(n) \/ TakeBackup(n) \/ Restore(n) \/ StopFrontend(n)

LEMMA Actor ==
    ASSUME [Next]_vars, NEW n \in Node
    PROVE  Act(n) \/ Act(Peer(n)) \/ UNCHANGED vars
<1>1. \A m \in Node : m = n \/ m = Peer(n) BY DEF Node, Peer
<1>2. Next => \E m \in Node : Act(m) BY DEF Next, Act
<1> QED BY <1>1, <1>2

\* The node's database, transactions and backup are left alone.
Rests(n) == db'[n] = db[n] /\ open'[n] = open[n] /\ backup'[n] = backup[n]

LEMMA Others ==
    ASSUME Typed, NEW n \in Node, Act(Peer(n)) \/ UNCHANGED vars
    PROVE  Rests(n) /\ (sync'[n] = sync[n] \/ Restore(Peer(n)))
<1>1. CASE UNCHANGED vars BY <1>1 DEF vars, Rests
<1> DEFINE p == Peer(n)
<1>2. p \in Node /\ Peer(p) = n BY Peers
<1> HIDE DEF p
<1>3. CASE Restore(p)
  <2>1. /\ db'[Peer(p)] = db[Peer(p)] /\ open'[Peer(p)] = open[Peer(p)]
        /\ backup'[Peer(p)] = backup[Peer(p)]
    BY <1>2, <1>3, RestoreEffect
  <2> QED BY <1>2, <1>3, <2>1 DEF Rests, p
<1>4. CASE \/ ReadShares(p) \/ ReadBarrier(p) \/ FailShares(p) \/ FailPass(p)
           \/ LatchWithoutPeer(p) \/ ReadFloors(p) \/ Crash(p)
           \/ StopFrontend(p) \/ AbortLanding(p)
  <2>1. Quiet(p)
    BY <1>2, <1>4, ReadEffect, BarrierEffect, FailSharesEffect, FailPassEffect,
       LatchEffect, FloorsEffect, CrashEffect, StopEffect, AbortEffect
  <2> QED BY <1>2, <2>1 DEF Quiet, Still, Rests
<1>5. CASE \/ DrawShare(p) \/ EndAppend(p) \/ BeginLanding(p) \/ CommitLanding(p)
           \/ RaiseSequence(p) \/ ApplyShares(p) \/ PullBlock(p)
  <2>1. Still(Peer(p))
    BY <1>2, <1>5, DrawEffect, AppendEffect, LandingEffect, CommitEffect,
       RaiseEffect, ApplyEffect, PullEffect
  <2> QED BY <1>2, <2>1 DEF Still, Rests
<1>6. CASE RecoverShares(p) \/ RecoverBlocks(p) \/ Verify(p) \/ TakeBackup(p)
  <2>1. Still(Peer(p))
    BY <1>2, <1>6, RecoverEffect, BlocksEffect, VerifyEffect, BackupEffect
  <2> QED BY <1>2, <2>1 DEF Still, Rests
<1> QED BY <1>1, <1>3, <1>4, <1>5, <1>6 DEF Act, p

\* The steps that change a node's database.
Changes(n) ==
    \/ DrawShare(n) \/ EndAppend(n) \/ BeginLanding(n) \/ CommitLanding(n)
    \/ RaiseSequence(n) \/ ApplyShares(n) \/ PullBlock(n)
    \/ RecoverShares(n) \/ RecoverBlocks(n) \/ Verify(n) \/ Restore(n)

LEMMA Changed ==
    ASSUME Typed, [Next]_vars, NEW n \in Node
    PROVE  Changes(n) \/ db'[n] = db[n]
<1>1. CASE \/ ReadShares(n) \/ ReadBarrier(n) \/ FailShares(n) \/ FailPass(n)
           \/ LatchWithoutPeer(n) \/ ReadFloors(n) \/ Crash(n)
           \/ StopFrontend(n) \/ AbortLanding(n) \/ TakeBackup(n)
  BY <1>1, ReadEffect, BarrierEffect, FailSharesEffect, FailPassEffect,
     LatchEffect, FloorsEffect, CrashEffect, StopEffect, AbortEffect, BackupEffect
  DEF Quiet
<1>2. CASE Act(Peer(n)) \/ UNCHANGED vars BY <1>2, Others DEF Rests
<1> QED BY <1>1, <1>2, Actor DEF Act, Changes

LEMMA OneActs ==
    ASSUME Typed, [Next]_vars, NEW n \in Node
    PROVE  Rests(n) \/ Rests(Peer(n))
<1>1. Peer(n) \in Node /\ Peer(Peer(n)) = n BY Peers
<1> QED BY <1>1, Actor, Others

\* A backup kept after a step was there before it, or is the database.
LEMMA Copies ==
    ASSUME Typed, [Next]_vars, NEW n \in Node, NEW D \in Kept(n)'
    PROVE  D = db'[n] \/ (backup[n] # NoBackup /\ D = backup[n])
<1>1. backup'[n] = backup[n] \/ backup'[n] = db'[n]
  <2>1. CASE TakeBackup(n) BY <2>1, BackupEffect
  <2>2. CASE \/ ReadShares(n) \/ ReadBarrier(n) \/ FailShares(n) \/ FailPass(n)
             \/ LatchWithoutPeer(n) \/ ReadFloors(n) \/ Crash(n)
             \/ StopFrontend(n) \/ AbortLanding(n)
    BY <2>2, ReadEffect, BarrierEffect, FailSharesEffect, FailPassEffect,
       LatchEffect, FloorsEffect, CrashEffect, StopEffect, AbortEffect
    DEF Quiet
  <2>3. CASE \/ DrawShare(n) \/ EndAppend(n) \/ BeginLanding(n)
             \/ CommitLanding(n) \/ RaiseSequence(n) \/ ApplyShares(n)
    BY <2>3, DrawEffect, AppendEffect, LandingEffect, CommitEffect,
       RaiseEffect, ApplyEffect
  <2>4. CASE \/ PullBlock(n) \/ RecoverShares(n) \/ RecoverBlocks(n) \/ Verify(n)
             \/ Restore(n)
    BY ZenonT(60), <2>4, PullEffect, RecoverEffect, BlocksEffect, VerifyEffect, RestoreEffect
  <2>5. CASE Act(Peer(n)) \/ UNCHANGED vars BY <2>5, Others DEF Rests
  <2> QED BY <2>1, <2>2, <2>3, <2>4, <2>5, Actor DEF Act
<1> QED BY <1>1 DEF Kept

LEMMA KeptFacts ==
    ASSUME Typed, NEW n \in Node
    PROVE  /\ db[n] \in Kept(n)
           /\ backup[n] # NoBackup => backup[n] \in Kept(n)
           /\ \A D \in Kept(n) : IsDatabase(D)
           /\ \A D \in Kept(n) : D = db[n] \/ (backup[n] # NoBackup /\ D = backup[n])
  BY Facts DEF FactsOf, Kept

\* A verified node misses nothing of its own log, and a node that is never
\* restored is verified.
LEMMA NothingMissing ==
    ASSUME Typed, Whole, NEW n \in Node, Good(n)
    PROVE  MissingShares(n) = {} /\ MissingBlocks(n) = {}
<1>1. /\ OwnShares(n, Peer(n)) \subseteq OwnShares(n, n)
      /\ OwnBlocks(n, Peer(n)) \subseteq OwnBlocks(n, n)
  BY DEF Whole, WholeAt
<1>2. OwnShares(n, n) \in SUBSET Share
  BY Facts DEF FactsOf, IsDatabase, OwnShares
<1>3. \A s \in OwnShares(n, n) : s.key <= Highest(KeysOf(OwnShares(n, n)), 0)
  BY <1>2, HighestKey
<1>4. Highest(KeysOf(OwnShares(n, n)), 0) \in Nat BY <1>2, HighestKey
<1>5. \A s \in OwnShares(n, n) : s.key \in Nat BY <1>2, ShareFacts
<1>6. MissingShares(n) = {} BY <1>1, <1>3, <1>4, <1>5 DEF MissingShares
<1> QED BY <1>1, <1>6 DEF MissingBlocks

LEMMA NeverRestored ==
    ASSUME SyncInv, NEW n \in Node, n \notin Restorable
    PROVE  /\ Good(n) /\ MissingShares(n) = {} /\ MissingBlocks(n) = {}
           /\ backup[n] = NoBackup
<1>1. Good(n) BY DEF SyncInv, Latched, LatchedAt
<1>2. backup[n] = NoBackup BY DEF SyncInv, Typed
<1> QED BY <1>1, <1>2, NothingMissing DEF SyncInv

LEMMA PeerKept ==
    ASSUME OneRestored, NEW n \in Node
    PROVE  n \notin Restorable \/ Peer(n) \notin Restorable
  BY Peers DEF OneRestored

\* What enters a node's shares and blocks, and what moves its cursors.
Landed(n, s) ==
    /\ open[n].append # NoAppend /\ s = open[n].append
    /\ open'[n].append = NoAppend
Pulled(n, s) == sync[n].stage = "apply" /\ s \in sync[n].rows
Recovered(n, s) ==
    /\ n \in Restorable /\ s \in MissingShares(n)
    /\ \A other \in MissingShares(n) : s.key <= other.key
NewShare(n, s) == Landed(n, s) \/ Pulled(n, s) \/ Recovered(n, s)

Committed(n, b) == b \in open[n].landings
PulledBlock(n, b) ==
    sync[n].stage = "blocks" /\ b \in Pending(n) /\ WindowCovered(n, b)
RecoveredBlock(n, b) == n \in Restorable /\ b \in MissingBlocks(n)
NewBlock(n, b) == Committed(n, b) \/ PulledBlock(n, b) \/ RecoveredBlock(n, b)

MarkMoves(n) ==
    /\ sync[n].stage = "apply" /\ db'[n].mark = sync[n].through
    /\ \A s \in sync[n].rows : s \in db'[n].shares \/ s.key \in db'[n].refused
BlockMarkMoves(n) ==
    /\ sync[n].stage = "blocks"
    /\ \/ Pending(n) = {} /\ db'[n].blockMark = sync[n].safe
       \/ \E b \in Pending(n) :
            /\ \A other \in Pending(n) : b.sync <= other.sync
            /\ b \in db'[n].blocks /\ db'[n].blockMark = b.sync

\* One copy of a node's database comes from another.
Moved(n, E, D) == E = db[n] /\ D = db'[n]
From(n, E, D) ==
    /\ E.shares \subseteq D.shares /\ E.blocks \subseteq D.blocks
    /\ E.refused \subseteq D.refused
    /\ E.seq <= D.seq /\ E.syncSeq <= D.syncSeq
    /\ E.mark <= D.mark /\ E.blockMark <= D.blockMark
    /\ \A s \in D.shares : s \in E.shares \/ (Moved(n, E, D) /\ NewShare(n, s))
    /\ \A b \in D.blocks : b \in E.blocks \/ (Moved(n, E, D) /\ NewBlock(n, b))
    /\ D.mark = E.mark \/ (Moved(n, E, D) /\ MarkMoves(n))
    /\ D.blockMark = E.blockMark \/ (Moved(n, E, D) /\ BlockMarkMoves(n))

LEMMA Gains ==
    ASSUME SyncInv, [Next]_vars, NEW n \in Node
    PROVE  \/ From(n, db[n], db'[n]) /\ db'[n].timeline = db[n].timeline
           \/ Restore(n) /\ backup[n] # NoBackup /\ From(n, backup[n], db'[n])
<1> USE DEF SyncInv
<1>1. IsDatabase(db[n]) /\ (backup[n] # NoBackup => IsDatabase(backup[n]))
  BY Facts DEF FactsOf
<1>2. CASE db'[n] = db[n] BY <1>1, <1>2 DEF From, Moved, IsDatabase
<1>3. CASE DrawShare(n) \/ BeginLanding(n) \/ RaiseSequence(n)
  <2>1. /\ db'[n].shares = db[n].shares /\ db'[n].blocks = db[n].blocks
        /\ db'[n].mark = db[n].mark /\ db'[n].blockMark = db[n].blockMark
        /\ db'[n].refused = db[n].refused /\ db'[n].timeline = db[n].timeline
    BY <1>3, DrawEffect, LandingEffect, RaiseEffect DEF SameLog, SameMarks, SameLine
  <2>2. db[n].seq <= db'[n].seq /\ db[n].syncSeq <= db'[n].syncSeq
    BY <1>1, <1>3, DrawEffect, LandingEffect, RaiseEffect DEF IsDatabase
  <2> QED BY <1>1, <2>1, <2>2 DEF From, Moved, IsDatabase
<1>4. CASE EndAppend(n)
  <2>1. /\ db'[n].seq = db[n].seq /\ db'[n].syncSeq = db[n].syncSeq
        /\ db'[n].blocks = db[n].blocks
        /\ db'[n].mark = db[n].mark /\ db'[n].blockMark = db[n].blockMark
        /\ db'[n].refused = db[n].refused /\ db'[n].timeline = db[n].timeline
    BY <1>4, AppendEffect DEF SameCounters, SameMarks, SameLine
  <2>2. \A s \in db'[n].shares : s \in db[n].shares \/ NewShare(n, s)
    BY <1>4, AppendEffect DEF NewShare, Landed
  <2>3. db[n].shares \subseteq db'[n].shares BY <1>4, AppendEffect
  <2> QED BY <1>1, <2>1, <2>2, <2>3 DEF From, Moved, IsDatabase
<1>5. CASE CommitLanding(n)
  <2>1. /\ db'[n].seq = db[n].seq /\ db'[n].syncSeq = db[n].syncSeq
        /\ db'[n].shares = db[n].shares
        /\ db'[n].mark = db[n].mark /\ db'[n].blockMark = db[n].blockMark
        /\ db'[n].refused = db[n].refused /\ db'[n].timeline = db[n].timeline
    BY <1>5, CommitEffect DEF SameCounters, SameMarks, SameLine
  <2>2. /\ \A b \in db'[n].blocks : b \in db[n].blocks \/ NewBlock(n, b)
        /\ db[n].blocks \subseteq db'[n].blocks
    BY <1>5, CommitEffect DEF NewBlock, Committed
  <2> QED BY <1>1, <2>1, <2>2 DEF From, Moved, IsDatabase
<1>6. CASE ApplyShares(n)
  <2>1. /\ db'[n].seq = db[n].seq /\ db'[n].syncSeq = db[n].syncSeq
        /\ db'[n].blocks = db[n].blocks /\ db'[n].blockMark = db[n].blockMark
        /\ db'[n].timeline = db[n].timeline /\ sync[n].stage = "apply"
    BY <1>6, ApplyEffect DEF SameCounters, SameLine, Goes
  <2>2. /\ \A s \in db'[n].shares : s \in db[n].shares \/ NewShare(n, s)
        /\ db[n].shares \subseteq db'[n].shares
        /\ db[n].refused \subseteq db'[n].refused
    BY <1>6, <2>1, ApplyEffect DEF NewShare, Pulled
  <2>3. \A s \in sync[n].rows : s \in db'[n].shares \/ s.key \in db'[n].refused
    BY <1>6, ApplyEffect DEF KeysOf
  <2>4. db'[n].mark = IF db[n].mark <= sync[n].through THEN sync[n].through
                      ELSE db[n].mark
    BY <1>6, ApplyEffect
  <2>5. db'[n].mark = db[n].mark \/ MarkMoves(n) BY <2>1, <2>3, <2>4 DEF MarkMoves
  <2>6. db[n].mark <= db'[n].mark
    BY <1>1, <2>4 DEF IsDatabase
  <2> QED BY <1>1, <2>1, <2>2, <2>5, <2>6 DEF From, Moved, IsDatabase
<1>7. CASE PullBlock(n)
  <2>1. /\ db'[n].seq = db[n].seq /\ db'[n].syncSeq = db[n].syncSeq
        /\ db'[n].shares = db[n].shares /\ db'[n].mark = db[n].mark
        /\ db'[n].refused = db[n].refused /\ db'[n].timeline = db[n].timeline
        /\ sync[n].stage = "blocks"
    BY <1>7, PullEffect DEF SameCounters, SameLine, Goes
  <2>2. /\ \A b \in db'[n].blocks : b \in db[n].blocks \/ NewBlock(n, b)
        /\ db[n].blocks \subseteq db'[n].blocks
    BY <1>7, <2>1, PullEffect DEF NewBlock, PulledBlock
  <2>3. db'[n].blockMark = db[n].blockMark \/ BlockMarkMoves(n)
    <3>1. CASE db'[n].blockMark = db[n].blockMark BY <3>1
    <3>2. CASE /\ Pending(n) = {}
               /\ db'[n].blockMark = IF db[n].blockMark <= sync[n].safe
                                       THEN sync[n].safe ELSE db[n].blockMark
      BY <2>1, <3>2 DEF BlockMarkMoves
    <3>3. CASE \E b \in Pending(n) :
                 /\ \A other \in Pending(n) : b.sync <= other.sync
                 /\ db'[n].blocks = db[n].blocks \cup {b}
                 /\ db'[n].blockMark = b.sync
      BY <2>1, <3>3 DEF BlockMarkMoves
    <3> QED BY <1>7, <3>1, <3>2, <3>3, PullEffect
  <2>4. db[n].blockMark <= db'[n].blockMark
    <3>1. \A b \in Pending(n) : db[n].blockMark < b.sync BY DEF Pending
    <3>2. \A b \in Pending(n) : b.sync \in Nat
      <4>1. IsDatabase(db[Peer(n)]) BY Facts, Peers DEF FactsOf
      <4> QED BY <4>1, BlockFacts DEF Pending, OwnBlocks, IsDatabase
    <3>3. sync[n].safe \in Int BY Facts DEF FactsOf
    <3> QED BY <1>1, <1>7, <3>1, <3>2, <3>3, PullEffect DEF IsDatabase
  <2> QED BY <1>1, <2>1, <2>2, <2>3, <2>4 DEF From, Moved, IsDatabase
<1>8. CASE RecoverShares(n)
  <2>1. /\ db'[n].syncSeq = db[n].syncSeq /\ db'[n].blocks = db[n].blocks
        /\ db'[n].mark = db[n].mark /\ db'[n].blockMark = db[n].blockMark
        /\ db'[n].refused = db[n].refused /\ db'[n].timeline = db[n].timeline
    BY <1>8, RecoverEffect DEF SameMarks
  <2>2. CASE db'[n] = db[n] BY <1>2, <2>2
  <2>3. ASSUME NEW s \in MissingShares(n),
               \A other \in MissingShares(n) : s.key <= other.key,
               db'[n].shares = db[n].shares \cup ({s} \ Refused(n, {s})),
               db'[n].seq = Raised(n, s.key)
        PROVE  From(n, db[n], db'[n])
    <3>1. n \in Restorable BY <2>3, NeverRestored
    <3>2. /\ \A t \in db'[n].shares : t \in db[n].shares \/ NewShare(n, t)
          /\ db[n].shares \subseteq db'[n].shares
      BY <2>3, <3>1 DEF NewShare, Recovered
    <3>3. s.key \in Nat /\ s.key <= MaxKey
      <4>1. IsDatabase(db[Peer(n)]) BY Facts, Peers DEF FactsOf
      <4>2. s \in Share BY <4>1 DEF MissingShares, OwnShares, IsDatabase
      <4> QED BY <4>2, ShareFacts
    <3>4. db[n].seq <= db'[n].seq BY <2>3, <3>3, RaisedFacts
    <3> QED BY <1>1, <2>1, <3>2, <3>4 DEF From, Moved, IsDatabase
  <2> QED BY <1>8, <2>1, <2>2, <2>3, RecoverEffect
<1>9. CASE RecoverBlocks(n)
  <2>1. /\ db'[n].seq = db[n].seq /\ db'[n].syncSeq = db[n].syncSeq
        /\ db'[n].shares = db[n].shares
        /\ db'[n].mark = db[n].mark /\ db'[n].blockMark = db[n].blockMark
        /\ db'[n].refused = db[n].refused /\ db'[n].timeline = db[n].timeline
    BY <1>9, BlocksEffect DEF SameCounters, SameMarks
  <2>2. n \notin Restorable => MissingBlocks(n) = {} BY NeverRestored
  <2>3. /\ \A b \in db'[n].blocks : b \in db[n].blocks \/ NewBlock(n, b)
        /\ db[n].blocks \subseteq db'[n].blocks
    BY <1>9, <2>2, BlocksEffect DEF NewBlock, RecoveredBlock
  <2> QED BY <1>1, <2>1, <2>3 DEF From, Moved, IsDatabase
<1>10. CASE Verify(n)
  <2>1. /\ db'[n].shares = db[n].shares /\ db'[n].blocks = db[n].blocks
        /\ db'[n].mark = db[n].mark /\ db'[n].blockMark = db[n].blockMark
        /\ db'[n].refused = db[n].refused /\ db'[n].timeline = db[n].timeline
    BY <1>10, VerifyEffect DEF SameLog, SameMarks
  <2>2. db[n].syncSeq <= db'[n].syncSeq
    BY <1>1, <1>10, VerifyEffect, Facts DEF FactsOf, IsDatabase
  <2>3. db[n].seq <= db'[n].seq
    <3> DEFINE k == Highest(KeysOf(db[n].shares), sync[n].through)
    <3>1. /\ db[n].shares \in SUBSET Share /\ sync[n].through \in Nat
          /\ sync[n].through <= MaxKey /\ sync[n].through <= MaxKey + 1
      BY Facts DEF FactsOf, IsDatabase
    <3>2. k \in Nat /\ (k = sync[n].through \/ \E s \in db[n].shares : s.key = k)
      BY <3>1, HighestKey
    <3>3. k <= MaxKey
      <4>1. \A s \in db[n].shares : s.key <= MaxKey BY <3>1, ShareFacts
      <4> QED BY <3>1, <3>2, <4>1
    <3>4. db'[n].seq = Raised(n, k) BY <1>10, VerifyEffect
    <3> HIDE DEF k
    <3> QED BY <3>2, <3>3, <3>4, RaisedFacts
  <2> QED BY <1>1, <2>1, <2>2, <2>3 DEF From, Moved, IsDatabase
<1>11. CASE Restore(n)
  <2>1. /\ backup[n] # NoBackup /\ backup[n] \in Database
        /\ db'[n] = [backup[n] EXCEPT !.timeline = db[n].timeline + 1]
        /\ backup'[n] = backup[n]
    BY <1>11, RestoreEffect
  <2>2. From(n, backup[n], db'[n])
    <3>1. /\ db'[n].shares = backup[n].shares /\ db'[n].blocks = backup[n].blocks
          /\ db'[n].refused = backup[n].refused /\ db'[n].seq = backup[n].seq
          /\ db'[n].syncSeq = backup[n].syncSeq /\ db'[n].mark = backup[n].mark
          /\ db'[n].blockMark = backup[n].blockMark
      BY <2>1 DEF Database
    <3> QED BY <1>1, <2>1, <3>1 DEF From, Moved, IsDatabase
  <2> QED BY <1>11, <2>1, <2>2
<1> QED
  BY <1>2, <1>3, <1>4, <1>5, <1>6, <1>7, <1>8, <1>9, <1>10, <1>11, Changed
  DEF Changes

-----------------------------------------------------------------------------
(* The parts of the invariant: latches, copies and keys.                   *)

LEMMA LatchedStep ==
    ASSUME SyncInv, OneRestored, [Next]_vars
    PROVE  Latched'
<1> SUFFICES ASSUME NEW n \in Node PROVE LatchedAt(n)' BY DEF Latched
<1> USE DEF Serving, CaughtUp, SameServer, Good, NoTimeline, Pulling, Recovering
<1>1. Typed /\ Whole /\ LatchedAt(n) BY DEF SyncInv, Latched
<1>2. /\ db[n].timeline \in Nat /\ db[n].verified \in Int /\ sync[n].latch \in Int
      /\ backup[n] # NoBackup =>
           backup[n].timeline \in Nat /\ backup[n].verified \in Int
  BY <1>1, Facts DEF FactsOf, IsDatabase
<1>3. CASE DrawShare(n) \/ BeginLanding(n)
  <2>1. /\ sync'[n] = sync[n] /\ backup'[n] = backup[n] /\ Writes(n)
        /\ db'[n].timeline = db[n].timeline /\ db'[n].verified = db[n].verified
    BY <1>1, <1>3, DrawEffect, LandingEffect DEF SameLine
  <2>2. Serving(n) BY <2>1 DEF Writes, OneRestored
  <2> QED BY <1>1, <2>1, <2>2 DEF LatchedAt
<1>4. CASE EndAppend(n) \/ CommitLanding(n) \/ AbortLanding(n)
  <2>1. /\ sync'[n] = sync[n] /\ backup'[n] = backup[n]
        /\ db'[n].timeline = db[n].timeline /\ db'[n].verified = db[n].verified
        /\ open'[n].append # NoAppend \/ open'[n].landings # {} =>
             open[n].append # NoAppend \/ open[n].landings # {}
    BY <1>1, <1>4, AppendEffect, CommitEffect, AbortEffect DEF SameLine, Quiet
  <2> QED BY <1>1, <2>1 DEF LatchedAt
<1>5. CASE \/ ReadShares(n) \/ RaiseSequence(n) \/ ApplyShares(n) \/ ReadBarrier(n)
           \/ PullBlock(n) \/ FailShares(n) \/ FailPass(n)
  <2>1. /\ open'[n] = open[n] /\ backup'[n] = backup[n]
        /\ sync'[n].latch = sync[n].latch
        /\ db'[n].timeline = db[n].timeline /\ db'[n].verified = db[n].verified
    BY ZenonT(60), <1>1, <1>5, ReadEffect, RaiseEffect, ApplyEffect, BarrierEffect, PullEffect,
       FailSharesEffect, FailPassEffect
    DEF SameLine, Quiet, SameLatch
  <2>2. sync'[n].stage \in Pulling \cup {"idle"}
    BY <1>1, <1>5, ReadEffect, RaiseEffect, ApplyEffect, BarrierEffect, PullEffect,
       FailSharesEffect, FailPassEffect
    DEF Goes
  <2>3. sync'[n].stage # "idle" => Serving(n)
    <3>1. ReadShares(n) => Serving(n) BY <1>1, ReadEffect
    <3>2. RaiseSequence(n) \/ ApplyShares(n) \/ ReadBarrier(n) \/ PullBlock(n)
            \/ FailShares(n) => sync[n].stage \in Pulling
      BY DEF RaiseSequence, ApplyShares, ReadBarrier, PullBlock, FailShares
    <3>3. FailPass(n) => sync'[n].stage = "idle" BY <1>1, FailPassEffect
    <3> QED BY <1>1, <1>5, <3>1, <3>2, <3>3 DEF LatchedAt
  <2> QED BY <1>1, <2>1, <2>2, <2>3 DEF LatchedAt
<1>6. CASE LatchWithoutPeer(n)
  <2>1. /\ open'[n] = open[n] /\ backup'[n] = backup[n] /\ db'[n] = db[n]
        /\ sync'[n].latch = db[n].timeline /\ sync'[n].stage = "idle" /\ Good(n)
    BY <1>1, <1>6, LatchEffect DEF Quiet, Goes
  <2> QED BY <1>1, <1>2, <2>1 DEF LatchedAt
<1>7. CASE RecoverShares(n) \/ RecoverBlocks(n)
  <2>1. /\ open'[n] = open[n] /\ backup'[n] = backup[n]
        /\ sync'[n].latch = sync[n].latch /\ db'[n].timeline = db[n].timeline
        /\ sync'[n].stage \in Recovering \cup {"idle"}
    BY <1>1, <1>7, RecoverEffect, BlocksEffect DEF SameLatch, Goes
  <2>2. ~CaughtUp(n)
    BY <1>1, <1>7, RecoverEffect DEF RecoverBlocks, LatchedAt
  <2>3. \/ db'[n].verified = db[n].verified
        \/ db'[n].verified = NoTimeline /\ n \in Restorable
    <3>1. n \notin Restorable => MissingShares(n) = {} /\ MissingBlocks(n) = {}
      BY NeverRestored
    <3>2. CASE RecoverShares(n) BY <1>1, <3>1, <3>2, RecoverEffect
    <3>3. CASE RecoverBlocks(n) BY <1>1, <3>1, <3>3, BlocksEffect
    <3> QED BY <1>7, <3>2, <3>3
  <2> QED BY <1>1, <1>2, <2>1, <2>2, <2>3 DEF LatchedAt
<1>8. CASE ReadFloors(n)
  <2>1. /\ open'[n] = open[n] /\ backup'[n] = backup[n] /\ db'[n] = db[n]
        /\ sync'[n].latch = sync[n].latch /\ sync'[n].stage = "verify"
        /\ sync[n].stage = "floors"
    BY <1>1, <1>8, FloorsEffect DEF Quiet, Goes, SameLatch
  <2> QED BY <1>1, <2>1 DEF LatchedAt
<1>9. CASE Verify(n)
  <2>1. /\ open'[n] = open[n] /\ backup'[n] = backup[n]
        /\ db'[n].timeline = db[n].timeline /\ db'[n].verified = db[n].timeline
        /\ sync'[n].latch = db[n].timeline /\ sync'[n].stage = "idle"
    BY <1>1, <1>9, VerifyEffect
  <2> QED BY <1>1, <1>2, <2>1 DEF LatchedAt
<1>10. CASE Crash(n) \/ StopFrontend(n)
  <2>1. /\ open'[n].append = NoAppend /\ open'[n].landings = {}
        /\ backup'[n] = backup[n] /\ db'[n] = db[n] /\ sync'[n] = FreshSync
    BY <1>1, <1>10, CrashEffect, StopEffect DEF Quiet
  <2>2. sync'[n].latch = NoTimeline /\ sync'[n].stage = "idle" BY <2>1 DEF FreshSync
  <2> QED BY <1>1, <1>2, <2>1, <2>2 DEF LatchedAt
<1>11. CASE TakeBackup(n)
  <2>1. /\ open'[n] = open[n] /\ backup'[n] = db[n] /\ db'[n] = db[n]
        /\ sync'[n] = sync[n]
    BY <1>1, <1>11, BackupEffect
  <2> QED BY <1>1, <1>2, <2>1 DEF LatchedAt
<1>12. CASE Restore(n)
  <2>1. /\ backup'[n] = backup[n] /\ backup[n] # NoBackup /\ n \in Restorable
        /\ open'[n].append = NoAppend /\ open'[n].landings = {}
        /\ sync'[n] = [FreshSync EXCEPT !.latch = sync[n].latch]
        /\ db'[n] = [backup[n] EXCEPT !.timeline = db[n].timeline + 1]
        /\ backup[n] \in Database
    BY <1>1, <1>12, RestoreEffect
  <2>2. /\ sync'[n].latch = sync[n].latch /\ sync'[n].stage = "idle"
        /\ db'[n].timeline = db[n].timeline + 1
        /\ db'[n].verified = backup[n].verified
    BY <2>1 DEF FreshSync, Database
  <2> QED BY <1>1, <1>2, <2>1, <2>2 DEF LatchedAt
<1>13. CASE Act(Peer(n)) \/ UNCHANGED vars
  <2>1. /\ db'[n] = db[n] /\ open'[n] = open[n] /\ backup'[n] = backup[n]
        /\ sync'[n] = sync[n] \/ Restore(Peer(n))
    BY <1>1, <1>13, Others DEF Rests
  <2>2. /\ sync'[n].latch = sync[n].latch
        /\ sync'[n].stage = sync[n].stage \/ sync'[n].stage = "idle"
    <3> DEFINE p == Peer(n)
    <3>1. p \in Node /\ Peer(p) = n BY Peers
    <3>2. sync'[n] = sync[n] \/ Restore(p) BY <2>1
    <3> HIDE DEF p
    <3>3. ASSUME Restore(p)
          PROVE  /\ SameLatch(Peer(p))
                 /\ sync'[Peer(p)].stage \in {sync[Peer(p)].stage, "idle"}
      BY <1>1, <3>1, <3>3, RestoreEffect
    <3> QED BY <3>1, <3>2, <3>3 DEF SameLatch
  <2> QED BY <1>1, <2>1, <2>2 DEF LatchedAt
<1> QED
  BY <1>3, <1>4, <1>5, <1>6, <1>7, <1>8, <1>9, <1>10, <1>11, <1>12, <1>13, Actor
  DEF Act

LEMMA BehindStep ==
    ASSUME SyncInv, [Next]_vars
    PROVE  Behind'
<1> SUFFICES ASSUME NEW n \in Node, NEW D \in Kept(n)' PROVE BehindAt(n, D)'
  BY DEF Behind
<1>1. Typed /\ Behind BY DEF SyncInv
<1>2. IsDatabase(db'[n])
  <2>1. db'[n] \in Database BY <1>1, DbTyped
  <2> QED BY <2>1, DatabaseFacts
<1>3. CASE D = db'[n] BY <1>2, <1>3 DEF BehindAt, IsDatabase
<1>4. CASE backup[n] # NoBackup /\ D = backup[n]
  <2>1. IsDatabase(D) /\ IsDatabase(db[n]) /\ BehindAt(n, D)
    BY <1>1, <1>4, KeptFacts DEF Behind
  <2>2. From(n, db[n], db'[n]) \/ From(n, D, db'[n]) BY <1>4, Gains
  <2> QED BY <1>2, <2>1, <2>2 DEF BehindAt, From, IsDatabase
<1> QED BY <1>1, <1>3, <1>4, Copies

LEMMA KeyedStep ==
    ASSUME SyncInv, [Next]_vars
    PROVE  Keyed'
<1> SUFFICES ASSUME NEW n \in Node, NEW D \in Kept(n)' PROVE KeyedIn(D)
  BY DEF Keyed, KeyedIn
<1> DEFINE p == Peer(n)
<1>1. /\ Typed /\ KeyedIn(db[n]) /\ IsDatabase(db[n]) /\ IsDatabase(db[p])
      /\ KeyedIn(db[p]) /\ RaisedAt(n) /\ DrawnAt(n) /\ BatchAt(n)
  <2>1. p \in Node BY Peers
  <2> QED BY <2>1, KeptFacts DEF SyncInv, Keyed, RaisedFirst, Drawn, Batch
<1>2. CASE backup[n] # NoBackup /\ D = backup[n]
  BY <1>1, <1>2, KeptFacts DEF SyncInv, Keyed
<1>3. CASE D = db'[n]
  <2>1. /\ \A s \in db[n].shares : s.key <= db[n].seq
        /\ \A s \in db[n].shares : \A t \in db[n].shares : s.key = t.key => s = t
        /\ \A s \in db[p].shares : \A t \in db[p].shares : s.key = t.key => s = t
        /\ \A s \in db[n].shares : s.key \in Nat
        /\ db[n].seq \in Nat
    BY <1>1, ShareFacts DEF KeyedIn, IsDatabase
  <2>2. CASE EndAppend(n)
    <3>1. /\ open[n].append # NoAppend /\ open[n].append \in Share
          /\ db'[n].seq = db[n].seq
          /\ \/ db'[n].shares = db[n].shares
             \/ db'[n].shares = db[n].shares \cup {open[n].append}
      BY <1>1, <2>2, AppendEffect DEF SameCounters
    <3>2. /\ open[n].append.key <= db[n].seq /\ open[n].append.key \in Nat
          /\ \A s \in db[n].shares : s.key < open[n].append.key
      BY <1>1, <3>1, ShareFacts DEF DrawnAt
    <3> QED BY <1>3, <2>1, <3>1, <3>2 DEF KeyedIn
  <2>3. CASE ApplyShares(n)
    <3> DEFINE R == sync[n].rows \ Refused(n, sync[n].rows)
    <3>1. db'[n].shares = db[n].shares \cup R /\ db'[n].seq = db[n].seq
          /\ sync[n].stage = "apply"
      BY <1>1, <2>3, ApplyEffect DEF SameCounters, Goes
    <3>2. sync[n].rows \subseteq db[p].shares
      BY <1>1, <3>1 DEF BatchAt, OwnShares
    <3>3. \A s \in sync[n].rows : s.key <= db[n].seq BY <1>1, <3>1 DEF RaisedAt
    <3>4. \A s \in R : \A held \in db[n].shares : held.key = s.key => held = s
      BY DEF Refused
    <3>5. R \subseteq sync[n].rows OBVIOUS
    <3> HIDE DEF R
    <3> QED BY <1>3, <2>1, <3>1, <3>2, <3>3, <3>4, <3>5 DEF KeyedIn
  <2>4. CASE RecoverShares(n)
    <3>1. CASE db'[n] = db[n] BY <1>1, <1>3, <3>1
    <3>2. ASSUME NEW s \in MissingShares(n),
                 db'[n].shares = db[n].shares \cup ({s} \ Refused(n, {s})),
                 db'[n].seq = Raised(n, s.key)
          PROVE  KeyedIn(D)
      <4>1. s \in Share BY <1>1 DEF MissingShares, OwnShares, IsDatabase
      <4>2. s.key \in Nat /\ s.key <= MaxKey BY <4>1, ShareFacts
      <4>3. /\ db'[n].seq \in Nat /\ s.key <= db'[n].seq /\ db[n].seq <= db'[n].seq
        BY <1>1, <3>2, <4>2, RaisedFacts
      <4>4. CASE s \in Refused(n, {s})
        <5>1. db'[n].shares = db[n].shares BY <3>2, <4>4
        <5> QED BY <1>3, <2>1, <4>3, <5>1 DEF KeyedIn
      <4>5. CASE s \notin Refused(n, {s})
        <5>1. \A held \in db[n].shares : held.key = s.key => held = s
          BY <4>5 DEF Refused
        <5>2. db'[n].shares = db[n].shares \cup {s} BY <3>2, <4>5
        <5> QED BY <1>3, <2>1, <4>2, <4>3, <5>1, <5>2 DEF KeyedIn
      <4> QED BY <4>4, <4>5
    <3> QED BY <1>1, <2>4, <3>1, <3>2, RecoverEffect
  <2>5. CASE Restore(n)
    <3>1. /\ backup[n] # NoBackup /\ backup[n] \in Database
          /\ db'[n] = [backup[n] EXCEPT !.timeline = db[n].timeline + 1]
      BY <1>1, <2>5, RestoreEffect
    <3>2. KeyedIn(backup[n]) BY <1>1, <3>1, KeptFacts DEF SyncInv, Keyed
    <3>3. db'[n].shares = backup[n].shares /\ db'[n].seq = backup[n].seq
      BY <3>1 DEF Database
    <3> QED BY <1>3, <3>2, <3>3 DEF KeyedIn
  <2>6. CASE db'[n].shares = db[n].shares /\ db[n].seq <= db'[n].seq
    <3>1. db'[n].seq \in Nat
      <4>1. db'[n] \in Database BY <1>1, DbTyped
      <4> QED BY <4>1, DatabaseFacts DEF IsDatabase
    <3> QED BY <1>3, <2>1, <2>6, <3>1 DEF KeyedIn
  <2>7. CASE \/ DrawShare(n) \/ BeginLanding(n) \/ CommitLanding(n)
             \/ RaiseSequence(n) \/ PullBlock(n) \/ RecoverBlocks(n) \/ Verify(n)
    <3>2. db'[n].shares = db[n].shares
      BY <1>1, <2>7, DrawEffect, LandingEffect, CommitEffect, RaiseEffect,
         PullEffect, BlocksEffect, VerifyEffect DEF SameLog
    <3>3. CASE Restore(n) BY <2>5, <3>3
    <3>4. CASE From(n, db[n], db'[n]) BY <2>6, <3>2, <3>4 DEF From
    <3> QED BY <3>3, <3>4, Gains
  <2>8. CASE db'[n] = db[n] BY <1>1, <1>3, <2>8
  <2> QED BY <1>1, <2>2, <2>3, <2>4, <2>5, <2>7, <2>8, Changed DEF Changes
<1> QED BY <1>1, <1>2, <1>3, Copies

LEMMA Sources ==
    ASSUME SyncInv, [Next]_vars, NEW n \in Node, NEW D \in Kept(n)'
    PROVE  \E E \in Kept(n) : From(n, E, D)
<1>1. Typed BY DEF SyncInv
<1>2. CASE D = db'[n] BY <1>1, <1>2, Gains, KeptFacts
<1>3. CASE backup[n] # NoBackup /\ D = backup[n]
  <2>1. D \in Kept(n) /\ IsDatabase(D) BY <1>1, <1>3, KeptFacts
  <2>2. From(n, D, D) BY <2>1 DEF From, IsDatabase
  <2> QED BY <2>1, <2>2
<1> QED BY <1>1, <1>2, <1>3, Copies

\* A batch in flight is the one before the step, with neither node restored,
\* unless the step reads or raises.
LEMMA BatchHeld ==
    ASSUME SyncInv, [Next]_vars, NEW n \in Node,
           sync'[n].stage \in {"raise", "apply"}
    PROVE  /\ \/ ReadShares(n) \/ RaiseSequence(n)
              \/ sync'[n] = sync[n] /\ db'[n].mark = db[n].mark
           /\ From(n, db[n], db'[n])
           /\ From(Peer(n), db[Peer(n)], db'[Peer(n)])
<1>1. Typed BY DEF SyncInv
<1> DEFINE p == Peer(n)
<1>2. p \in Node /\ Peer(p) = n BY Peers
<1>3. ~Restore(n)
  <2>1. Restore(n) => sync'[n].stage = "idle" BY <1>1, RestoreEffect DEF FreshSync
  <2> QED BY <2>1
<1>4. ~Restore(p)
  <2> HIDE DEF p
  <2>1. ASSUME Restore(p) PROVE FALSE
    <3>1. /\ sync'[n].stage = IF sync[n].stage \in {"verify", "diverged"}
                               THEN sync[n].stage ELSE "idle"
      BY <1>1, <1>2, <2>1, RestoreEffect
    <3> QED BY <3>1
  <2> QED BY <2>1
<1>5. From(n, db[n], db'[n]) /\ From(p, db[p], db'[p])
  BY <1>2, <1>3, <1>4, Gains
<1> HIDE DEF p
<1>6. CASE \/ DrawShare(n) \/ EndAppend(n) \/ BeginLanding(n) \/ CommitLanding(n)
           \/ AbortLanding(n) \/ TakeBackup(n)
  <2>1. sync'[n] = sync[n] /\ db'[n].mark = db[n].mark
    BY <1>1, <1>6, DrawEffect, AppendEffect, LandingEffect, CommitEffect,
       AbortEffect, BackupEffect DEF SameMarks, Quiet
  <2> QED BY <1>5, <2>1 DEF p
<1>7. CASE \/ ApplyShares(n) \/ ReadBarrier(n) \/ PullBlock(n) \/ FailShares(n)
           \/ FailPass(n) \/ LatchWithoutPeer(n) \/ RecoverShares(n)
           \/ RecoverBlocks(n)
  <2>1. sync'[n].stage \notin {"raise", "apply"}
    BY <1>1, <1>7, ApplyEffect, BarrierEffect, PullEffect, FailSharesEffect,
       FailPassEffect, LatchEffect, RecoverEffect, BlocksEffect DEF Goes
  <2> QED BY <2>1
<1>8. CASE ReadFloors(n) \/ Verify(n) \/ Crash(n) \/ StopFrontend(n)
  <2>1. sync'[n].stage \notin {"raise", "apply"}
    <3>1. ReadFloors(n) => sync'[n].stage = "verify" BY <1>1, FloorsEffect DEF Goes
    <3>2. Verify(n) => sync'[n].stage = "idle" BY <1>1, VerifyEffect
    <3>3. FreshSync.stage = "idle" BY DEF FreshSync
    <3>4. Crash(n) \/ StopFrontend(n) => sync'[n] = FreshSync
      BY <1>1, CrashEffect, StopEffect
    <3> QED BY <1>8, <3>1, <3>2, <3>3, <3>4
  <2> QED BY <2>1
<1>9. CASE Act(p) \/ UNCHANGED vars
  <2>1. sync'[n] = sync[n] /\ db'[n] = db[n]
    BY <1>1, <1>4, <1>9, Others DEF Rests, p
  <2> QED BY <1>5, <2>1 DEF p
<1>10. CASE ReadShares(n) \/ RaiseSequence(n) BY <1>5, <1>10 DEF p
<1> QED BY <1>3, <1>6, <1>7, <1>8, <1>9, <1>10, Actor DEF Act, p

LEMMA RaisedStep ==
    ASSUME SyncInv, [Next]_vars
    PROVE  RaisedFirst'
<1> SUFFICES ASSUME NEW n \in Node, sync'[n].stage = "apply",
                    NEW s \in sync'[n].rows
             PROVE  s.key <= db'[n].seq
  BY DEF RaisedFirst, RaisedAt
<1>1. Typed /\ RaisedAt(n) /\ FactsOf(n) BY Facts DEF SyncInv, RaisedFirst
<1>2. CASE ReadShares(n) BY <1>1, <1>2, ReadEffect DEF Goes
<1>3. CASE RaiseSequence(n) BY <1>1, <1>3, RaiseEffect DEF SameBatch
<1>4. CASE sync'[n] = sync[n]
  <2>1. s.key <= db[n].seq /\ s \in Share BY <1>1, <1>4 DEF RaisedAt, FactsOf
  <2>2. db[n].seq <= db'[n].seq BY BatchHeld DEF From
  <2>3. db'[n].seq \in Nat
    <3>1. db'[n] \in Database BY <1>1, DbTyped
    <3> QED BY <3>1, DatabaseFacts DEF IsDatabase
  <2>4. s.key \in Nat /\ db[n].seq \in Nat
    BY <1>1, <2>1, ShareFacts DEF FactsOf, IsDatabase
  <2> QED BY <2>1, <2>2, <2>3, <2>4
<1> QED BY <1>2, <1>3, <1>4, BatchHeld

LEMMA BatchStep ==
    ASSUME SyncInv, [Next]_vars
    PROVE  Batch'
<1> SUFFICES ASSUME NEW n \in Node, sync'[n].stage \in {"raise", "apply"}
             PROVE  BatchAt(n)'
  BY DEF Batch, BatchAt
<1> DEFINE p == Peer(n)
<1>1. /\ p \in Node /\ p # n /\ Peer(p) = n
      /\ Typed /\ BatchAt(n) /\ BatchAt(p) /\ DrawnAt(p) /\ FactsOf(n) /\ FactsOf(p)
  BY Facts, Peers DEF SyncInv, Batch, Drawn
<1> HIDE DEF p
<1>2. CASE ReadShares(n)
  <2> DEFINE t == Highest(Scanned(n), db[n].mark)
  <2>1. /\ db'[n] = db[n] /\ db'[p] = db[p] /\ sync'[n].through = t
        /\ sync'[n].rows = {s \in OwnShares(p, p) :
                              s.key > db[n].mark /\ s.key <= t}
    BY <1>1, <1>2, ReadEffect DEF Quiet, Still, p
  <2>2. t <= db[n].mark \/ \E s \in db[p].shares : t <= s.key
    <3>1. Scanned(n) \subseteq KeysOf(db[p].shares) BY DEF Scanned, p
    <3>2. db[p].shares \in SUBSET Share /\ db[n].mark \in 0..MaxKey
      BY <1>1 DEF FactsOf, IsDatabase
    <3>3. Scanned(n) \in SUBSET (0..MaxKey) BY <3>1, <3>2, KeyFacts
    <3>4. t \in Scanned(n) \cup {db[n].mark} BY <3>2, <3>3, HighestIn
    <3>5. CASE t = db[n].mark BY <3>2, <3>5
    <3>6. CASE t \in Scanned(n)
      <4>1. PICK s \in db[p].shares : s.key = t BY <3>1, <3>2, <3>6, KeyFacts
      <4>2. t \in Nat BY <3>3, <3>6
      <4> QED BY <4>1, <4>2
    <3> QED BY <3>4, <3>5, <3>6
  <2>3. OwnShares(p, p)' = OwnShares(p, p) BY <2>1 DEF OwnShares
  <2>4. \A s \in OwnShares(p, p) : db[n].mark < s.key /\ s.key <= t =>
           s \in sync'[n].rows
    <3>1. \A s \in OwnShares(p, p) : s.key \in Nat
      BY <1>1, ShareFacts DEF FactsOf, IsDatabase, OwnShares
    <3>2. db[n].mark \in Nat BY <1>1 DEF FactsOf, IsDatabase
    <3> QED BY <2>1, <3>1, <3>2
  <2> HIDE DEF t
  <2> QED BY <2>1, <2>2, <2>3, <2>4 DEF BatchAt, p
<1>3. CASE RaiseSequence(n)
  <2>1. /\ db'[p] = db[p] /\ db'[n].shares = db[n].shares
        /\ db'[n].mark = db[n].mark /\ sync'[n].rows = sync[n].rows
        /\ sync'[n].through = sync[n].through /\ sync[n].stage = "raise"
    BY <1>1, <1>3, RaiseEffect DEF Still, SameLog, SameMarks, SameBatch, Goes, p
  <2>2. OwnShares(p, p)' = OwnShares(p, p) BY <2>1 DEF OwnShares
  <2> QED BY <1>1, <2>1, <2>2 DEF BatchAt, p
<1>4. CASE sync'[n] = sync[n] /\ db'[n].mark = db[n].mark
  <2>1. From(n, db[n], db'[n]) /\ From(p, db[p], db'[p]) BY BatchHeld DEF p
  <2>2. /\ sync[n].rows \subseteq OwnShares(p, p)
        /\ \A s \in OwnShares(p, p) :
             db[n].mark < s.key /\ s.key <= sync[n].through =>
                s \in sync[n].rows \/ s \in db[n].shares
        /\ sync[n].through <= db[n].mark
             \/ \E s \in db[p].shares : sync[n].through <= s.key
    BY <1>1, <1>4 DEF BatchAt, p
  <2>3. db[n].shares \subseteq db'[n].shares /\ db[p].shares \subseteq db'[p].shares
    BY <2>1 DEF From
  <2>4. OwnShares(p, p) \subseteq OwnShares(p, p)' BY <2>3 DEF OwnShares
  <2>5. ASSUME NEW s \in OwnShares(p, p)',
               db[n].mark < s.key, s.key <= sync[n].through
        PROVE  s \in sync[n].rows \/ s \in db'[n].shares
    <3>1. Origin(s.key) = p /\ s \in db'[p].shares BY DEF OwnShares
    <3>2. CASE s \in db[p].shares
      <4>1. s \in OwnShares(p, p) BY <3>1, <3>2 DEF OwnShares
      <4> QED BY <2>2, <2>3, <2>5, <4>1
    <3>3. CASE Landed(p, s)
      <4>1. sync[n].through < s.key
        BY <1>1, <1>4, <3>3 DEF Landed, DrawnAt
      <4>2. s \in Share BY <1>1, <3>3 DEF Landed, FactsOf
      <4>3. s.key \in Nat /\ sync[n].through \in Nat
        BY <1>1, <4>2, ShareFacts DEF FactsOf
      <4> QED BY <2>5, <4>1, <4>3
    <3>4. CASE Pulled(p, s)
      <4>1. Origin(s.key) = n BY <1>1, <3>4 DEF Pulled, BatchAt, OwnShares
      <4> QED BY <1>1, <3>1, <4>1
    <3>5. CASE Recovered(p, s)
      <4>1. s \in db[n].shares BY <1>1, <3>5 DEF Recovered, MissingShares, OwnShares
      <4> QED BY <2>3, <4>1
    <3> QED BY <2>1, <3>1, <3>2, <3>3, <3>4, <3>5 DEF From, NewShare
  <2> QED BY <1>1, <1>4, <2>2, <2>3, <2>4, <2>5 DEF BatchAt, p
<1> QED BY <1>2, <1>3, <1>4, BatchHeld

\* An append still open is the one that was, of a node that serves.
LEMMA AppendHeld ==
    ASSUME SyncInv, [Next]_vars, NEW n \in Node, open'[n].append # NoAppend
    PROVE  \/ DrawShare(n)
           \/ /\ open'[n].append = open[n].append /\ From(n, db[n], db'[n])
              /\ Good(n)
<1>1. Typed /\ LatchedAt(n) BY DEF SyncInv, Latched
<1>2. ~Restore(n) /\ ~EndAppend(n) BY <1>1, RestoreEffect, AppendEffect
<1>3. From(n, db[n], db'[n]) BY <1>2, Gains
<1>4. open'[n].append = open[n].append => Good(n) BY <1>1 DEF LatchedAt
<1>5. CASE BeginLanding(n) \/ CommitLanding(n) \/ AbortLanding(n) \/ TakeBackup(n)
  <2>1. open'[n].append = open[n].append
    BY <1>1, <1>5, LandingEffect, CommitEffect, AbortEffect, BackupEffect
  <2> QED BY <1>3, <1>4, <2>1
<1>6. CASE \/ ReadShares(n) \/ RaiseSequence(n) \/ ApplyShares(n)
           \/ ReadBarrier(n) \/ PullBlock(n) \/ FailShares(n) \/ FailPass(n)
           \/ LatchWithoutPeer(n) \/ RecoverShares(n) \/ RecoverBlocks(n)
           \/ ReadFloors(n) \/ Verify(n)
  <2>1. open'[n].append = open[n].append
    BY ZenonT(60), <1>1, <1>6, ReadEffect, RaiseEffect, ApplyEffect, BarrierEffect, PullEffect,
       FailSharesEffect, FailPassEffect, LatchEffect, RecoverEffect, BlocksEffect,
       FloorsEffect, VerifyEffect
  <2> QED BY <1>3, <1>4, <2>1
<1>7. CASE Crash(n) \/ StopFrontend(n) BY <1>1, <1>7, CrashEffect, StopEffect
<1>8. CASE Act(Peer(n)) \/ UNCHANGED vars
  BY <1>1, <1>3, <1>4, <1>8, Others DEF Rests
<1> QED BY <1>2, <1>5, <1>6, <1>7, <1>8, Actor DEF Act

LEMMA DrawnStep ==
    ASSUME SyncInv, OneRestored, [Next]_vars
    PROVE  Drawn'
<1> SUFFICES ASSUME NEW n \in Node, open'[n].append # NoAppend
             PROVE  DrawnAt(n)'
  BY DEF Drawn, DrawnAt
<1> DEFINE p == Peer(n)
           k == open'[n].append.key
<1>1. /\ p \in Node /\ p # n /\ Peer(p) = n /\ Typed /\ Whole /\ Behind
      /\ DrawnAt(n) /\ BatchAt(p) /\ BatchAt(n) /\ AheadAt(n) /\ RaisedAt(n)
      /\ KeyedIn(db[n]) /\ LatchedAt(n) /\ FactsOf(n) /\ FactsOf(p)
  <2>1. p \in Node /\ p # n /\ Peer(p) = n BY Peers
  <2>2. Typed /\ Whole /\ Behind BY DEF SyncInv
  <2>3. DrawnAt(n) /\ BatchAt(p) /\ BatchAt(n) /\ AheadAt(n) /\ RaisedAt(n)
    BY <2>1 DEF SyncInv, Drawn, Batch, Ahead, RaisedFirst
  <2>4. KeyedIn(db[n]) BY <2>2, KeptFacts DEF SyncInv, Keyed
  <2>5. LatchedAt(n) BY DEF SyncInv, Latched
  <2>6. FactsOf(n) /\ FactsOf(p) BY <2>1, <2>2, Facts
  <2> QED BY <2>1, <2>2, <2>3, <2>4, <2>5, <2>6
<1>2. open'[n].append \in Share /\ k \in Nat
  <2>1. Typed' BY <1>1, TypedStep
  <2>2. open'[n].append \in Share \cup {NoAppend} BY <2>1 DEF Typed, TypeOK
  <2> QED BY <2>2, ShareFacts
<1> HIDE DEF p, k
<1>3. CASE DrawShare(n)
  <2>1. /\ db'[p] = db[p] /\ sync'[p] = sync[p] /\ sync'[n] = sync[n]
        /\ db'[n].shares = db[n].shares /\ db'[n].seq = db[n].seq + 2
        /\ k = db[n].seq + 2 /\ Writes(n)
    BY <1>1, <1>3, DrawEffect DEF Still, SameLog, p, k
  <2>2. Good(n) BY <1>1, <2>1 DEF Writes, OneRestored, LatchedAt, Serving
  <2>3. /\ db[n].seq \in Nat /\ Origin(db[n].seq) = n /\ db[p].mark \in Nat
        /\ sync[p].through \in Nat
        /\ \A s \in db[n].shares : s.key \in Nat /\ s.key <= db[n].seq
        /\ \A s \in sync[n].rows : s.key \in Nat
    BY <1>1, ShareFacts DEF FactsOf, IsDatabase, KeyedIn
  <2>4. Origin(k) = n /\ k <= db'[n].seq /\ db[p].mark < k
    BY <1>1, <2>1, <2>2, <2>3, Parity DEF AheadAt, p
  <2>5. \A s \in db[n].shares : s.key < k BY <2>1, <2>3
  <2>6. sync[p].stage \in {"raise", "apply"} => sync[p].through < k
    <3> SUFFICES ASSUME sync[p].stage \in {"raise", "apply"}
                 PROVE  sync[p].through < k
      OBVIOUS
    <3>1. sync[p].through <= db[p].mark
            \/ \E s \in db[n].shares : sync[p].through <= s.key
      BY <1>1 DEF BatchAt
    <3> QED BY <2>3, <2>4, <2>5, <3>1, <1>2
  <2>7. sync[n].stage = "apply" => \A s \in sync[n].rows : s.key < k
    BY <1>1, <2>1, <2>3 DEF RaisedAt
  <2> QED BY <2>1, <2>4, <2>5, <2>6, <2>7 DEF DrawnAt, p, k
<1>4. CASE open'[n].append = open[n].append /\ From(n, db[n], db'[n]) /\ Good(n)
  <2>1. /\ Origin(k) = n /\ k <= db[n].seq
        /\ \A s \in db[n].shares : s.key < k
        /\ db[p].mark < k
        /\ sync[p].stage \in {"raise", "apply"} => sync[p].through < k
        /\ sync[n].stage = "apply" => \A s \in sync[n].rows : s.key < k
    BY <1>1, <1>4 DEF DrawnAt, p, k
  <2>2. k <= db'[n].seq
    <3>1. db'[n] \in Database BY <1>1, DbTyped
    <3>2. db'[n].seq \in Nat /\ db[n].seq \in Nat
      BY <1>1, <3>1, DatabaseFacts DEF IsDatabase, FactsOf
    <3>3. db[n].seq <= db'[n].seq BY <1>4 DEF From
    <3> QED BY <1>2, <2>1, <3>2, <3>3
  <2>3. ASSUME NEW s \in db'[n].shares PROVE s.key < k
    <3>1. ~Landed(n, s) BY DEF Landed
    <3>2. ~Recovered(n, s) BY <1>1, <1>4, NothingMissing DEF Recovered
    <3>3. Pulled(n, s) => s.key < k BY <2>1 DEF Pulled
    <3> QED BY <1>4, <2>1, <3>1, <3>2, <3>3 DEF From, NewShare
  <2>4. db'[p].mark < k
    <3>1. PICK E \in Kept(p) : From(p, E, db'[p])
      BY <1>1, Gains, KeptFacts
    <3>2. E.mark <= db[p].mark /\ E.mark \in Nat /\ db[p].mark \in Nat
      BY <1>1, KeptFacts DEF Behind, BehindAt, IsDatabase, FactsOf
    <3>3. CASE db'[p].mark = E.mark BY <1>2, <2>1, <3>2, <3>3
    <3>4. CASE MarkMoves(p) BY <2>1, <3>4 DEF MarkMoves
    <3> QED BY <3>1, <3>3, <3>4 DEF From
  <2>5. sync'[p].stage \in {"raise", "apply"} => sync'[p].through < k
    <3> SUFFICES ASSUME sync'[p].stage \in {"raise", "apply"}
                 PROVE  sync'[p].through < k
      OBVIOUS
    <3>1. CASE ReadShares(p)
      <4>1. sync'[p].through = Highest(Scanned(p), db[p].mark)
        BY <1>1, <3>1, ReadEffect
      <4>2. Scanned(p) \subseteq KeysOf(db[n].shares) BY <1>1 DEF Scanned
      <4>3. db[n].shares \in SUBSET Share /\ db[p].mark \in 0..MaxKey
        BY <1>1 DEF FactsOf, IsDatabase
      <4>4. Scanned(p) \in SUBSET (0..MaxKey) BY <4>2, <4>3, KeyFacts
      <4>5. sync'[p].through \in Scanned(p) \cup {db[p].mark}
        BY <4>1, <4>3, <4>4, HighestIn
      <4>6. CASE sync'[p].through = db[p].mark BY <2>1, <4>6
      <4>7. CASE sync'[p].through \in Scanned(p)
        <5>1. PICK s \in db[n].shares : s.key = sync'[p].through
          BY <4>2, <4>3, <4>7, KeyFacts
        <5> QED BY <2>1, <5>1
      <4> QED BY <4>5, <4>6, <4>7
    <3>2. CASE RaiseSequence(p)
      BY <1>1, <2>1, <3>2, RaiseEffect DEF SameBatch, Goes
    <3>3. CASE sync'[p] = sync[p] BY <2>1, <3>3
    <3> QED BY <1>1, <3>1, <3>2, <3>3, BatchHeld
  <2>6. sync'[n].stage = "apply" => \A s \in sync'[n].rows : s.key < k
    <3> SUFFICES ASSUME sync'[n].stage = "apply"
                 PROVE  \A s \in sync'[n].rows : s.key < k
      OBVIOUS
    <3>1. CASE ReadShares(n) BY <1>1, <3>1, ReadEffect DEF Goes
    <3>2. CASE RaiseSequence(n)
      BY <1>1, <1>4, <3>2, RaiseEffect DEF SameBatch
    <3>3. CASE sync'[n] = sync[n] BY <2>1, <3>3
    <3> QED BY <3>1, <3>2, <3>3, BatchHeld
  <2> QED BY <2>1, <2>2, <2>3, <2>4, <2>5, <2>6 DEF DrawnAt, p, k
<1> QED BY <1>3, <1>4, AppendHeld

-----------------------------------------------------------------------------
(* A node's own log, here and at the peer.                                 *)

\* What a step adds to a node's own shares and blocks in its database.
LEMMA OwnHere ==
    ASSUME SyncInv, [Next]_vars, NEW n \in Node
    PROVE  /\ \A s \in OwnShares(n, n)' :
                s \in OwnShares(n, n) \/ Landed(n, s) \/ Recovered(n, s)
           /\ \A b \in OwnBlocks(n, n)' :
                b \in OwnBlocks(n, n) \/ Committed(n, b) \/ RecoveredBlock(n, b)
<1>1. /\ Peer(n) \in Node /\ Peer(n) # n /\ Typed /\ Behind /\ BatchAt(n)
  BY Peers DEF SyncInv, Batch
<1>2. PICK E \in Kept(n) : From(n, E, db'[n]) BY <1>1, Gains, KeptFacts
<1>3. E.shares \subseteq db[n].shares /\ E.blocks \subseteq db[n].blocks
  BY <1>1 DEF Behind, BehindAt
<1>4. ASSUME NEW s \in OwnShares(n, n)'
      PROVE  s \in OwnShares(n, n) \/ Landed(n, s) \/ Recovered(n, s)
  <2>1. s \in db'[n].shares /\ Origin(s.key) = n BY DEF OwnShares
  <2>2. ~Pulled(n, s) BY <1>1, <2>1 DEF Pulled, BatchAt, OwnShares
  <2> QED BY <1>2, <1>3, <2>1, <2>2 DEF From, NewShare, OwnShares
<1>5. ASSUME NEW b \in OwnBlocks(n, n)'
      PROVE  b \in OwnBlocks(n, n) \/ Committed(n, b) \/ RecoveredBlock(n, b)
  <2>1. b \in db'[n].blocks /\ b.origin = n BY DEF OwnBlocks
  <2>2. ~PulledBlock(n, b) BY <1>1, <2>1 DEF PulledBlock, Pending, OwnBlocks
  <2> QED BY <1>2, <1>3, <2>1, <2>2 DEF From, NewBlock, OwnBlocks
<1> QED BY <1>4, <1>5

\* What the peer holds of it comes from here.
LEMMA OwnThere ==
    ASSUME SyncInv, [Next]_vars, NEW n \in Node
    PROVE  /\ OwnShares(n, Peer(n))' \subseteq OwnShares(n, Peer(n)) \cup OwnShares(n, n)
           /\ OwnBlocks(n, Peer(n))' \subseteq OwnBlocks(n, Peer(n)) \cup OwnBlocks(n, n)
<1> DEFINE p == Peer(n)
<1>1. /\ p \in Node /\ p # n /\ Peer(p) = n /\ Typed /\ Behind /\ BatchAt(p)
      /\ DrawnAt(p) /\ LandingAt(p)
  BY Peers DEF SyncInv, Batch, Drawn, Landing
<1> HIDE DEF p
<1>2. PICK E \in Kept(p) : From(p, E, db'[p]) BY <1>1, Gains, KeptFacts
<1>3. E.shares \subseteq db[p].shares /\ E.blocks \subseteq db[p].blocks
  BY <1>1 DEF Behind, BehindAt
<1>4. ASSUME NEW s \in OwnShares(n, p)'
      PROVE  s \in OwnShares(n, p) \/ s \in OwnShares(n, n)
  <2>1. s \in db'[p].shares /\ Origin(s.key) = n BY DEF OwnShares
  <2>2. ~Landed(p, s) BY <1>1, <2>1 DEF Landed, DrawnAt
  <2>3. ~Recovered(p, s) BY <1>1, <2>1 DEF Recovered, MissingShares, OwnShares
  <2>4. Pulled(p, s) => s \in OwnShares(n, n) BY <1>1 DEF Pulled, BatchAt
  <2> QED BY <1>2, <1>3, <2>1, <2>2, <2>3, <2>4 DEF From, NewShare, OwnShares
<1>5. ASSUME NEW b \in OwnBlocks(n, p)'
      PROVE  b \in OwnBlocks(n, p) \/ b \in OwnBlocks(n, n)
  <2>1. b \in db'[p].blocks /\ b.origin = n BY DEF OwnBlocks
  <2>2. ~Committed(p, b) BY <1>1, <2>1 DEF Committed, LandingAt
  <2>3. ~RecoveredBlock(p, b) BY <1>1, <2>1 DEF RecoveredBlock, MissingBlocks, OwnBlocks
  <2>4. PulledBlock(p, b) => b \in OwnBlocks(n, n) BY <1>1 DEF PulledBlock, Pending
  <2> QED BY <1>2, <1>3, <2>1, <2>2, <2>3, <2>4 DEF From, NewBlock, OwnBlocks
<1> QED BY <1>4, <1>5 DEF p

\* A share of the node's own that recovery passes over is held.
LEMMA NotMissing ==
    ASSUME SyncInv, NEW n \in Node,
           NEW s \in OwnShares(n, Peer(n)), s \notin MissingShares(n)
    PROVE  s \in OwnShares(n, n)
<1>1. /\ Peer(n) \in Node /\ Typed /\ PrefixIn(n, db[n])
  BY Peers, KeptFacts DEF SyncInv, Prefix
<1>2. IsDatabase(db[n]) /\ IsDatabase(db[Peer(n)]) BY <1>1, Facts DEF FactsOf
<1>3. OwnShares(n, n) \in SUBSET Share /\ s \in Share
  BY <1>2 DEF IsDatabase, OwnShares
<1> DEFINE h == Highest(KeysOf(OwnShares(n, n)), 0)
<1>4. h \in Nat /\ (h = 0 \/ \E t \in OwnShares(n, n) : t.key = h)
  BY <1>3, HighestKey
<1>5. s.key \in Nat /\ s.key >= 2 BY <1>3, ShareFacts
<1>6. ~(s.key > h) BY DEF MissingShares
<1> HIDE DEF h
<1>7. PICK t \in OwnShares(n, n) : t.key = h BY <1>4, <1>5, <1>6
<1>8. s.key <= t.key BY <1>4, <1>5, <1>6, <1>7
<1>9. s \in db[n].shares BY <1>1, <1>7, <1>8 DEF PrefixIn, OwnShares
<1> QED BY <1>9 DEF OwnShares

LEMMA PrefixStep ==
    ASSUME SyncInv, [Next]_vars
    PROVE  Prefix'
<1> SUFFICES ASSUME NEW n \in Node, NEW D \in Kept(n)' PROVE PrefixIn(n, D)'
  BY DEF Prefix
<1> DEFINE p == Peer(n)
<1>1. /\ p \in Node /\ Typed /\ Behind /\ Whole /\ DrawnAt(n) /\ BatchAt(n)
      /\ LatchedAt(n)
  BY Peers DEF SyncInv, Drawn, Batch, Latched
<1>2. KeyedIn(db[p]) /\ PrefixIn(n, db[n])
  BY <1>1, KeptFacts DEF SyncInv, Keyed, Prefix
<1>3. IsDatabase(db[n]) /\ IsDatabase(db[p]) BY <1>1, Facts DEF FactsOf
<1> HIDE DEF p
<1>4. PICK E \in Kept(n) : From(n, E, D) BY Sources
<1>5. /\ E.shares \subseteq db[n].shares /\ E.shares \subseteq D.shares
      /\ PrefixIn(n, E)
  BY <1>1, <1>4 DEF Behind, BehindAt, From, SyncInv, Prefix
<1>6. ASSUME NEW s \in OwnShares(n, n)' \cup OwnShares(n, p)',
             NEW t \in D.shares, Origin(t.key) = n, s.key <= t.key
      PROVE  s \in D.shares
  <2> DEFINE Old(u) == u \in OwnShares(n, n) \cup OwnShares(n, p)
  <2>1. Old(s) \/ Landed(n, s)
    BY OwnHere, OwnThere DEF p, Recovered, MissingShares
  <2>2. Landed(n, s) => /\ s.key \in Nat /\ Good(n)
                        /\ \A u \in db[n].shares : u.key < s.key /\ u.key \in Nat
    <3> SUFFICES ASSUME Landed(n, s)
                 PROVE  /\ s.key \in Nat /\ Good(n)
                        /\ \A u \in db[n].shares : u.key < s.key /\ u.key \in Nat
      OBVIOUS
    <3>1. s \in Share BY <1>1, Facts DEF Landed, FactsOf
    <3>2. \A u \in db[n].shares : u.key < s.key BY <1>1 DEF Landed, DrawnAt
    <3>3. Good(n) BY <1>1 DEF Landed, LatchedAt
    <3> QED BY <1>3, <3>1, <3>2, <3>3, ShareFacts DEF IsDatabase
  <2>3. CASE t \in E.shares
    <3>1. ~Landed(n, s) BY <1>5, <1>6, <2>2, <2>3
    <3> QED BY <1>5, <1>6, <2>1, <2>3, <3>1 DEF PrefixIn, p
  <2>4. CASE Landed(n, t) /\ E = db[n]
    <3>1. OwnShares(n, p) \subseteq OwnShares(n, n)
      BY <1>1, <2>4 DEF Landed, LatchedAt, Whole, WholeAt, p
    <3>2. Old(s) => s \in E.shares BY <2>4, <3>1 DEF OwnShares
    <3>3. Landed(n, s) => s = t BY <2>4 DEF Landed
    <3> QED BY <1>5, <2>1, <3>2, <3>3
  <2>5. CASE Recovered(n, t) /\ E = db[n]
    <3>1. ~Landed(n, s) BY <1>1, <2>2, <2>5, NothingMissing DEF Recovered
    <3>2. CASE s \in OwnShares(n, n) BY <1>5, <2>5, <3>2 DEF OwnShares
    <3>3. CASE s \in MissingShares(n)
      <4>1. t.key <= s.key BY <2>5, <3>3 DEF Recovered
      <4>2. s \in db[p].shares /\ t \in db[p].shares
        BY <2>5, <3>3 DEF Recovered, MissingShares, OwnShares, p
      <4>3. s.key \in Nat /\ t.key \in Nat BY <1>3, <4>2, ShareFacts DEF IsDatabase
      <4>4. s.key = t.key BY <1>6, <4>1, <4>3
      <4>5. s = t BY <1>2, <4>2, <4>4 DEF KeyedIn
      <4> QED BY <4>5
    <3>4. CASE s \in OwnShares(n, p) /\ s \notin MissingShares(n)
      <4>1. s \in OwnShares(n, n) BY <3>4, NotMissing DEF p
      <4> QED BY <1>5, <2>5, <4>1 DEF OwnShares
    <3> QED BY <2>1, <3>1, <3>2, <3>3, <3>4
  <2>6. ~Pulled(n, t) BY <1>1, <1>6, Peers DEF Pulled, BatchAt, OwnShares
  <2> QED BY <1>4, <2>3, <2>4, <2>5, <2>6 DEF From, Moved, NewShare
<1> QED BY <1>6 DEF PrefixIn, p

\* How a node comes to be verified, or a recovery to reach a stage.
LEMMA Reached ==
    ASSUME SyncInv, [Next]_vars, NEW n \in Node
    PROVE  /\ Good(n)' => (Good(n) \/ Verify(n)) /\ From(n, db[n], db'[n])
           /\ sync'[n].stage \in {"ownBlocks", "floors", "verify"} =>
                From(n, db[n], db'[n])
           /\ sync'[n].stage = "ownBlocks" =>
                \/ sync[n].stage = "ownBlocks"
                \/ MissingShares(n) = {}
           /\ sync'[n].stage = "floors" =>
                sync[n].stage = "floors" \/ RecoverBlocks(n)
           /\ sync'[n].stage = "verify" =>
                \/ ReadFloors(n)
                \/ /\ sync[n].stage = "verify" /\ sync'[n].through = sync[n].through
                   /\ sync'[n].syncFloor = sync[n].syncFloor
<1>1. Typed /\ LatchedAt(n) /\ IsDatabase(db[n])
  BY Facts DEF SyncInv, Latched, FactsOf
<1> DEFINE Stages3 == {"ownBlocks", "floors", "verify"}
<1>2. CASE Restore(n)
  <2>1. /\ backup[n] # NoBackup /\ backup[n] \in Database
        /\ sync'[n] = [FreshSync EXCEPT !.latch = sync[n].latch]
        /\ db'[n] = [backup[n] EXCEPT !.timeline = db[n].timeline + 1]
    BY <1>1, <1>2, RestoreEffect
  <2>2. /\ sync'[n].stage = "idle" /\ db'[n].timeline = db[n].timeline + 1
        /\ db'[n].verified = backup[n].verified
    BY <2>1 DEF FreshSync, Database
  <2>3. backup[n].verified <= db[n].timeline /\ backup[n].verified \in Int
    BY <1>1, <2>1, Facts DEF LatchedAt, FactsOf, IsDatabase
  <2>4. ~Good(n)' BY <1>1, <2>2, <2>3 DEF Good, IsDatabase
  <2> QED BY <2>2, <2>4
<1>3. CASE From(n, db[n], db'[n])
  <2>1. CASE \/ DrawShare(n) \/ EndAppend(n) \/ BeginLanding(n) \/ CommitLanding(n)
             \/ AbortLanding(n) \/ TakeBackup(n)
    <3>1. /\ sync'[n] = sync[n]
          /\ db'[n].verified = db[n].verified /\ db'[n].timeline = db[n].timeline
      BY <1>1, <2>1, DrawEffect, AppendEffect, LandingEffect, CommitEffect,
         AbortEffect, BackupEffect DEF SameLine, Quiet
    <3> QED BY <1>3, <3>1 DEF Good
  <2>2. CASE \/ ReadShares(n) \/ RaiseSequence(n) \/ ApplyShares(n)
             \/ ReadBarrier(n) \/ PullBlock(n) \/ FailShares(n) \/ FailPass(n)
             \/ LatchWithoutPeer(n)
    <3>1. db'[n].verified = db[n].verified /\ db'[n].timeline = db[n].timeline
      BY <1>1, <2>2, ReadEffect, RaiseEffect, ApplyEffect, BarrierEffect,
         PullEffect, FailSharesEffect, FailPassEffect, LatchEffect
      DEF SameLine, Quiet
    <3>2. sync'[n].stage \notin Stages3
      BY ZenonT(60), <1>1, <2>2, ReadEffect, RaiseEffect, ApplyEffect, BarrierEffect,
         PullEffect, FailSharesEffect, FailPassEffect, LatchEffect DEF Goes
    <3> QED BY <1>3, <3>1, <3>2 DEF Good
  <2>3. CASE RecoverShares(n)
    <3>1. db'[n].timeline = db[n].timeline BY <1>1, <2>3, RecoverEffect
    <3>2. \/ MissingShares(n) = {} /\ db'[n] = db[n] /\ sync'[n].stage = "ownBlocks"
          \/ db'[n].verified = NoTimeline /\ sync'[n].stage \in {"idle", "diverged"}
      BY <1>1, <2>3, RecoverEffect
    <3>3. db[n].timeline # NoTimeline BY <1>1 DEF IsDatabase, NoTimeline
    <3> QED BY <1>3, <3>1, <3>2, <3>3 DEF Good
  <2>4. CASE RecoverBlocks(n)
    <3>1. /\ db'[n].timeline = db[n].timeline /\ sync'[n].stage = "floors"
          /\ db'[n].verified \in {db[n].verified, NoTimeline}
      BY <1>1, <2>4, BlocksEffect DEF Goes
    <3>2. db[n].timeline # NoTimeline BY <1>1 DEF IsDatabase, NoTimeline
    <3> QED BY <1>3, <2>4, <3>1, <3>2 DEF Good
  <2>5. CASE ReadFloors(n)
    <3>1. db'[n] = db[n] /\ sync'[n].stage = "verify"
      BY <1>1, <2>5, FloorsEffect DEF Quiet, Goes
    <3> QED BY <1>3, <2>5, <3>1 DEF Good
  <2>6. CASE Verify(n)
    <3>1. sync'[n].stage = "idle" BY <1>1, <2>6, VerifyEffect
    <3> QED BY <1>3, <2>6, <3>1
  <2>7. CASE Crash(n) \/ StopFrontend(n)
    <3>1. db'[n] = db[n] /\ sync'[n] = FreshSync
      BY <1>1, <2>7, CrashEffect, StopEffect DEF Quiet
    <3>2. sync'[n].stage = "idle" BY <3>1 DEF FreshSync
    <3> QED BY <1>3, <3>1, <3>2 DEF Good
  <2>8. CASE Act(Peer(n)) \/ UNCHANGED vars
    <3> DEFINE p == Peer(n)
    <3>1. p \in Node /\ Peer(p) = n BY Peers
    <3>2. db'[n] = db[n] /\ (sync'[n] = sync[n] \/ Restore(p))
      BY <1>1, <2>8, Others DEF Rests
    <3> HIDE DEF p
    <3>3. Restore(p) => /\ sync'[Peer(p)].through = sync[Peer(p)].through
                        /\ sync'[Peer(p)].syncFloor = sync[Peer(p)].syncFloor
                        /\ sync'[Peer(p)].stage =
                             IF sync[Peer(p)].stage \in {"verify", "diverged"}
                             THEN sync[Peer(p)].stage ELSE "idle"
      BY <1>1, <3>1, RestoreEffect DEF SameBatch, SameFloor
    <3> QED BY <1>3, <3>1, <3>2, <3>3 DEF Good
  <2>9. CASE Restore(n) BY <1>2, <2>9
  <2> QED
    BY <2>1, <2>2, <2>3, <2>4, <2>5, <2>6, <2>7, <2>8, <2>9, Actor DEF Act
<1> QED BY <1>2, <1>3, Gains

LEMMA WholeStep ==
    ASSUME SyncInv, [Next]_vars
    PROVE  Whole'
<1> SUFFICES ASSUME NEW n \in Node PROVE WholeAt(n)'
  BY DEF Whole
<1> DEFINE p == Peer(n)
<1>1. p \in Node /\ Typed /\ WholeAt(n) BY Peers DEF SyncInv, Whole
<1> HIDE DEF p
<1>2. ASSUME Good(n)' \/ sync'[n].stage \in {"ownBlocks", "floors", "verify"}
      PROVE  OwnShares(n, p)' \subseteq OwnShares(n, n)'
  <2>1. From(n, db[n], db'[n]) BY <1>2, Reached
  <2>2. OwnShares(n, n) \subseteq OwnShares(n, n)' BY <2>1 DEF From, OwnShares
  <2>3. OwnShares(n, p) \subseteq OwnShares(n, n)
    <3>1. \/ Good(n) \/ sync[n].stage \in {"ownBlocks", "floors", "verify"}
          \/ MissingShares(n) = {}
      BY <1>2, Reached DEF Verify, ReadFloors, RecoverBlocks
    <3>2. CASE MissingShares(n) = {} BY <3>2, NotMissing DEF p
    <3> QED BY <1>1, <3>1, <3>2 DEF WholeAt, p
  <2> QED BY <2>2, <2>3, OwnThere DEF p
<1>3. ASSUME Good(n)' \/ sync'[n].stage \in {"floors", "verify"}
      PROVE  OwnBlocks(n, p)' \subseteq OwnBlocks(n, n)'
  <2>1. From(n, db[n], db'[n]) BY <1>3, Reached
  <2>2. OwnBlocks(n, n) \subseteq OwnBlocks(n, n)' BY <2>1 DEF From, OwnBlocks
  <2>3. CASE RecoverBlocks(n)
    <3>1. db'[n].blocks = db[n].blocks \cup MissingBlocks(n)
      BY <1>1, <2>3, BlocksEffect
    <3>2. OwnBlocks(n, p) \subseteq OwnBlocks(n, n)'
      BY <3>1 DEF MissingBlocks, OwnBlocks, p
    <3> QED BY <2>2, <3>2, OwnThere DEF p
  <2>4. CASE Good(n) \/ sync[n].stage \in {"floors", "verify"}
    <3>1. OwnBlocks(n, p) \subseteq OwnBlocks(n, n) BY <1>1, <2>4 DEF WholeAt, p
    <3> QED BY <2>2, <3>1, OwnThere DEF p
  <2>5. \/ RecoverBlocks(n)
        \/ Good(n) \/ sync[n].stage \in {"floors", "verify"}
    BY <1>3, Reached DEF Verify, ReadFloors
  <2> QED BY <2>3, <2>4, <2>5
<1> QED BY <1>2, <1>3 DEF WholeAt, p

-----------------------------------------------------------------------------
(* Sequences, landings and blocks.                                         *)

\* A safe mark that is raised is the peer's sequence, with no landing open.
LEMMA SafeSteps ==
    ASSUME Typed, [Next]_vars, NEW n \in Node
    PROVE  /\ \/ sync'[n].safe = sync[n].safe \/ sync'[n].safe = NoMark
              \/ /\ BarrierTaken(Peer(n)) /\ db'[Peer(n)] = db[Peer(n)]
                 /\ open'[Peer(n)] = open[Peer(n)]
                 /\ sync'[n].safe = db[Peer(n)].syncSeq
           /\ Restore(Peer(n)) => sync'[n].safe = NoMark
<1> DEFINE p == Peer(n)
<1>1. p \in Node /\ Peer(p) = n BY Peers
<1>2. FactsOf(n) /\ FactsOf(p) BY <1>1, Facts
<1>3. ASSUME Restore(p) PROVE sync'[n].safe = NoMark
  <2> HIDE DEF p
  <2>1. sync'[Peer(p)].safe = NoMark BY <1>1, <1>3, RestoreEffect
  <2> QED BY <1>1, <2>1
<1> HIDE DEF p
<1>4. CASE \/ DrawShare(n) \/ EndAppend(n) \/ BeginLanding(n) \/ CommitLanding(n)
           \/ AbortLanding(n) \/ TakeBackup(n)
  <2>1. sync'[n] = sync[n]
    BY <1>4, DrawEffect, AppendEffect, LandingEffect, CommitEffect, AbortEffect,
       BackupEffect
  <2> QED BY <1>3, <2>1 DEF p
<1>5. CASE \/ ReadShares(n) \/ RaiseSequence(n) \/ ApplyShares(n) \/ PullBlock(n)
           \/ FailShares(n) \/ LatchWithoutPeer(n) \/ RecoverShares(n)
           \/ RecoverBlocks(n) \/ ReadFloors(n)
  <2>1. SameSafe(n)
    BY <1>5, ReadEffect, RaiseEffect, ApplyEffect, PullEffect, FailSharesEffect,
       LatchEffect, RecoverEffect, BlocksEffect, FloorsEffect
  <2> QED BY <1>3, <2>1 DEF SameSafe, p
<1>6. CASE FailPass(n) \/ Verify(n)
  <2>1. sync'[n].safe = NoMark BY <1>6, FailPassEffect, VerifyEffect
  <2> QED BY <2>1
<1>7. CASE Crash(n) \/ StopFrontend(n)
  <2>1. sync'[n] = FreshSync BY <1>7, CrashEffect, StopEffect
  <2> QED BY <2>1 DEF FreshSync
<1>8. CASE Restore(n)
  <2>1. sync'[n] = [FreshSync EXCEPT !.latch = sync[n].latch]
    BY <1>8, RestoreEffect
  <2> QED BY <2>1 DEF FreshSync
<1>9. CASE ReadBarrier(n)
  <2>1. /\ db'[p] = db[p] /\ open'[p] = open[p]
        /\ \/ sync'[n].safe = sync[n].safe
           \/ /\ BarrierTaken(p)
              /\ sync'[n].safe = Highest({sync[n].safe}, db[p].syncSeq)
    BY <1>9, BarrierEffect DEF Quiet, Still, SameSafe, p
  <2>2. sync[n].safe \in Int /\ db[p].syncSeq \in Int
    BY <1>2 DEF FactsOf, IsDatabase
  <2>3. Highest({sync[n].safe}, db[p].syncSeq) =
          IF sync[n].safe <= db[p].syncSeq THEN db[p].syncSeq ELSE sync[n].safe
    BY <2>2, HigherOf
  <2> QED BY <1>3, <2>1, <2>3 DEF p
<1>10. CASE Act(p) \/ UNCHANGED vars
  <2>1. sync'[n] = sync[n] \/ Restore(p) BY <1>10, Others DEF p
  <2> QED BY <1>3, <2>1 DEF p
<1> QED BY <1>4, <1>5, <1>6, <1>7, <1>8, <1>9, <1>10, Actor DEF Act, p

\* Where a step may take a node's cursor over the peer's blocks.
LEMMA BlockMarkSteps ==
    ASSUME SyncInv, [Next]_vars, NEW n \in Node
    PROVE  \/ db'[n].blockMark <= db[n].blockMark
           \/ db'[n].blockMark = sync[n].safe
           \/ \E b \in OwnBlocks(Peer(n), Peer(n)) :
                db'[n].blockMark = b.sync /\ b.sync <= sync[n].safe
<1>1. Typed BY DEF SyncInv
<1>2. PICK E \in Kept(n) : From(n, E, db'[n]) BY <1>1, Gains, KeptFacts
<1>3. E.blockMark <= db[n].blockMark BY DEF SyncInv, Behind, BehindAt
<1> QED BY <1>2, <1>3 DEF From, BlockMarkMoves, Pending

LEMMA MarkSteps ==
    ASSUME SyncInv, [Next]_vars, NEW n \in Node
    PROVE  \/ db'[n].mark <= db[n].mark
           \/ sync[n].stage = "apply" /\ db'[n].mark = sync[n].through
<1>1. Typed BY DEF SyncInv
<1>2. PICK E \in Kept(n) : From(n, E, db'[n]) BY <1>1, Gains, KeptFacts
<1>3. E.mark <= db[n].mark BY DEF SyncInv, Behind, BehindAt
<1> QED BY <1>2, <1>3 DEF From, MarkMoves

LEMMA AheadStep ==
    ASSUME SyncInv, [Next]_vars
    PROVE  Ahead'
<1> SUFFICES ASSUME NEW n \in Node PROVE AheadAt(n)'
  BY DEF Ahead
<1> DEFINE p == Peer(n)
<1>1. /\ p \in Node /\ Peer(p) = n /\ Typed /\ Whole /\ AheadAt(n) /\ BatchAt(p)
      /\ LandingAt(n)
  BY Peers DEF SyncInv, Ahead, Batch, Landing
<1>2. KeyedIn(db[n]) BY <1>1, KeptFacts DEF SyncInv, Keyed
<1>3. FactsOf(n) /\ FactsOf(p) /\ VouchedIn(n, db[n])
  BY <1>1, Facts, KeptFacts DEF SyncInv, Vouched
<1>4. IsDatabase(db'[n]) /\ IsDatabase(db'[p])
  <2>1. db'[n] \in Database /\ db'[p] \in Database BY <1>1, DbTyped
  <2> QED BY <2>1, DatabaseFacts
<1> HIDE DEF p
<1>5. /\ db[n].seq \in Nat /\ db[n].syncSeq \in Nat /\ db[p].mark \in Nat
      /\ db[p].blockMark \in Nat /\ sync[p].safe \in Int /\ sync[p].through \in Nat
      /\ \A s \in db[n].shares : s.key \in Nat
      /\ \A b \in db[n].blocks : b.sync \in Nat
      /\ sync[n].through \in Nat /\ sync[n].syncFloor \in Nat
  BY <1>3, ShareFacts, BlockFacts DEF FactsOf, IsDatabase
<1>6. /\ db'[n].seq \in Nat /\ db'[n].syncSeq \in Nat
      /\ db'[p].mark \in Nat /\ db'[p].blockMark \in Nat
  BY <1>4 DEF IsDatabase
<1>7. /\ \/ db'[p].mark <= db[p].mark
         \/ \E s \in db[n].shares : db'[p].mark <= s.key
      /\ \/ db'[p].blockMark <= db[p].blockMark \/ db'[p].blockMark <= sync[p].safe
         \/ \E b \in OwnBlocks(n, n) : db'[p].blockMark = b.sync
  <2>1. \/ db'[p].mark <= db[p].mark
        \/ \E s \in db[n].shares : db'[p].mark <= s.key
    <3>1. CASE sync[p].stage = "apply" /\ db'[p].mark = sync[p].through
      BY <1>1, <3>1 DEF BatchAt
    <3> QED BY <1>1, <3>1, MarkSteps
  <2>2. \/ db'[p].blockMark <= db[p].blockMark \/ db'[p].blockMark <= sync[p].safe
        \/ \E b \in OwnBlocks(n, n) : db'[p].blockMark = b.sync
    BY <1>1, <1>5, BlockMarkSteps
  <2> QED BY <2>1, <2>2
<1>8. sync'[p].safe <= db'[n].syncSeq
  <2>1. CASE sync'[p].safe = NoMark BY <1>6, <2>1 DEF NoMark
  <2>2. CASE db'[n] = db[n] /\ sync'[p].safe = db[n].syncSeq BY <1>5, <2>2
  <2>3. CASE sync'[p].safe = sync[p].safe
    <3>1. sync[p].safe <= db[n].syncSeq BY <1>1 DEF AheadAt, p
    <3>2. CASE Restore(n) BY <1>1, <2>1, <3>2, SafeSteps
    <3>3. CASE From(n, db[n], db'[n])
      <4>1. db[n].syncSeq <= db'[n].syncSeq BY <3>3 DEF From
      <4> QED BY <1>5, <1>6, <2>3, <3>1, <4>1
    <3> QED BY <3>2, <3>3, Gains
  <2> QED BY <1>1, <2>1, <2>2, <2>3, SafeSteps
\* What is committed or recovered has a number below the sequence.
<1>9. ASSUME From(n, db[n], db'[n]), MissingBlocks(n) = {},
             NEW b \in OwnBlocks(n, n)'
      PROVE  b \in OwnBlocks(n, n) \/ b.sync <= db[n].syncSeq
  BY <1>1, <1>9, OwnHere DEF Committed, RecoveredBlock, LandingAt
<1>10. ASSUME Good(n)'
       PROVE  /\ db'[p].mark < db'[n].seq + 2 /\ db'[p].blockMark <= db'[n].syncSeq
              /\ \A b \in OwnBlocks(n, n)' : b.sync <= db'[n].syncSeq
  <2>1. From(n, db[n], db'[n]) /\ (Good(n) \/ Verify(n)) BY <1>10, Reached
  <2>2. db[n].seq <= db'[n].seq /\ db[n].syncSeq <= db'[n].syncSeq
    BY <2>1 DEF From
  <2>3. CASE Good(n)
    <3>1. /\ db[p].mark < db[n].seq + 2 /\ db[p].blockMark <= db[n].syncSeq
          /\ \A b \in OwnBlocks(n, n) : b.sync <= db[n].syncSeq
          /\ sync[p].safe <= db[n].syncSeq
          /\ \A s \in db[n].shares : s.key <= db[n].seq
      BY <1>1, <1>2, <2>3 DEF AheadAt, KeyedIn, p
    <3>2. db'[p].mark < db'[n].seq + 2 BY <1>5, <1>6, <1>7, <2>2, <3>1
    <3>3. db'[p].blockMark <= db'[n].syncSeq BY <1>5, <1>6, <1>7, <2>2, <3>1
    <3>4. ASSUME NEW b \in OwnBlocks(n, n)' PROVE b.sync <= db'[n].syncSeq
      <4>1. MissingBlocks(n) = {} BY <1>1, <2>3, NothingMissing
      <4>2. b.sync <= db[n].syncSeq BY <1>9, <2>1, <3>1, <4>1
      <4>3. b.sync \in Nat BY <1>4, BlockFacts DEF OwnBlocks, IsDatabase
      <4> QED BY <1>5, <1>6, <2>2, <4>2, <4>3
    <3> QED BY <3>2, <3>3, <3>4
  <2>4. CASE Verify(n)
    <3> DEFINE k == Highest(KeysOf(db[n].shares), sync[n].through)
    <3>1. /\ db'[p] = db[p] /\ db'[n].blocks = db[n].blocks
          /\ db'[n].seq = Raised(n, k)
          /\ db'[n].syncSeq = IF db[n].syncSeq <= sync[n].syncFloor
                              THEN sync[n].syncFloor ELSE db[n].syncSeq
          /\ sync[n].stage = "verify"
      BY <1>1, <2>4, VerifyEffect DEF Still, SameLog, p
    <3>2. /\ db[n].shares \in SUBSET Share /\ sync[n].through <= MaxKey
          /\ sync[n].through <= MaxKey + 1
      BY <1>3, <1>5 DEF FactsOf, IsDatabase
    <3>3. /\ k \in Nat /\ sync[n].through <= k /\ \A s \in db[n].shares : s.key <= k
          /\ (k = sync[n].through \/ \E s \in db[n].shares : s.key = k)
      BY <1>5, <3>2, HighestKey
    <3>4. k <= MaxKey
      <4>1. \A s \in db[n].shares : s.key <= MaxKey BY <3>2, ShareFacts
      <4> QED BY <3>2, <3>3, <4>1
    <3> HIDE DEF k
    <3>5. k <= db'[n].seq BY <1>1, <3>1, <3>3, <3>4, RaisedFacts
    <3>6. /\ \/ db[p].mark <= sync[n].through
             \/ \E s \in db[n].shares : db[p].mark <= s.key
          /\ \/ db[p].blockMark <= sync[n].syncFloor
             \/ db[p].blockMark <= db[n].syncSeq
          /\ \A b \in OwnBlocks(n, n) :
               b.sync <= sync[n].syncFloor \/ b.sync <= db[n].syncSeq
      BY <1>1, <3>1 DEF AheadAt, p
    <3>7. db'[p].mark < db'[n].seq + 2
      BY <1>5, <1>6, <3>1, <3>3, <3>5, <3>6
    <3>8. db'[p].blockMark <= db'[n].syncSeq BY <1>5, <1>6, <3>1, <3>6
    <3>9. \A b \in OwnBlocks(n, n)' : b.sync <= db'[n].syncSeq
      <4>1. OwnBlocks(n, n)' = OwnBlocks(n, n) BY <3>1 DEF OwnBlocks
      <4>2. \A b \in OwnBlocks(n, n) : b.sync \in Nat BY <1>5 DEF OwnBlocks
      <4> QED BY <1>5, <3>1, <3>6, <4>1, <4>2
    <3> QED BY <3>7, <3>8, <3>9
  <2> QED BY <2>1, <2>3, <2>4
<1>11. ASSUME sync'[n].stage = "verify"
       PROVE  /\ \/ db'[p].mark <= sync'[n].through
                 \/ \E s \in db'[n].shares : db'[p].mark <= s.key
              /\ \/ db'[p].blockMark <= sync'[n].syncFloor
                 \/ db'[p].blockMark <= db'[n].syncSeq
              /\ \A b \in OwnBlocks(n, n)' :
                   b.sync <= sync'[n].syncFloor \/ b.sync <= db'[n].syncSeq
  <2>1. From(n, db[n], db'[n]) BY <1>11, Reached
  <2>2. db[n].syncSeq <= db'[n].syncSeq /\ db[n].shares \subseteq db'[n].shares
    BY <2>1 DEF From
  <2>3. CASE ReadFloors(n)
    <3> DEFINE S == {b.sync : b \in OwnBlocks(n, p)}
    <3>1. /\ db'[n] = db[n] /\ db'[p] = db[p]
          /\ sync'[n].through = Highest(KeysOf(OwnShares(n, p)), db[p].mark)
          /\ sync'[n].syncFloor = Highest(S, db[p].blockMark)
      BY <1>1, <2>3, FloorsEffect DEF Quiet, Still, p
    <3>2. /\ OwnShares(n, p) \in SUBSET Share /\ db[p].mark <= MaxKey + 1
          /\ OwnBlocks(n, p) \subseteq Block /\ db[p].blockMark \in 0..MaxSync
      BY <1>3 DEF FactsOf, IsDatabase, OwnShares, OwnBlocks
    <3>3. db[p].mark <= sync'[n].through BY <1>5, <3>1, <3>2, HighestKey
    <3>4. S \in SUBSET (0..MaxSync) BY <3>2, BlockFacts
    <3>5. \A b \in OwnBlocks(n, p) : b.sync \in S OBVIOUS
    <3> HIDE DEF S
    <3>6. /\ db[p].blockMark <= sync'[n].syncFloor
          /\ \A y \in S : y <= sync'[n].syncFloor
      BY <3>1, <3>2, <3>4, HighestIn
    <3>7. ASSUME NEW b \in OwnBlocks(n, n)
          PROVE  b.sync <= sync'[n].syncFloor \/ b.sync <= db[n].syncSeq
      <4>1. b \in db[p].blocks \/ b.sync <= db[n].syncSeq
        BY <1>3 DEF VouchedIn, OwnBlocks, p
      <4>2. b \in db[p].blocks => b \in OwnBlocks(n, p) BY DEF OwnBlocks
      <4> QED BY <3>5, <3>6, <4>1, <4>2
    <3>8. OwnBlocks(n, n)' = OwnBlocks(n, n) BY <3>1 DEF OwnBlocks
    <3> QED BY <3>1, <3>3, <3>6, <3>7, <3>8
  <2>4. CASE /\ sync[n].stage = "verify" /\ sync'[n].through = sync[n].through
             /\ sync'[n].syncFloor = sync[n].syncFloor
    <3>1. /\ \/ db[p].mark <= sync[n].through
             \/ \E s \in db[n].shares : db[p].mark <= s.key
          /\ \/ db[p].blockMark <= sync[n].syncFloor
             \/ db[p].blockMark <= db[n].syncSeq
          /\ \A b \in OwnBlocks(n, n) :
               b.sync <= sync[n].syncFloor \/ b.sync <= db[n].syncSeq
          /\ sync[p].safe <= db[n].syncSeq
      BY <1>1, <2>4 DEF AheadAt, p
    <3>2. \/ db'[p].mark <= sync'[n].through
          \/ \E s \in db'[n].shares : db'[p].mark <= s.key
      <4>1. CASE \E s \in db[n].shares : db'[p].mark <= s.key BY <2>2, <4>1
      <4>2. CASE db'[p].mark <= db[p].mark
        BY <1>5, <1>6, <2>2, <2>4, <3>1, <4>2
      <4> QED BY <1>7, <4>1, <4>2
    <3>3. \/ db'[p].blockMark <= sync'[n].syncFloor
          \/ db'[p].blockMark <= db'[n].syncSeq
      <4>1. CASE \E b \in OwnBlocks(n, n) : db'[p].blockMark = b.sync
        BY <1>5, <1>6, <2>2, <2>4, <3>1, <4>1
      <4> QED BY <1>5, <1>6, <1>7, <2>2, <2>4, <3>1, <4>1
    <3>4. ASSUME NEW b \in OwnBlocks(n, n)'
          PROVE  b.sync <= sync'[n].syncFloor \/ b.sync <= db'[n].syncSeq
      <4>1. MissingBlocks(n) = {}
        BY <1>1, <2>4 DEF Whole, WholeAt, MissingBlocks
      <4>2. b \in OwnBlocks(n, n) \/ b.sync <= db[n].syncSeq BY <1>9, <2>1, <4>1
      <4>3. b.sync \in Nat BY <1>4, BlockFacts DEF OwnBlocks, IsDatabase
      <4> QED BY <1>5, <1>6, <2>2, <2>4, <3>1, <4>2, <4>3
    <3> QED BY <3>2, <3>3, <3>4
  <2> QED BY <1>11, <2>3, <2>4, Reached
<1> QED BY <1>8, <1>10, <1>11 DEF AheadAt, p

\* A landing still open was open before, or begins.
LEMMA LandingHeld ==
    ASSUME SyncInv, OneRestored, [Next]_vars, NEW n \in Node,
           NEW b \in open'[n].landings
    PROVE  /\ From(n, db[n], db'[n])
           /\ \/ b \in open[n].landings
              \/ /\ Good(n) /\ db'[Peer(n)] = db[Peer(n)]
                 /\ sync'[Peer(n)] = sync[Peer(n)]
                 /\ open'[n].landings \subseteq open[n].landings \cup {b}
                 /\ db'[n].shares = db[n].shares /\ db'[n].blocks = db[n].blocks
                 /\ db'[n].syncSeq = db[n].syncSeq + 1
                 /\ b.sync = db[n].syncSeq + 1 /\ b.origin = n
                 /\ b.window = db[n].shares
<1>1. Typed /\ LatchedAt(n) BY DEF SyncInv, Latched
<1>2. From(n, db[n], db'[n])
  <2>1. ~Restore(n) BY <1>1, RestoreEffect
  <2> QED BY <2>1, Gains
<1>3. CASE BeginLanding(n)
  <2>1. Good(n)
    <3>1. Writes(n) BY <1>1, <1>3, LandingEffect
    <3> QED BY <1>1, <3>1 DEF Writes, OneRestored, LatchedAt, Serving
  <2>2. PICK c \in Block :
          /\ open'[n].landings = open[n].landings \cup {c}
          /\ c.sync = db[n].syncSeq + 1 /\ c.origin = n
          /\ c.window = db[n].shares
    BY <1>1, <1>3, LandingEffect
  <2>3. /\ db'[Peer(n)] = db[Peer(n)] /\ sync'[Peer(n)] = sync[Peer(n)]
        /\ db'[n].shares = db[n].shares /\ db'[n].blocks = db[n].blocks
        /\ db'[n].syncSeq = db[n].syncSeq + 1
    BY <1>1, <1>3, LandingEffect DEF Still, SameLog
  <2> QED BY <1>2, <2>1, <2>2, <2>3
<1>4. CASE \/ DrawShare(n) \/ EndAppend(n) \/ CommitLanding(n) \/ AbortLanding(n)
           \/ TakeBackup(n)
  <2>1. open'[n].landings \subseteq open[n].landings
    BY <1>1, <1>4, DrawEffect, AppendEffect, CommitEffect, AbortEffect,
       BackupEffect DEF Quiet
  <2> QED BY <1>2, <2>1
<1>5. CASE \/ ReadShares(n) \/ ReadBarrier(n) \/ FailShares(n) \/ FailPass(n)
           \/ LatchWithoutPeer(n) \/ ReadFloors(n) \/ Crash(n) \/ StopFrontend(n)
  <2>1. open'[n].landings \subseteq open[n].landings
    BY <1>1, <1>5, ReadEffect, BarrierEffect, FailSharesEffect, FailPassEffect,
       LatchEffect, FloorsEffect, CrashEffect, StopEffect DEF Quiet
  <2> QED BY <1>2, <2>1
<1>6. CASE \/ RaiseSequence(n) \/ ApplyShares(n) \/ PullBlock(n)
           \/ RecoverShares(n) \/ RecoverBlocks(n) \/ Verify(n)
  <2>1. open'[n] = open[n]
    BY <1>1, <1>6, RaiseEffect, ApplyEffect, PullEffect, RecoverEffect,
       BlocksEffect, VerifyEffect
  <2> QED BY <1>2, <2>1
<1>7. CASE Restore(n) BY <1>1, <1>7, RestoreEffect
<1>8. CASE Act(Peer(n)) \/ UNCHANGED vars
  BY <1>1, <1>2, <1>8, Others DEF Rests
<1> QED BY <1>3, <1>4, <1>5, <1>6, <1>7, <1>8, Actor DEF Act

LEMMA LandingStep ==
    ASSUME SyncInv, OneRestored, [Next]_vars
    PROVE  Landing'
<1> SUFFICES ASSUME NEW n \in Node, NEW b \in open'[n].landings
             PROVE  /\ b.origin = n /\ b.sync <= db'[n].syncSeq
                    /\ b.window \subseteq db'[n].shares
                    /\ db'[Peer(n)].blockMark < b.sync
                    /\ sync'[Peer(n)].safe < b.sync
  BY DEF Landing, LandingAt
<1> DEFINE p == Peer(n)
<1>1. /\ p \in Node /\ Peer(p) = n /\ Typed /\ AheadAt(n) /\ LandingAt(n)
  BY Peers DEF SyncInv, Ahead, Landing
<1>2. FactsOf(n) /\ FactsOf(p) BY <1>1, Facts
<1>3. IsDatabase(db'[n]) /\ IsDatabase(db'[p])
  <2>1. db'[n] \in Database /\ db'[p] \in Database BY <1>1, DbTyped
  <2> QED BY <2>1, DatabaseFacts
<1> HIDE DEF p
<1>4. /\ db[n].syncSeq \in Nat /\ db'[n].syncSeq \in Nat /\ db[p].blockMark \in Nat
      /\ db'[p].blockMark \in Nat /\ sync[p].safe \in Int
  BY <1>2, <1>3 DEF FactsOf, IsDatabase
<1>5. From(n, db[n], db'[n]) BY LandingHeld
<1>6. CASE b \in open[n].landings
  <2>1. /\ b.origin = n /\ b.sync <= db[n].syncSeq /\ b.window \subseteq db[n].shares
        /\ db[p].blockMark < b.sync /\ sync[p].safe < b.sync
    BY <1>1, <1>6 DEF LandingAt, p
  <2>2. b.sync \in Nat /\ b.sync >= 1
    <3>1. b \in Block BY <1>2, <1>6 DEF FactsOf
    <3> QED BY <3>1, BlockFacts
  <2>3. b.sync <= db'[n].syncSeq /\ b.window \subseteq db'[n].shares
    <3>1. db[n].syncSeq <= db'[n].syncSeq /\ db[n].shares \subseteq db'[n].shares
      BY <1>5 DEF From
    <3> QED BY <1>4, <2>1, <2>2, <3>1
  <2>4. db'[p].blockMark < b.sync
    BY <1>1, <1>4, <2>1, <2>2, BlockMarkSteps
  <2>5. sync'[p].safe < b.sync
    <3>1. ~BarrierTaken(n) BY <1>6 DEF BarrierTaken
    <3>2. sync'[p].safe = sync[p].safe \/ sync'[p].safe = NoMark
      BY <1>1, <3>1, SafeSteps
    <3> QED BY <2>1, <2>2, <3>2 DEF NoMark
  <2> QED BY <2>1, <2>3, <2>4, <2>5 DEF p
<1>7. CASE /\ Good(n) /\ db'[p] = db[p] /\ sync'[p] = sync[p]
           /\ db'[n].shares = db[n].shares /\ db'[n].syncSeq = db[n].syncSeq + 1
           /\ b.sync = db[n].syncSeq + 1 /\ b.origin = n /\ b.window = db[n].shares
  <2>1. db[p].blockMark <= db[n].syncSeq /\ sync[p].safe <= db[n].syncSeq
    BY <1>1, <1>7 DEF AheadAt, p
  <2> QED BY <1>4, <1>7, <2>1 DEF p
<1> QED BY <1>6, <1>7, LandingHeld DEF p

LEMMA VouchedStep ==
    ASSUME SyncInv, OneRestored, [Next]_vars
    PROVE  Vouched'
<1> SUFFICES ASSUME NEW n \in Node, NEW D \in Kept(n)', NEW b \in D.blocks,
                    b.origin = n
             PROVE  \/ Peer(n) \notin Restorable /\ b \in db'[Peer(n)].blocks
                    \/ b.sync <= D.syncSeq /\ b.window \subseteq D.shares
  BY DEF Vouched, VouchedIn
<1> DEFINE p == Peer(n)
<1>1. p \in Node /\ p # n /\ Typed /\ LandingAt(n) BY Peers DEF SyncInv, Landing
<1> HIDE DEF p
<1>2. PICK E \in Kept(n) : From(n, E, D) BY Sources
<1>3. IsDatabase(E) /\ VouchedIn(n, E)
  BY <1>1, KeptFacts DEF SyncInv, Vouched
<1>4. IsDatabase(D)
  <2>1. db'[n] \in Database BY <1>1, DbTyped
  <2>2. backup[n] # NoBackup => IsDatabase(backup[n]) BY <1>1, Facts DEF FactsOf
  <2> QED BY <1>1, <2>1, <2>2, Copies, DatabaseFacts
<1>5. /\ E.syncSeq <= D.syncSeq /\ E.shares \subseteq D.shares
      /\ E.syncSeq \in Nat /\ D.syncSeq \in Nat /\ b.sync \in Nat
  BY <1>2, <1>3, <1>4, BlockFacts DEF From, IsDatabase
<1>6. p \notin Restorable => db[p].blocks \subseteq db'[p].blocks
  <2>1. p \notin Restorable => ~Restore(p) BY DEF Restore
  <2>2. p \notin Restorable => From(p, db[p], db'[p]) BY <1>1, <2>1, Gains
  <2> QED BY <2>2 DEF From
<1>7. CASE b \in E.blocks
  <2>1. \/ p \notin Restorable /\ b \in db[p].blocks
        \/ b.sync <= E.syncSeq /\ b.window \subseteq E.shares
    BY <1>3, <1>7 DEF VouchedIn, p
  <2> QED BY <1>5, <1>6, <2>1 DEF p
<1>8. CASE E = db[n] /\ Committed(n, b)
  <2>1. b.sync <= db[n].syncSeq /\ b.window \subseteq db[n].shares
    BY <1>1, <1>8 DEF Committed, LandingAt
  <2> QED BY <1>5, <1>8, <2>1
<1>9. CASE RecoveredBlock(n, b)
  <2>1. b \in db[p].blocks
    BY <1>9 DEF RecoveredBlock, MissingBlocks, OwnBlocks, p
  <2>2. p \notin Restorable BY <1>9, PeerKept DEF RecoveredBlock, p
  <2> QED BY <1>6, <2>1, <2>2 DEF p
<1>10. ~PulledBlock(n, b) BY <1>1 DEF PulledBlock, Pending, OwnBlocks, p
<1> QED BY <1>2, <1>7, <1>8, <1>9, <1>10 DEF From, Moved, NewBlock

LEMMA OneNumberStep ==
    ASSUME SyncInv, OneRestored, [Next]_vars
    PROVE  OneNumber'
<1> SUFFICES ASSUME NEW n \in Node, NEW b \in Numbered(n)', NEW c \in Numbered(n)',
                    b.sync = c.sync
             PROVE  b = c
  BY DEF OneNumber, OneNumberAt
<1> DEFINE p == Peer(n)
<1>1. /\ p \in Node /\ Typed /\ OneNumberAt(n) /\ AheadAt(n) /\ WholeAt(n)
      /\ LandingAt(n)
  BY Peers DEF SyncInv, OneNumber, Ahead, Whole, Landing
<1>2. FactsOf(n) /\ FactsOf(p) BY <1>1, Facts
<1> HIDE DEF p
<1>3. \A d \in Numbered(n) : d.sync \in Nat
  BY <1>2, BlockFacts DEF FactsOf, IsDatabase, Numbered, OwnBlocks, p
<1>4. ASSUME NEW d \in Numbered(n)'
      PROVE  d \in Numbered(n) \/ (d \in open'[n].landings /\ d \notin open[n].landings)
  <2>1. d \in OwnBlocks(n, n)' \/ d \in OwnBlocks(n, p)' \/ d \in open'[n].landings
    BY DEF Numbered, p
  <2>2. CASE d \in OwnBlocks(n, n)'
    BY <2>2, OwnHere DEF Numbered, Committed, RecoveredBlock, MissingBlocks
  <2>3. CASE d \in OwnBlocks(n, p)' BY <2>3, OwnThere DEF Numbered, p
  <2> QED BY <2>1, <2>2, <2>3 DEF Numbered
\* A landing that begins draws a number above all that were drawn.
<1>5. ASSUME NEW d \in open'[n].landings, d \notin open[n].landings,
             NEW e \in Numbered(n)'
      PROVE  e = d \/ (e \in Numbered(n) /\ e.sync < d.sync)
  <2>1. /\ Good(n) /\ open'[n].landings \subseteq open[n].landings \cup {d}
        /\ d.sync = db[n].syncSeq + 1
    BY <1>5, LandingHeld
  <2>2. CASE e \in Numbered(n)
    <3>1. e \in OwnBlocks(n, n) \/ e \in open[n].landings
      BY <1>1, <2>1, <2>2 DEF WholeAt, Numbered
    <3>2. e.sync <= db[n].syncSeq BY <1>1, <2>1, <3>1 DEF AheadAt, LandingAt
    <3>3. e.sync \in Nat /\ db[n].syncSeq \in Nat
      BY <1>2, <1>3, <2>2 DEF FactsOf, IsDatabase
    <3> QED BY <2>1, <2>2, <3>2, <3>3
  <2> QED BY <1>4, <2>1, <2>2
<1>6. CASE b \in Numbered(n) /\ c \in Numbered(n)
  BY <1>1, <1>6 DEF OneNumberAt
<1>7. CASE b \in open'[n].landings /\ b \notin open[n].landings
  <2>1. c = b \/ (c \in Numbered(n) /\ c.sync < b.sync) BY <1>5, <1>7
  <2> QED BY <1>3, <2>1
<1>8. CASE c \in open'[n].landings /\ c \notin open[n].landings
  <2>1. b = c \/ (b \in Numbered(n) /\ b.sync < c.sync) BY <1>5, <1>8
  <2> QED BY <1>3, <2>1
<1> QED BY <1>4, <1>6, <1>7, <1>8

\* What a node recovers the peer held, and the peer keeps no backup.
LEMMA RecoveredThere ==
    ASSUME SyncInv, OneRestored, [Next]_vars, NEW n \in Node,
           Peer(n) \in Restorable
    PROVE  /\ \A E \in Kept(n) : E = db[n]
           /\ \A s : Recovered(Peer(n), s) => s \in db[n].shares
           /\ \A b : RecoveredBlock(Peer(n), b) => b \in db[n].blocks
<1>1. Typed /\ Peer(Peer(n)) = n BY Peers DEF SyncInv
<1>2. n \notin Restorable BY PeerKept
<1>3. backup[n] = NoBackup BY <1>2, NeverRestored
<1> QED
  BY <1>1, <1>3
  DEF Kept, Recovered, RecoveredBlock, MissingShares, MissingBlocks,
      OwnShares, OwnBlocks

LEMMA CompleteStep ==
    ASSUME SyncInv, OneRestored, [Next]_vars
    PROVE  Complete'
<1> SUFFICES ASSUME NEW n \in Node, NEW D \in Kept(n)' PROVE CompleteIn(n, D)'
  BY DEF Complete
<1> DEFINE p == Peer(n)
<1>1. /\ p \in Node /\ p # n /\ Peer(p) = n /\ Typed /\ Behind /\ DrawnAt(p)
      /\ BatchAt(n) /\ LandingAt(p) /\ OneNumberAt(p)
  BY Peers DEF SyncInv, Drawn, Batch, Landing, OneNumber
<1>2. FactsOf(n) /\ FactsOf(p) BY <1>1, Facts
<1>3. PICK E \in Kept(n) : From(n, E, D) BY Sources
<1>4. /\ IsDatabase(E) /\ CompleteIn(n, E)
      /\ E.mark <= db[n].mark /\ E.blockMark <= db[n].blockMark
  BY <1>1, KeptFacts DEF SyncInv, Complete, Behind, BehindAt
<1> HIDE DEF p
<1>5. /\ E.shares \subseteq D.shares /\ E.refused \subseteq D.refused
      /\ E.blocks \subseteq D.blocks
      /\ D.mark = E.mark \/ (Moved(n, E, D) /\ MarkMoves(n))
      /\ D.blockMark = E.blockMark \/ (Moved(n, E, D) /\ BlockMarkMoves(n))
  BY <1>3 DEF From
<1>6. /\ E.mark \in Nat /\ E.blockMark \in Nat /\ db[n].mark \in Nat
      /\ db[n].blockMark \in Nat /\ sync[n].through \in Nat /\ sync[n].safe \in Int
  BY <1>2, <1>4 DEF FactsOf, IsDatabase
<1>7. Peer(n) \in Restorable => E = db[n] BY RecoveredThere
<1>8. ASSUME NEW s \in OwnShares(p, p)', s.key <= D.mark
      PROVE  s \in D.shares \/ s.key \in D.refused
  <2>1. s \in OwnShares(p, p) \/ Landed(p, s) \/ Recovered(p, s)
    BY <1>1, OwnHere
  <2>2. CASE s \in OwnShares(p, p)
    <3>1. s.key \in Nat BY <1>2, <2>2, ShareFacts DEF FactsOf, IsDatabase, OwnShares
    <3>2. CASE s.key <= E.mark
      BY <1>4, <1>5, <2>2, <3>2 DEF CompleteIn, p
    <3>3. CASE ~(s.key <= E.mark)
      <4>1. Moved(n, E, D) /\ MarkMoves(n) BY <1>5, <1>8, <3>3
      <4>2. /\ E = db[n] /\ D = db'[n] /\ sync[n].stage = "apply"
            /\ D.mark = sync[n].through
            /\ \A t \in sync[n].rows : t \in D.shares \/ t.key \in D.refused
        BY <4>1 DEF Moved, MarkMoves
      <4>3. db[n].mark < s.key /\ s.key <= sync[n].through
        BY <1>6, <1>8, <3>1, <3>3, <4>2
      <4>4. s \in sync[n].rows \/ s \in db[n].shares
        BY <1>1, <2>2, <4>2, <4>3 DEF BatchAt, p
      <4> QED BY <1>5, <4>2, <4>4
    <3> QED BY <3>2, <3>3
  <2>3. ~Landed(p, s)
    <3>1. ASSUME Landed(p, s) PROVE FALSE
      <4>1. s \in Share BY <1>2, <3>1 DEF Landed, FactsOf
      <4>2. s.key \in Nat BY <4>1, ShareFacts
      <4>3. /\ db[n].mark < s.key
            /\ sync[n].stage = "apply" => sync[n].through < s.key
        BY <1>1, <3>1 DEF Landed, DrawnAt
      <4>4. CASE D.mark = E.mark BY <1>4, <1>6, <1>8, <4>2, <4>3, <4>4
      <4>5. CASE Moved(n, E, D) /\ MarkMoves(n)
        <5>1. sync[n].stage = "apply" /\ D.mark = sync[n].through
          BY <4>5 DEF Moved, MarkMoves
        <5> QED BY <1>6, <1>8, <4>2, <4>3, <5>1
      <4> QED BY <1>5, <4>4, <4>5
    <3> QED BY <3>1
  <2>4. CASE Recovered(p, s)
    <3>1. E = db[n] /\ s \in db[n].shares
      BY <1>7, <2>4, RecoveredThere DEF Recovered, p
    <3> QED BY <1>5, <3>1
  <2> QED BY <2>1, <2>2, <2>3, <2>4
<1>9. ASSUME NEW b \in OwnBlocks(p, p)', b.sync <= D.blockMark
      PROVE  b \in D.blocks
  <2>1. b \in OwnBlocks(p, p) \/ Committed(p, b) \/ RecoveredBlock(p, b)
    BY <1>1, OwnHere
  <2>2. \A c \in Pending(n) : c \in OwnBlocks(p, p) /\ c.sync <= sync[n].safe
    BY DEF Pending, p
  <2>3. \A c \in OwnBlocks(p, p) : c.sync \in Nat
    BY <1>2, BlockFacts DEF FactsOf, IsDatabase, OwnBlocks
  <2>4. CASE b \in OwnBlocks(p, p)
    <3>1. CASE b.sync <= E.blockMark
      BY <1>4, <1>5, <2>4, <3>1 DEF CompleteIn, p
    <3>2. CASE ~(b.sync <= E.blockMark)
      <4>1. Moved(n, E, D) /\ BlockMarkMoves(n) BY <1>5, <1>9, <3>2
      <4>2. E = db[n] /\ D = db'[n] BY <4>1 DEF Moved
      <4>3. db[n].blockMark < b.sync BY <1>6, <2>3, <2>4, <3>2, <4>2
      <4>4. b.sync <= sync[n].safe => b \in Pending(n)
        BY <1>6, <2>3, <2>4, <4>3 DEF Pending, p
      <4>5. CASE Pending(n) = {} /\ D.blockMark = sync[n].safe
        BY <1>9, <4>4, <4>5
      <4>6. ASSUME NEW c \in Pending(n), D.blockMark = c.sync, c \in D.blocks,
                   \A other \in Pending(n) : c.sync <= other.sync
            PROVE  b \in D.blocks
        <5>1. b.sync <= sync[n].safe BY <1>6, <1>9, <2>2, <2>3, <2>4, <4>6
        <5>2. c.sync <= b.sync BY <4>4, <4>6, <5>1
        <5>3. b.sync = c.sync BY <1>9, <2>2, <2>3, <2>4, <4>6, <5>2
        <5>4. b = c BY <1>1, <2>2, <2>4, <5>3 DEF OneNumberAt, Numbered
        <5> QED BY <4>6, <5>4
      <4> QED BY <4>1, <4>2, <4>5, <4>6 DEF BlockMarkMoves
    <3> QED BY <3>1, <3>2
  <2>5. ~Committed(p, b)
    <3>1. ASSUME Committed(p, b) PROVE FALSE
      <4>1. b \in Block BY <1>2, <3>1 DEF Committed, FactsOf
      <4>2. b.sync \in Nat BY <4>1, BlockFacts
      <4>3. db[n].blockMark < b.sync /\ sync[n].safe < b.sync
        BY <1>1, <3>1 DEF Committed, LandingAt
      <4>4. CASE D.blockMark = E.blockMark BY <1>4, <1>6, <1>9, <4>2, <4>3, <4>4
      <4>5. CASE Moved(n, E, D) /\ BlockMarkMoves(n)
        <5>1. \/ D.blockMark = sync[n].safe
              \/ \E c \in Pending(n) : D.blockMark = c.sync
          BY <4>5 DEF Moved, BlockMarkMoves
        <5> QED BY <1>6, <1>9, <2>2, <2>3, <4>2, <4>3, <5>1
      <4> QED BY <1>5, <4>4, <4>5
    <3> QED BY <3>1
  <2>6. CASE RecoveredBlock(p, b)
    <3>1. E = db[n] /\ b \in db[n].blocks
      BY <1>7, <2>6, RecoveredThere DEF RecoveredBlock, p
    <3> QED BY <1>5, <3>1
  <2> QED BY <2>1, <2>4, <2>5, <2>6
<1> QED BY <1>8, <1>9 DEF CompleteIn, p

LEMMA WindowedStep ==
    ASSUME SyncInv, OneRestored, [Next]_vars
    PROVE  Windowed'
<1> SUFFICES ASSUME NEW n \in Node, NEW D \in Kept(n)', NEW b \in D.blocks,
                    b.origin = Peer(n), NEW s \in b.window
             PROVE  s \in D.shares \/ s.key \in D.refused
  BY DEF Windowed, WindowedIn
<1> DEFINE p == Peer(n)
<1>1. /\ p \in Node /\ p # n /\ Peer(p) = n /\ \A m \in Node : m = n \/ m = p
      /\ Typed /\ LandingAt(n) /\ LatchedAt(n) /\ WholeAt(n)
  BY Peers DEF SyncInv, Landing, Latched, Whole, Node, Peer
<1>2. FactsOf(n) /\ FactsOf(p) BY <1>1, Facts
<1>3. PICK E \in Kept(n) : From(n, E, D) BY Sources
<1>4. WindowedIn(n, E) /\ WindowedIn(n, db[n]) /\ CompleteIn(n, db[n])
      /\ VouchedIn(p, db[p])
  BY <1>1, KeptFacts DEF SyncInv, Windowed, Complete, Vouched
<1> HIDE DEF p
<1>5. E.shares \subseteq D.shares /\ E.refused \subseteq D.refused
  BY <1>3 DEF From
<1>6. CASE b \in E.blocks BY <1>4, <1>5, <1>6 DEF WindowedIn
<1>7. ~Committed(n, b) /\ ~RecoveredBlock(n, b)
  BY <1>1 DEF Committed, LandingAt, RecoveredBlock, MissingBlocks, OwnBlocks, p
<1>8. CASE E = db[n] /\ PulledBlock(n, b)
  <2>1. /\ sync[n].stage = "blocks" /\ b \in OwnBlocks(p, p)
        /\ b.window # {} => db[n].mark >= LastShare(b)
    BY <1>8 DEF PulledBlock, Pending, WindowCovered, p
  <2>2. Good(n)
    BY <1>1, <2>1 DEF LatchedAt, Pulling, Serving
  <2>3. OwnShares(n, p) \subseteq OwnShares(n, n) BY <1>1, <2>2 DEF WholeAt, p
  <2>4. CASE n \notin Restorable /\ b \in db[n].blocks
    BY <1>4, <1>5, <1>8, <2>4 DEF WindowedIn
  <2>5. CASE b.window \subseteq db[p].shares
    <3>1. s \in db[p].shares /\ s \in Share BY <1>2, <2>5 DEF FactsOf, IsDatabase
    <3>2. Origin(s.key) \in Node
      <4>1. s.key \in Nat BY <3>1, ShareFacts
      <4> QED BY <4>1, Parity
    <3>3. CASE Origin(s.key) = n
      <4>1. s \in db[n].shares BY <2>3, <3>1, <3>3 DEF OwnShares
      <4> QED BY <1>5, <1>8, <4>1
    <3>4. CASE Origin(s.key) = p
      <4>1. b.window \in SUBSET Share BY <1>2, <2>5 DEF FactsOf, IsDatabase
      <4>2. s.key <= LastShare(b) /\ LastShare(b) \in Nat
        BY <4>1, HighestKey DEF LastShare
      <4>3. s.key \in Nat /\ db[n].mark \in Nat
        BY <1>2, <3>1, ShareFacts DEF FactsOf, IsDatabase
      <4>4. s.key <= db[n].mark BY <2>1, <4>2, <4>3
      <4>5. s \in db[n].shares \/ s.key \in db[n].refused
        BY <1>4, <3>1, <3>4, <4>4 DEF CompleteIn, OwnShares, p
      <4> QED BY <1>5, <1>8, <4>5
    <3> QED BY <1>1, <3>2, <3>3, <3>4
  <2>6. \/ n \notin Restorable /\ b \in db[n].blocks
        \/ b.window \subseteq db[p].shares
    BY <1>1, <1>4, <2>1 DEF VouchedIn, OwnBlocks
  <2> QED BY <2>4, <2>5, <2>6
<1> QED BY <1>3, <1>6, <1>7, <1>8 DEF From, Moved, NewBlock

-----------------------------------------------------------------------------
(* The theorems.                                                           *)

LEMMA SyncInit == Init => SyncInv
<1> SUFFICES ASSUME Init PROVE SyncInv OBVIOUS
<1>1. Typed BY TypedInit
<1>2. ASSUME NEW n \in Node
      PROVE  /\ db[n].shares = {} /\ db[n].seq = n /\ db[n].blocks = {}
             /\ db[n].syncSeq = 0 /\ db[n].mark = Floor /\ db[n].blockMark = 0
             /\ db[n].timeline = 0 /\ db[n].verified = 0
             /\ open[n].append = NoAppend /\ open[n].landings = {}
             /\ backup[n] = NoBackup /\ Kept(n) = {db[n]}
             /\ sync[n].latch = 0 /\ sync[n].stage = "idle" /\ sync[n].safe = NoMark
  BY <1>2 DEF Init, FreshSync, Kept
<1>3. \A n \in Node : Peer(n) \in Node BY Peers
<1>4. Latched
  BY <1>2 DEF Latched, LatchedAt, Good, Serving, CaughtUp, SameServer, NoTimeline,
     Pulling, Recovering
<1>5. Behind BY <1>2 DEF Behind, BehindAt, Floor
<1>6. Keyed /\ RaisedFirst /\ Drawn /\ Batch
  BY <1>2, <1>3 DEF Keyed, KeyedIn, RaisedFirst, RaisedAt, Drawn, DrawnAt,
     Batch, BatchAt
<1>7. Prefix /\ Whole
  BY <1>2, <1>3 DEF Prefix, PrefixIn, Whole, WholeAt, OwnShares, OwnBlocks
<1>8. Ahead
  <2> SUFFICES ASSUME NEW n \in Node PROVE AheadAt(n) BY DEF Ahead
  <2>1. n \in Nat /\ Peer(n) \in Node BY <1>3 DEF Node
  <2>2. /\ db[Peer(n)].mark = Floor /\ db[Peer(n)].blockMark = 0
        /\ sync[Peer(n)].safe = NoMark /\ sync[n].stage = "idle"
        /\ db[n].seq = n /\ db[n].syncSeq = 0 /\ db[n].blocks = {}
    BY <1>2, <2>1
  <2> QED BY <2>1, <2>2 DEF AheadAt, OwnBlocks, Floor, NoMark
<1>9. Landing /\ Vouched BY <1>2, <1>3 DEF Landing, LandingAt, Vouched, VouchedIn
<1>10. OneNumber
  BY <1>2, <1>3 DEF OneNumber, OneNumberAt, Numbered, OwnBlocks
<1>11. Complete /\ Windowed
  BY <1>2, <1>3 DEF Complete, CompleteIn, Windowed, WindowedIn, OwnShares, OwnBlocks
<1> QED
  BY <1>1, <1>4, <1>5, <1>6, <1>7, <1>8, <1>9, <1>10, <1>11 DEF SyncInv

LEMMA SyncStep == ASSUME SyncInv, OneRestored, [Next]_vars PROVE SyncInv'
<1>1. Typed' BY TypedStep DEF SyncInv
<1>2. Latched' /\ Behind' /\ Keyed' /\ RaisedFirst' /\ Drawn' /\ Batch'
  BY LatchedStep, BehindStep, KeyedStep, RaisedStep, DrawnStep, BatchStep
<1>3. Prefix' /\ Whole' /\ Ahead' /\ Landing' /\ Vouched' /\ OneNumber'
  BY PrefixStep, WholeStep, AheadStep, LandingStep, VouchedStep, OneNumberStep
<1>4. Complete' /\ Windowed' BY CompleteStep, WindowedStep
<1> QED BY <1>1, <1>2, <1>3, <1>4 DEF SyncInv

\* The invariant holds in every state, whichever node is the one restored.
THEOREM SyncSafe == ASSUME OneRestored PROVE Spec => []SyncInv
<1>1. SyncInv /\ [Next]_vars => SyncInv' BY SyncStep
<1> QED BY <1>1, SyncInit, PTL DEF Spec

\* Every variable keeps its type, whoever is restored and whatever is written
\* in the gap.
THEOREM TypesKept == Spec => []TypeOK
<1>1. Typed /\ [Next]_vars => Typed' BY TypedStep
<1>2. Typed => TypeOK BY DEF Typed
<1> QED BY <1>1, <1>2, TypedInit, PTL DEF Spec

\* No cursor passes a row of the peer's that is not here (CursorsComplete).
THEOREM NothingSkipped == ASSUME OneRestored PROVE Spec => []CursorsComplete
<1>1. SyncInv => CursorsComplete
  BY KeptFacts DEF SyncInv, Complete, CompleteIn, CursorsComplete
<1> QED BY <1>1, SyncSafe, PTL

\* A block of the peer's comes with its window (WindowHeld).
THEOREM WindowWithBlock == ASSUME OneRestored PROVE Spec => []WindowHeld
<1>1. SyncInv => WindowHeld
  BY KeptFacts DEF SyncInv, Windowed, WindowedIn, WindowHeld, OwnBlocks
<1> QED BY <1>1, SyncSafe, PTL

\* A node that serves holds its own log whole (OwnLogWhole).
THEOREM ServesWhole == ASSUME OneRestored PROVE Spec => []OwnLogWhole
<1>1. SyncInv => OwnLogWhole
  BY DEF SyncInv, Latched, LatchedAt, Serving, Whole, WholeAt, OwnLogWhole
<1> QED BY <1>1, SyncSafe, PTL
=============================================================================
