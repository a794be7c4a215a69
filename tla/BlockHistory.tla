---------------------------- MODULE BlockHistory ----------------------------
(***************************************************************************)
(* The block history of the Umbrel app's telemetry poller                  *)
(* (permissionless_telemetry.py).                                          *)
(*                                                                         *)
(* CKPool writes its counters to a status file; the poller turns growing   *)
(* block counters into events, scans the chain for blocks whose coinbase   *)
(* pays the app's address, and joins the two: an event waits until the     *)
(* scan finds a block for it, a block scanned first gets its worker from a *)
(* later event.  The state is one file, replaced atomically once per poll. *)
(* RPC calls fail at any point of a scan, the poller and CKPool restart,   *)
(* and the node reorganises the chain.                                     *)
(*                                                                         *)
(* A history row is its height, worker and time; every row the scan admits *)
(* carries the block's hash.  Rows of releases before the scan (hashless)  *)
(* and the cap of 100 rows are left out.                                   *)
(***************************************************************************)
EXTENDS Integers, Sequences, FiniteSets, SequencesExt

CONSTANTS
    Worker,       \* CKPool's workers
    Anonymous,    \* "permissionless miner": a scanned block without event
    Other,        \* the payee of blocks that are not the app's
    MatchWindow,  \* an event names a scanned block at most this far apart
    ScanBack,     \* blocks the first scan goes back
    MaxClock,     \* bound: ticks of the clock
    MaxTip,       \* bound: blocks
    MaxFaults     \* bound: restarts, failed writes and reorganisations

ASSUME NamesAssumption ==
    IsFiniteSet(Worker) /\ Anonymous \notin Worker /\ Other \notin Worker

ASSUME BoundsAssumption ==
    /\ MatchWindow \in Nat /\ ScanBack \in Nat
    /\ MaxClock \in Nat /\ MaxTip \in Nat /\ MaxFaults \in Nat

VARIABLES
    clock,   \* wall clock
    chain,   \* chain[h]: the worker that found block h, or Other
    found,   \* found[w]: blocks of w's that CKPool's node accepted
    pool,    \* CKPool's runtime and block counters
    status,  \* the status file
    memory,  \* the poller's state
    disk,    \* the state file
    faults,
    replaced, \* heights whose block a reorganisation took out once scanned
    cut      \* a scan stopped after it had given events to blocks

vars ==
    <<clock, chain, found, pool, status, memory, disk, faults, replaced, cut>>

Counts == [Worker -> Nat]
Pool == [started : Nat, blocks : Counts]
Status == [lastupdate : Nat, runtime : Nat, blocks : Counts]
Event == [worker : Worker, found_at : Nat]
Entry == [height : Nat, worker : Worker \cup {Anonymous}, found_at : Nat]

\* runtime and scanned are -1 before the first poll and the first scan.
State == [runtime : Nat \cup {-1}, lastupdate : Nat, blocks : Counts,
          history : SUBSET Entry, pending : Seq(Event),
          scanned : Nat \cup {-1}]

NoBlocks == [w \in Worker |-> 0]

NewState == [runtime |-> -1, lastupdate |-> 0, blocks |-> NoBlocks,
             history |-> {}, pending |-> <<>>, scanned |-> -1]

TypeOK ==
    /\ clock \in Nat /\ faults \in Nat /\ replaced \in SUBSET Nat
    /\ chain \in Seq(Worker \cup {Other})
    /\ found \in Counts /\ pool \in Pool /\ status \in Status
    /\ memory \in State /\ disk \in State
    /\ \A s \in {memory, disk} : \A q, r \in s.history :
           q.height = r.height => q = r
    /\ cut \in BOOLEAN

Init ==
    /\ clock = 0 /\ chain = <<>> /\ faults = 0 /\ replaced = {}
    /\ found = NoBlocks
    /\ pool = [started |-> 0, blocks |-> NoBlocks]
    /\ status = [lastupdate |-> 0, runtime |-> 0, blocks |-> NoBlocks]
    /\ memory = NewState /\ disk = NewState /\ cut = FALSE

-----------------------------------------------------------------------------
(* CKPool and the chain (external).                                        *)

Tick ==
    /\ clock < MaxClock
    /\ clock' = clock + 1
    /\ UNCHANGED <<chain, found, pool, status, memory, disk, faults, replaced, cut>>

\* A worker's block is accepted, and extends the chain unless it lost a race.
FindBlock(w) ==
    /\ found[w] < MaxTip
    /\ found' = [found EXCEPT ![w] = @ + 1]
    /\ pool' = [pool EXCEPT !.blocks[w] = @ + 1]
    /\ \/ Len(chain) < MaxTip /\ chain' = Append(chain, w)
       \/ UNCHANGED chain
    /\ UNCHANGED <<clock, status, memory, disk, faults, replaced, cut>>

OtherBlock ==
    /\ Len(chain) < MaxTip
    /\ chain' = Append(chain, Other)
    /\ UNCHANGED <<clock, found, pool, status, memory, disk, faults, replaced, cut>>

\* A longer branch takes the blocks above a height out; the app's blocks in
\* it are ones the node had accepted.
Reorganise ==
    \E fork \in 0 .. Len(chain) - 1 :
      \E branch \in [1 .. Len(chain) - fork + 1 -> Worker \cup {Other}] :
        LET next == SubSeq(chain, 1, fork) \o branch
        IN  /\ Len(chain) < MaxTip /\ faults < MaxFaults
            /\ \A w \in Worker :
                   Cardinality({h \in DOMAIN next : next[h] = w}) <= found[w]
            /\ chain' = next /\ faults' = faults + 1
            /\ replaced' = replaced \cup
                   {h \in 1 .. Len(chain) :
                       /\ next[h] # chain[h]
                       /\ \E s \in {memory, disk} : h <= s.scanned}
            /\ UNCHANGED <<clock, found, pool, status, memory, disk, cut>>

WriteStatus ==
    /\ status' = [lastupdate |-> clock, runtime |-> clock - pool.started,
                  blocks |-> pool.blocks]
    /\ UNCHANGED <<clock, chain, found, pool, memory, disk, faults, replaced, cut>>

RestartPool ==
    /\ faults < MaxFaults /\ faults' = faults + 1
    /\ pool' = [started |-> clock, blocks |-> NoBlocks]
    /\ UNCHANGED <<clock, chain, found, status, memory, disk, replaced, cut>>

-----------------------------------------------------------------------------
(* snapshot: counters to events, events to scanned blocks.                 *)

\* Mutant: a restart is also seen in counters that merely stand still.
ResetOnRepeat(s) == s.runtime < 0 \/ status.runtime <= s.runtime

\* CKPool restarted since the state was written.
Reset(s) ==
    \/ s.runtime < 0
    \/ status.runtime < s.runtime
    \/ status.lastupdate < s.lastupdate

\* The events of one worker.
NewBlocks(s, w) ==
    LET before == IF Reset(s) THEN 0 ELSE s.blocks[w]
        count == status.blocks[w] - before
    IN  IF count <= 0 THEN <<>>
        ELSE [i \in 1 .. count |->
                 [worker |-> w, found_at |-> status.lastupdate]]

Distance(a, b) == IF a > b THEN a - b ELSE b - a

\* Scanned blocks an event may name, and of those the nearest in time; the
\* history is sorted by height, newest first, and min() takes the first.
Confirmed(history, e) ==
    {r \in history : r.worker = Anonymous
                     /\ Distance(r.found_at, e.found_at) <= MatchWindow}

Match(history, e) ==
    CHOOSE r \in Confirmed(history, e) :
        \A q \in Confirmed(history, e) :
            \/ Distance(r.found_at, e.found_at) < Distance(q.found_at, e.found_at)
            \/ /\ Distance(r.found_at, e.found_at) = Distance(q.found_at, e.found_at)
               /\ r.height >= q.height

\* Mutant: the event becomes a row of its own beside the scanned one.
AttributeInserts(s, e) ==
    IF Confirmed(s.history, e) = {}
    THEN [s EXCEPT !.pending = Append(@, e)]
    ELSE [s EXCEPT !.history = @ \cup {[Match(s.history, e) EXCEPT
                                   !.worker = e.worker,
                                   !.found_at = e.found_at]}]

\* An event names the nearest anonymous block, or waits for the scan.
Attribute(s, e) ==
    IF Confirmed(s.history, e) = {}
    THEN [s EXCEPT !.pending = Append(@, e)]
    ELSE LET r == Match(s.history, e)
         IN  [s EXCEPT !.history = (@ \ {r}) \cup
                {[r EXCEPT !.worker = e.worker, !.found_at = e.found_at]}]

Snapshot(s) ==
    LET events == FoldLeft(LAMBDA q, w : q \o NewBlocks(s, w), <<>>,
                           SetToSeq(Worker))
        next == FoldLeft(Attribute, s, events)
    IN  [next EXCEPT !.runtime = status.runtime,
                     !.lastupdate = status.lastupdate,
                     !.blocks = status.blocks]

-----------------------------------------------------------------------------
(* scan_qbit_blocks: the chain to history rows.                            *)

Known(s, height) == \E r \in s.history : r.height = height

\* One height: a block of the app's takes the oldest waiting event.
ScanHeight(s, height) ==
    IF chain[height] = Other \/ Known(s, height) THEN s
    ELSE IF s.pending = <<>>
    THEN [s EXCEPT !.history = @ \cup {[height |-> height,
              worker |-> Anonymous, found_at |-> clock]}]
    ELSE [s EXCEPT !.pending = Tail(@),
              !.history = @ \cup {[height |-> height,
                  worker |-> Head(s.pending).worker,
                  found_at |-> Head(s.pending).found_at]}]

ScanStart(s) ==
    IF s.scanned # -1 THEN s.scanned + 1
    ELSE IF Len(chain) > ScanBack THEN Len(chain) - ScanBack ELSE 1

\* Mutant: a scan that stops takes the height it failed at for scanned.
StoppedAtFailed(height) == height

StoppedAt(height) == height - 1

Read(s, last) ==
    FoldLeft(ScanHeight, s,
             [i \in 1 .. last - ScanStart(s) + 1 |-> ScanStart(s) + i - 1])

(***************************************************************************)
(* Heights ScanStart .. last were read.  A scan the node cut short keeps   *)
(* the rows it made but returns before it stores the events they took.     *)
(* Waiting events are in the order of their times, so the code's sort of   *)
(* them changes nothing here.                                              *)
(***************************************************************************)
ScanTo(s, last) ==
    IF last = Len(chain)
    THEN [Read(s, last) EXCEPT !.scanned = last]
    ELSE [Read(s, last) EXCEPT !.scanned = StoppedAt(last + 1),
                               !.pending = s.pending]

TakenUntil(s, last) ==
    last < Len(chain) /\ Read(s, last).pending # s.pending

\* One turn of main: snapshot, scan, state file.
Poll ==
    LET s == Snapshot(memory)
    IN  /\ \/ memory' = s /\ UNCHANGED cut       \* getblockcount failed
           \/ \E last \in (ScanStart(s) - 1) .. Len(chain) :
                  /\ memory' = ScanTo(s, last)
                  /\ cut' = (cut \/ TakenUntil(s, last))
        /\ \/ disk' = memory' /\ UNCHANGED faults
           \/ /\ faults < MaxFaults /\ faults' = faults + 1
              /\ UNCHANGED disk
        /\ UNCHANGED <<clock, chain, found, pool, status, replaced>>

RestartPoller ==
    /\ faults < MaxFaults /\ faults' = faults + 1
    /\ memory' = disk
    /\ UNCHANGED <<clock, chain, found, pool, status, disk, replaced, cut>>

-----------------------------------------------------------------------------
Next ==
    \/ Tick
    \/ \E w \in Worker : FindBlock(w)
    \/ OtherBlock
    \/ Reorganise
    \/ WriteStatus
    \/ RestartPool
    \/ Poll
    \/ RestartPoller

Spec == Init /\ [][Next]_vars

-----------------------------------------------------------------------------
(***************************************************************************)
(* Up to the height the scan has reached, the history has a row for every  *)
(* block of the app's and for no other, through failed calls, failed       *)
(* writes, restarts and reorganisations (the first scan starts at the      *)
(* first block here).  Only a block that a reorganisation took out after   *)
(* it was scanned is wrong in it: its height is never read again.          *)
(***************************************************************************)
ScannedRecorded ==
    \A s \in {memory, disk} : \A h \in (1 .. s.scanned) \ replaced :
        chain[h] \in Worker <=> Known(s, h)

\* Rows and waiting events that carry worker w's name.
Named(s, w) ==
    Cardinality({r \in s.history : r.worker = w})
    + Cardinality({i \in DOMAIN s.pending : s.pending[i].worker = w})

(***************************************************************************)
(* A block event that was given to a paid block no longer waits, which is  *)
(* what test_chain_confirmation_assigns_pending_worker_to_paid_block and   *)
(* test_keeps_ckpool_block_pending_until_chain_confirmation assert: in     *)
(* rows and waiting events together nobody has more than it found.         *)
(***************************************************************************)
NoCreditTwice ==
    \A s \in {memory, disk} : \A w \in Worker : Named(s, w) <= found[w]

(***************************************************************************)
(* One find is one credit: counters of CKPool that start again, polls that *)
(* repeat, events that meet their block before or after the scan does and  *)
(* state that goes back to the file never let a worker be named for more   *)
(* blocks than it found (snapshot's reset and deltas, scan_qbit_blocks),   *)
(* unless a scan was cut short after it had given events to blocks.        *)
(***************************************************************************)
CreditedOnce == cut \/ NoCreditTwice
=============================================================================
