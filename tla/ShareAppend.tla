----------------------------- MODULE ShareAppend -----------------------------
(***************************************************************************)
(* From an admitted proof to its answer (coordinator/miner_submit.rs,      *)
(* coordinator/submit_ledger.rs, ledger/window.rs, ledger/candidates.rs):  *)
(* the spawned append or enqueue, its transaction under ORDER_LOCK, the    *)
(* commit gate between COMMIT and the acknowledgement deadline, and what   *)
(* the miner is told.                                                      *)
(*                                                                         *)
(* All submissions carry ONE proof (one share_id, one block hash): a miner *)
(* that lost its answer sends it again, over the same or another session.  *)
(* The job was issued at revision 0.  The database commits to a standby    *)
(* synchronously, but a COMMIT cancelled while it waits for the standby is *)
(* reported as a success.  Admission (which path a submission takes) is an *)
(* input here, constrained by the tip and the revision it read.            *)
(***************************************************************************)
EXTENDS Naturals

CONSTANTS
    Submission,   \* the submissions of the proof
    Proofs,       \* what a proof may pass: "share", "block" or "both"
    Capture,      \* PRISM_CAPTURE_OVERPAY_CEILING_BPS > 0
    MaxBumps,     \* bounds: settlements that move the revision, lost
    MaxFaults,    \* connections and failed statements,
    MaxFailovers  \* promotions of the standby

ASSUME AppendAssumption ==
    /\ Proofs \subseteq {"share", "both", "block"}
    /\ Capture \in BOOLEAN
    /\ {MaxBumps, MaxFaults, MaxFailovers} \subseteq Nat
    /\ "settlement" \notin Submission

VARIABLES
    db,       \* the primary: revision, the proof's share rows, its outbox row
    standby,  \* what the standby holds of it
    sub,      \* each submission: its path, its gate, its task and its answer
    proof,    \* the targets the proof passes: the share's, the block's, both
    tip,      \* where the job's parent stands: tip, leased, or moved on
    active,   \* the proof's block is on the node's active chain
    left      \* what is left of the budgets

vars == <<db, standby, sub, proof, tip, active, left>>

Closures == {"deadline", "unavailable", "stale", "authority-contended"}
GateStates == {"open", "contended", "committing"} \cup Closures
Forms == {"credited", "deferred", "bare"}
RowStates == {"pending", "offered", "lost", "abandoned", "confirmed"}
NoRow == [form |-> "none"]
NoWrite == [share |-> FALSE, form |-> "none"]
Tags == Submission \cup {"settlement"}
ShareRow == [by : Tags, grace : BOOLEAN]
Results == {"none", "inserted", "recorded", "captured", "enqueued", "closed",
            "moved", "unheld", "refused", "io"}
Codes == {"none", "accepted", "duplicate", "stale", "unavailable", "failed",
          "unknown"}
Paths == {"none", "share", "enqueue"}
Database == [rev : Nat, shares : SUBSET ShareRow,
             row : {NoRow} \cup [form : Forms, by : Submission,
                                 state : RowStates]]

Fresh == [pc |-> "idle", path |-> "none", form |-> "none", grace |-> FALSE,
          fenced |-> FALSE, rev |-> 0, gate |-> "open", task |-> "none",
          doomed |-> FALSE, tx |-> "none", write |-> NoWrite,
          res |-> "none", slow |-> FALSE, code |-> "none", own |-> FALSE]

SubmissionState ==
    [pc : {"idle", "wait", "grace", "settle", "done", "gone"},
     path : Paths, form : Forms \cup {"none"}, grace : BOOLEAN,
     fenced : BOOLEAN, rev : Nat, gate : GateStates,
     task : {"none", "probe", "start", "hook", "contended", "commit", "ended"},
     doomed : BOOLEAN, tx : {"none", "open", "sent"},
     write : [share : BOOLEAN, form : Forms \cup {"none"}],
     res : Results, slow : BOOLEAN, code : Codes, own : BOOLEAN]

\* What every variable ranges over.
TypeOK ==
    /\ db \in Database /\ standby \in Database
    /\ proof \in Proofs /\ tip \in {"parent", "leased", "moved"}
    /\ active \in BOOLEAN
    /\ left \in [faults : 0..MaxFaults, failovers : 0..MaxFailovers]
    /\ sub \in [Submission -> SubmissionState]

Init ==
    /\ db = [rev |-> 0, shares |-> {}, row |-> NoRow]
    /\ standby = db
    /\ sub = [s \in Submission |-> Fresh]
    /\ proof \in Proofs /\ tip = "parent" /\ active = FALSE
    /\ left = [faults |-> MaxFaults, failovers |-> MaxFailovers]

-----------------------------------------------------------------------------
\* The commit gate: CommitGate's compare-and-swap transitions.

BeginCommit(gate) == IF gate = "open" THEN "committing" ELSE gate
Contend(gate) == IF gate = "open" THEN "contended" ELSE gate
Reopen(gate) == IF gate = "contended" THEN "open" ELSE gate

\* Mutant: the deadline closes a gate whose COMMIT is in flight.
CloseForCommittingToo(gate, reason) == reason

CloseFor(gate, reason) ==
    CASE gate = "contended" /\ reason = "deadline" -> "authority-contended"
      [] gate \in {"open", "contended"} -> reason
      [] OTHER -> gate

\* close() answered true: COMMIT was not sent and never will be.
Closed(gate) == gate \in Closures

ClosedGateOutcome(gate) ==
    CASE gate = "stale" -> "stale"
      [] gate \in {"unavailable", "authority-contended"} -> "unavailable"
      [] OTHER -> "failed"

\* Mutant: every append may be refused and aborted at its deadline.
RefusableAlways(s) == TRUE

\* An append that carries a block candidate is never refused by the gate.
Refusable(s) == sub[s].form = "none"

-----------------------------------------------------------------------------
\* The submission: which path it takes, and the task it spawns.

\* Mutant: appends do not wait for ORDER_LOCK.
OrderFree == FALSE

\* ORDER_LOCK: held from the first statement to the end of the transaction.
OrderHeld == \E s \in Submission : sub[s].tx \in {"open", "sent"}

Spawn(s, path, form, grace, fenced) ==
    /\ sub[s].pc = "idle"
    /\ sub' = [sub EXCEPT ![s] =
                 [@ EXCEPT !.pc = "wait", !.path = path, !.form = form,
                           !.grace = grace, !.fenced = fenced, !.rev = db.rev,
                           !.task = IF path = "share" THEN "start"
                                    ELSE "probe"]]
    /\ UNCHANGED <<db, standby, proof, tip, active, left>>

\* Current work: the share, with its block's candidate if the proof has one.
SubmitCurrent(s) ==
    /\ tip = "parent" /\ db.rev = 0 /\ proof # "block"
    /\ Spawn(s, "share", IF proof = "both" THEN "credited" ELSE "none",
             FALSE, FALSE)

\* The published parent was left by the node: credit under a lease, no block.
SubmitLeased(s) ==
    /\ tip = "leased" /\ proof # "block"
    /\ Spawn(s, "share", "none", FALSE, TRUE)

\* Stale grace: credit at the current revision, marked as such.
SubmitGrace(s) ==
    /\ tip = "moved" /\ proof # "block"
    /\ Spawn(s, "share", "none", TRUE, FALSE)

\* A block below the share target, or captured on a superseded revision.
SubmitDeferred(s) ==
    /\ tip = "parent"
    /\ \/ proof = "block" /\ (db.rev = 0 \/ Capture)
       \/ proof = "both" /\ db.rev # 0 /\ Capture
    /\ Spawn(s, "enqueue", "deferred", FALSE, FALSE)

\* Work a same-parent payout retired: its block is captured, never its share.
SubmitBlockOnly(s) ==
    /\ tip = "parent" /\ proof # "share" /\ Capture /\ db.rev # 0
    /\ Spawn(s, "enqueue", "bare", FALSE, FALSE)

-----------------------------------------------------------------------------
\* The append's task, up to COMMIT.

End(s, res) == [sub[s] EXCEPT !.task = "ended", !.tx = "none",
                              !.write = NoWrite, !.res = res]
Recorded == db.shares # {}
SamePayload(s) == \A r \in db.shares : r.grace = sub[s].grace

\* append_prepared and append_called: what the statements decide to write, or
\* that they end the append before its hook.  After a promotion the primary
\* may not hold the window the block pays.
DecisionAt(s, moved) ==
    LET stop(res) == {[ends |-> TRUE, write |-> NoWrite, res |-> res]}
        go(share, form, res) ==
            {[ends |-> FALSE, write |-> [share |-> share, form |-> form],
              res |-> res]}
        row(share, form, res) ==
            (IF db.row = NoRow THEN go(share, form, res)
             ELSE IF db.row.form = form
             THEN go(share, "none", IF share THEN res ELSE "recorded")
             ELSE stop("refused"))
            \cup (IF left.failovers = MaxFailovers THEN {} ELSE stop("unheld"))
    IN CASE moved /\ (sub[s].form = "none" \/ ~Capture) -> stop("moved")
         [] moved /\ Recorded -> stop("recorded")
         [] moved /\ ~Recorded -> row(FALSE, "deferred", "captured")
         [] ~moved /\ Recorded /\ ~SamePayload(s) -> stop("recorded")
         [] ~moved /\ sub[s].form = "none" ->
              go(~Recorded, "none",
                 IF Recorded THEN "recorded" ELSE "inserted")
         [] OTHER ->
              row(~Recorded, "credited",
                  IF Recorded THEN "recorded" ELSE "inserted")

\* Mutant: the revision is not read again under ORDER_LOCK.
DecisionUnfenced(s) == DecisionAt(s, FALSE)

Decision(s) == DecisionAt(s, db.rev # sub[s].rev)

\* Statements that end the append roll back; the others hold ORDER_LOCK for
\* the hook.
Statements(s) ==
    /\ sub[s].path = "share" /\ sub[s].task = "start" /\ ~OrderHeld
    /\ \E d \in Decision(s) :
         sub' = [sub EXCEPT ![s] =
                   IF d.ends THEN End(s, d.res)
                   ELSE [@ EXCEPT !.task = "hook", !.tx = "open",
                                  !.write = d.write, !.res = d.res]]
    /\ UNCHANGED <<db, standby, proof, tip, active, left>>

\* commit_gated on a gate that did not let COMMIT through: roll back; a row
\* that was already durable is reported all the same, and a fenced append
\* that met contention goes round again.
RollBack(s, gate) ==
    LET kept == sub[s].res = "recorded" /\ Refusable(s)
    IN [sub[s] EXCEPT !.gate = gate, !.tx = "none", !.write = NoWrite,
                      !.task = IF ~kept /\ gate = "contended"
                               THEN "contended" ELSE "ended",
                      !.res = IF kept THEN "recorded" ELSE "closed"]

\* The pre-COMMIT hook: begin_commit, behind the lease's fence if there is one.
Hook(s) ==
    /\ sub[s].task = "hook" /\ sub[s].tx = "open"
    /\ \E verdict \in IF sub[s].fenced
                      THEN {"ok", "contended", "stale", "unavailable"}
                      ELSE {"ok"} :
         LET gate == CASE verdict = "ok" -> BeginCommit(sub[s].gate)
                       [] verdict = "contended" -> Contend(sub[s].gate)
                       [] OTHER -> CloseFor(sub[s].gate, verdict)
         IN sub' = [sub EXCEPT ![s] =
                      IF verdict = "ok" /\ sub[s].gate = "open"
                      THEN [@ EXCEPT !.gate = gate, !.task = "commit",
                                     !.tx = "sent"]
                      ELSE RollBack(s, gate)]
    /\ UNCHANGED <<db, standby, proof, tip, active, left>>

\* retry_after_contention: wait for the authority and go round again, unless
\* the lease or the deadline refused meanwhile.
RetryAfterContention(s) ==
    /\ sub[s].task = "contended"
    /\ \E verdict \in {"ok", "stale", "unavailable"} :
         LET gate == IF verdict = "ok" THEN Reopen(sub[s].gate)
                     ELSE CloseFor(sub[s].gate, verdict)
         IN sub' = [sub EXCEPT ![s] =
                      IF gate = "open"
                      THEN [@ EXCEPT !.gate = gate, !.task = "start",
                                     !.res = "none"]
                      ELSE [@ EXCEPT !.gate = gate, !.task = "ended",
                                     !.res = "closed"]]
    /\ UNCHANGED <<db, standby, proof, tip, active, left>>

\* The task was aborted at an await before COMMIT; its transaction rolls back.
Aborted(s) ==
    /\ sub[s].doomed /\ sub[s].task \in {"start", "hook", "contended"}
    /\ sub' = [sub EXCEPT ![s] = End(s, "none")]
    /\ UNCHANGED <<db, standby, proof, tip, active, left>>

-----------------------------------------------------------------------------
\* The enqueue's task: probe, then the row in a transaction of its own.

ProbeShare(s) ==
    /\ sub[s].task = "probe"
    /\ sub' = [sub EXCEPT ![s] = IF Recorded THEN End(s, "recorded")
                                 ELSE [@ EXCEPT !.task = "start"]]
    /\ UNCHANGED <<db, standby, proof, tip, active, left>>

Enqueue(s) ==
    /\ sub[s].path = "enqueue" /\ sub[s].task = "start" /\ ~OrderHeld
    /\ \/ /\ db.row # NoRow
          /\ sub' = [sub EXCEPT ![s] = End(s, "recorded")]
       \/ /\ db.row = NoRow /\ left.failovers # MaxFailovers
          /\ sub' = [sub EXCEPT ![s] = End(s, "unheld")]
       \/ /\ db.row = NoRow
          /\ sub' = [sub EXCEPT ![s] =
                       [@ EXCEPT !.task = "commit", !.tx = "sent",
                          !.res = "enqueued",
                          !.write = [share |-> FALSE, form |-> sub[s].form]]]
    /\ UNCHANGED <<db, standby, proof, tip, active, left>>

-----------------------------------------------------------------------------
\* The server's end of a COMMIT, and the reply.

Applied(s) ==
    [db EXCEPT
       !.shares = IF sub[s].write.share
                  THEN @ \cup {[by |-> s, grace |-> sub[s].grace]} ELSE @,
       !.row = IF sub[s].write.form # "none"
               THEN [form |-> sub[s].write.form, by |-> s,
                     state |-> "pending"] ELSE @]

\* The transaction ends, and its task with it if the reply finds it.
Ended(s, res, slow) ==
    [sub[s] EXCEPT !.tx = "none", !.write = NoWrite,
       !.task = "ended", !.slow = slow,
       !.res = IF sub[s].task = "commit" THEN res ELSE @]

\* Committed on both, in time or not.
ServerCommits(s) ==
    /\ sub[s].tx = "sent"
    /\ db' = Applied(s) /\ standby' = db'
    /\ \E slow \in BOOLEAN :
         sub' = [sub EXCEPT ![s] = Ended(s, sub[s].res, slow)]
    /\ UNCHANGED <<proof, tip, active, left>>

\* statement_timeout cancels the wait for the standby: committed here only,
\* and reported as a success.
ServerCommitsLocally(s) ==
    /\ sub[s].tx = "sent" /\ left.faults > 0
    /\ db' = Applied(s)
    /\ sub' = [sub EXCEPT ![s] = Ended(s, sub[s].res, TRUE)]
    /\ left' = [left EXCEPT !.faults = @ - 1]
    /\ UNCHANGED <<standby, proof, tip, active>>

\* A severity-ERROR reply to COMMIT: rolled back.
ServerRefuses(s) ==
    /\ sub[s].tx = "sent" /\ left.faults > 0
    /\ sub' = [sub EXCEPT ![s] = Ended(s, "refused", FALSE)]
    /\ left' = [left EXCEPT !.faults = @ - 1]
    /\ UNCHANGED <<db, standby, proof, tip, active>>

\* A statement fails before COMMIT, with the server's error or without one.
StatementFails(s) ==
    /\ sub[s].task \in {"probe", "start"} /\ left.faults > 0
    /\ \E res \in {"refused", "io"} :
         sub' = [sub EXCEPT ![s] =
                   End(s, IF sub[s].task = "probe" THEN "refused" ELSE res)]
    /\ left' = [left EXCEPT !.faults = @ - 1]
    /\ UNCHANGED <<db, standby, proof, tip, active>>

\* The connection breaks after COMMIT was sent: the server goes on.
ConnectionLost(s) ==
    /\ sub[s].task = "commit" /\ left.faults > 0
    /\ sub' = [sub EXCEPT ![s] = [@ EXCEPT !.task = "ended", !.res = "io"]]
    /\ left' = [left EXCEPT !.faults = @ - 1]
    /\ UNCHANGED <<db, standby, proof, tip, active>>

\* The standby is promoted: what only the primary held is gone, and every
\* open transaction with it.
Failover ==
    /\ left.failovers > 0
    /\ db' = standby
    /\ sub' = [s \in Submission |->
                 IF sub[s].tx = "none" THEN sub[s] ELSE End(s, "io")]
    /\ left' = [left EXCEPT !.failovers = @ - 1]
    /\ UNCHANGED <<standby, proof, tip, active>>

-----------------------------------------------------------------------------
\* The answer.

Answered(s, code, own) ==
    [sub[s] EXCEPT !.pc = "done", !.code = code, !.own = own]

\* Mutant: a COMMIT that took the whole statement_timeout is confirmed.
AppendOutcomeUnguarded(s) ==
    CASE sub[s].res = "closed" -> ClosedGateOutcome(sub[s].gate)
      [] sub[s].res \in {"moved", "unheld"} -> "stale"
      [] sub[s].res = "recorded" -> "duplicate"
      [] sub[s].gate = "committing" /\ sub[s].res = "inserted" -> "accepted"
      [] sub[s].gate = "committing" /\ sub[s].res = "io" -> "unknown"
      [] OTHER -> "failed"

\* classify_share_append and the outcomes that are decided on its result.
AppendOutcome(s) ==
    CASE sub[s].res = "closed" -> ClosedGateOutcome(sub[s].gate)
      [] sub[s].res \in {"moved", "unheld"} -> "stale"
      [] sub[s].res = "recorded" -> "duplicate"
      [] sub[s].gate = "committing" /\ sub[s].res = "inserted" ->
           IF sub[s].slow THEN "unknown" ELSE "accepted"
      [] sub[s].gate = "committing" /\ sub[s].res = "io" -> "unknown"
      [] OTHER -> "failed"

\* persist_share_pass: the append ended by its deadline, or within the grace.
AppendJoined(s) ==
    /\ sub[s].path = "share" /\ sub[s].pc \in {"wait", "grace"}
    /\ sub[s].task = "ended"
    /\ sub' = [sub EXCEPT ![s] =
                 IF sub[s].res # "captured"
                 THEN Answered(s, AppendOutcome(s), TRUE)
                 ELSE IF sub[s].slow \/ sub[s].pc = "grace"
                 THEN Answered(s, "unknown", FALSE)
                 ELSE [@ EXCEPT !.pc = "settle"]]
    /\ UNCHANGED <<db, standby, proof, tip, active, left>>

\* The acknowledgement deadline of an append: an open gate is closed and its
\* task aborted; a COMMIT in flight gets the grace; a block runs on.
Deadline(s) ==
    /\ sub[s].path = "share" /\ sub[s].pc = "wait"
    /\ LET gate == CloseFor(sub[s].gate, "deadline")
       IN sub' = [sub EXCEPT ![s] =
            IF Refusable(s) /\ Closed(gate)
            THEN [Answered(s, ClosedGateOutcome(gate), TRUE) EXCEPT
                    !.gate = gate, !.doomed = TRUE]
            ELSE IF Refusable(s) \/ sub[s].gate = "committing"
            THEN [@ EXCEPT !.pc = "grace"]
            ELSE Answered(s, "unknown", FALSE)]
    /\ UNCHANGED <<db, standby, proof, tip, active, left>>

GraceEnds(s) ==
    /\ sub[s].pc = "grace"
    /\ sub' = [sub EXCEPT ![s] = Answered(s, "unknown", FALSE)]
    /\ UNCHANGED <<db, standby, proof, tip, active, left>>

\* persist_block_only: the enqueue ended within its bound.  What it could not
\* learn it reads from the outbox; a share that is not deferred is refused.
EnqueueJoined(s) ==
    /\ sub[s].path = "enqueue" /\ sub[s].pc = "wait"
    /\ sub[s].task = "ended"
    /\ sub' = [sub EXCEPT ![s] =
                 CASE sub[s].res = "recorded" -> Answered(s, "duplicate", TRUE)
                   [] sub[s].res = "refused" -> Answered(s, "failed", TRUE)
                   [] sub[s].res = "unheld" -> Answered(s, "stale", TRUE)
                   [] OTHER -> IF sub[s].form = "bare"
                               THEN Answered(s, "stale", FALSE)
                               ELSE [@ EXCEPT !.pc = "settle"]]
    /\ UNCHANGED <<db, standby, proof, tip, active, left>>

\* The bound of an enqueue, or of the wait for its block's disposition.
BoundEnds(s) ==
    /\ \/ sub[s].path = "enqueue" /\ sub[s].pc = "wait"
       \/ sub[s].pc = "settle"
    /\ sub' = [sub EXCEPT ![s] = Answered(s, "unknown", FALSE)]
    /\ UNCHANGED <<db, standby, proof, tip, active, left>>

\* deferred_share_disposition: one poll that decides.
Poll(s) ==
    /\ sub[s].pc = "settle"
    /\ LET state == IF db.row = NoRow THEN "none" ELSE db.row.state
       IN \/ /\ Recorded
             /\ sub' = [sub EXCEPT ![s] = Answered(s, "accepted", FALSE)]
          \/ /\ ~Recorded /\ state = "abandoned"
             /\ sub' = [sub EXCEPT ![s] = Answered(s, "stale", FALSE)]
          \/ /\ ~Recorded /\ state = "lost"
             /\ sub' = [sub EXCEPT ![s] = Answered(s, "failed", FALSE)]
    /\ UNCHANGED <<db, standby, proof, tip, active, left>>

\* The session goes away: AppendTask::drop aborts an append it can still
\* refuse; a block's append, a COMMIT in flight and an enqueue run on.
Disconnect(s) ==
    /\ sub[s].pc \in {"wait", "grace", "settle"}
    /\ LET gate == CloseFor(sub[s].gate, "deadline")
           aborts == /\ sub[s].path = "share" /\ Refusable(s)
                     /\ sub[s].task # "ended" /\ Closed(gate)
       IN sub' = [sub EXCEPT ![s] =
                    [@ EXCEPT !.pc = "gone",
                              !.gate = IF aborts THEN gate ELSE sub[s].gate,
                              !.doomed = sub[s].doomed \/ aborts]]
    /\ UNCHANGED <<db, standby, proof, tip, active, left>>

-----------------------------------------------------------------------------
\* Around them: settlements, the block's own way, the chain.

Write(new) ==
    /\ ~OrderHeld
    /\ db' = new /\ standby' = new

\* Another block's settlement moves the payout revision.
Bump ==
    /\ db.rev < MaxBumps
    /\ Write([db EXCEPT !.rev = @ + 1])
    /\ UNCHANGED <<sub, proof, tip, active, left>>

RowMoves(from, to) ==
    /\ db.row # NoRow /\ db.row.state \in from
    /\ Write([db EXCEPT !.row.state = to])
    /\ UNCHANGED <<sub, proof, tip, active, left>>

\* The lanes' part (CandidateOutbox): offered, refused by the node or proved
\* an orphan, or abandoned before the offer.
Offer == RowMoves({"pending"}, "offered")
Lose == ~active /\ RowMoves({"offered"}, "lost")
Abandon == RowMoves({"pending"}, "abandoned")

\* The block was confirmed: credit_deferred_share appends what was deferred.
\* A row of another payload fails the settlement, which is tried again.
Creditable ==
    \/ db.row.form # "deferred"
    \/ \A r \in db.shares : ~r.grace

Confirm ==
    /\ db.row # NoRow /\ active
    /\ db.row.state \in {"offered", "lost"}
    /\ Creditable
    /\ Write([db EXCEPT !.rev = @ + 1, !.row.state = "confirmed",
                !.shares = IF db.row.form = "deferred" /\ ~Recorded
                           THEN {[by |-> "settlement", grace |-> FALSE]}
                           ELSE @])
    /\ UNCHANGED <<sub, proof, tip, active, left>>

BlockActive ==
    /\ db.row # NoRow /\ db.row.state \in {"offered", "lost"}
    /\ ~active /\ active' = TRUE
    /\ UNCHANGED <<db, standby, sub, proof, tip, left>>

TipMoves ==
    /\ \/ tip = "parent" /\ tip' \in {"leased", "moved"}
       \/ tip = "leased" /\ tip' = "moved"
    /\ UNCHANGED <<db, standby, sub, proof, active, left>>

-----------------------------------------------------------------------------
Submit(s) ==
    SubmitCurrent(s) \/ SubmitLeased(s) \/ SubmitGrace(s)
      \/ SubmitDeferred(s) \/ SubmitBlockOnly(s)

Task(s) ==
    Statements(s) \/ Hook(s) \/ RetryAfterContention(s) \/ Aborted(s)
      \/ ProbeShare(s) \/ Enqueue(s)

Server(s) == ServerCommits(s) \/ ServerCommitsLocally(s) \/ ServerRefuses(s)

Answer(s) ==
    AppendJoined(s) \/ Deadline(s) \/ GraceEnds(s) \/ EnqueueJoined(s)
      \/ BoundEnds(s) \/ Poll(s) \/ Disconnect(s)

Faults(s) == StatementFails(s) \/ ConnectionLost(s)

Next ==
    \/ \E s \in Submission :
         Submit(s) \/ Task(s) \/ Server(s) \/ Answer(s) \/ Faults(s)
    \/ Failover \/ Bump \/ Offer \/ Abandon \/ Lose \/ Confirm
    \/ BlockActive \/ TipMoves

Spec == Init /\ [][Next]_vars

\* A spawned task takes its next step, PostgreSQL serves those who wait for
\* ORDER_LOCK in turn and ends what it was sent, and the landing loop keeps
\* trying a block that is active.
FairSpec ==
    /\ Spec
    /\ \A s \in Submission :
         /\ WF_vars(Task(s)) /\ WF_vars(Server(s))
         /\ SF_vars(Statements(s) \/ Enqueue(s))
    /\ WF_vars(Confirm)

-----------------------------------------------------------------------------
\* What must hold.

\* A share the miner was told is accepted is in the ledger, and stays there
\* through a promotion of the standby: a COMMIT that only the primary took
\* is never confirmed (sync_rep_unknown).
AcceptedSurvives ==
    \A s \in Submission :
      sub[s].code = "accepted" /\ sub[s].own =>
        db.shares # {} /\ standby.shares # {}

\* A definite refusal is final: an append or enqueue that was answered
\* stale, unavailable or failed has written nothing and never will, whatever
\* its task, the server and the deadline do (CommitGate, classify).
Refusals == {"stale", "unavailable", "failed"}
Wrote(s, base) ==
    \/ \E r \in base.shares : r.by = s
    \/ base.row # NoRow /\ base.row.by = s
RefusedWroteNothing ==
    \A s \in Submission :
      sub[s].own /\ sub[s].code \in Refusals => ~Wrote(s, db)

\* One proof, one share row, however often it is sent and whether its own
\* append or its block's settlement credits it (append_probed under
\* ORDER_LOCK).
ProofCreditedOnce == \A a, b \in db.shares : a = b

\* A share is credited only at the revision its submission was admitted at:
\* a settlement in between refuses it, or captures its block in its place
\* (the FOR SHARE fence of append_prepared).
CreditedAtRevision ==
    [][\A s \in Submission : \A grace \in BOOLEAN :
         [by |-> s, grace |-> grace] \in db'.shares \ db.shares =>
           /\ db.rev = sub[s].rev
           /\ db'.row.form = "deferred" => db'.row.by # s]_vars

\* A found block whose append or enqueue was spawned is in the outbox when
\* the task has ended, although the deadline passed, the fence was lost or the
\* miner went away (CommitGate refuses no append that carries a block), unless
\* the proof was recorded before, the database refused or failed, the capture
\* may not be held or is switched off, or a promotion lost it.
Excused(s) ==
    \/ sub[s].res \in {"recorded", "unheld", "refused", "io"}
    \/ sub[s].res = "moved" /\ ~Capture
    \/ left.failovers < MaxFailovers
BlockReachesOutbox ==
    \A s \in Submission :
      sub[s].form # "none" /\ sub[s].task = "ended" /\ sub[s].tx = "none" =>
        db.row # NoRow \/ Excused(s)

\* A captured block that is active is settled and its share credited, "once,
\* whenever it commits".
CaptureSettles ==
    (db.row.form = "deferred" /\ active) ~>
      (db.row.form # "deferred" \/ db.row.state = "confirmed")
=============================================================================
