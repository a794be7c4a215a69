-------------------------- MODULE CandidateOutbox --------------------------
(***************************************************************************)
(* The offer of one found block.                                           *)
(*                                                                         *)
(* A found block is a row of qbit_block_candidate_outbox.  The frontends   *)
(* of a cluster share the database; each runs a submit loop that claims    *)
(* the row with a fresh token, screens it against the chain, reserves the  *)
(* offer, makes one submitblock call, records its answer, lands the audit  *)
(* of the block and settles the row by what the chain then shows.  Any     *)
(* frontend may take a claim over, an operator may abandon or recover the  *)
(* row or hold submission, the reorg reconciler settles the block on its   *)
(* own, and the database may fail over to a standby that lags.  The fences *)
(* are the claim token, the state of the row and the payout revision.      *)
(*                                                                         *)
(* Tokens are drawn from those nobody remembers: a UUID nobody holds is as *)
(* good as a new one.  No timing is assumed of leases.                     *)
(***************************************************************************)
EXTENDS Integers

CONSTANTS
    Frontend,             \* the processes that can claim the row
    Token,                \* claim tokens
    NoToken,              \* an unclaimed row
    OrphanConfirmations,  \* PRISM_CANDIDATE_ORPHAN_CONFIRMATIONS
    MaxWork,              \* bound per capture: changes of the chain's tip
    MaxFaults,            \* ... errors, crashes, takeovers of live claims
    MaxGateMoves,         \* bound: changes of the carry gate
    MaxFailovers          \* bound: failovers to the standby

ASSUME TokenAssumption == NoToken \notin Token

ASSUME OrphanAssumption ==
    OrphanConfirmations \in Nat /\ OrphanConfirmations >= 1

ASSUME OutboxBounds ==
    /\ MaxWork \in [{"off", "within", "over"} -> Nat]
    /\ MaxFaults \in [{"off", "within", "over"} -> Nat]
    /\ MaxGateMoves \in Nat /\ MaxFailovers \in Nat

-----------------------------------------------------------------------------
OfferStates == {"offer_reserved", "offered", "reconciliation"}  \* OFFERED_SQL
Unfinished  == {"pending"} \cup OfferStates                     \* UNFINISHED_SQL
Terminal    == {"submitted", "abandoned", "orphaned"}

\* The outcome column: none, an answer of the node's, or unknown.
Outcome == {"none", "answered", "unknown"}

Row == [state : Unfinished \cup Terminal, outcome : Outcome,
        token : Token \cup {NoToken}]

\* qbit_pool_blocks: none until the audit lands; published once confirmed.
PoolBlock == [chain : {"none", "prepared", "confirmed", "inactive"},
              published : BOOLEAN]

\* Everything the database holds about the block: `held` is the submission
\* hold, `seen` the work of the best tip observed, `applied` the work of the
\* tip by which the block was last settled (observation only).
Database == [row : Row, block : PoolBlock, held : BOOLEAN, revision : Nat,
             seen : Nat, applied : Nat]

\* What the node shows at the block's height: the tip is still its parent,
\* or the block is active, or another one is, so many blocks deep.
Chain == [at : {"parent", "ours", "other"}, depth : Nat, work : Nat,
          known : BOOLEAN]

\* observe_candidate: one coherent view of the chain and its revision.
Observation == [at : {"parent", "ours", "other"}, depth : Nat, work : Nat,
                revision : Nat]

Step == {"idle", "claimed", "adopt", "abandon", "reserve", "capture",
         "reserved", "waited", "check", "send", "calling", "unsent", "record",
         "land", "landing", "settle", "settling", "reconcile", "failed"}

Attempt == [pc : Step, token : Token \cup {NoToken},
            recovery : BOOLEAN,      \* candidates recover, not a lane
            state : Unfinished,      \* ClaimLifecycle.state
            obs : Observation,
            retried : BOOLEAN,       \* the landing lost a revision race
            current : BOOLEAN,       \* reserved_current
            generation : Nat,        \* carry_generation
            outcome : Outcome,       \* how the call ended
            flushed : BOOLEAN,       \* the standby held the reservation
            clean : BOOLEAN]         \* the gate had not moved at the check
                                     \* (both observation only)

\* `moved`: since the work was issued (observation only).
Gate == [paying : BOOLEAN, fencePending : BOOLEAN, generation : Nat,
         moved : BOOLEAN]

Kind == [leased : BOOLEAN, carry : BOOLEAN,
         capture : {"off", "within", "over"}]

VARIABLES
    kind,       \* what is fixed of the candidate and its configuration
    db,         \* the primary database
    standby,    \* the standby database
    attempt,    \* attempt[f]: what frontend f does with the row
    reconciler, \* the reorg reconciler between observation and write
    gate,       \* gate[f]: the carry gate of frontend f's process
    claims,     \* the node's latest journal row claims the carry
    chain,      \* the node's chain
    inflight,   \* a submitblock request is on its way to the node
    sent,       \* submitblock calls that may have run
    unflushed,  \* ... of them one before the standby held the reservation
    counted,    \* first confirmations counted by the frontends
    faults, failovers

vars == <<kind, db, standby, attempt, reconciler, gate, claims, chain,
          inflight, sent, unflushed, counted, faults, failovers>>

\* The block at the node and what the frontends remember of their offers.
wire == <<chain, inflight, sent, unflushed>>

\* What an attempt's step leaves alone.
outside == <<kind, standby, reconciler, gate, claims, faults, failovers>>

NoObservation == [at |-> "parent", depth |-> 0, work |-> 0, revision |-> 0]

Idle == [pc |-> "idle", token |-> NoToken, recovery |-> FALSE,
         state |-> "pending", obs |-> NoObservation, retried |-> FALSE,
         current |-> FALSE, generation |-> 0, outcome |-> "none",
         flushed |-> FALSE, clean |-> FALSE]

NoReconcile == [busy |-> FALSE, obs |-> NoObservation]

TypeOK ==
    /\ kind \in Kind
    /\ db \in Database /\ standby \in Database
    /\ attempt \in [Frontend -> Attempt]
    /\ reconciler \in [busy : BOOLEAN, obs : Observation]
    /\ gate \in [Frontend -> Gate]
    /\ claims \in BOOLEAN
    /\ chain \in Chain
    /\ inflight \in BOOLEAN
    /\ sent \in Nat /\ unflushed \in BOOLEAN /\ counted \in Nat
    /\ faults \in Nat /\ failovers \in Nat

\* The revision the work was issued at (Candidate.payout_revision).
Issued == 0

Pending == [row |-> [state |-> "pending", outcome |-> "none",
                     token |-> NoToken],
            block |-> [chain |-> "none", published |-> FALSE],
            held |-> FALSE, revision |-> Issued, seen |-> 0, applied |-> 0]

\* persist_candidate_row has committed the row; nobody has claimed it.
InitOf(kinds) ==
    /\ kind \in kinds
    /\ db = Pending /\ standby = Pending
    /\ attempt = [f \in Frontend |-> Idle]
    /\ reconciler = NoReconcile
    /\ gate = [f \in Frontend |->
                 [paying |-> TRUE, fencePending |-> FALSE, generation |-> 0,
                  moved |-> FALSE]]
    /\ claims = TRUE
    /\ chain = [at |-> "parent", depth |-> 0, work |-> 0, known |-> FALSE]
    /\ inflight = FALSE
    /\ sent = 0 /\ unflushed = FALSE /\ counted = 0 /\ faults = 0 /\ failovers = 0

Init == InitOf(Kind)

-----------------------------------------------------------------------------
(* Steps of an attempt.                                                    *)

At(f, pc) == attempt[f].pc = pc

\* Frontend f goes on at pc; Goto alone touches nothing else of the attempt.
Goto(f, pc) == attempt' = [attempt EXCEPT ![f] = [@ EXCEPT !.pc = pc]]
Done(f) == attempt' = [attempt EXCEPT ![f] = Idle]

\* The fence of every write under a claim: the token still holds the row, in
\* one of the given states (require_claim and the WHERE clauses).
Holds(f, states) ==
    db.row.token = attempt[f].token /\ db.row.state \in states

\* The row, moved to a state with its claim kept or released.
Moved(state, outcome) == [db.row EXCEPT !.state = state, !.outcome = outcome]
Released(row) == [row EXCEPT !.token = NoToken]

\* On to a phase that needs nothing of the one before.
Onward(f, pc) ==
    attempt' = [attempt EXCEPT ![f] =
        [Idle EXCEPT !.pc = pc, !.token = attempt[f].token,
                     !.recovery = attempt[f].recovery,
                     !.state = attempt[f].state]]

\* An attempt that fails keeps its token, to release the claim with.
Failed(f) ==
    attempt' = [attempt EXCEPT ![f] =
                  [Idle EXCEPT !.pc = "failed", !.token = attempt[f].token]]

\* A write that finds its fence broken fails the attempt and changes nothing.
Refused(f, states) ==
    /\ ~Holds(f, states)
    /\ Failed(f)
    /\ UNCHANGED db

\* Tokens some row or attempt still remembers.
InUse == {db.row.token, standby.row.token}
         \cup {attempt[f].token : f \in Frontend}

(***************************************************************************)
(* claim_candidate and claim_candidate_for_recovery.  A lane claims an     *)
(* unclaimed unfinished row unless submission is held; a claim somebody    *)
(* watched go unrenewed is taken over.  A takeover of a claim that is live *)
(* counts as a fault: no timing is assumed, the fences must do without.    *)
(***************************************************************************)
Live(token) == \E f \in Frontend : attempt[f].token = token

\* Mutant: the lanes skip the rows that await reconciliation.
ClaimableDue == {"pending", "offer_reserved", "offered"}

Claimable == Unfinished

ClaimAs(f, recovery) ==
    /\ At(f, "idle")
    /\ db.row.state \in Claimable
    /\ ~recovery => ~db.held
    /\ \E t \in Token \ InUse :
          /\ db' = [db EXCEPT !.row = [@ EXCEPT !.token = t]]
          /\ attempt' = [attempt EXCEPT ![f] =
                [Idle EXCEPT !.pc = "claimed", !.token = t,
                             !.recovery = recovery, !.state = db.row.state]]
    /\ UNCHANGED <<kind, standby, reconciler, gate, claims, wire, counted,
                   failovers>>

\* Nobody's claim: free, or left behind by a frontend that is gone.
Takeable == db.row.token = NoToken \/ ~Live(db.row.token)

Claim(f) ==
    /\ Takeable
    /\ ClaimAs(f, FALSE)
    /\ UNCHANGED faults

Recover(f) ==
    /\ Takeable
    /\ ClaimAs(f, TRUE)
    /\ UNCHANGED faults

TakeOver(f) ==
    /\ ~Takeable
    /\ faults < MaxFaults[kind.capture] /\ faults' = faults + 1
    /\ \E recovery \in BOOLEAN : ClaimAs(f, recovery)

-----------------------------------------------------------------------------
(* Observing the chain.                                                    *)

(***************************************************************************)
(* observe_chain_view: a tip of more work than the cluster has seen is     *)
(* recorded and supersedes the payout revision; the tip it knows changes   *)
(* nothing.  The node's work only grows, so a tip of less is a stale read. *)
(***************************************************************************)
\* Mutant: a new tip is recorded without superseding the revision.
RecordTipQuietly(d) == [d EXCEPT !.seen = chain.work]

RecordTip(d) ==
    [d EXCEPT !.seen = chain.work,
              !.revision = IF chain.work > d.seen THEN @ + 1 ELSE @]

Observed(d) == [at |-> chain.at, depth |-> chain.depth, work |-> chain.work,
                revision |-> RecordTip(d).revision]

\* Frontend f observes and goes on at pc.
ObserveTo(f, pc) ==
    /\ chain.work >= db.seen
    /\ db' = RecordTip(db)
    /\ attempt' = [attempt EXCEPT ![f] =
                     [@ EXCEPT !.pc = pc, !.obs = Observed(db)]]

\* require_revision: nothing superseded the revision of the observation.
Unmoved(obs) == db.revision = obs.revision

-----------------------------------------------------------------------------
(* What a settlement does to the block.                                    *)

Connected(d) == d.block.chain \in {"prepared", "confirmed"}

\* Mutant: the block is marked with a state no reader knows.
DeactivateOrphaned(d, obs) ==
    IF Connected(d)
    THEN [d EXCEPT !.block = [@ EXCEPT !.chain = "orphaned"],
                   !.revision = @ + 1, !.applied = obs.work]
    ELSE d

\* deactivate_pool_block and bump_revision
Deactivate(d, obs) ==
    IF Connected(d)
    THEN [d EXCEPT !.block = [@ EXCEPT !.chain = "inactive"],
                   !.revision = @ + 1, !.applied = obs.work]
    ELSE d

\* The block is active: confirmed, and published on its first confirmation.
Confirm(d, obs) ==
    [d EXCEPT !.block = [chain |-> "confirmed", published |-> TRUE],
              !.revision = IF d.block.chain # "confirmed" THEN @ + 1 ELSE @,
              !.applied = obs.work]

\* Mutant: every confirmation of a block that was not counts.
FirstByState(d) == d.block.chain # "confirmed"

\* audit_publication_sequence IS NULL
First(d) == ~d.block.published

CountFirst == counted' = IF First(db) THEN counted + 1 ELSE counted

-----------------------------------------------------------------------------
(* Before the offer: offer_candidate.                                      *)

\* carry_paying_not_current
NotCurrent(f) ==
    kind.carry /\ (~gate[f].paying \/ gate[f].fencePending)

\* Into the reservation: the gate's generation is read first.
ToReserve(f) ==
    attempt' = [attempt EXCEPT ![f] =
        [@ EXCEPT !.pc = "reserve", !.generation = gate[f].generation]]

(***************************************************************************)
(* A leased candidate skips the screen; so does one whose revision is      *)
(* still current when the cached tip, which may be old, says its parent.   *)
(***************************************************************************)
SkipScreen(f) ==
    /\ At(f, "claimed") /\ ~attempt[f].recovery
    /\ attempt[f].state = "pending"
    /\ kind.leased \/ db.revision = Issued
    /\ ToReserve(f)
    /\ UNCHANGED <<outside, db, wire, counted>>

\* The authoritative probe: adopt, abandon, or go on to the reservation.
Screen(f) ==
    LET revision == Observed(db).revision
        superseded == kind.capture = "off" /\ revision # Issued
        next == CASE chain.at = "ours"  -> "adopt"
                  [] chain.at = "other" -> "abandon"
                  [] OTHER -> IF superseded THEN "abandon" ELSE "reserve"
    IN  /\ At(f, "claimed") /\ ~attempt[f].recovery
        /\ attempt[f].state = "pending" /\ ~kind.leased
        /\ chain.work >= db.seen
        /\ db' = RecordTip(db)
        /\ attempt' = [attempt EXCEPT ![f] =
              [@ EXCEPT !.pc = next, !.obs = Observed(db),
                        !.generation = gate[f].generation]]
        /\ UNCHANGED <<outside, wire, counted>>

\* recover_candidate_inner: only a block that is active now is recovered.
RecoverScreen(f) ==
    /\ At(f, "claimed") /\ attempt[f].recovery
    /\ \/ /\ chain.at = "ours"
          /\ ObserveTo(f, IF attempt[f].state = "pending" THEN "adopt"
                                                         ELSE "land")
       \/ /\ chain.at # "ours" /\ chain.work >= db.seen
          /\ db' = RecordTip(db)
          /\ Failed(f)
    /\ UNCHANGED <<outside, wire, counted>>

\* Ledger::adopt_active_candidate
Adopt(f) ==
    /\ At(f, "adopt")
    /\ \/ Refused(f, {"pending"})
       \/ /\ Holds(f, {"pending"})
          /\ db' = [db EXCEPT !.row = Moved("reconciliation", "unknown")]
          /\ Onward(f, "land")
    /\ UNCHANGED <<outside, wire, counted>>

(***************************************************************************)
(* finish_candidate_at_revision(submitted = false): the revision the       *)
(* observation returned, the token and a pending row.  A landed block      *)
(* would be deactivated with the row.                                      *)
(***************************************************************************)
Abandon(f) ==
    /\ At(f, "abandon")
    /\ \/ /\ ~Holds(f, {"pending"}) \/ ~Unmoved(attempt[f].obs)
          /\ Failed(f)
          /\ UNCHANGED db
       \/ /\ Holds(f, {"pending"}) /\ Unmoved(attempt[f].obs)
          /\ db' = [Deactivate(db, attempt[f].obs) EXCEPT
                       !.row = Released(Moved("abandoned", @.outcome))]
          /\ Done(f)
    /\ UNCHANGED <<outside, wire, counted>>

(***************************************************************************)
(* reserve_offer_within, first transaction.  Work that is still current,   *)
(* and leased work, is reserved at once; a superseded block is refused     *)
(* with capture off and otherwise measured against the overpay ceiling.    *)
(***************************************************************************)
\* The reservation itself (reserve_in).
ReserveIn(f, current) ==
    \/ Refused(f, {"pending"})
    \/ /\ Holds(f, {"pending"})
       /\ db' = [db EXCEPT !.row = Moved("offer_reserved", @.outcome)]
       /\ attempt' = [attempt EXCEPT ![f] =
                        [@ EXCEPT !.pc = "reserved", !.current = current]]

Current(f) ==
    kind.leased \/ (db.revision = Issued /\ ~NotCurrent(f))

Reserve(f) ==
    /\ At(f, "reserve")
    /\ \/ db.held /\ Failed(f) /\ UNCHANGED db
       \/ ~db.held /\ Current(f) /\ ReserveIn(f, TRUE)
       \/ /\ ~db.held /\ ~Current(f)
          /\ attempt' = [attempt EXCEPT ![f] =
                [@ EXCEPT !.pc = IF kind.capture = "off" THEN "abandon"
                                                         ELSE "capture",
                          !.obs.revision = db.revision]]
          /\ UNCHANGED db
    /\ UNCHANGED <<outside, wire, counted>>

\* The second transaction: the bound is known.
Capture(f) ==
    /\ At(f, "capture")
    /\ \/ db.held /\ Failed(f) /\ UNCHANGED db
       \/ ~db.held /\ kind.capture = "over" /\ Goto(f, "abandon") /\ UNCHANGED db
       \/ ~db.held /\ kind.capture = "within" /\ ReserveIn(f, FALSE)
    /\ UNCHANGED <<outside, wire, counted>>

\* Mutant: the position waited for was read before the reservation.
FlushedClaim(f) == standby.row.token = attempt[f].token

\* await_standby_flush: the standby holds the reservation.
Flushed(f) ==
    /\ standby.row.token = attempt[f].token
    /\ standby.row.state = "offer_reserved"

(***************************************************************************)
(* await_offer_standby: the block waits, for a bounded time, until the     *)
(* standby holds the reservation, and goes out in any case.                *)
(***************************************************************************)
AwaitStandby(f) ==
    /\ At(f, "reserved")
    /\ attempt' = [attempt EXCEPT ![f] =
                     [@ EXCEPT !.pc = "waited", !.flushed = Flushed(f)]]
    /\ UNCHANGED <<outside, db, wire, counted>>

\* renew_candidate: the strictly live token, right before the call.
Renew(f) ==
    /\ At(f, "waited")
    /\ \/ Refused(f, Unfinished)
       \/ Holds(f, Unfinished) /\ Goto(f, "check") /\ UNCHANGED db
    /\ UNCHANGED <<outside, wire, counted>>

\* Mutant: a gate that closed and reopened since the reservation passes.
UnsendableNow(f) == NotCurrent(f)

\* carry_paying_unsendable
Unsendable(f) ==
    NotCurrent(f) \/ gate[f].generation # attempt[f].generation

(***************************************************************************)
(* The carry gate and the journal once more before the call: a block taken *)
(* for current work goes back to pending if either moved, or if the journal*)
(* cannot be read.                                                         *)
(***************************************************************************)
CarryCheck(f) ==
    LET checked == kind.carry /\ attempt[f].current /\ ~kind.leased
        moved == checked /\ (Unsendable(f) \/ ~claims)
    IN  /\ At(f, "check")
        /\ attempt' = [attempt EXCEPT ![f] =
              [@ EXCEPT !.pc = IF moved THEN "unsent" ELSE "send",
                        !.clean = ~gate[f].moved /\ claims]]
        /\ UNCHANGED <<outside, db, wire, counted>>

JournalUnreadable(f) ==
    /\ At(f, "check") /\ kind.carry /\ attempt[f].current /\ ~kind.leased
    /\ faults < MaxFaults[kind.capture] /\ faults' = faults + 1
    /\ Goto(f, "unsent")
    /\ UNCHANGED <<kind, db, standby, reconciler, gate, claims, wire, counted,
                   failovers>>

\* submit_block: the one call is made.
SendOffer(f) ==
    /\ At(f, "send")
    /\ sent' = sent + 1
    /\ unflushed' = (unflushed \/ ~attempt[f].flushed)
    /\ inflight' = TRUE
    /\ Goto(f, "calling")
    /\ UNCHANGED <<outside, db, chain, counted>>

\* offer_not_executed: no connection, or the node was warming up.
OfferNotExecuted(f) ==
    /\ At(f, "send")
    /\ faults < MaxFaults[kind.capture] /\ faults' = faults + 1
    /\ Goto(f, "unsent")
    /\ UNCHANGED <<kind, db, standby, reconciler, gate, claims, wire, counted,
                   failovers>>

\* release_unsent: fenced on a reservation that recorded no call.
ReleaseUnsent(f) ==
    LET recorded == db.row.outcome # "none"
    IN  /\ At(f, "unsent")
        /\ \/ /\ ~Holds(f, {"offer_reserved"}) \/ recorded
              /\ Failed(f) /\ UNCHANGED db
           \/ /\ Holds(f, {"offer_reserved"}) /\ ~recorded
              /\ db' = [db EXCEPT !.row = Released(Moved("pending", @.outcome))]
              /\ Done(f)
        /\ UNCHANGED <<outside, wire, counted>>

\* Mutant: a call that timed out counts as one that never ran.
AfterCallRetries(outcome) == IF outcome = "unknown" THEN "unsent" ELSE "record"

\* Every outcome of a call that was made is recorded (classify_offer).
AfterCall(outcome) == "record"

\* The node's answer, or a timeout or transport error after the connection.
CallReturns(f) ==
    /\ At(f, "calling")
    /\ \E outcome \in {"answered", "unknown"} :
          /\ outcome = "answered" => ~inflight
          /\ attempt' = [attempt EXCEPT ![f] =
                [@ EXCEPT !.pc = AfterCall(outcome), !.outcome = outcome]]
    /\ UNCHANGED <<outside, db, wire, counted>>

RecordOffer(f) ==
    /\ At(f, "record")
    /\ \/ Refused(f, {"offer_reserved"})
       \/ /\ Holds(f, {"offer_reserved"})
          /\ db' = [db EXCEPT !.row = Moved("offered", attempt[f].outcome)]
          /\ Onward(f, "land")
    /\ UNCHANGED <<outside, wire, counted>>

-----------------------------------------------------------------------------
(* After the offer: settle_offered_candidate, recover_candidate_inner.     *)

\* A claimed row that was or may have been offered is never offered again.
LaneSettle(f) ==
    /\ At(f, "claimed") /\ ~attempt[f].recovery
    /\ attempt[f].state \in OfferStates
    /\ Goto(f, "land")
    /\ UNCHANGED <<outside, db, wire, counted>>

\* A lane settles the row in reconciliation; recovery stops with an error.
GiveUp(f) == IF attempt[f].recovery THEN Failed(f) ELSE Onward(f, "reconcile")

(***************************************************************************)
(* land_offered: a landed audit is kept.  Otherwise the audit is rebuilt   *)
(* from the as-issued balances and the chain observed just before the      *)
(* write; a retry goes on only while the block is active.                  *)
(***************************************************************************)
Land(f) ==
    /\ At(f, "land")
    /\ \/ /\ ~attempt[f].retried /\ db.block.chain # "none"
          /\ Onward(f, "settle")
          /\ UNCHANGED db
       \/ /\ attempt[f].retried \/ db.block.chain = "none"
          /\ ~attempt[f].retried \/ chain.at = "ours"
          /\ ObserveTo(f, "landing")
       \/ /\ attempt[f].retried /\ chain.at # "ours"
          /\ chain.work >= db.seen
          /\ db' = RecordTip(db)
          /\ GiveUp(f)
    /\ UNCHANGED <<outside, wire, counted>>

\* commit_landing at the observed revision.
Landing(f) ==
    /\ At(f, "landing")
    /\ \/ ~Holds(f, Unfinished) /\ GiveUp(f) /\ UNCHANGED db
       \/ /\ Holds(f, Unfinished) /\ ~Unmoved(attempt[f].obs)
          /\ \/ attempt' = [attempt EXCEPT ![f] =
                               [@ EXCEPT !.pc = "land", !.retried = TRUE,
                                         !.obs = NoObservation]]
             \/ GiveUp(f)
          /\ UNCHANGED db
       \/ /\ Holds(f, Unfinished) /\ Unmoved(attempt[f].obs)
          /\ db' = [db EXCEPT !.block =
                       IF @.chain = "none" THEN [@ EXCEPT !.chain = "prepared"]
                                           ELSE @]
          /\ Onward(f, "settle")
    /\ UNCHANGED <<outside, wire, counted>>

Settle(f) ==
    /\ At(f, "settle")
    /\ ObserveTo(f, "settling")
    /\ UNCHANGED <<outside, wire, counted>>

\* orphan_evidence: a competitor, deep enough (lanes only).
OrphanEvidence(f) ==
    /\ ~attempt[f].recovery
    /\ attempt[f].obs.at = "other"
    /\ attempt[f].obs.depth >= OrphanConfirmations

\* COALESCE(offer_outcome, 'unknown')
Coalesced(outcome) == IF outcome = "none" THEN "unknown" ELSE outcome

\* finish_candidate_counted_at_revision(submitted = true)
FinishSubmitted(f) ==
    /\ At(f, "settling") /\ attempt[f].obs.at = "ours"
    /\ Unmoved(attempt[f].obs) /\ Holds(f, Unfinished)
    /\ db' = [Confirm(db, attempt[f].obs) EXCEPT
                 !.row = Released(Moved("submitted", Coalesced(@.outcome)))]
    /\ CountFirst
    /\ Done(f)
    /\ UNCHANGED <<outside, wire>>

\* orphan_candidate_at_revision
Orphan(f) ==
    /\ At(f, "settling") /\ OrphanEvidence(f)
    /\ Unmoved(attempt[f].obs) /\ Holds(f, OfferStates)
    /\ db.block.chain # "confirmed"
    /\ db' = [Deactivate(db, attempt[f].obs) EXCEPT
                 !.row = Released(Moved("orphaned", Coalesced(@.outcome)))]
    /\ Done(f)
    /\ UNCHANGED <<outside, wire, counted>>

(***************************************************************************)
(* A settlement that did not happen: the revision moved (observe again, or *)
(* give up once the budget is spent), the claim was lost, the block is     *)
(* confirmed, or the chain proves nothing yet.                             *)
(***************************************************************************)
NotSettled(f) ==
    LET o == attempt[f].obs
        decides == o.at = "ours" \/ OrphanEvidence(f)
    IN  /\ At(f, "settling")
        /\ \/ /\ decides /\ ~Unmoved(o)
              /\ Onward(f, "settle") \/ GiveUp(f)
           \/ /\ decides /\ Unmoved(o)
              /\ \/ ~Holds(f, Unfinished)
                 \/ o.at = "other" /\ db.block.chain = "confirmed"
              /\ GiveUp(f)
           \/ ~decides /\ GiveUp(f)
        /\ UNCHANGED <<outside, db, wire, counted>>

\* reconcile_candidate
Reconcile(f) ==
    /\ At(f, "reconcile")
    /\ \/ Refused(f, OfferStates)
       \/ /\ Holds(f, OfferStates)
          /\ db' = [db EXCEPT !.row =
                Released(Moved("reconciliation", Coalesced(@.outcome)))]
          /\ Done(f)
    /\ UNCHANGED <<outside, wire, counted>>

-----------------------------------------------------------------------------
(* Attempts that fail.                                                     *)

PostOffer == {"land", "landing", "settle", "settling"}

(***************************************************************************)
(* An error of the node or the database, a refused rebuild, a heartbeat    *)
(* that lost the lease, a COMMIT whose reply was lost.  After the offer an *)
(* error is settled in reconciliation if it can be.                        *)
(***************************************************************************)
Fail(f) ==
    /\ ~At(f, "idle") /\ ~At(f, "failed")
    /\ faults < MaxFaults[kind.capture] /\ faults' = faults + 1
    /\ Failed(f) \/ (attempt[f].pc \in PostOffer /\ GiveUp(f))
    /\ UNCHANGED <<kind, db, standby, reconciler, gate, claims, wire, counted,
                   failovers>>

\* The frontend dies; a new process starts with a closed carry gate.
Crash(f) ==
    /\ ~At(f, "idle")
    /\ faults < MaxFaults[kind.capture] /\ faults' = faults + 1
    /\ Done(f)
    /\ gate' = IF kind.carry
               THEN [gate EXCEPT ![f] = [paying |-> FALSE,
                       fencePending |-> FALSE, generation |-> 0,
                       moved |-> TRUE]]
               ELSE gate
    /\ UNCHANGED <<kind, db, standby, reconciler, claims, wire, counted,
                   failovers>>

\* release_candidate_claim, release_recovery_claim: if it is still held.
ReleaseClaim(f) ==
    /\ At(f, "failed")
    /\ db' = [db EXCEPT !.row = IF Holds(f, Unfinished) THEN Released(@) ELSE @]
    /\ Done(f)
    /\ UNCHANGED <<outside, wire, counted>>

\* The release itself failed for the rest of the lease; the claim stays.
ReleaseGivesUp(f) ==
    /\ At(f, "failed")
    /\ Done(f)
    /\ UNCHANGED <<outside, db, wire, counted>>

-----------------------------------------------------------------------------
(* The operator.                                                           *)

\* Mutant: any unfinished row is abandoned.
AbandonsUnfinished(d) == d.row.state \in Unfinished

AbandonsRow(d) == d.row.state = "pending" /\ d.block.chain = "none"

\* abandon_candidate: a row nobody claims, or whose claim went unrenewed.
AbandonCandidate ==
    /\ AbandonsRow(db)
    /\ \/ Takeable /\ UNCHANGED faults
       \/ ~Takeable /\ faults < MaxFaults[kind.capture] /\ faults' = faults + 1
    /\ db' = [db EXCEPT !.row = Released(Moved("abandoned", @.outcome))]
    /\ UNCHANGED <<kind, standby, attempt, reconciler, gate, claims, wire,
                   counted, failovers>>

\* set_submission_hold, clear_submission_hold (--offer-pending-candidates)
SetHold ==
    /\ ~db.held /\ faults < MaxFaults[kind.capture] /\ faults' = faults + 1
    /\ db' = [db EXCEPT !.held = TRUE]
    /\ UNCHANGED <<kind, standby, attempt, reconciler, gate, claims, wire,
                   counted, failovers>>

ClearHold ==
    /\ db.held
    /\ db' = [db EXCEPT !.held = FALSE]
    /\ UNCHANGED <<outside, attempt, wire, counted>>

-----------------------------------------------------------------------------
(* The reorg reconciler: Coordinator::reconcile.                           *)

ReconcileObserve ==
    /\ ~reconciler.busy
    /\ chain.work >= db.seen
    /\ db' = RecordTip(db)
    /\ reconciler' = [busy |-> TRUE, obs |-> Observed(db)]
    /\ UNCHANGED <<kind, standby, attempt, gate, claims, wire, counted, faults,
                   failovers>>

\* reconcile_blocks_at_revision for this block; a refused pass starts over.
ReconcileWrite ==
    LET o == reconciler.obs
        refused == ~Unmoved(o) \/ db.block.chain = "none"
    IN  /\ reconciler.busy
        /\ reconciler' = NoReconcile
        /\ \/ refused /\ UNCHANGED <<db, counted>>
           \/ /\ ~refused /\ o.at = "ours"
              /\ db' = Confirm(db, o)
              /\ CountFirst
           \/ /\ ~refused /\ o.at # "ours"
              /\ db' = IF db.block.chain = "confirmed" THEN Deactivate(db, o)
                                                       ELSE db
              /\ UNCHANGED counted
        /\ UNCHANGED <<kind, standby, attempt, gate, claims, wire, faults,
                       failovers>>

\* The tip moved under the pass, or the block landed after it listed them.
ReconcileStop ==
    /\ reconciler.busy
    /\ faults < MaxFaults[kind.capture] /\ faults' = faults + 1
    /\ reconciler' = NoReconcile
    /\ UNCHANGED <<kind, db, standby, attempt, gate, claims, wire, counted,
                   failovers>>

-----------------------------------------------------------------------------
(* The carry gate of a dual-writer frontend.                               *)

\* set_carry_paying: the gate moves first, its fence follows.
SetCarryPaying(f) ==
    /\ kind.carry /\ gate[f].generation < MaxGateMoves
    /\ gate' = [gate EXCEPT ![f] =
          [paying |-> ~@.paying, fencePending |-> TRUE,
           generation |-> @.generation + 1, moved |-> TRUE]]
    /\ UNCHANGED <<kind, db, standby, attempt, reconciler, claims, wire,
                   counted, faults, failovers>>

FenceCarryChange(f) ==
    /\ gate[f].fencePending
    /\ gate' = [gate EXCEPT ![f] = [@ EXCEPT !.fencePending = FALSE]]
    /\ db' = [db EXCEPT !.revision = @ + 1]
    /\ UNCHANGED <<kind, standby, attempt, reconciler, claims, wire, counted,
                   faults, failovers>>

\* carry-owner release, by another process.
ReleaseCarry ==
    /\ kind.carry /\ claims
    /\ claims' = FALSE
    /\ db' = [db EXCEPT !.revision = @ + 1]
    /\ UNCHANGED <<kind, standby, attempt, reconciler, gate, wire, counted,
                   faults, failovers>>

-----------------------------------------------------------------------------
(* The node and the databases.                                             *)

\* The node runs a submitblock call: the block may be refused, extend the
\* tip, or be kept on a side chain.
NodeExecutes ==
    /\ inflight
    /\ inflight' = FALSE
    /\ \/ UNCHANGED chain
       \/ chain' = [chain EXCEPT !.known = TRUE,
              !.at = IF @ = "parent" THEN "ours" ELSE @,
              !.depth = IF chain.at = "parent" THEN 1 ELSE @,
              !.work = IF chain.at = "parent" THEN @ + 1 ELSE @]
    /\ UNCHANGED <<outside, db, attempt, sent, unflushed, counted>>

\* The best chain grows, or another one overtakes it; a block the node has
\* never seen is never on it.
ChainMoves ==
    /\ chain.work < MaxWork[kind.capture]
    /\ \E at \in {"ours", "other"} :
          /\ at = "ours" => chain.known
          /\ chain' = [chain EXCEPT !.at = at, !.work = @ + 1,
                         !.depth = IF at = chain.at THEN @ + 1 ELSE 1]
    /\ UNCHANGED <<outside, db, attempt, inflight, sent, unflushed, counted>>

\* The standby receives what was committed.  Only a single writer has one: a
\* dual writer's peer pulls its journal instead (PeerSync).
Replicate ==
    /\ failovers < MaxFailovers
    /\ ~kind.carry
    /\ standby # db
    /\ standby' = db
    /\ UNCHANGED <<kind, db, attempt, reconciler, gate, claims, wire, counted,
                   faults, failovers>>

\* The standby is promoted; what it had not received is lost.
Failover ==
    /\ failovers < MaxFailovers /\ failovers' = failovers + 1
    /\ ~kind.carry
    /\ db' = standby
    /\ UNCHANGED <<kind, standby, attempt, reconciler, gate, claims, wire,
                   counted, faults>>

-----------------------------------------------------------------------------
\* One step of frontend f's attempt; errors and crashes excluded.
AttemptStep(f) ==
    \/ SkipScreen(f)
    \/ Screen(f)
    \/ RecoverScreen(f)
    \/ Adopt(f)
    \/ Abandon(f)
    \/ Reserve(f)
    \/ Capture(f)
    \/ AwaitStandby(f)
    \/ Renew(f)
    \/ CarryCheck(f)
    \/ SendOffer(f)
    \/ ReleaseUnsent(f)
    \/ CallReturns(f)
    \/ RecordOffer(f)
    \/ LaneSettle(f)
    \/ Land(f)
    \/ Landing(f)
    \/ Settle(f)
    \/ FinishSubmitted(f)
    \/ Orphan(f)
    \/ NotSettled(f)
    \/ Reconcile(f)
    \/ ReleaseClaim(f)

Next ==
    \/ \E f \in Frontend :
          \/ Claim(f)
          \/ Recover(f)
          \/ TakeOver(f)
          \/ AttemptStep(f)
          \/ JournalUnreadable(f)
          \/ OfferNotExecuted(f)
          \/ Fail(f)
          \/ Crash(f)
          \/ ReleaseGivesUp(f)
          \/ SetCarryPaying(f)
          \/ FenceCarryChange(f)
    \/ AbandonCandidate
    \/ SetHold
    \/ ClearHold
    \/ ReconcileObserve
    \/ ReconcileWrite
    \/ ReconcileStop
    \/ ReleaseCarry
    \/ NodeExecutes
    \/ ChainMoves
    \/ Replicate
    \/ Failover

Spec == Init /\ [][Next]_vars

(***************************************************************************)
(* The submit loops poll, an attempt that runs goes on, the reconciler's   *)
(* refresh loop goes on.  Operators, blocks, errors and failovers owe      *)
(* nothing.                                                                *)
(***************************************************************************)
Fairness ==
    /\ \A f \in Frontend : WF_vars(AttemptStep(f))
    /\ WF_vars(\E f \in Frontend : Claim(f))
    /\ WF_vars(ReconcileObserve)
    /\ WF_vars(ReconcileWrite)

-----------------------------------------------------------------------------
(***************************************************************************)
(* The reservation's promise (offer_candidate, prism-ledger-ops.md): on    *)
(* one database no interleaving of claims, takeovers, crashes, timeouts    *)
(* and returned reservations hands the block to the node twice.            *)
(***************************************************************************)
AtMostOnce == sent <= 1

(***************************************************************************)
(* A block that was handed to the node keeps its evidence: its row is never*)
(* abandoned, by a lane or by an operator.                                 *)
(***************************************************************************)
AbandonedNeverOffered == db.row.state = "abandoned" => sent = 0

(***************************************************************************)
(* With failovers: an offer whose every reservation had reached the standby*)
(* before its call (await_offer_standby confirmed) is made once and its row*)
(* never abandoned, whatever the promoted standby had not received.        *)
(***************************************************************************)
FlushedOfferSurvives ==
    ~unflushed => sent <= 1 /\ (db.row.state = "abandoned" => sent = 0)

(***************************************************************************)
(* A carry-paying block that goes out as current work does so with a gate  *)
(* that has not moved since the work was issued, not even shut and open    *)
(* again, and a journal that still claims ownership: revision, fence and   *)
(* generation together.                                                    *)
(***************************************************************************)
CarrySentClean ==
    \A f \in Frontend :
        /\ attempt[f].pc \in {"send", "calling"}
        /\ kind.carry /\ attempt[f].current /\ ~kind.leased
        => attempt[f].clean

(***************************************************************************)
(* A verdict on the block taken from an older tip never overwrites one     *)
(* taken from a newer tip: the payout revision fences every settlement of  *)
(* lanes, recovery and reconciler against one another.                     *)
(***************************************************************************)
NewestVerdict == [][db'.applied >= db.applied]_vars

(***************************************************************************)
(* The outbox keeps the promise OneOffer states: claims, reservations,     *)
(* takeovers, recovery and settlement, with the database rows they leave,  *)
(* look from outside like one block offered once and judged once           *)
(* (process_candidate_inner and everything it calls).                      *)
(***************************************************************************)
Promise == INSTANCE OneOffer WITH
    offers <- sent,
    verdict <- IF db.row.state \in Terminal THEN db.row.state ELSE "open",
    answered <- db.row.outcome = "answered",
    credited <- counted

KeepsPromise == Promise!Spec

(***************************************************************************)
(* No block is forgotten: one that stays active is confirmed and its row   *)
(* settled, through failed attempts, crashes and lost revision races, once *)
(* submission is not held.                                                 *)
(***************************************************************************)
ActiveBlockSettles ==
    <>[](chain.at = "ours") /\ <>[](~db.held)
        => <>[](/\ db.block.chain = "confirmed"
                /\ db.row.state \in {"submitted", "orphaned"})
=============================================================================
