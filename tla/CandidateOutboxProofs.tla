----------------------- MODULE CandidateOutboxProofs -----------------------
(***************************************************************************)
(* Proofs about CandidateOutbox, for every number of frontends, tokens,    *)
(* faults, tips, gate moves and promotions: the types, that the block is   *)
(* handed to the node once, and that current carry-paying work goes out    *)
(* clean; and, on one database, that the outbox implements OneOffer and a  *)
(* verdict taken from an older tip never overwrites one from a newer tip.  *)
(*                                                                         *)
(* The argument (OfferInv).  A claim's token is known to one attempt, so   *)
(* that a row showing it can be moved by that attempt alone.  An attempt   *)
(* that has reserved and neither called nor released holds a reservation;  *)
(* it is sure when no promotion can undo it: there is one database, or     *)
(* await_standby_flush saw it on the standby.  A sure reservation is the   *)
(* only one, and nothing went out under it yet (ReservedOnce); after the   *)
(* call no reservation is sure nor can become so, and every copy of the    *)
(* row tells that it was reserved (OfferedOnce).  Most steps are calm:     *)
(* they neither claim, reserve, call nor copy, and need one lemma.         *)
(***************************************************************************)
EXTENDS CandidateOutbox, TLAPS

-----------------------------------------------------------------------------
\* The inductive invariant.

\* Only one database ever serves: no standby is promoted.
OneDatabase == MaxFailovers = 0

\* The copies a frontend may come to read.
Copies == IF OneDatabase THEN {db} ELSE {db, standby}

\* A row that was reserved and not released unsent.
Kept(d) == d.row.state \notin {"pending", "abandoned"}

\* Attempts that may still reserve.
Reserving == {"adopt", "abandon", "reserve", "capture"}
Fresh(a) == a.pc \in Reserving \/ (a.pc = "claimed" /\ a.state = "pending")

\* Attempts that reserved and have neither called nor released.
Holding(f) == attempt[f].pc \in {"reserved", "waited", "check", "send", "unsent"}

\* Phases after the call: the block has gone out, or was found active.
PastOffer == {"calling", "record", "land", "landing", "settle", "settling",
              "reconcile"}

\* A reservation that no promotion can undo.
Sure(f) == OneDatabase \/ attempt[f].flushed
Trusted == OneDatabase \/ ~unflushed

\* Each claim is known to one attempt.
TokensApart ==
    \A f \in Frontend :
      /\ attempt[f].pc = "idle" <=> attempt[f].token = NoToken
      /\ \A g \in Frontend \ {f} :
           attempt[f].token # NoToken => attempt[f].token # attempt[g].token

\* Before an attempt has reserved, no copy shows its claim past pending.
FreshPending ==
    \A f \in Frontend : Fresh(attempt[f]) =>
      /\ attempt[f].state = "pending" /\ ~attempt[f].flushed
      /\ \A d \in {db, standby} :
           d.row.token = attempt[f].token => d.row.state = "pending"

\* A reservation the standby shows has not been lost by the primary.
StandbyFollows ==
    \A g \in Frontend :
      Holding(g) /\ standby.row.token = attempt[g].token
                 /\ standby.row.state = "offer_reserved" =>
        /\ Kept(db)
        /\ \A f \in Frontend \ {g} : Holding(f) => db.row.token # attempt[f].token

\* A sure reservation is the only one, and the block has not gone out.
ReservedOnce ==
    \A g \in Frontend : Holding(g) /\ Sure(g) =>
      /\ Trusted => sent = 0
      /\ \A d \in Copies : Kept(d)
      /\ \A f \in Frontend \ {g} : Holding(f) =>
           ~Sure(f) /\ \A d \in Copies : d.row.token # attempt[f].token

\* A block that went out after sure reservations only went out once, and
\* nobody else's reservation can become sure.
OfferedOnce ==
    Trusted /\ sent >= 1 =>
      /\ sent = 1
      /\ \A d \in Copies : Kept(d)
      /\ \A f \in Frontend : Holding(f) =>
           ~Sure(f) /\ \A d \in Copies : d.row.token # attempt[f].token

OfferInv ==
    /\ TokensApart
    /\ FreshPending
    /\ StandbyFollows
    /\ ReservedOnce
    /\ OfferedOnce


-----------------------------------------------------------------------------
\* Type correctness: what the records of the model become.

USE TokenAssumption
USE DEF OfferStates, Unfinished, Terminal, Outcome, Issued

\* An idle attempt is an attempt.
LEMMA IdleType == Idle \in Attempt
  BY DEF Idle, NoObservation, Attempt, Step, Observation

\* An attempt that goes on: the fields a step gives a value.
LEMMA FieldsType ==
    ASSUME NEW a \in Attempt, NEW pc \in Step
    PROVE  /\ [a EXCEPT !.pc = pc] \in Attempt
           /\ \A n \in Nat : [a EXCEPT !.pc = pc, !.generation = n] \in Attempt
           /\ \A b \in BOOLEAN :
                /\ [a EXCEPT !.pc = pc, !.flushed = b] \in Attempt
                /\ [a EXCEPT !.pc = pc, !.clean = b] \in Attempt
                /\ [a EXCEPT !.pc = pc, !.current = b] \in Attempt
           /\ \A o \in Outcome : [a EXCEPT !.pc = pc, !.outcome = o] \in Attempt
<1>1. [a EXCEPT !.pc = pc] \in Attempt
  BY DEF Attempt
<1>2. ASSUME NEW n \in Nat
      PROVE  [a EXCEPT !.pc = pc, !.generation = n] \in Attempt
  BY DEF Attempt
<1>3. ASSUME NEW b \in BOOLEAN
      PROVE  [a EXCEPT !.pc = pc, !.flushed = b] \in Attempt
  BY DEF Attempt
<1>4. ASSUME NEW b \in BOOLEAN
      PROVE  [a EXCEPT !.pc = pc, !.clean = b] \in Attempt
  BY DEF Attempt
<1>5. ASSUME NEW b \in BOOLEAN
      PROVE  [a EXCEPT !.pc = pc, !.current = b] \in Attempt
  BY DEF Attempt
<1>6. ASSUME NEW o \in Outcome
      PROVE  [a EXCEPT !.pc = pc, !.outcome = o] \in Attempt
  BY DEF Attempt
<1>. QED
  BY <1>1, <1>2, <1>3, <1>4, <1>5, <1>6

\* The same with an observation.
LEMMA ObservingType ==
    ASSUME NEW a \in Attempt, NEW pc \in Step, NEW o \in Observation
    PROVE  /\ [a EXCEPT !.pc = pc, !.obs = o] \in Attempt
           /\ \A n \in Nat :
                [a EXCEPT !.pc = pc, !.obs = o, !.generation = n] \in Attempt
           /\ \A b \in BOOLEAN :
                [a EXCEPT !.pc = pc, !.retried = b, !.obs = o] \in Attempt
<1>1. [a EXCEPT !.pc = pc, !.obs = o] \in Attempt
  BY DEF Attempt
<1>2. ASSUME NEW n \in Nat
      PROVE  [a EXCEPT !.pc = pc, !.obs = o, !.generation = n] \in Attempt
  BY DEF Attempt
<1>3. ASSUME NEW b \in BOOLEAN
      PROVE  [a EXCEPT !.pc = pc, !.retried = b, !.obs = o] \in Attempt
  BY DEF Attempt
<1>. QED
  BY <1>1, <1>2, <1>3

\* A step of frontend f gives it a new attempt and leaves the others theirs.
Becomes(f, a) ==
    /\ a \in Attempt
    /\ attempt' \in [Frontend -> Attempt]
    /\ attempt'[f] = a
    /\ \A g \in Frontend \ {f} : attempt'[g] = attempt[g]

\* Replacing one attempt: what an EXCEPT on attempt says.
LEMMA BecomesStep ==
    ASSUME TypeOK, NEW f \in Frontend, NEW a \in Attempt,
           attempt' = [attempt EXCEPT ![f] = a]
    PROVE  Becomes(f, a)
  BY DEF Becomes, TypeOK

\* The row of a database is replaced.
LEMMA RowType ==
    ASSUME NEW d \in Database, NEW r \in Row
    PROVE  [d EXCEPT !.row = r] \in Database
  BY DEF Database

\* The rows a step writes.
LEMMA MovedType ==
    ASSUME db.row \in Row, NEW state \in Unfinished \cup Terminal,
           NEW outcome \in Outcome
    PROVE  /\ Moved(state, outcome) \in Row
           /\ Moved(state, outcome).state = state
           /\ Moved(state, outcome).outcome = outcome
           /\ Moved(state, outcome).token = db.row.token
  BY DEF Moved, Row

\* Letting the claim go changes the token only.
LEMMA ReleasedType ==
    ASSUME NEW r \in Row
    PROVE  /\ Released(r) \in Row
           /\ Released(r).state = r.state /\ Released(r).outcome = r.outcome
           /\ Released(r).token = NoToken
  BY DEF Released, Row

\* Observing the tip raises the revision and the work seen, no more.
LEMMA RecordTipType ==
    ASSUME NEW d \in Database, chain \in Chain
    PROVE  /\ RecordTip(d) \in Database
           /\ RecordTip(d).row = d.row /\ RecordTip(d).block = d.block
           /\ RecordTip(d).held = d.held /\ RecordTip(d).applied = d.applied
           /\ RecordTip(d).seen = chain.work
           /\ RecordTip(d).revision =
                IF chain.work > d.seen THEN d.revision + 1 ELSE d.revision
           /\ Observed(d) \in Observation
           /\ Observed(d) = [at |-> chain.at, depth |-> chain.depth,
                work |-> chain.work, revision |-> RecordTip(d).revision]
<1>. DEFINE n == IF chain.work > d.seen THEN d.revision + 1 ELSE d.revision
<1>1. RecordTip(d) = [d EXCEPT !.seen = chain.work, !.revision = n]
  BY DEF RecordTip, Database
<1>2. n \in Nat /\ chain.work \in Nat
  BY DEF Database, Chain
<1>. HIDE DEF n
<1>3. [d EXCEPT !.seen = chain.work, !.revision = n] \in Database
  BY <1>2 DEF Database
<1>4. /\ RecordTip(d).revision = n /\ RecordTip(d).seen = chain.work
      /\ RecordTip(d).row = d.row /\ RecordTip(d).block = d.block
      /\ RecordTip(d).held = d.held /\ RecordTip(d).applied = d.applied
  BY <1>1, <1>2 DEF Database
<1>5. Observed(d) \in Observation
  BY <1>2, <1>4 DEF Observed, Observation, Chain
<1>. QED
  BY <1>1, <1>3, <1>4, <1>5 DEF n, Observed

\* Confirming the block.
LEMMA ConfirmType ==
    ASSUME NEW d \in Database, NEW o \in Observation
    PROVE  /\ Confirm(d, o) \in Database
           /\ Confirm(d, o).row = d.row
           /\ Confirm(d, o).block = [chain |-> "confirmed", published |-> TRUE]
           /\ Confirm(d, o).held = d.held /\ Confirm(d, o).seen = d.seen
           /\ Confirm(d, o).applied = o.work
           /\ Confirm(d, o).revision =
                IF d.block.chain # "confirmed" THEN d.revision + 1
                                               ELSE d.revision
<1>. DEFINE n == IF d.block.chain # "confirmed" THEN d.revision + 1
                                               ELSE d.revision
            b == [chain |-> "confirmed", published |-> TRUE]
<1>1. Confirm(d, o) = [d EXCEPT !.block = b, !.revision = n, !.applied = o.work]
  BY DEF Confirm, Database
<1>2. n \in Nat /\ o.work \in Nat /\ b \in PoolBlock
  BY DEF Database, Observation, PoolBlock
<1>. HIDE DEF n, b
<1>3. [d EXCEPT !.block = b, !.revision = n, !.applied = o.work] \in Database
  BY <1>2 DEF Database
<1>4. /\ Confirm(d, o).row = d.row /\ Confirm(d, o).block = b
      /\ Confirm(d, o).held = d.held /\ Confirm(d, o).seen = d.seen
      /\ Confirm(d, o).applied = o.work /\ Confirm(d, o).revision = n
  BY <1>1, <1>2 DEF Database
<1>. QED
  BY <1>1, <1>3, <1>4 DEF n, b

\* Taking the block off: only one that landed changes.
LEMMA DeactivateType ==
    ASSUME NEW d \in Database, NEW o \in Observation
    PROVE  /\ Deactivate(d, o) \in Database
           /\ Deactivate(d, o).row = d.row
           /\ Deactivate(d, o).block.published = d.block.published
           /\ d.block.chain = "none" <=> Deactivate(d, o).block.chain = "none"
           /\ Deactivate(d, o).held = d.held /\ Deactivate(d, o).seen = d.seen
           /\ d.block.chain = "none" => Deactivate(d, o) = d
           /\ Deactivate(d, o).applied \in {d.applied, o.work}
           /\ Deactivate(d, o).revision \in {d.revision, d.revision + 1}
<1>. DEFINE b == [d.block EXCEPT !.chain = "inactive"]
            n == d.revision + 1
<1>1. CASE ~Connected(d)
  BY <1>1 DEF Deactivate
<1>2. CASE Connected(d)
  <2>1. Deactivate(d, o) = [d EXCEPT !.block = b, !.revision = n, !.applied = o.work]
    BY <1>2 DEF Deactivate, Database
  <2>2. /\ n \in Nat /\ o.work \in Nat /\ b \in PoolBlock
        /\ b.chain = "inactive" /\ b.published = d.block.published
        /\ d.block.chain # "none"
    BY <1>2 DEF Database, Observation, PoolBlock, Connected
  <2>. HIDE DEF n, b
  <2>3. [d EXCEPT !.block = b, !.revision = n, !.applied = o.work] \in Database
    BY <2>2 DEF Database
  <2>4. /\ Deactivate(d, o).row = d.row /\ Deactivate(d, o).block = b
        /\ Deactivate(d, o).held = d.held /\ Deactivate(d, o).seen = d.seen
        /\ Deactivate(d, o).applied = o.work /\ Deactivate(d, o).revision = n
    BY <2>1, <2>2 DEF Database
  <2>. QED
    BY <2>1, <2>2, <2>3, <2>4 DEF n
<1>. QED
  BY <1>1, <1>2

\* The common ends of a step.
LEMMA GotoType ==
    ASSUME TypeOK, NEW f \in Frontend, NEW pc \in Step, Goto(f, pc)
    PROVE  attempt' \in [Frontend -> Attempt]
  BY FieldsType, BecomesStep DEF Goto, Becomes, TypeOK

\* An attempt that ends keeps the types.
LEMMA DoneType ==
    ASSUME TypeOK, NEW f \in Frontend, Done(f)
    PROVE  attempt' \in [Frontend -> Attempt]
  BY IdleType, BecomesStep DEF Done, Becomes, TypeOK

\* An attempt that fails keeps the types.
LEMMA FailedType ==
    ASSUME TypeOK, NEW f \in Frontend, Failed(f)
    PROVE  attempt' \in [Frontend -> Attempt]
<1>1. [Idle EXCEPT !.pc = "failed", !.token = attempt[f].token] \in Attempt
  BY IdleType DEF TypeOK, Attempt, Step
<1>. QED
  BY <1>1, BecomesStep DEF Failed, Becomes

\* An attempt that goes on afresh keeps the types.
LEMMA OnwardType ==
    ASSUME TypeOK, NEW f \in Frontend, NEW pc \in Step, Onward(f, pc)
    PROVE  attempt' \in [Frontend -> Attempt]
<1>1. [Idle EXCEPT !.pc = pc, !.token = attempt[f].token,
                   !.recovery = attempt[f].recovery,
                   !.state = attempt[f].state] \in Attempt
  BY IdleType DEF TypeOK, Attempt
<1>. QED
  BY <1>1, BecomesStep DEF Onward, Becomes

\* An attempt that gives up keeps the types.
LEMMA GiveUpType ==
    ASSUME TypeOK, NEW f \in Frontend, GiveUp(f)
    PROVE  attempt' \in [Frontend -> Attempt]
<1>1. "reconcile" \in Step
  BY DEF Step
<1>. QED
  BY <1>1, FailedType, OnwardType DEF GiveUp

\* Observing the chain keeps the types.
LEMMA ObserveToType ==
    ASSUME TypeOK, NEW f \in Frontend, NEW pc \in Step, ObserveTo(f, pc)
    PROVE  attempt' \in [Frontend -> Attempt] /\ db' \in Database
<1>1. [attempt[f] EXCEPT !.pc = pc, !.obs = Observed(db)] \in Attempt
  BY ObservingType, RecordTipType DEF TypeOK
<1>. QED
  BY <1>1, BecomesStep, RecordTipType DEF ObserveTo, Becomes, TypeOK

\* A row written under the claim, and the claim let go.
LEMMA WriteType ==
    ASSUME TypeOK, NEW d \in Database,
           NEW state \in Unfinished \cup Terminal, NEW outcome \in Outcome
    PROVE  /\ [d EXCEPT !.row = Moved(state, outcome)] \in Database
           /\ [d EXCEPT !.row = Released(Moved(state, outcome))] \in Database
<1>1. db.row \in Row
  BY DEF TypeOK, Database
<1>. QED
  BY <1>1, MovedType, ReleasedType, RowType

\* What an attempt's own step leaves as it was.
LEMMA OutsideType ==
    ASSUME TypeOK, UNCHANGED outside, UNCHANGED <<chain, inflight>>,
           attempt' \in [Frontend -> Attempt], db' \in Database,
           sent' \in Nat, unflushed' \in BOOLEAN, counted' \in Nat
    PROVE  TypeOK'
  BY DEF TypeOK, outside

-----------------------------------------------------------------------------
\* Each step of a frontend keeps the types.

\* A claim: the fresh token is a token, the state one the code claims.
LEMMA TClaimAs ==
    ASSUME TypeOK, NEW f \in Frontend, NEW r \in BOOLEAN, ClaimAs(f, r)
    PROVE  attempt' \in [Frontend -> Attempt] /\ db' \in Database
<1>1. PICK t \in Token :
        /\ db' = [db EXCEPT !.row = [@ EXCEPT !.token = t]]
        /\ attempt' = [attempt EXCEPT ![f] =
              [Idle EXCEPT !.pc = "claimed", !.token = t,
                           !.recovery = r, !.state = db.row.state]]
  BY DEF ClaimAs
<1>2. db.row \in Row /\ db.row.state \in Unfinished
  BY DEF ClaimAs, Claimable, TypeOK, Database
<1>3. [Idle EXCEPT !.pc = "claimed", !.token = t, !.recovery = r,
                   !.state = db.row.state] \in Attempt
  BY <1>2, IdleType DEF Attempt, Step
<1>4. [db.row EXCEPT !.token = t] \in Row
  BY <1>2 DEF Row
<1>. QED
  BY <1>1, <1>3, <1>4, BecomesStep, RowType DEF Becomes, TypeOK

\* claim_candidate, claim_candidate_for_recovery and takeovers.
LEMMA TClaims ==
    ASSUME TypeOK, NEW f \in Frontend, Claim(f) \/ Recover(f) \/ TakeOver(f)
    PROVE  TypeOK'
<1>1. PICK r \in BOOLEAN : ClaimAs(f, r)
  BY DEF Claim, Recover, TakeOver
<1>a. faults \in Nat
  BY DEF TypeOK
<1>b. CASE Claim(f) \/ Recover(f)
  BY <1>1, <1>a, <1>b, TClaimAs DEF Claim, Recover, ClaimAs, wire, TypeOK
<1>c. CASE TakeOver(f)
  <2>1. faults' = faults + 1
    BY <1>c, Zenon DEF TakeOver
  <2>2. faults' \in Nat
    BY <1>a, <2>1
  <2>. QED
    BY <1>1, <2>2, TClaimAs DEF ClaimAs, wire, TypeOK
<1>. QED
  BY <1>b, <1>c

\* The screens before the offer.
LEMMA TScreen ==
    ASSUME TypeOK, NEW f \in Frontend,
           SkipScreen(f) \/ Screen(f) \/ RecoverScreen(f)
    PROVE  TypeOK'
<1>. USE DEF wire
<1>g. gate[f].generation \in Nat /\ Observed(db) \in Observation
      /\ RecordTip(db) \in Database
  BY RecordTipType DEF TypeOK, Gate
<1>1. CASE SkipScreen(f)
  <2>1. [attempt[f] EXCEPT !.pc = "reserve",
                           !.generation = gate[f].generation] \in Attempt
    BY <1>g, FieldsType DEF TypeOK, Step
  <2>. QED
    BY <1>1, <2>1, BecomesStep, OutsideType
       DEF SkipScreen, ToReserve, Becomes, TypeOK
<1>2. CASE Screen(f)
  <2>1. PICK pc \in {"adopt", "abandon", "reserve"} :
          attempt' = [attempt EXCEPT ![f] = [@ EXCEPT !.pc = pc,
                !.obs = Observed(db), !.generation = gate[f].generation]]
    BY <1>2 DEF Screen
  <2>2. [attempt[f] EXCEPT !.pc = pc, !.obs = Observed(db),
                 !.generation = gate[f].generation] \in Attempt
    BY <1>g, ObservingType DEF TypeOK, Step
  <2>. QED
    BY <1>2, <1>g, <2>1, <2>2, BecomesStep, OutsideType
       DEF Screen, Becomes, TypeOK
<1>3. CASE RecoverScreen(f)
  <2>1. attempt' \in [Frontend -> Attempt] /\ db' \in Database
    BY <1>3, <1>g, ObserveToType, FailedType DEF RecoverScreen, Step
  <2>. QED
    BY <1>3, <2>1, OutsideType DEF RecoverScreen, TypeOK
<1>. QED
  BY <1>1, <1>2, <1>3

\* adopt_active_candidate and the abandonment of a pending row.
LEMMA TBeforeReserve ==
    ASSUME TypeOK, NEW f \in Frontend, Adopt(f) \/ Abandon(f)
    PROVE  TypeOK'
<1>. USE DEF wire
<1>1. db.row \in Row /\ attempt[f].obs \in Observation /\ db \in Database
  BY DEF TypeOK, Database, Attempt
<1>2. CASE Adopt(f)
  <2>1. attempt' \in [Frontend -> Attempt] /\ db' \in Database
    BY <1>2, <1>1, OnwardType, FailedType, WriteType
       DEF Adopt, Refused, Step
  <2>. QED
    BY <1>2, <2>1, OutsideType DEF Adopt, TypeOK
<1>3. CASE Abandon(f)
  <2>1. [Deactivate(db, attempt[f].obs) EXCEPT
            !.row = Released(Moved("abandoned", @.outcome))] \in Database
    BY <1>1, DeactivateType, WriteType DEF Row
  <2>2. attempt' \in [Frontend -> Attempt] /\ db' \in Database
    BY <1>3, <1>1, <2>1, DoneType, FailedType DEF Abandon
  <2>. QED
    BY <1>3, <2>2, OutsideType DEF Abandon, TypeOK
<1>. QED
  BY <1>2, <1>3

\* reserve_in.
LEMMA TReserveIn ==
    ASSUME TypeOK, NEW f \in Frontend, NEW b \in BOOLEAN, ReserveIn(f, b)
    PROVE  attempt' \in [Frontend -> Attempt] /\ db' \in Database
<1>1. db.row \in Row /\ db \in Database /\ db.row.outcome \in Outcome
  BY DEF TypeOK, Database, Row
<1>2. [attempt[f] EXCEPT !.pc = "reserved", !.current = b] \in Attempt
  BY FieldsType DEF TypeOK, Step
<1>3. CASE Refused(f, {"pending"})
  BY <1>1, <1>3, FailedType DEF Refused
<1>4. CASE ~Refused(f, {"pending"})
  <2>1. /\ db' = [db EXCEPT !.row = Moved("offer_reserved", @.outcome)]
        /\ attempt' = [attempt EXCEPT ![f] =
                         [@ EXCEPT !.pc = "reserved", !.current = b]]
    BY <1>4 DEF ReserveIn
  <2>2. Becomes(f, [attempt[f] EXCEPT !.pc = "reserved", !.current = b])
    BY <1>2, <2>1, BecomesStep
  <2>. QED
    BY <1>1, <2>1, <2>2, WriteType DEF Becomes
<1>. QED
  BY <1>3, <1>4

\* Both transactions of reserve_offer_within.
LEMMA TReserve ==
    ASSUME TypeOK, NEW f \in Frontend, Reserve(f) \/ Capture(f)
    PROVE  TypeOK'
<1>. USE DEF wire
<1>1. CASE Reserve(f)
  <2>1. CASE db.held \/ Current(f)
    BY <1>1, <2>1, FailedType, TReserveIn, OutsideType DEF Reserve, TypeOK
  <2>2. CASE ~db.held /\ ~Current(f)
    <3>1. PICK pc \in {"abandon", "capture"} :
            attempt' = [attempt EXCEPT ![f] = [@ EXCEPT !.pc = pc,
                                        !.obs.revision = db.revision]]
      BY <1>1, <2>2 DEF Reserve
    <3>2. [attempt[f].obs EXCEPT !.revision = db.revision] \in Observation
      BY DEF TypeOK, Attempt, Observation, Database
    <3>3. [attempt[f] EXCEPT !.pc = pc, !.obs.revision = db.revision]
            \in Attempt
      <4>1. [attempt[f] EXCEPT !.pc = pc, !.obs.revision = db.revision]
              = [attempt[f] EXCEPT !.pc = pc,
                   !.obs = [attempt[f].obs EXCEPT !.revision = db.revision]]
        BY DEF TypeOK, Attempt
      <4>2. attempt[f] \in Attempt /\ pc \in Step
        BY DEF TypeOK, Step
      <4>. QED
        BY <3>2, <4>1, <4>2, ObservingType
    <3>4. attempt' \in [Frontend -> Attempt]
      BY <3>1, <3>3, BecomesStep DEF Becomes
    <3>5. /\ UNCHANGED outside /\ UNCHANGED <<chain, inflight, db>>
          /\ UNCHANGED <<sent, unflushed, counted>>
      BY <1>1, <2>2, Zenon DEF Reserve
    <3>. QED
      BY <3>4, <3>5, OutsideType DEF TypeOK
  <2>. QED
    BY <2>1, <2>2
<1>2. CASE Capture(f)
  <2>1. attempt' \in [Frontend -> Attempt] /\ db' \in Database
    BY <1>2, FailedType, TReserveIn, GotoType DEF Capture, Step, TypeOK
  <2>. QED
    BY <1>2, <2>1, OutsideType DEF Capture, TypeOK
<1>. QED
  BY <1>1, <1>2

\* Between the reservation and the call.
LEMMA TBeforeCall ==
    ASSUME TypeOK, NEW f \in Frontend,
           \/ AwaitStandby(f) \/ Renew(f) \/ CarryCheck(f)
           \/ JournalUnreadable(f) \/ OfferNotExecuted(f)
    PROVE  TypeOK'
<1>. USE DEF wire
<1>1. {"waited", "check", "unsent", "send"} \subseteq Step
  BY DEF Step
<1>2. CASE AwaitStandby(f)
  <2>1. Flushed(f) \in BOOLEAN
    BY DEF Flushed
  <2>2. [attempt[f] EXCEPT !.pc = "waited", !.flushed = Flushed(f)] \in Attempt
    BY <1>1, <2>1, FieldsType DEF TypeOK
  <2>3. attempt' \in [Frontend -> Attempt]
    BY <1>2, <2>2, BecomesStep DEF AwaitStandby, Becomes
  <2>. QED
    BY <1>2, <2>3, OutsideType DEF AwaitStandby, TypeOK
<1>3. CASE Renew(f)
  <2>1. attempt' \in [Frontend -> Attempt]
    BY <1>1, <1>3, FailedType, GotoType DEF Renew, Refused
  <2>. QED
    BY <1>3, <2>1, OutsideType DEF Renew, Refused, TypeOK
<1>4. CASE CarryCheck(f)
  <2>1. PICK pc \in {"unsent", "send"} :
          attempt' = [attempt EXCEPT ![f] =
             [@ EXCEPT !.pc = pc, !.clean = ~gate[f].moved /\ claims]]
    BY <1>4 DEF CarryCheck
  <2>2. [attempt[f] EXCEPT !.pc = pc, !.clean = ~gate[f].moved /\ claims]
          \in Attempt
    BY <1>1, FieldsType DEF TypeOK
  <2>3. attempt' \in [Frontend -> Attempt]
    BY <2>1, <2>2, BecomesStep DEF Becomes
  <2>. QED
    BY <1>4, <2>3, OutsideType DEF CarryCheck, TypeOK
<1>5. CASE JournalUnreadable(f) \/ OfferNotExecuted(f)
  <2>1. attempt' \in [Frontend -> Attempt]
    BY <1>1, <1>5, GotoType DEF JournalUnreadable, OfferNotExecuted
  <2>2. faults \in Nat
    BY DEF TypeOK
  <2>3. faults' \in Nat
    BY <1>5, <2>2 DEF JournalUnreadable, OfferNotExecuted
  <2>. QED
    BY <1>5, <2>1, <2>3 DEF JournalUnreadable, OfferNotExecuted, TypeOK
<1>. QED
  BY <1>2, <1>3, <1>4, <1>5

\* The call, its answer, its record and the release of an unsent offer.
LEMMA TCall ==
    ASSUME TypeOK, NEW f \in Frontend,
           SendOffer(f) \/ ReleaseUnsent(f) \/ CallReturns(f) \/ RecordOffer(f)
    PROVE  TypeOK'
<1>. USE DEF wire
<1>1. {"calling", "record", "land"} \subseteq Step
  BY DEF Step
<1>r. /\ db.row \in Row /\ db \in Database /\ db.row.outcome \in Outcome
      /\ attempt[f].outcome \in Outcome /\ attempt[f] \in Attempt
  BY DEF TypeOK, Database, Row, Attempt
<1>2. CASE SendOffer(f)
  <2>1. attempt' \in [Frontend -> Attempt]
    BY <1>1, <1>2, GotoType DEF SendOffer
  <2>2. sent' \in Nat /\ unflushed' \in BOOLEAN /\ inflight' \in BOOLEAN
    BY <1>2, <1>r DEF SendOffer, TypeOK, Attempt
  <2>. QED
    BY <1>2, <2>1, <2>2 DEF SendOffer, TypeOK, outside
<1>3. CASE ReleaseUnsent(f)
  <2>1. [db EXCEPT !.row = Released(Moved("pending", @.outcome))] \in Database
    BY <1>r, WriteType
  <2>2. attempt' \in [Frontend -> Attempt] /\ db' \in Database
    BY <1>3, <1>r, <2>1, FailedType, DoneType DEF ReleaseUnsent
  <2>. QED
    BY <1>3, <2>2, OutsideType DEF ReleaseUnsent, TypeOK
<1>4. CASE CallReturns(f)
  <2>1. PICK o \in {"answered", "unknown"} :
          attempt' = [attempt EXCEPT ![f] =
                        [@ EXCEPT !.pc = "record", !.outcome = o]]
    BY <1>4 DEF CallReturns, AfterCall
  <2>2. [attempt[f] EXCEPT !.pc = "record", !.outcome = o] \in Attempt
    BY <1>1, <1>r, FieldsType
  <2>3. attempt' \in [Frontend -> Attempt]
    BY <2>1, <2>2, BecomesStep DEF Becomes
  <2>. QED
    BY <1>4, <2>3, OutsideType DEF CallReturns, TypeOK
<1>5. CASE RecordOffer(f)
  <2>1. [db EXCEPT !.row = Moved("offered", attempt[f].outcome)] \in Database
    BY <1>r, WriteType
  <2>2. attempt' \in [Frontend -> Attempt] /\ db' \in Database
    BY <1>1, <1>5, <1>r, <2>1, FailedType, OnwardType
       DEF RecordOffer, Refused
  <2>. QED
    BY <1>5, <2>2, OutsideType DEF RecordOffer, TypeOK
<1>. QED
  BY <1>2, <1>3, <1>4, <1>5

\* Landing the audit and observing before the settlement.
LEMMA TLand ==
    ASSUME TypeOK, NEW f \in Frontend,
           LaneSettle(f) \/ Land(f) \/ Landing(f) \/ Settle(f)
    PROVE  TypeOK'
<1>. USE DEF wire
<1>1. {"land", "landing", "settle", "settling"} \subseteq Step
  BY DEF Step
<1>r. /\ db.block \in PoolBlock /\ db \in Database /\ attempt[f] \in Attempt
      /\ RecordTip(db) \in Database
  BY RecordTipType DEF TypeOK, Database
<1>2. CASE LaneSettle(f)
  <2>1. attempt' \in [Frontend -> Attempt]
    BY <1>1, <1>2, GotoType DEF LaneSettle
  <2>. QED
    BY <1>2, <2>1, OutsideType DEF LaneSettle, TypeOK
<1>3. CASE Land(f)
  <2>1. attempt' \in [Frontend -> Attempt] /\ db' \in Database
    BY <1>1, <1>3, <1>r, OnwardType, ObserveToType, GiveUpType DEF Land
  <2>. QED
    BY <1>3, <2>1, OutsideType DEF Land, TypeOK
<1>4. CASE Landing(f)
  <2>1. [db EXCEPT !.block = IF @.chain = "none"
                             THEN [@ EXCEPT !.chain = "prepared"] ELSE @]
          \in Database
    <3>1. [db.block EXCEPT !.chain = "prepared"] \in PoolBlock
      BY <1>r DEF PoolBlock
    <3>. QED
      BY <1>r, <3>1 DEF Database
  <2>2. [attempt[f] EXCEPT !.pc = "land", !.retried = TRUE,
                           !.obs = NoObservation] \in Attempt
    BY <1>r DEF NoObservation, Observation, Attempt, Step
  <2>3. ASSUME attempt' = [attempt EXCEPT ![f] = [@ EXCEPT !.pc = "land",
                             !.retried = TRUE, !.obs = NoObservation]]
        PROVE  attempt' \in [Frontend -> Attempt]
    BY <2>2, <2>3, BecomesStep DEF Becomes
  <2>a. \/ GiveUp(f) \/ Onward(f, "settle")
        \/ attempt' = [attempt EXCEPT ![f] = [@ EXCEPT !.pc = "land",
                           !.retried = TRUE, !.obs = NoObservation]]
    BY <1>4 DEF Landing
  <2>4. attempt' \in [Frontend -> Attempt]
    <3>1. CASE GiveUp(f)
      BY <3>1, GiveUpType
    <3>2. CASE Onward(f, "settle")
      BY <1>1, <3>2, OnwardType
    <3>. QED
      BY <2>a, <2>3, <3>1, <3>2
  <2>b. \/ db' = db
        \/ db' = [db EXCEPT !.block = IF @.chain = "none"
                             THEN [@ EXCEPT !.chain = "prepared"] ELSE @]
    BY <1>4 DEF Landing
  <2>5. db' \in Database
    BY <1>r, <2>1, <2>b
  <2>. QED
    BY <1>4, <2>4, <2>5, OutsideType DEF Landing, TypeOK
<1>5. CASE Settle(f)
  <2>1. attempt' \in [Frontend -> Attempt] /\ db' \in Database
    BY <1>1, <1>5, ObserveToType DEF Settle
  <2>. QED
    BY <1>5, <2>1, OutsideType DEF Settle, TypeOK
<1>. QED
  BY <1>2, <1>3, <1>4, <1>5

\* The verdicts and the settlements that did not happen.
LEMMA TSettle ==
    ASSUME TypeOK, NEW f \in Frontend,
           FinishSubmitted(f) \/ Orphan(f) \/ NotSettled(f) \/ Reconcile(f)
    PROVE  TypeOK'
<1>. USE DEF wire
<1>1. {"settle", "reconcile"} \subseteq Step
  BY DEF Step
<1>r. /\ db.row \in Row /\ db \in Database /\ attempt[f].obs \in Observation
      /\ db.row.outcome \in Outcome
  BY DEF TypeOK, Database, Row, Attempt
<1>2. CASE FinishSubmitted(f)
  <2>1. [Confirm(db, attempt[f].obs) EXCEPT
            !.row = Released(Moved("submitted", Coalesced(@.outcome)))]
          \in Database
    BY <1>r, ConfirmType, WriteType DEF Coalesced
  <2>2. attempt' \in [Frontend -> Attempt]
    BY <1>2, DoneType DEF FinishSubmitted
  <2>3. counted' \in Nat
    BY <1>2 DEF FinishSubmitted, CountFirst, TypeOK
  <2>. QED
    BY <1>2, <2>1, <2>2, <2>3, OutsideType DEF FinishSubmitted, TypeOK
<1>3. CASE Orphan(f)
  <2>1. [Deactivate(db, attempt[f].obs) EXCEPT
            !.row = Released(Moved("orphaned", Coalesced(@.outcome)))]
          \in Database
    BY <1>r, DeactivateType, WriteType DEF Coalesced
  <2>2. attempt' \in [Frontend -> Attempt]
    BY <1>3, DoneType DEF Orphan
  <2>. QED
    BY <1>3, <2>1, <2>2, OutsideType DEF Orphan, TypeOK
<1>4. CASE NotSettled(f)
  <2>1. attempt' \in [Frontend -> Attempt]
    BY <1>1, <1>4, OnwardType, GiveUpType DEF NotSettled
  <2>. QED
    BY <1>4, <2>1, OutsideType DEF NotSettled, TypeOK
<1>5. CASE Reconcile(f)
  <2>1. Coalesced(db.row.outcome) \in Outcome
    BY <1>r DEF Coalesced
  <2>2. [db EXCEPT !.row =
           Released(Moved("reconciliation", Coalesced(@.outcome)))] \in Database
    BY <1>r, <2>1, WriteType
  <2>3. attempt' \in [Frontend -> Attempt] /\ db' \in Database
    BY <1>5, <1>r, <2>2, FailedType, DoneType DEF Reconcile, Refused
  <2>. QED
    BY <1>5, <2>3, OutsideType DEF Reconcile, TypeOK
<1>. QED
  BY <1>2, <1>3, <1>4, <1>5

\* Failed attempts, crashes and released claims.
LEMMA TEnd ==
    ASSUME TypeOK, NEW f \in Frontend,
           Fail(f) \/ Crash(f) \/ ReleaseClaim(f) \/ ReleaseGivesUp(f)
    PROVE  TypeOK'
<1>. USE DEF wire
<1>1. faults \in Nat /\ db.row \in Row /\ db \in Database
  BY DEF TypeOK, Database
<1>2. CASE Fail(f)
  <2>1. attempt' \in [Frontend -> Attempt]
    BY <1>2, FailedType, GiveUpType DEF Fail
  <2>2. faults' = faults + 1
    BY <1>2, Zenon DEF Fail
  <2>. QED
    BY <1>1, <1>2, <2>1, <2>2 DEF Fail, TypeOK
<1>3. CASE Crash(f)
  <2>1. attempt' \in [Frontend -> Attempt]
    BY <1>3, DoneType DEF Crash
  <2>2. faults' \in Nat
    BY <1>1, <1>3 DEF Crash
  <2>3. gate' \in [Frontend -> Gate]
    BY <1>3 DEF Crash, TypeOK, Gate
  <2>. QED
    BY <1>3, <2>1, <2>2, <2>3 DEF Crash, TypeOK
<1>4. CASE ReleaseClaim(f)
  <2>1. [db EXCEPT !.row = IF Holds(f, Unfinished) THEN Released(@) ELSE @]
          \in Database
    BY <1>1, ReleasedType, RowType
  <2>2. attempt' \in [Frontend -> Attempt]
    BY <1>4, DoneType DEF ReleaseClaim
  <2>. QED
    BY <1>4, <2>1, <2>2, OutsideType DEF ReleaseClaim, TypeOK
<1>5. CASE ReleaseGivesUp(f)
  <2>1. attempt' \in [Frontend -> Attempt]
    BY <1>5, DoneType DEF ReleaseGivesUp
  <2>. QED
    BY <1>5, <2>1, OutsideType DEF ReleaseGivesUp, TypeOK
<1>. QED
  BY <1>2, <1>3, <1>4, <1>5

\* The carry gate of one process.
LEMMA TGate ==
    ASSUME TypeOK, NEW f \in Frontend, SetCarryPaying(f) \/ FenceCarryChange(f)
    PROVE  TypeOK'
<1>. USE DEF wire
<1>1. gate[f] \in Gate /\ db \in Database /\ db.revision + 1 \in Nat
  BY DEF TypeOK, Database
<1>2. CASE SetCarryPaying(f)
  <2>1. [paying |-> ~gate[f].paying, fencePending |-> TRUE,
         generation |-> gate[f].generation + 1, moved |-> TRUE] \in Gate
    BY <1>1 DEF Gate
  <2>2. gate' \in [Frontend -> Gate]
    BY <1>2, <2>1 DEF SetCarryPaying, TypeOK
  <2>. QED
    BY <1>2, <2>2 DEF SetCarryPaying, TypeOK
<1>3. CASE FenceCarryChange(f)
  <2>1. [gate[f] EXCEPT !.fencePending = FALSE] \in Gate
    BY <1>1 DEF Gate
  <2>2. gate' \in [Frontend -> Gate]
    BY <1>3, <2>1 DEF FenceCarryChange, TypeOK
  <2>3. [db EXCEPT !.revision = @ + 1] \in Database
    BY <1>1 DEF Database
  <2>. QED
    BY <1>3, <2>2, <2>3 DEF FenceCarryChange, TypeOK
<1>. QED
  BY <1>2, <1>3

\* The operator, the reconciler, the chain and the databases.
LEMMA TOthers ==
    ASSUME TypeOK,
           \/ AbandonCandidate \/ SetHold \/ ClearHold \/ ReconcileObserve
           \/ ReconcileWrite \/ ReconcileStop \/ ReleaseCarry
           \/ NodeExecutes \/ ChainMoves \/ Replicate \/ Failover
    PROVE  TypeOK'
<1>. USE DEF wire, outside
<1>1. /\ faults + 1 \in Nat /\ failovers + 1 \in Nat /\ counted + 1 \in Nat
      /\ db \in Database /\ standby \in Database /\ db.revision + 1 \in Nat
      /\ db.row \in Row /\ db.row.outcome \in Outcome
      /\ reconciler.obs \in Observation /\ chain \in Chain
  BY DEF TypeOK, Database, Row
<1>2. CASE AbandonCandidate
  <2>1. [db EXCEPT !.row = Released(Moved("abandoned", @.outcome))] \in Database
    BY <1>1, WriteType
  <2>. QED
    BY <1>1, <1>2, <2>1 DEF AbandonCandidate, TypeOK
<1>3. CASE SetHold \/ ClearHold
  <2>1. \A b \in BOOLEAN : [db EXCEPT !.held = b] \in Database
    BY <1>1 DEF Database
  <2>. QED
    BY <1>1, <1>3, <2>1 DEF SetHold, ClearHold, TypeOK
<1>4. CASE ReconcileObserve
  <2>1. /\ RecordTip(db) \in Database
        /\ [busy |-> TRUE, obs |-> Observed(db)]
             \in [busy : BOOLEAN, obs : Observation]
    BY <1>1, RecordTipType
  <2>. QED
    BY <1>4, <2>1 DEF ReconcileObserve, TypeOK
<1>5. NoReconcile \in [busy : BOOLEAN, obs : Observation]
  BY DEF NoReconcile, NoObservation, Observation
<1>6. CASE ReconcileWrite
  <2>1. db' \in Database /\ counted' \in Nat
    BY SMTT(30), <1>1, <1>6, ConfirmType, DeactivateType
       DEF ReconcileWrite, CountFirst, TypeOK
  <2>. QED
    BY <1>5, <1>6, <2>1 DEF ReconcileWrite, TypeOK
<1>7. CASE ReconcileStop
  BY <1>1, <1>5, <1>7 DEF ReconcileStop, TypeOK
<1>8. CASE ReleaseCarry
  <2>1. [db EXCEPT !.revision = @ + 1] \in Database
    BY <1>1 DEF Database
  <2>. QED
    BY <1>8, <2>1 DEF ReleaseCarry, TypeOK
<1>9. CASE NodeExecutes
  <2>. DEFINE at == IF chain.at = "parent" THEN "ours" ELSE chain.at
              depth == IF chain.at = "parent" THEN 1 ELSE chain.depth
              work == IF chain.at = "parent" THEN chain.work + 1 ELSE chain.work
  <2>1. /\ at \in {"parent", "ours", "other"}
        /\ depth \in Nat /\ work \in Nat
    BY <1>1 DEF Chain
  <2>2. \/ chain' = chain
        \/ chain' = [chain EXCEPT !.known = TRUE, !.at = at, !.depth = depth,
                                  !.work = work]
    BY <1>9 DEF NodeExecutes
  <2>. HIDE DEF at, depth, work
  <2>3. chain' \in Chain
    BY <1>1, <2>1, <2>2 DEF Chain
  <2>. QED
    BY <1>9, <2>3 DEF NodeExecutes, TypeOK
<1>10. CASE ChainMoves
  <2>1. PICK at \in {"ours", "other"} :
          chain' = [chain EXCEPT !.at = at, !.work = @ + 1,
                      !.depth = IF at = chain.at THEN @ + 1 ELSE 1]
    BY <1>10 DEF ChainMoves
  <2>. DEFINE depth == IF at = chain.at THEN chain.depth + 1 ELSE 1
              work == chain.work + 1
  <2>2. depth \in Nat /\ work \in Nat
    BY <1>1 DEF Chain
  <2>3. chain' = [chain EXCEPT !.at = at, !.work = work, !.depth = depth]
    BY <2>1
  <2>. HIDE DEF depth, work
  <2>4. chain' \in Chain
    BY <1>1, <2>2, <2>3 DEF Chain
  <2>. QED
    BY <1>10, <2>4 DEF ChainMoves, TypeOK
<1>11. CASE Replicate \/ Failover
  BY <1>1, <1>11 DEF Replicate, Failover, TypeOK
<1>. QED
  BY <1>2, <1>3, <1>4, <1>6, <1>7, <1>8, <1>9, <1>10, <1>11

\* Init gives every variable a value of its type.
LEMMA TInit == Init => TypeOK
<1>1. Pending \in Database
  BY DEF Pending, Database, Row, PoolBlock
<1>2. NoReconcile \in [busy : BOOLEAN, obs : Observation]
  BY DEF NoReconcile, NoObservation, Observation
<1>3. /\ [paying |-> TRUE, fencePending |-> FALSE, generation |-> 0,
          moved |-> FALSE] \in Gate
      /\ [at |-> "parent", depth |-> 0, work |-> 0, known |-> FALSE] \in Chain
  BY DEF Gate, Chain
<1>. SUFFICES ASSUME Init
              PROVE  TypeOK
  OBVIOUS
<1>4. /\ attempt \in [Frontend -> Attempt] /\ gate \in [Frontend -> Gate]
  BY <1>3, IdleType DEF Init, InitOf
<1>. QED
  BY <1>1, <1>2, <1>3, <1>4 DEF Init, InitOf, TypeOK

\* Every step keeps the types.
LEMMA TNext == TypeOK /\ [Next]_vars => TypeOK'
<1>. SUFFICES ASSUME TypeOK, [Next]_vars
              PROVE  TypeOK'
  OBVIOUS
<1>1. ASSUME NEW f \in Frontend, AttemptStep(f)
      PROVE  TypeOK'
  BY <1>1, TScreen, TBeforeReserve, TReserve, TBeforeCall, TCall, TLand,
     TSettle, TEnd DEF AttemptStep
<1>2. ASSUME NEW f \in Frontend,
             \/ Claim(f) \/ Recover(f) \/ TakeOver(f) \/ JournalUnreadable(f)
             \/ OfferNotExecuted(f) \/ Fail(f) \/ Crash(f)
             \/ ReleaseGivesUp(f) \/ SetCarryPaying(f) \/ FenceCarryChange(f)
      PROVE  TypeOK'
  BY <1>2, TClaims, TBeforeCall, TEnd, TGate
<1>3. CASE UNCHANGED vars
  BY <1>3 DEF vars, TypeOK
<1>. QED
  BY <1>1, <1>2, <1>3, TOthers DEF Next

\* Every variable keeps its type: the row, the pool block, every attempt and
\* every observation hold what the code's enumerations allow.
THEOREM OutboxTypeCorrect == Spec => []TypeOK
  BY TInit, TNext, PTL DEF Spec

-----------------------------------------------------------------------------
\* How an attempt leaves a phase: it ends, fails, or goes on afresh.

Leaves(f) ==
    /\ attempt[f].pc # "idle"
    /\ \A g \in Frontend \ {f} : attempt'[g] = attempt[g]
    /\ attempt'[f].pc \in {"idle", "failed", "land", "settle", "reconcile"}
    /\ attempt'[f].token =
         IF attempt'[f].pc = "idle" THEN NoToken ELSE attempt[f].token
    /\ attempt'[f].obs = NoObservation

\* Ending an attempt forgets its claim.
LEMMA DoneLeaves ==
    ASSUME TypeOK, NEW f \in Frontend, attempt[f].pc # "idle", Done(f)
    PROVE  Leaves(f) /\ attempt'[f].pc = "idle"
  BY IdleType, BecomesStep DEF Done, Becomes, Idle, Leaves

\* Failing keeps the token, to release the claim with.
LEMMA FailedLeaves ==
    ASSUME TypeOK, NEW f \in Frontend, attempt[f].pc # "idle", Failed(f)
    PROVE  Leaves(f) /\ attempt'[f].pc = "failed"
<1>. DEFINE a == [Idle EXCEPT !.pc = "failed", !.token = attempt[f].token]
<1>1. /\ a \in Attempt /\ a.pc = "failed" /\ a.token = attempt[f].token
      /\ a.obs = NoObservation
  BY IdleType DEF TypeOK, Attempt, Step, Idle
<1>. HIDE DEF a
<1>2. attempt' = [attempt EXCEPT ![f] = a]
  BY DEF Failed, a
<1>. QED
  BY <1>1, <1>2, BecomesStep DEF Becomes, Leaves

\* Going on afresh keeps the token.
LEMMA OnwardLeaves ==
    ASSUME TypeOK, NEW f \in Frontend, attempt[f].pc # "idle",
           NEW pc \in {"land", "settle", "reconcile"}, Onward(f, pc)
    PROVE  Leaves(f) /\ attempt'[f].pc = pc
<1>. DEFINE a == [Idle EXCEPT !.pc = pc, !.token = attempt[f].token,
                              !.recovery = attempt[f].recovery,
                              !.state = attempt[f].state]
<1>1. /\ a \in Attempt /\ a.pc = pc /\ a.token = attempt[f].token
      /\ a.obs = NoObservation
  BY IdleType DEF TypeOK, Attempt, Step, Idle
<1>. HIDE DEF a
<1>2. attempt' = [attempt EXCEPT ![f] = a]
  BY DEF Onward, a
<1>. QED
  BY <1>1, <1>2, BecomesStep DEF Becomes, Leaves

\* Giving up fails the attempt or sends it to reconciliation.
LEMMA GiveUpLeaves ==
    ASSUME TypeOK, NEW f \in Frontend, attempt[f].pc # "idle", GiveUp(f)
    PROVE  Leaves(f) /\ attempt'[f].pc \in {"failed", "reconcile"}
<1>1. CASE attempt[f].recovery
  <2>1. Failed(f)
    BY <1>1 DEF GiveUp
  <2>2. attempt'[f].pc = "failed"
    BY <2>1, IdleType DEF Failed, TypeOK, Idle
  <2>. QED
    BY <2>1, <2>2, FailedLeaves
<1>2. CASE ~attempt[f].recovery
  BY <1>2, OnwardLeaves DEF GiveUp
<1>. QED
  BY <1>1, <1>2

\* An attempt that goes on keeps its claim and what it knows of the row.
Advances(f) ==
    /\ attempt[f].pc # "idle"
    /\ \A g \in Frontend \ {f} : attempt'[g] = attempt[g]
    /\ attempt'[f].pc # "idle"
    /\ attempt'[f].token = attempt[f].token
    /\ attempt'[f].state = attempt[f].state

\* Going on at another phase changes nothing else.
LEMMA GotoAdvances ==
    ASSUME TypeOK, NEW f \in Frontend, attempt[f].pc # "idle",
           NEW pc \in Step \ {"idle"}, Goto(f, pc)
    PROVE  /\ Advances(f) /\ attempt'[f] = [attempt[f] EXCEPT !.pc = pc]
           /\ attempt'[f].pc = pc /\ attempt'[f].obs = attempt[f].obs
           /\ attempt'[f].flushed = attempt[f].flushed
           /\ attempt'[f].outcome = attempt[f].outcome
           /\ attempt'[f].current = attempt[f].current
           /\ attempt'[f].generation = attempt[f].generation
           /\ attempt'[f].clean = attempt[f].clean
<1>1. [attempt[f] EXCEPT !.pc = pc] \in Attempt /\ attempt[f] \in Attempt
  BY FieldsType DEF TypeOK
<1>2. Becomes(f, [attempt[f] EXCEPT !.pc = pc])
  BY <1>1, BecomesStep DEF Goto
<1>. QED
  BY <1>1, <1>2 DEF Becomes, Advances, Attempt

\* Observing changes the observation and the tip, never the row.
LEMMA ObserveToAdvances ==
    ASSUME TypeOK, NEW f \in Frontend, attempt[f].pc # "idle",
           NEW pc \in Step \ {"idle"}, ObserveTo(f, pc)
    PROVE  /\ Advances(f) /\ attempt'[f].pc = pc
           /\ attempt'[f].obs = Observed(db)
           /\ attempt'[f].flushed = attempt[f].flushed
           /\ db' = RecordTip(db) /\ db'.row = db.row /\ chain.work >= db.seen
<1>. DEFINE a == [attempt[f] EXCEPT !.pc = pc, !.obs = Observed(db)]
<1>0. attempt[f] \in Attempt /\ Observed(db) \in Observation
  BY RecordTipType DEF TypeOK
<1>1. /\ a \in Attempt /\ a.pc = pc /\ a.token = attempt[f].token
      /\ a.state = attempt[f].state /\ a.obs = Observed(db)
      /\ a.flushed = attempt[f].flushed
  <2>1. a \in Attempt
    BY <1>0, ObservingType
  <2>. QED
    BY <1>0, <2>1 DEF Attempt
<1>. HIDE DEF a
<1>2. attempt' = [attempt EXCEPT ![f] = a] /\ db' = RecordTip(db)
      /\ chain.work >= db.seen
  BY DEF ObserveTo, a
<1>3. db'.row = db.row
  BY <1>2, RecordTipType DEF TypeOK
<1>. QED
  BY <1>1, <1>2, <1>3, BecomesStep DEF Becomes, Advances

-----------------------------------------------------------------------------
\* Calm steps: no claim, reservation or call is made, no copy is replaced.

CalmAttempt(f) ==
    LET a == attempt[f]
        b == attempt'[f]
    IN  /\ b.token = IF b.pc = "idle" THEN NoToken ELSE a.token
        /\ a.pc = "idle" => b.pc = "idle"
        /\ Fresh(b) => Fresh(a) /\ b.state = a.state /\ b.flushed = a.flushed
        /\ Holding(f)' => Holding(f) /\ b.flushed = a.flushed

CalmRow ==
    LET r == db.row
        s == db'.row
    IN  /\ s.token \in {r.token, NoToken}
        /\ \/ s.state = r.state
           \/ s.state \in {"offered", "reconciliation", "submitted", "orphaned"}
           \/ r.state = "pending" /\ s.state = "abandoned"
        /\ s.state # r.state /\ s.token # NoToken =>
             \A f \in Frontend : attempt[f].token = r.token =>
                ~Fresh(attempt'[f])

Calm ==
    /\ \A f \in Frontend : CalmAttempt(f)
    /\ CalmRow
    /\ UNCHANGED <<standby, sent, unflushed>>

\* An attempt that did not move is calm.
LEMMA StillCalm ==
    ASSUME TypeOK, TokensApart, NEW g \in Frontend, attempt'[g] = attempt[g]
    PROVE  CalmAttempt(g)
  BY DEF CalmAttempt, Holding, TokensApart

\* An attempt that leaves its phase holds no reservation and is not fresh.
LEMMA LeavesCalm ==
    ASSUME TypeOK, TokensApart, NEW f \in Frontend, Leaves(f)
    PROVE  \A g \in Frontend : CalmAttempt(g)
<1>1. CalmAttempt(f)
  BY DEF Leaves, CalmAttempt, Fresh, Reserving, Holding
<1>. QED
  BY <1>1, StillCalm DEF Leaves

\* An attempt that goes on without reserving is calm.
LEMMA AdvancesCalm ==
    ASSUME TypeOK, TokensApart, NEW f \in Frontend, Advances(f),
           Fresh(attempt'[f]) => /\ Fresh(attempt[f])
                                 /\ attempt'[f].flushed = attempt[f].flushed,
           Holding(f)' => /\ Holding(f)
                          /\ attempt'[f].flushed = attempt[f].flushed
    PROVE  \A g \in Frontend : CalmAttempt(g)
<1>1. CalmAttempt(f)
  BY DEF Advances, CalmAttempt
<1>. QED
  BY <1>1, StillCalm DEF Advances

\* A row left alone, released, moved and released, or moved by its holder.
LEMMA SameRowCalm ==
    ASSUME db'.row = db.row
    PROVE  CalmRow
  BY DEF CalmRow

\* A row moved and released.
LEMMA ReleasedRowCalm ==
    ASSUME TypeOK, NEW state \in Unfinished \cup Terminal, NEW o \in Outcome,
           \/ state \in {"offered", "reconciliation", "submitted", "orphaned"}
           \/ state = db.row.state
           \/ db.row.state = "pending" /\ state = "abandoned",
           db'.row = Released(Moved(state, o))
    PROVE  CalmRow /\ db'.row.state = state /\ db'.row.token = NoToken
           /\ db'.row.outcome = o
<1>1. /\ db'.row.token = NoToken /\ db'.row.state = state
      /\ db'.row.outcome = o
  BY MovedType, ReleasedType DEF TypeOK, Database
<1>. QED
  BY <1>1 DEF CalmRow

\* A row moved by the attempt that holds its claim, which then leaves.
LEMMA MovedRowCalm ==
    ASSUME TypeOK, TokensApart, NEW f \in Frontend, Leaves(f),
           db.row.token = attempt[f].token,
           NEW state \in {"offered", "reconciliation"}, NEW o \in Outcome,
           db'.row = Moved(state, o)
    PROVE  CalmRow /\ db'.row.state = state /\ db'.row.token = db.row.token
           /\ db'.row.outcome = o
<1>1. /\ db'.row.token = db.row.token /\ db'.row.state = state
      /\ db'.row.outcome = o
  BY MovedType DEF TypeOK, Database
<1>2. ASSUME NEW g \in Frontend, attempt[g].token = db.row.token
      PROVE  g = f
  BY <1>2 DEF TokensApart, Leaves
<1>3. ~Fresh(attempt'[f])
  BY DEF Leaves, Fresh, Reserving
<1>. QED
  BY <1>1, <1>2, <1>3 DEF CalmRow

\* The steps before the reservation are calm.
LEMMA CBefore ==
    ASSUME TypeOK, TokensApart, NEW f \in Frontend,
           \/ SkipScreen(f) \/ Screen(f) \/ RecoverScreen(f) \/ Adopt(f)
           \/ Abandon(f)
    PROVE  Calm
<1>. USE DEF At, wire, outside
<1>0. /\ attempt \in [Frontend -> Attempt] /\ attempt[f] \in Attempt
      /\ db \in Database /\ db.row \in Row /\ db.row.outcome \in Outcome
      /\ attempt[f].obs \in Observation /\ RecordTip(db).row = db.row
  BY RecordTipType DEF TypeOK, Database, Attempt, Row
<1>1. CASE SkipScreen(f)
  <2>1. \A g \in Frontend : CalmAttempt(g)
    <3>1. /\ Advances(f) /\ attempt'[f].pc = "reserve"
          /\ attempt'[f].flushed = attempt[f].flushed
      BY <1>0, <1>1 DEF SkipScreen, ToReserve, Advances, Attempt
    <3>. QED
      BY <1>1, <3>1, AdvancesCalm
         DEF SkipScreen, Fresh, Holding
  <2>. QED
    BY <1>1, <2>1, SameRowCalm DEF SkipScreen, Calm
<1>2. CASE Screen(f)
  <2>1. \A g \in Frontend : CalmAttempt(g)
    <3>1. PICK pc \in {"adopt", "abandon", "reserve"} :
            attempt' = [attempt EXCEPT ![f] = [@ EXCEPT !.pc = pc,
                  !.obs = Observed(db), !.generation = gate[f].generation]]
      BY <1>2 DEF Screen
    <3>3. attempt[f].pc = "claimed" /\ attempt[f].state = "pending"
      BY <1>2 DEF Screen
    <3>. DEFINE o == Observed(db)
                n == gate[f].generation
    <3>4. attempt' = [attempt EXCEPT ![f] =
                [@ EXCEPT !.pc = pc, !.obs = o, !.generation = n]]
      BY <3>1
    <3>. HIDE DEF o, n
    <3>2. /\ Advances(f) /\ attempt'[f].pc = pc
          /\ attempt'[f].flushed = attempt[f].flushed
      BY <1>0, <3>3, <3>4 DEF Advances, Attempt
    <3>. QED
      BY <3>2, <3>3, AdvancesCalm DEF Fresh, Holding
  <2>. QED
    BY <1>0, <1>2, <2>1, SameRowCalm DEF Screen, Calm
<1>3. CASE RecoverScreen(f)
  <2>. DEFINE pc == IF attempt[f].state = "pending" THEN "adopt" ELSE "land"
  <2>1. (ObserveTo(f, pc) \/ (db' = RecordTip(db) /\ Failed(f)))
        /\ attempt[f].pc = "claimed" /\ UNCHANGED <<standby, sent, unflushed>>
    BY <1>3 DEF RecoverScreen
  <2>a. pc \in Step \ {"idle"} /\ ~(pc \in {"reserved", "waited", "check", "send", "unsent"})
        /\ (pc = "adopt" => attempt[f].state = "pending") /\ pc # "claimed"
        /\ pc \in {"adopt", "land"}
    BY DEF Step
  <2>. HIDE DEF pc
  <2>2. CASE ObserveTo(f, pc)
    <3>1. /\ Advances(f) /\ attempt'[f].pc = pc /\ db'.row = db.row
          /\ attempt'[f].flushed = attempt[f].flushed
      BY <2>1, <2>2, <2>a, ObserveToAdvances
    <3>2. \A g \in Frontend : CalmAttempt(g)
      BY <2>1, <2>a, <3>1, AdvancesCalm DEF Fresh, Reserving, Holding
    <3>. QED
      BY <2>1, <3>1, <3>2, SameRowCalm DEF Calm
  <2>3. CASE db' = RecordTip(db) /\ Failed(f)
    BY <1>0, <2>1, <2>3, FailedLeaves, LeavesCalm, SameRowCalm DEF Calm
  <2>. QED
    BY <2>1, <2>2, <2>3
<1>4. CASE Adopt(f)
  <2>1. CASE Refused(f, {"pending"})
    <3>1. Leaves(f)
      BY <1>4, <2>1, FailedLeaves DEF Adopt, Refused
    <3>. QED
      BY <1>4, <2>1, <3>1, LeavesCalm, SameRowCalm DEF Adopt, Refused, Calm
  <2>2. CASE ~Refused(f, {"pending"})
    <3>1. /\ db.row.token = attempt[f].token /\ Onward(f, "land")
          /\ db' = [db EXCEPT !.row = Moved("reconciliation", "unknown")]
      BY <1>4, <2>2 DEF Adopt, Holds
    <3>2. db'.row = Moved("reconciliation", "unknown")
      BY <1>0, <3>1 DEF Database
    <3>3. Leaves(f)
      BY <1>4, <3>1, OnwardLeaves DEF Adopt
    <3>. QED
      BY <1>4, <3>1, <3>2, <3>3, LeavesCalm, MovedRowCalm DEF Adopt, Calm
  <2>. QED
    BY <2>1, <2>2
<1>5. CASE Abandon(f)
  <2>1. CASE Failed(f) /\ UNCHANGED db
    BY <1>5, <2>1, FailedLeaves, LeavesCalm, SameRowCalm DEF Abandon, Calm
  <2>2. CASE ~(Failed(f) /\ UNCHANGED db)
    <3>1. /\ db.row.state = "pending" /\ Done(f)
          /\ db' = [Deactivate(db, attempt[f].obs) EXCEPT
                       !.row = Released(Moved("abandoned", @.outcome))]
      BY <1>5, <2>2 DEF Abandon, Holds
    <3>2. db'.row = Released(Moved("abandoned", db.row.outcome))
      BY <1>0, <3>1, DeactivateType DEF Database
    <3>3. Leaves(f)
      BY <1>5, <3>1, DoneLeaves DEF Abandon
    <3>. QED
      BY <1>0, <1>5, <3>1, <3>2, <3>3, LeavesCalm, ReleasedRowCalm
         DEF Abandon, Calm
  <2>. QED
    BY <2>1, <2>2
<1>. QED
  BY <1>1, <1>2, <1>3, <1>4, <1>5

\* A reservation transaction is calm or makes the reservation.
LEMMA CReserving ==
    ASSUME TypeOK, TokensApart, NEW f \in Frontend, Reserve(f) \/ Capture(f)
    PROVE  \/ Calm
           \/ /\ attempt[f].pc \in {"reserve", "capture"}
              /\ Holds(f, {"pending"})
              /\ UNCHANGED <<outside, wire, counted>>
              /\ db' = [db EXCEPT !.row = Moved("offer_reserved", @.outcome)]
              /\ \E b \in BOOLEAN : attempt' = [attempt EXCEPT ![f] =
                    [@ EXCEPT !.pc = "reserved", !.current = b]]
<1>. USE DEF At
<1>0. attempt \in [Frontend -> Attempt] /\ attempt[f] \in Attempt
  BY DEF TypeOK
<1>1. ASSUME attempt[f].pc \in {"reserve", "capture"},
             UNCHANGED <<outside, wire>>, UNCHANGED db, Failed(f)
      PROVE  Calm
  BY <1>1, FailedLeaves, LeavesCalm, SameRowCalm DEF Calm, outside, wire
<1>2. ASSUME attempt[f].pc \in {"reserve", "capture"},
             UNCHANGED <<outside, wire>>, UNCHANGED db,
             Advances(f), attempt'[f].pc \in {"abandon", "capture"},
             attempt'[f].flushed = attempt[f].flushed
      PROVE  Calm
  <2>1. \A g \in Frontend : CalmAttempt(g)
    BY <1>2, AdvancesCalm DEF Fresh, Reserving, Holding
  <2>. QED
    BY <1>2, <2>1, SameRowCalm DEF Calm, outside, wire
<1>3. CASE Reserve(f)
  <2>1. CASE db.held \/ Current(f)
    BY <1>1, <1>3, <2>1 DEF Reserve, ReserveIn, Refused
  <2>2. CASE ~db.held /\ ~Current(f)
    <3>1. PICK pc \in {"abandon", "capture"} :
            attempt' = [attempt EXCEPT ![f] = [@ EXCEPT !.pc = pc,
                          !.obs.revision = db.revision]]
      BY <1>3, <2>2 DEF Reserve
    <3>2. /\ Advances(f) /\ attempt'[f].pc = pc
          /\ attempt'[f].flushed = attempt[f].flushed
      BY <1>0, <1>3, <3>1 DEF Reserve, Advances, Attempt
    <3>. QED
      BY <1>2, <1>3, <2>2, <3>2 DEF Reserve
  <2>. QED
    BY <2>1, <2>2
<1>4. CASE Capture(f)
  <2>1. CASE Goto(f, "abandon") /\ UNCHANGED db
    <3>1. /\ Advances(f) /\ attempt'[f].pc = "abandon"
          /\ attempt'[f].flushed = attempt[f].flushed
      BY <1>4, <2>1, GotoAdvances DEF Capture, Step
    <3>. QED
      BY <1>2, <1>4, <2>1, <3>1 DEF Capture
  <2>2. CASE ~(Goto(f, "abandon") /\ UNCHANGED db)
    BY <1>1, <1>4, <2>2 DEF Capture, ReserveIn, Refused
  <2>. QED
    BY <2>1, <2>2
<1>. QED
  BY <1>3, <1>4

\* Renewal, the carry check and the record of the call are calm.
LEMMA CBeforeCall ==
    ASSUME TypeOK, TokensApart, NEW f \in Frontend,
           \/ Renew(f) \/ CarryCheck(f) \/ JournalUnreadable(f)
           \/ OfferNotExecuted(f) \/ CallReturns(f) \/ RecordOffer(f)
    PROVE  Calm
<1>. USE DEF At, wire, outside
<1>0. /\ attempt \in [Frontend -> Attempt] /\ attempt[f] \in Attempt
      /\ db \in Database /\ db.row \in Row /\ attempt[f].outcome \in Outcome
  BY DEF TypeOK, Database, Attempt
<1>1. ASSUME Advances(f), Holding(f), UNCHANGED <<db, standby, sent, unflushed>>,
             ~Fresh(attempt'[f]), attempt'[f].flushed = attempt[f].flushed
      PROVE  Calm
  BY <1>1, AdvancesCalm, SameRowCalm DEF Calm
<1>2. CASE Renew(f)
  <2>1. CASE Refused(f, Unfinished)
    <3>1. Leaves(f)
      BY <1>2, <2>1, FailedLeaves DEF Renew, Refused
    <3>. QED
      BY <1>2, <2>1, <3>1, LeavesCalm, SameRowCalm DEF Renew, Refused, Calm
  <2>2. CASE Goto(f, "check") /\ UNCHANGED db
    <3>1. /\ Advances(f) /\ attempt'[f].pc = "check"
          /\ attempt'[f].flushed = attempt[f].flushed
      BY <1>2, <2>2, GotoAdvances DEF Renew, Step
    <3>. QED
      BY <1>1, <1>2, <2>2, <3>1 DEF Renew, Holding, Fresh, Reserving
  <2>. QED
    BY <1>2, <2>1, <2>2 DEF Renew
<1>3. CASE CarryCheck(f)
  <2>1. PICK pc \in {"unsent", "send"} :
          attempt' = [attempt EXCEPT ![f] =
             [@ EXCEPT !.pc = pc, !.clean = ~gate[f].moved /\ claims]]
    BY <1>3 DEF CarryCheck
  <2>. DEFINE clean == ~gate[f].moved /\ claims
  <2>a. attempt[f].pc = "check"
    BY <1>3 DEF CarryCheck
  <2>b. attempt' = [attempt EXCEPT ![f] = [@ EXCEPT !.pc = pc, !.clean = clean]]
    BY <2>1
  <2>. HIDE DEF clean
  <2>2. /\ Advances(f) /\ attempt'[f].pc = pc
        /\ attempt'[f].flushed = attempt[f].flushed
    BY <1>0, <2>a, <2>b DEF Advances, Attempt
  <2>. QED
    BY <1>1, <1>3, <2>2 DEF CarryCheck, Holding, Fresh, Reserving
<1>4. CASE JournalUnreadable(f) \/ OfferNotExecuted(f)
  <2>1. /\ attempt[f].pc \in {"check", "send"} /\ Goto(f, "unsent")
        /\ UNCHANGED <<db, standby, sent, unflushed>>
    BY <1>4 DEF JournalUnreadable, OfferNotExecuted
  <2>2. /\ Advances(f) /\ attempt'[f].pc = "unsent"
        /\ attempt'[f].flushed = attempt[f].flushed
    BY <2>1, GotoAdvances DEF Step
  <2>. QED
    BY <1>1, <2>1, <2>2 DEF Holding, Fresh, Reserving
<1>5. CASE CallReturns(f)
  <2>1. PICK o \in {"answered", "unknown"} :
          attempt' = [attempt EXCEPT ![f] =
                        [@ EXCEPT !.pc = "record", !.outcome = o]]
    BY <1>5 DEF CallReturns, AfterCall
  <2>2. Advances(f) /\ attempt'[f].pc = "record"
    BY <1>0, <1>5, <2>1 DEF CallReturns, Advances, Attempt
  <2>3. \A g \in Frontend : CalmAttempt(g)
    BY <2>2, AdvancesCalm DEF Fresh, Reserving, Holding
  <2>. QED
    BY <1>5, <2>3, SameRowCalm DEF CallReturns, Calm
<1>6. CASE RecordOffer(f)
  <2>1. CASE Refused(f, {"offer_reserved"})
    <3>1. Leaves(f)
      BY <1>6, <2>1, FailedLeaves DEF RecordOffer, Refused
    <3>. QED
      BY <1>6, <2>1, <3>1, LeavesCalm, SameRowCalm DEF RecordOffer, Refused, Calm
  <2>2. CASE ~Refused(f, {"offer_reserved"})
    <3>1. /\ db.row.token = attempt[f].token /\ Onward(f, "land")
          /\ db' = [db EXCEPT !.row = Moved("offered", attempt[f].outcome)]
      BY <1>6, <2>2 DEF RecordOffer, Holds
    <3>2. db'.row = Moved("offered", attempt[f].outcome)
      BY <1>0, <3>1 DEF Database
    <3>3. Leaves(f)
      BY <1>6, <3>1, OnwardLeaves DEF RecordOffer
    <3>. QED
      BY <1>0, <1>6, <3>1, <3>2, <3>3, LeavesCalm, MovedRowCalm
         DEF RecordOffer, Calm
  <2>. QED
    BY <2>1, <2>2
<1>. QED
  BY <1>2, <1>3, <1>4, <1>5, <1>6

\* Landing and observing leave the row alone.
LEMMA CAfterCall ==
    ASSUME TypeOK, TokensApart, NEW f \in Frontend,
           \/ LaneSettle(f) \/ Land(f) \/ Landing(f) \/ Settle(f)
           \/ NotSettled(f)
    PROVE  Calm /\ db'.row = db.row
<1>. USE DEF At
<1>0. /\ attempt \in [Frontend -> Attempt] /\ attempt[f] \in Attempt
      /\ db \in Database /\ RecordTip(db).row = db.row
      /\ "landing" \in Step \ {"idle"} /\ "settling" \in Step \ {"idle"}
      /\ "land" \in Step \ {"idle"}
  BY RecordTipType DEF TypeOK, Database, Step
<1>1. ASSUME Advances(f), attempt'[f].pc \in PastOffer, db'.row = db.row,
             UNCHANGED <<standby, sent, unflushed>>
      PROVE  Calm
  <2>1. \A g \in Frontend : CalmAttempt(g)
    BY <1>1, AdvancesCalm DEF PastOffer, Fresh, Reserving, Holding
  <2>. QED
    BY <1>1, <2>1, SameRowCalm DEF Calm
<1>2. ASSUME Leaves(f), db'.row = db.row, UNCHANGED <<standby, sent, unflushed>>
      PROVE  Calm
  BY <1>2, LeavesCalm, SameRowCalm DEF Calm
<1>3. CASE LaneSettle(f)
  <2>1. Advances(f) /\ attempt'[f].pc = "land" /\ UNCHANGED db
    BY <1>0, <1>3, GotoAdvances DEF LaneSettle
  <2>. QED
    BY <1>1, <1>3, <2>1 DEF LaneSettle, PastOffer, outside, wire
<1>4. CASE Land(f)
  <2>0. attempt[f].pc # "idle" /\ UNCHANGED <<standby, sent, unflushed>>
    BY <1>4 DEF Land, outside, wire
  <2>1. CASE ObserveTo(f, "landing")
    BY <1>0, <1>1, <2>0, <2>1, ObserveToAdvances DEF PastOffer
  <2>2. CASE ~ObserveTo(f, "landing")
    <3>1. Onward(f, "settle") \/ GiveUp(f)
      BY <1>4, <2>2 DEF Land
    <3>2. db'.row = db.row
      BY <1>0, <1>4, <2>2 DEF Land
    <3>3. Leaves(f)
      BY <2>0, <3>1, OnwardLeaves, GiveUpLeaves
    <3>. QED
      BY <1>2, <2>0, <3>2, <3>3
  <2>. QED
    BY <2>1, <2>2
<1>5. CASE Landing(f)
  <2>0. attempt[f].pc = "landing" /\ UNCHANGED <<standby, sent, unflushed>>
    BY <1>5 DEF Landing, outside, wire
  <2>1. db'.row = db.row
    <3>1. db' = db \/ db' = [db EXCEPT !.block = IF @.chain = "none"
                                  THEN [@ EXCEPT !.chain = "prepared"] ELSE @]
      BY <1>5 DEF Landing
    <3>. QED
      BY <1>0, <3>1 DEF Database
  <2>2. CASE attempt' = [attempt EXCEPT ![f] = [@ EXCEPT !.pc = "land",
                              !.retried = TRUE, !.obs = NoObservation]]
    <3>1. Advances(f) /\ attempt'[f].pc = "land"
      BY <1>0, <2>0, <2>2 DEF Advances, Attempt
    <3>. QED
      BY <1>1, <2>0, <2>1, <3>1 DEF PastOffer
  <2>3. CASE Onward(f, "settle") \/ GiveUp(f)
    <3>1. Leaves(f)
      BY <2>0, <2>3, OnwardLeaves, GiveUpLeaves
    <3>. QED
      BY <1>2, <2>0, <2>1, <3>1
  <2>. QED
    BY <1>5, <2>2, <2>3 DEF Landing
<1>6. CASE Settle(f)
  <2>1. attempt[f].pc # "idle" /\ ObserveTo(f, "settling")
        /\ UNCHANGED <<standby, sent, unflushed>>
    BY <1>6 DEF Settle, outside, wire
  <2>. QED
    BY <1>0, <1>1, <2>1, ObserveToAdvances DEF PastOffer
<1>7. CASE NotSettled(f)
  <2>1. /\ attempt[f].pc # "idle" /\ UNCHANGED <<db, standby, sent, unflushed>>
        /\ (Onward(f, "settle") \/ GiveUp(f))
    BY <1>7 DEF NotSettled, outside, wire
  <2>2. Leaves(f)
    BY <2>1, OnwardLeaves, GiveUpLeaves
  <2>. QED
    BY <1>2, <2>1, <2>2
<1>. QED
  BY <1>3, <1>4, <1>5, <1>6, <1>7

\* What the settlements write into the row.
LEMMA CVerdict ==
    ASSUME TypeOK, TokensApart, NEW f \in Frontend,
           FinishSubmitted(f) \/ Orphan(f) \/ Reconcile(f)
    PROVE  /\ Calm
           /\ \/ UNCHANGED db /\ attempt'[f].pc = "failed"
              \/ /\ db'.row.token = NoToken
                 /\ db'.row.state = (IF FinishSubmitted(f) THEN "submitted"
                       ELSE IF Orphan(f) THEN "orphaned" ELSE "reconciliation")
                 /\ db'.row.outcome = Coalesced(db.row.outcome)
<1>. USE DEF At
<1>0. /\ db \in Database /\ db.row \in Row /\ attempt[f].obs \in Observation
      /\ Coalesced(db.row.outcome) \in Outcome
  BY DEF TypeOK, Database, Attempt, Row, Coalesced
<1>1. ASSUME NEW state \in {"submitted", "orphaned", "reconciliation"},
             attempt[f].pc # "idle", Done(f),
             UNCHANGED <<standby, sent, unflushed>>,
             db'.row = Released(Moved(state, Coalesced(db.row.outcome)))
      PROVE  /\ Calm
             /\ db'.row.token = NoToken /\ db'.row.state = state
             /\ db'.row.outcome = Coalesced(db.row.outcome)
  BY <1>0, <1>1, DoneLeaves, LeavesCalm, ReleasedRowCalm DEF Calm
<1>2. CASE FinishSubmitted(f)
  <2>1. /\ attempt[f].pc = "settling" /\ Done(f)
        /\ UNCHANGED <<standby, sent, unflushed>>
        /\ db' = [Confirm(db, attempt[f].obs) EXCEPT
                 !.row = Released(Moved("submitted", Coalesced(@.outcome)))]
    BY <1>2 DEF FinishSubmitted, outside, wire
  <2>2. db'.row = Released(Moved("submitted", Coalesced(db.row.outcome)))
    BY <1>0, <2>1, ConfirmType DEF Database
  <2>. QED
    BY <1>1, <1>2, <2>1, <2>2
<1>3. CASE Orphan(f)
  <2>1. /\ attempt[f].pc = "settling" /\ Done(f)
        /\ UNCHANGED <<standby, sent, unflushed>>
        /\ db' = [Deactivate(db, attempt[f].obs) EXCEPT
                 !.row = Released(Moved("orphaned", Coalesced(@.outcome)))]
        /\ ~FinishSubmitted(f)
    BY <1>3 DEF Orphan, FinishSubmitted, OrphanEvidence, outside, wire
  <2>2. db'.row = Released(Moved("orphaned", Coalesced(db.row.outcome)))
    BY <1>0, <2>1, DeactivateType DEF Database
  <2>. QED
    BY <1>1, <1>3, <2>1, <2>2
<1>4. CASE Reconcile(f)
  <2>0. /\ attempt[f].pc = "reconcile" /\ ~FinishSubmitted(f) /\ ~Orphan(f)
        /\ UNCHANGED <<standby, sent, unflushed>>
    BY <1>4 DEF Reconcile, FinishSubmitted, Orphan, outside, wire
  <2>1. CASE Failed(f) /\ UNCHANGED db
    <3>1. Leaves(f) /\ attempt'[f].pc = "failed"
      BY <2>0, <2>1, FailedLeaves, IdleType DEF Failed, TypeOK, Idle
    <3>. QED
      BY <2>0, <2>1, <3>1, LeavesCalm, SameRowCalm DEF Calm
  <2>2. CASE ~(Failed(f) /\ UNCHANGED db)
    <3>1. /\ Done(f)
          /\ db' = [db EXCEPT !.row =
                Released(Moved("reconciliation", Coalesced(@.outcome)))]
      BY <1>4, <2>2 DEF Reconcile, Refused
    <3>2. db'.row = Released(Moved("reconciliation", Coalesced(db.row.outcome)))
      BY <1>0, <3>1 DEF Database
    <3>. QED
      BY <1>1, <2>0, <3>1, <3>2
  <2>. QED
    BY <2>1, <2>2
<1>. QED
  BY <1>2, <1>3, <1>4

\* Failing, crashing and releasing a claim are calm.
LEMMA CEnd ==
    ASSUME TypeOK, TokensApart, NEW f \in Frontend,
           Fail(f) \/ Crash(f) \/ ReleaseClaim(f) \/ ReleaseGivesUp(f)
    PROVE  Calm /\ db'.row \in {db.row, Released(db.row)}
<1>. USE DEF At
<1>1. ASSUME Leaves(f), UNCHANGED <<db, standby, sent, unflushed>>
      PROVE  Calm
  BY <1>1, LeavesCalm, SameRowCalm DEF Calm
<1>2. CASE Fail(f)
  <2>1. /\ attempt[f].pc # "idle"
        /\ Failed(f) \/ GiveUp(f)
        /\ UNCHANGED <<db, standby, sent, unflushed>>
    BY <1>2 DEF Fail, wire
  <2>2. Leaves(f)
    BY <2>1, FailedLeaves, GiveUpLeaves
  <2>. QED
    BY <1>1, <2>1, <2>2
<1>3. CASE Crash(f) \/ ReleaseGivesUp(f)
  <2>1. /\ attempt[f].pc # "idle" /\ Done(f)
        /\ UNCHANGED <<db, standby, sent, unflushed>>
    BY <1>3 DEF Crash, ReleaseGivesUp, outside, wire
  <2>. QED
    BY <1>1, <2>1, DoneLeaves
<1>4. CASE ReleaseClaim(f)
  <2>1. /\ attempt[f].pc # "idle" /\ Done(f)
        /\ UNCHANGED <<standby, sent, unflushed>>
    BY <1>4 DEF ReleaseClaim, outside, wire
  <2>2. db'.row \in {db.row, Released(db.row)}
    BY <1>4 DEF ReleaseClaim, TypeOK, Database
  <2>3. /\ Released(db.row).token = NoToken
        /\ Released(db.row).state = db.row.state
    BY ReleasedType DEF TypeOK, Database
  <2>4. CalmRow
    BY <2>2, <2>3 DEF CalmRow
  <2>. QED
    BY <2>1, <2>2, <2>4, DoneLeaves, LeavesCalm DEF Calm
<1>. QED
  BY <1>2, <1>3, <1>4

\* Operators, the reconciler, the gates and the node are calm.
LEMMA COthers ==
    ASSUME TypeOK, TokensApart,
           \/ AbandonCandidate \/ SetHold \/ ClearHold \/ ReconcileObserve
           \/ ReconcileWrite \/ ReconcileStop \/ ReleaseCarry
           \/ NodeExecutes \/ ChainMoves
           \/ \E f \in Frontend : SetCarryPaying(f) \/ FenceCarryChange(f)
    PROVE  /\ Calm /\ UNCHANGED attempt
           /\ ~AbandonCandidate => db'.row = db.row
           /\ AbandonCandidate =>
                /\ db'.row.token = NoToken /\ db'.row.state = "abandoned"
                /\ db'.row.outcome = db.row.outcome
                /\ db.row.state = "pending"
<1>. USE DEF wire, outside
<1>0. /\ db \in Database /\ db.row \in Row /\ db.row.outcome \in Outcome
      /\ reconciler.obs \in Observation /\ RecordTip(db).row = db.row
  BY RecordTipType DEF TypeOK, Database, Row
<1>1. ASSUME UNCHANGED <<attempt, standby, sent, unflushed>>
      PROVE  \A f \in Frontend : CalmAttempt(f)
  BY <1>1, StillCalm
<1>2. CASE AbandonCandidate
  <2>1. /\ UNCHANGED <<attempt, standby, sent, unflushed>>
        /\ db.row.state = "pending"
        /\ db' = [db EXCEPT !.row = Released(Moved("abandoned", @.outcome))]
    BY <1>2 DEF AbandonCandidate, AbandonsRow
  <2>2. db'.row = Released(Moved("abandoned", db.row.outcome))
    BY <1>0, <2>1 DEF Database
  <2>. QED
    BY <1>0, <1>1, <1>2, <2>1, <2>2, ReleasedRowCalm DEF Calm
<1>3. CASE ~AbandonCandidate
  <2>1. UNCHANGED <<attempt, standby, sent, unflushed>>
    BY <1>3 DEF SetHold, ClearHold, ReconcileObserve, ReconcileWrite,
       ReconcileStop, ReleaseCarry, NodeExecutes, ChainMoves, SetCarryPaying,
       FenceCarryChange
  <2>2. db'.row = db.row
    <3>1. CASE ReconcileWrite
      BY <1>0, <3>1, ConfirmType, DeactivateType DEF ReconcileWrite
    <3>2. CASE ~ReconcileWrite
      BY <1>0, <1>3, <3>2
         DEF SetHold, ClearHold, ReconcileObserve, ReconcileStop, ReleaseCarry,
         NodeExecutes, ChainMoves, SetCarryPaying, FenceCarryChange, Database
    <3>. QED
      BY <3>1, <3>2
  <2>. QED
    BY <1>1, <1>3, <2>1, <2>2, SameRowCalm DEF Calm
<1>. QED
  BY <1>2, <1>3

-----------------------------------------------------------------------------
\* Every step keeps OfferInv.

\* A calm step keeps OfferInv: the reservations only become fewer.
LEMMA CalmOffer ==
    ASSUME TypeOK, OfferInv, Calm
    PROVE  OfferInv'
<1>. USE DEF OfferInv, Calm
<1>0. \A f \in Frontend : attempt[f].pc = "idle" <=> attempt[f].token = NoToken
  BY DEF TokensApart
<1>1. \A f \in Frontend :
        /\ Holding(f)' => /\ Holding(f) /\ attempt'[f].token = attempt[f].token
                          /\ attempt[f].token # NoToken
                          /\ (Sure(f)' <=> Sure(f))
        /\ Fresh(attempt'[f]) => attempt'[f].token = attempt[f].token
                                 /\ attempt[f].token # NoToken
  BY <1>0 DEF CalmAttempt, Holding, Fresh, Reserving, Sure
<1>2. /\ Kept(db) => Kept(db)' /\ (Kept(standby)' <=> Kept(standby))
      /\ Trusted' <=> Trusted
  BY DEF CalmRow, Kept, Trusted
<1>3. db'.row.token \in {db.row.token, NoToken}
  BY DEF CalmRow
<1>4. TokensApart'
  BY DEF TokensApart, CalmAttempt
<1>5. FreshPending'
  BY <1>1 DEF FreshPending, CalmAttempt, CalmRow
<1>6. StandbyFollows'
  BY <1>1, <1>2, <1>3 DEF StandbyFollows
<1>7. ReservedOnce'
  BY <1>1, <1>2, <1>3 DEF ReservedOnce, Copies, Kept
<1>8. OfferedOnce'
  BY <1>1, <1>2, <1>3 DEF OfferedOnce, Copies, Kept
<1>. QED
  BY <1>4, <1>5, <1>6, <1>7, <1>8

\* A claim keeps OfferInv: its token is in no row and no attempt.
LEMMA ClaimOffer ==
    ASSUME TypeOK, OfferInv, NEW f \in Frontend, NEW r \in BOOLEAN,
           ClaimAs(f, r)
    PROVE  OfferInv'
<1>. USE DEF OfferInv
<1>1. PICK t \in Token \ InUse :
        /\ db' = [db EXCEPT !.row = [@ EXCEPT !.token = t]]
        /\ attempt' = [attempt EXCEPT ![f] =
              [Idle EXCEPT !.pc = "claimed", !.token = t,
                           !.recovery = r, !.state = db.row.state]]
  BY DEF ClaimAs
<1>2. /\ db'.row.token = t /\ db'.row.state = db.row.state
  BY <1>1 DEF TypeOK, Database, Row
<1>3. /\ attempt'[f].pc = "claimed" /\ attempt'[f].token = t
      /\ attempt'[f].state = db.row.state /\ ~attempt'[f].flushed
      /\ \A g \in Frontend \ {f} : attempt'[g] = attempt[g]
  BY <1>1 DEF TypeOK, Idle
<1>4. /\ t # NoToken /\ t # db.row.token /\ t # standby.row.token
      /\ \A g \in Frontend : t # attempt[g].token
  BY DEF InUse
<1>5. UNCHANGED <<standby, sent, unflushed>>
  BY DEF ClaimAs, wire
<1>6. /\ ~Holding(f)'
      /\ \A g \in Frontend : Holding(g)' =>
           /\ Holding(g) /\ g # f /\ attempt'[g] = attempt[g]
           /\ (Sure(g)' <=> Sure(g))
      /\ Trusted' <=> Trusted
      /\ Kept(db)' <=> Kept(db)
  BY <1>2, <1>3, <1>5 DEF Holding, Sure, Trusted, Kept
<1>7. TokensApart'
  BY <1>3, <1>4 DEF TokensApart
<1>8. FreshPending'
  <2>1. ASSUME NEW g \in Frontend, Fresh(attempt'[g]), g # f
        PROVE  /\ attempt'[g].state = "pending" /\ ~attempt'[g].flushed
               /\ db'.row.token # attempt'[g].token
               /\ standby.row.token = attempt'[g].token =>
                    standby.row.state = "pending"
    BY <1>2, <1>3, <1>4, <2>1 DEF FreshPending
  <2>2. Fresh(attempt'[f]) => db.row.state = "pending"
    BY <1>3 DEF Fresh, Reserving
  <2>. QED
    BY <1>2, <1>3, <1>4, <1>5, <2>1, <2>2 DEF FreshPending
<1>9. StandbyFollows'
  BY <1>2, <1>4, <1>5, <1>6 DEF StandbyFollows
<1>10. ReservedOnce'
  BY <1>2, <1>4, <1>5, <1>6 DEF ReservedOnce, Copies, Kept
<1>11. OfferedOnce'
  BY <1>2, <1>4, <1>5, <1>6 DEF OfferedOnce, Copies, Kept
<1>. QED
  BY <1>7, <1>8, <1>9, <1>10, <1>11

\* A reservation keeps OfferInv: the row was pending, so none was sure.
LEMMA ReserveOffer ==
    ASSUME TypeOK, OfferInv, NEW f \in Frontend, NEW b \in BOOLEAN,
           attempt[f].pc \in {"reserve", "capture"}, Holds(f, {"pending"}),
           UNCHANGED <<outside, wire, counted>>,
           db' = [db EXCEPT !.row = Moved("offer_reserved", @.outcome)],
           attempt' = [attempt EXCEPT ![f] =
                         [@ EXCEPT !.pc = "reserved", !.current = b]]
    PROVE  OfferInv'
<1>. USE DEF OfferInv
<1>1. /\ db'.row.token = db.row.token /\ db'.row.state = "offer_reserved"
  BY MovedType DEF TypeOK, Database, Row
<1>2. /\ attempt'[f].pc = "reserved"
      /\ attempt'[f].token = attempt[f].token
      /\ attempt'[f].flushed = attempt[f].flushed
      /\ \A g \in Frontend \ {f} : attempt'[g] = attempt[g]
  <2>1. attempt \in [Frontend -> Attempt] /\ attempt[f] \in Attempt
    BY DEF TypeOK
  <2>. QED
    BY <2>1 DEF Attempt
<1>3. UNCHANGED <<standby, sent, unflushed>>
  BY DEF outside, wire
<1>4. /\ db.row.token = attempt[f].token /\ db.row.state = "pending"
      /\ ~Kept(db) /\ Kept(db)' /\ Fresh(attempt[f])
  BY <1>1 DEF Holds, Kept, Fresh, Reserving
<1>5. db \in Copies /\ sent \in Nat
  BY DEF Copies, TypeOK
<1>6. /\ ~attempt[f].flushed
      /\ standby.row.token = attempt[f].token => standby.row.state = "pending"
  BY <1>4 DEF FreshPending
<1>7. /\ \A g \in Frontend : Holding(g) => ~Sure(g)
      /\ Trusted => sent = 0
  BY <1>4, <1>5 DEF ReservedOnce, OfferedOnce
<1>8. /\ Holding(f)' /\ (Sure(f)' <=> OneDatabase)
      /\ \A g \in Frontend \ {f} :
           /\ Holding(g)' <=> Holding(g)
           /\ Sure(g)' <=> Sure(g)
      /\ Trusted' <=> Trusted
  BY <1>2, <1>3, <1>6 DEF Holding, Sure, Trusted
<1>9. TokensApart'
  BY <1>2, <1>4 DEF TokensApart
<1>10. FreshPending'
  <2>1. ~Fresh(attempt'[f])
    BY <1>2 DEF Fresh, Reserving
  <2>2. \A g \in Frontend \ {f} : Fresh(attempt[g]) =>
            attempt[g].token # db.row.token
    BY <1>4 DEF TokensApart, Fresh, Reserving
  <2>3. ASSUME NEW g \in Frontend, Fresh(attempt'[g])
        PROVE  /\ attempt'[g] = attempt[g] /\ Fresh(attempt[g])
               /\ db'.row.token # attempt[g].token
    BY <1>1, <1>2, <2>1, <2>2, <2>3
  <2>. QED
    BY <1>3, <2>3 DEF FreshPending
<1>11. StandbyFollows'
  BY <1>2, <1>3, <1>4, <1>6, <1>8 DEF StandbyFollows
<1>12. ReservedOnce'
  <2>1. ASSUME NEW g \in Frontend, Holding(g)', Sure(g)'
        PROVE  g = f /\ OneDatabase
    BY <1>7, <1>8, <2>1
  <2>2. ASSUME OneDatabase
        PROVE  Trusted /\ \A g \in Frontend : ~Holding(g)
    <3>1. Trusted /\ \A g \in Frontend : Sure(g)
      BY <2>2 DEF Sure, Trusted
    <3>. QED
      BY <1>7, <3>1
  <2>3. OneDatabase => Copies' = {db'}
    BY DEF Copies
  <2>. QED
    BY <1>3, <1>4, <1>7, <1>8, <2>1, <2>2, <2>3 DEF ReservedOnce, Kept
<1>13. OfferedOnce'
  BY <1>3, <1>5, <1>7, <1>8 DEF OfferedOnce
<1>. QED
  BY <1>9, <1>10, <1>11, <1>12, <1>13

\* The wait keeps OfferInv: what the standby shows is the last reservation.
LEMMA AwaitOffer ==
    ASSUME TypeOK, OfferInv, NEW f \in Frontend, AwaitStandby(f)
    PROVE  OfferInv'
<1>. USE DEF OfferInv
<1>1. UNCHANGED <<db, standby, sent, unflushed>> /\ attempt[f].pc = "reserved"
  BY DEF AwaitStandby, At, outside, wire
<1>2. /\ attempt'[f].pc = "waited"
      /\ attempt'[f].token = attempt[f].token
      /\ attempt'[f].flushed = Flushed(f)
      /\ \A g \in Frontend \ {f} : attempt'[g] = attempt[g]
  <2>1. attempt \in [Frontend -> Attempt] /\ attempt[f] \in Attempt
    BY DEF TypeOK
  <2>. DEFINE b == Flushed(f)
  <2>2. attempt' = [attempt EXCEPT ![f] =
                     [@ EXCEPT !.pc = "waited", !.flushed = b]]
    BY DEF AwaitStandby
  <2>. HIDE DEF b
  <2>3. /\ attempt'[f].pc = "waited"
        /\ attempt'[f].token = attempt[f].token
        /\ attempt'[f].flushed = b
        /\ \A g \in Frontend \ {f} : attempt'[g] = attempt[g]
    BY <2>1, <2>2 DEF Attempt
  <2>. QED
    BY <2>3 DEF b
<1>3. /\ Holding(f) /\ Holding(f)' /\ (Sure(f)' <=> OneDatabase \/ Flushed(f))
      /\ \A g \in Frontend : /\ Holding(g)' <=> Holding(g)
                             /\ attempt'[g].token = attempt[g].token
      /\ \A g \in Frontend \ {f} : Sure(g)' <=> Sure(g)
      /\ Trusted' <=> Trusted
      /\ Copies' = Copies
  BY <1>1, <1>2 DEF Holding, Sure, Trusted, Copies
<1>4. TokensApart'
  BY <1>1, <1>2 DEF TokensApart
<1>5. FreshPending'
  BY <1>1, <1>2 DEF FreshPending, Fresh, Reserving
<1>6. StandbyFollows'
  BY <1>1, <1>3 DEF StandbyFollows, Kept
<1>7. CASE OneDatabase
  <2>1. \A g \in Frontend : Sure(g)' <=> Sure(g)
    BY <1>7 DEF Sure
  <2>2. ReservedOnce' /\ OfferedOnce'
    BY <1>1, <1>3, <2>1 DEF ReservedOnce, OfferedOnce
  <2>. QED
    BY <1>4, <1>5, <1>6, <2>2
<1>8. CASE ~OneDatabase /\ ~Flushed(f)
  <2>1. ~Sure(f)'
    BY <1>3, <1>8
  <2>2. ReservedOnce' /\ OfferedOnce'
    BY <1>1, <1>3, <2>1 DEF ReservedOnce, OfferedOnce
  <2>. QED
    BY <1>4, <1>5, <1>6, <2>2
<1>9. CASE ~OneDatabase /\ Flushed(f)
  <2>1. /\ standby.row.token = attempt[f].token
        /\ standby.row.state = "offer_reserved" /\ Kept(standby)
    BY <1>9 DEF Flushed, Kept
  <2>2. standby \in Copies /\ Copies = {db, standby} /\ sent \in Nat
    BY <1>9 DEF Copies, TypeOK
  <2>3. /\ Kept(db)
        /\ \A g \in Frontend \ {f} : Holding(g) =>
             /\ db.row.token # attempt[g].token
             /\ standby.row.token # attempt[g].token
    BY <1>3, <2>1 DEF StandbyFollows, TokensApart, Holding
  <2>4. \A g \in Frontend \ {f} : Holding(g) => ~Sure(g)
    BY <1>3, <2>1, <2>2 DEF ReservedOnce
  <2>5. Trusted => ~(sent >= 1)
    BY <1>3, <2>1, <2>2 DEF OfferedOnce
  <2>6. ReservedOnce'
    BY <1>1, <1>3, <2>1, <2>2, <2>3, <2>4, <2>5 DEF ReservedOnce
  <2>7. OfferedOnce'
    BY <1>1, <1>3, <2>5 DEF OfferedOnce
  <2>. QED
    BY <1>4, <1>5, <1>6, <2>6, <2>7
<1>. QED
  BY <1>7, <1>8, <1>9

\* release_unsent keeps OfferInv: only the holder of the claim releases.
LEMMA UnsendOffer ==
    ASSUME TypeOK, OfferInv, NEW f \in Frontend, ReleaseUnsent(f)
    PROVE  OfferInv'
<1>. USE DEF OfferInv
<1>1. attempt[f].pc = "unsent" /\ UNCHANGED <<standby, sent, unflushed>>
  BY DEF ReleaseUnsent, At, outside, wire
<1>2. CASE Failed(f) /\ UNCHANGED db
  <2>1. Leaves(f)
    BY <1>1, <1>2, FailedLeaves
  <2>2. Calm
    BY <1>1, <1>2, <2>1, LeavesCalm, SameRowCalm DEF Calm
  <2>. QED
    BY <2>2, CalmOffer
<1>3. CASE ~(Failed(f) /\ UNCHANGED db)
  <2>1. /\ db.row.token = attempt[f].token
        /\ db.row.state = "offer_reserved" /\ Done(f)
        /\ db' = [db EXCEPT !.row = Released(Moved("pending", @.outcome))]
    BY <1>3 DEF ReleaseUnsent, Holds
  <2>2. db'.row.token = NoToken /\ db'.row.state = "pending"
    BY <2>1, MovedType, ReleasedType DEF TypeOK, Database, Row
  <2>3. /\ attempt'[f].pc = "idle" /\ attempt'[f].token = NoToken
        /\ \A g \in Frontend \ {f} : attempt'[g] = attempt[g]
    BY <2>1 DEF Done, TypeOK, Idle
  <2>4. Holding(f) /\ db \in Copies
    BY <1>1 DEF Holding, Copies
  <2>5. /\ \A g \in Frontend \ {f} : Holding(g) =>
             /\ ~Sure(g)
             /\ ~(/\ standby.row.token = attempt[g].token
                  /\ standby.row.state = "offer_reserved")
        /\ ~(Trusted /\ sent >= 1)
    BY <2>1, <2>4 DEF ReservedOnce, OfferedOnce, StandbyFollows
  <2>6. /\ ~Holding(f)' /\ ~Fresh(attempt'[f])
        /\ \A g \in Frontend \ {f} : /\ Holding(g)' <=> Holding(g)
                                     /\ Sure(g)' <=> Sure(g)
        /\ Trusted' <=> Trusted
    BY <1>1, <2>3 DEF Holding, Sure, Trusted, Fresh, Reserving
  <2>7. TokensApart'
    BY <2>3 DEF TokensApart
  <2>8. FreshPending'
    BY <1>1, <2>2, <2>3, <2>6 DEF FreshPending
  <2>9. StandbyFollows'
    BY <1>1, <2>3, <2>5, <2>6 DEF StandbyFollows
  <2>10. ReservedOnce' /\ OfferedOnce'
    BY <1>1, <2>5, <2>6 DEF ReservedOnce, OfferedOnce
  <2>. QED
    BY <2>7, <2>8, <2>9, <2>10
<1>. QED
  BY <1>2, <1>3

\* The call keeps OfferInv: a sure reservation was the only one.
LEMMA SendOfferOffer ==
    ASSUME TypeOK, OfferInv, NEW f \in Frontend, SendOffer(f)
    PROVE  OfferInv'
<1>. USE DEF OfferInv
<1>1. /\ attempt[f].pc = "send" /\ UNCHANGED <<db, standby>>
      /\ sent' = sent + 1 /\ sent \in Nat
      /\ unflushed' = (unflushed \/ ~attempt[f].flushed)
      /\ Goto(f, "calling")
  BY DEF SendOffer, At, outside, TypeOK
<1>2. /\ Advances(f) /\ attempt'[f].pc = "calling"
  BY <1>1, GotoAdvances DEF Step
<1>3. /\ Holding(f) /\ ~Holding(f)' /\ ~Fresh(attempt'[f])
      /\ attempt'[f].token = attempt[f].token
      /\ \A g \in Frontend \ {f} : /\ Holding(g)' <=> Holding(g)
                                   /\ Sure(g)' <=> Sure(g)
                                   /\ attempt'[g] = attempt[g]
      /\ Trusted' => Trusted /\ Sure(f)
      /\ Copies' = Copies
  BY <1>1, <1>2
     DEF Advances, Holding, Fresh, Reserving, Sure, Trusted, Copies
<1>4. TokensApart'
  BY <1>2 DEF TokensApart, Advances
<1>5. FreshPending'
  BY <1>1, <1>3 DEF FreshPending
<1>6. StandbyFollows'
  BY <1>1, <1>3 DEF StandbyFollows, Kept
<1>7. ASSUME Trusted'
      PROVE  /\ sent = 0 /\ \A d \in Copies : Kept(d)
             /\ \A g \in Frontend \ {f} : Holding(g) =>
                  ~Sure(g) /\ \A d \in Copies : d.row.token # attempt[g].token
  BY <1>3, <1>7 DEF ReservedOnce
<1>8. ReservedOnce'
  BY <1>1, <1>3, <1>7 DEF ReservedOnce, Kept
<1>9. OfferedOnce'
  BY <1>1, <1>3, <1>7 DEF OfferedOnce, Kept
<1>. QED
  BY <1>4, <1>5, <1>6, <1>8, <1>9

\* Replication and promotion keep OfferInv: the copies become fewer.
LEMMA CopyOffer ==
    ASSUME TypeOK, OfferInv, Replicate \/ Failover
    PROVE  OfferInv'
<1>. USE DEF OfferInv
<1>1. ~OneDatabase
  BY OutboxBounds DEF OneDatabase, TypeOK, Replicate, Failover
<1>2. /\ Copies = {db, standby} /\ Copies' \subseteq {db, standby}
      /\ db' \in {db, standby} /\ standby' \in {db, standby}
      /\ db' = standby'
      /\ UNCHANGED <<attempt, sent, unflushed>>
  BY <1>1 DEF Copies, Replicate, Failover, wire
<1>3. /\ \A g \in Frontend : /\ Holding(g)' <=> Holding(g)
                             /\ Sure(g)' <=> Sure(g)
      /\ Trusted' <=> Trusted
  BY <1>2 DEF Holding, Sure, Trusted
<1>4. TokensApart'
  BY <1>2 DEF TokensApart
<1>5. FreshPending'
  BY <1>2 DEF FreshPending
<1>6. StandbyFollows'
  <2>1. ASSUME NEW g \in Frontend, Holding(g),
               standby'.row.token = attempt[g].token,
               standby'.row.state = "offer_reserved"
        PROVE  /\ Kept(db)'
               /\ \A f \in Frontend \ {g} : db'.row.token # attempt[f].token
    <3>1. attempt[g].token # NoToken
      BY <2>1 DEF TokensApart, Holding
    <3>. QED
      BY <1>2, <2>1, <3>1 DEF TokensApart, Kept
  <2>. QED
    BY <1>2, <1>3, <2>1 DEF StandbyFollows
<1>7. ReservedOnce' /\ OfferedOnce'
  BY <1>2, <1>3 DEF ReservedOnce, OfferedOnce
<1>. QED
  BY <1>4, <1>5, <1>6, <1>7

\* No attempt and no call yet.
LEMMA InitOffer == Init => OfferInv
<1>. SUFFICES ASSUME Init
              PROVE  OfferInv
  OBVIOUS
<1>1. /\ \A f \in Frontend : attempt[f].pc = "idle" /\ attempt[f].token = NoToken
      /\ sent = 0
  BY DEF Init, InitOf, Idle
<1>. QED
  BY <1>1 DEF OfferInv, TokensApart, FreshPending, StandbyFollows,
     ReservedOnce, OfferedOnce, Holding, Fresh, Reserving

\* The steps that are not calm.
LEMMA StepsCalm ==
    ASSUME TypeOK, TokensApart, [Next]_vars
    PROVE  \/ Calm
           \/ \E f \in Frontend :
                \/ \E r \in BOOLEAN : ClaimAs(f, r)
                \/ Reserve(f) \/ Capture(f)
                \/ AwaitStandby(f) \/ ReleaseUnsent(f) \/ SendOffer(f)
           \/ Replicate \/ Failover
<1>1. CASE UNCHANGED vars
  BY <1>1, StillCalm, SameRowCalm DEF vars, Calm
<1>2. ASSUME NEW f \in Frontend, AttemptStep(f)
      PROVE  \/ Calm
             \/ Reserve(f) \/ Capture(f)
             \/ AwaitStandby(f) \/ ReleaseUnsent(f) \/ SendOffer(f)
  BY <1>2, CBefore, CBeforeCall, CAfterCall, CVerdict, CEnd DEF AttemptStep
<1>3. ASSUME NEW f \in Frontend,
             \/ Claim(f) \/ Recover(f) \/ TakeOver(f) \/ JournalUnreadable(f)
             \/ OfferNotExecuted(f) \/ Fail(f) \/ Crash(f)
             \/ ReleaseGivesUp(f) \/ SetCarryPaying(f) \/ FenceCarryChange(f)
      PROVE  Calm \/ \E r \in BOOLEAN : ClaimAs(f, r)
  <2>1. CASE Claim(f) \/ Recover(f) \/ TakeOver(f)
    BY <2>1 DEF Claim, Recover, TakeOver
  <2>. QED
    BY <1>3, <2>1, CBeforeCall, CEnd, COthers
<1>. QED
  BY <1>1, <1>2, <1>3, COthers DEF Next

\* Every step keeps OfferInv.
LEMMA NextOffer == TypeOK /\ OfferInv /\ [Next]_vars => OfferInv'
<1>. SUFFICES ASSUME TypeOK, OfferInv, [Next]_vars
              PROVE  OfferInv'
  OBVIOUS
<1>0. TokensApart
  BY DEF OfferInv
<1>1. ASSUME NEW f \in Frontend, Reserve(f) \/ Capture(f), ~Calm
      PROVE  OfferInv'
  BY <1>0, <1>1, CReserving, ReserveOffer
<1>. QED
  BY <1>0, <1>1, StepsCalm, CalmOffer, ClaimOffer, AwaitOffer, UnsendOffer,
     SendOfferOffer, CopyOffer

\* The rows, claims, reservations and calls stay consistent through every
\* claim, takeover, crash, release, replication and promotion.
THEOREM OfferInvariant == Spec => [](TypeOK /\ OfferInv)
<1>1. Init => TypeOK /\ OfferInv
  BY TInit, InitOffer
<1>2. TypeOK /\ OfferInv /\ [Next]_vars => (TypeOK /\ OfferInv)'
  BY TNext, NextOffer
<1>. QED
  BY <1>1, <1>2, PTL DEF Spec

\* FlushedOfferSurvives, for any number of frontends, faults and promotions:
\* an offer the standby held is made once and its row never abandoned.
THEOREM FlushedSurvives == Spec => []FlushedOfferSurvives
<1>1. TypeOK /\ OfferInv => FlushedOfferSurvives
  BY DEF OfferInv, OfferedOnce, FlushedOfferSurvives, Trusted, Copies, Kept,
     TypeOK
<1>. QED
  BY <1>1, OfferInvariant, PTL

\* On one database the block is handed to the node at most once, through
\* takeovers, crashes and timeouts of the frontends (reserve_offer_in).
THEOREM OneOfferOnly ==
    ASSUME MaxFailovers = 0
    PROVE  Spec => []AtMostOnce
<1>1. TypeOK /\ OfferInv => AtMostOnce
  BY DEF OfferInv, OfferedOnce, AtMostOnce, Trusted, OneDatabase, Copies,
     Kept, TypeOK
<1>. QED
  BY <1>1, OfferInvariant, PTL

\* On one database the row of a block that was handed to the node is never
\* abandoned: who gives the block up knows that nobody called.
THEOREM AbandonedForGood ==
    ASSUME MaxFailovers = 0
    PROVE  Spec => []AbandonedNeverOffered
<1>1. TypeOK /\ OfferInv => AbandonedNeverOffered
  BY DEF OfferInv, OfferedOnce, AbandonedNeverOffered, Trusted, OneDatabase,
     Copies, Kept, TypeOK
<1>. QED
  BY <1>1, OfferInvariant, PTL

-----------------------------------------------------------------------------
(* The promise of OneOffer, the order of verdicts and the carry gate.      *)
(*                                                                         *)
(* Books says what a step does to the row, the block and the counts, in    *)
(* eight cases; Follows what it does to an attempt; Onwards, that revision *)
(* and tip only grow, the tip never without the revision.  Every invariant *)
(* follows from these three, and so does every step of the promise: the    *)
(* actions are looked at once.                                             *)

\* The inductive invariant.

\* The node shows the block only after a call.
ChainWitness ==
    /\ inflight \/ chain.known \/ chain.at = "ours" => sent >= 1
    /\ \A f \in Frontend :
         /\ attempt[f].obs.at = "ours" => sent >= 1
         /\ attempt[f].pc \in {"calling", "record"} => sent >= 1
         /\ attempt[f].pc = "record" => attempt[f].outcome # "none"
    /\ reconciler.obs.at = "ours" => sent >= 1

\* Before an answer can be recorded there is none, and a submitted block
\* went out.
Unrecorded ==
    /\ db.row.state \in {"pending", "offer_reserved", "abandoned"} =>
         db.row.outcome = "none"
    /\ db.row.state = "submitted" => sent >= 1

\* A first confirmation is one that publishes the block.
CountedOnce == counted = IF db.block.published THEN 1 ELSE 0

\* A block lands only after its row is no longer pending.
LandedLater ==
    /\ db.row.state = "pending" => db.block.chain = "none"
    /\ \A f \in Frontend : db.row.token = attempt[f].token =>
         /\ Holding(f) => db.block.chain = "none"
         /\ \/ attempt[f].pc \in PastOffer
            \/ attempt[f].pc = "claimed" /\ attempt[f].state # "pending"
            => db.row.state # "pending"

\* An observation is of the past, or of the newest tip.
Sees(o) ==
    /\ o.revision <= db.revision /\ o.work <= db.seen
    /\ o.revision = db.revision => o.work = db.seen

SettledInOrder ==
    /\ db.applied <= db.seen /\ db.seen <= chain.work
    /\ \A f \in Frontend : attempt[f].pc = "settling" => Sees(attempt[f].obs)
    /\ reconciler.busy => Sees(reconciler.obs)

PromiseInv ==
    /\ ChainWitness
    /\ Unrecorded
    /\ CountedOnce
    /\ LandedLater
    /\ SettledInOrder

USE TokenAssumption
USE DEF OfferStates, Unfinished, Terminal, Outcome, Issued

-----------------------------------------------------------------------------
\* What a step does to the revision and the tip.

Onwards ==
    /\ db'.revision >= db.revision
    /\ \/ db'.seen = db.seen
       \/ db'.revision > db.revision /\ db'.seen > db.seen
    /\ db'.seen = db.seen \/ db'.seen = chain.work
    /\ chain'.work >= chain.work

\* What it does to the row, the block and the counts.

\* Nothing that counts: a claim may be let go.
Quiet ==
    /\ db'.row.state = db.row.state /\ db'.row.outcome = db.row.outcome
    /\ db'.row.token \in {db.row.token, NoToken}
    /\ db'.block = db.block /\ db'.applied = db.applied
    /\ UNCHANGED <<sent, counted>>

Claims ==
    /\ db'.row.state = db.row.state /\ db'.row.outcome = db.row.outcome
    /\ db'.block = db.block /\ db'.applied = db.applied
    /\ UNCHANGED <<sent, counted>>
    /\ \E f \in Frontend :
         /\ attempt'[f].token = db'.row.token /\ db'.row.token # NoToken
         /\ attempt'[f].pc = "claimed" /\ attempt'[f].state = db.row.state
         /\ \A g \in Frontend \ {f} : /\ attempt'[g] = attempt[g]
                                      /\ attempt[g].token # db'.row.token

\* commit_landing wrote the block.
Lands ==
    /\ db'.row = db.row /\ db'.applied = db.applied
    /\ db'.block.published = db.block.published
    /\ UNCHANGED <<sent, counted>>
    /\ \E f \in Frontend :
         /\ attempt[f].pc = "landing" /\ db.row.token = attempt[f].token

\* The holder of the claim moves the row on.
Moves(f, from, to, o) ==
    /\ db.row.token = attempt[f].token
    /\ db.row.state = from /\ db'.row.state = to /\ db'.row.outcome = o
    /\ db'.row.token = db.row.token
    /\ db'.block = db.block /\ db'.applied = db.applied
    /\ UNCHANGED <<sent, counted>>

Holder ==
    \E f \in Frontend :
      \/ Moves(f, "pending", "offer_reserved", db.row.outcome)
      \/ Moves(f, "pending", "reconciliation", "unknown")
      \/ /\ attempt[f].pc = "record"
         /\ Moves(f, "offer_reserved", "offered", attempt[f].outcome)

\* The holder of the reservation returns it.
Unsends ==
    /\ db.row.state = "offer_reserved" /\ db'.row.state = "pending"
    /\ db'.row.outcome = db.row.outcome /\ db'.row.token = NoToken
    /\ db'.block = db.block /\ db'.applied = db.applied
    /\ UNCHANGED <<sent, counted>>
    /\ \E f \in Frontend :
         attempt[f].pc = "unsent" /\ db.row.token = attempt[f].token

Sends ==
    /\ sent' = sent + 1
    /\ UNCHANGED <<db, counted>>
    /\ \E f \in Frontend : attempt[f].pc = "send"

\* A block that is confirmed, and counted if it is the first time.
Credits(o) ==
    /\ o.at = "ours" /\ db.revision = o.revision
    /\ db'.block.published /\ db'.applied = o.work
    /\ counted' = IF db.block.published THEN counted ELSE counted + 1

\* A row that is settled or put aside, its claim let go.
Settles ==
    /\ db'.row.token = NoToken /\ sent' = sent
    /\ \/ /\ db.row.state = "pending" /\ db'.row.state = "abandoned"
          /\ db'.row.outcome = db.row.outcome
          /\ db'.block.published = db.block.published /\ counted' = counted
          /\ db.block.chain = "none" => db'.applied = db.applied
       \/ /\ db.row.state \in OfferStates /\ db'.row.state = "reconciliation"
          /\ db'.row.outcome = Coalesced(db.row.outcome)
          /\ db'.block.published = db.block.published /\ counted' = counted
          /\ db'.applied = db.applied
       \/ \E f \in Frontend :
            /\ attempt[f].pc = "settling"
            /\ db'.row.outcome = Coalesced(db.row.outcome)
            /\ \/ /\ db.row.state \in Unfinished /\ db'.row.state = "submitted"
                  /\ Credits(attempt[f].obs)
               \/ /\ db.row.state \in OfferStates /\ db'.row.state = "orphaned"
                  /\ db.revision = attempt[f].obs.revision
                  /\ db'.applied \in {db.applied, attempt[f].obs.work}
                  /\ db'.block.published = db.block.published
                  /\ counted' = counted

\* The reorg reconciler writes what it observed.
Reconciles ==
    /\ reconciler.busy /\ db'.row = db.row /\ sent' = sent
    /\ db.block.chain # "none" /\ db'.block.chain # "none"
    /\ \/ Credits(reconciler.obs)
       \/ /\ db.revision = reconciler.obs.revision
          /\ db'.applied \in {db.applied, reconciler.obs.work}
          /\ db'.block.published = db.block.published /\ counted' = counted

Books ==
    \/ Quiet \/ Claims \/ Lands \/ Holder \/ Unsends \/ Sends \/ Settles
    \/ Reconciles

-----------------------------------------------------------------------------
\* Each step is one of those.

\* What the type invariant says of the database and the chain.
LEMMA DbFacts ==
    ASSUME TypeOK
    PROVE  /\ db \in Database /\ db.row \in Row /\ db.row.outcome \in Outcome
           /\ db.block \in PoolBlock
           /\ db.revision \in Nat /\ db.seen \in Nat /\ db.applied \in Nat
           /\ chain \in Chain /\ chain.work \in Nat /\ sent \in Nat
           /\ counted \in Nat /\ reconciler.obs \in Observation
           /\ reconciler.obs.work \in Nat /\ reconciler.obs.revision \in Nat
  BY DEF TypeOK, Database, Row, Chain, Observation

\* The database is left alone, or its row or the tip is written.
LEMMA SameDb ==
    ASSUME TypeOK, UNCHANGED <<db, chain>>
    PROVE  Onwards
  BY DbFacts DEF Onwards

\* A row write leaves block, settled work, revision and tip alone.
LEMMA RowWritten ==
    ASSUME TypeOK, NEW r, db' = [db EXCEPT !.row = r], UNCHANGED chain
    PROVE  /\ Onwards /\ db'.row = r /\ db'.block = db.block
           /\ db'.applied = db.applied
<1>1. /\ db'.row = r /\ db'.block = db.block /\ db'.applied = db.applied
      /\ db'.revision = db.revision /\ db'.seen = db.seen
  BY DbFacts DEF Database
<1>. QED
  BY <1>1, DbFacts DEF Onwards

\* Recording a tip leaves row, block and settled work alone.
LEMMA TipWritten ==
    ASSUME TypeOK, db' = RecordTip(db), chain.work >= db.seen, UNCHANGED chain
    PROVE  /\ Onwards /\ db'.row = db.row /\ db'.block = db.block
           /\ db'.applied = db.applied
<1>1. /\ db'.row = db.row /\ db'.block = db.block /\ db'.applied = db.applied
      /\ db'.seen = chain.work
      /\ db'.revision =
           IF chain.work > db.seen THEN db.revision + 1 ELSE db.revision
  BY DbFacts, RecordTipType
<1>. QED
  BY <1>1, DbFacts DEF Onwards

\* A claim writes a token nobody remembers.
LEMMA BClaims ==
    ASSUME TypeOK, NEW f \in Frontend, NEW r \in BOOLEAN, ClaimAs(f, r)
    PROVE  Claims /\ Onwards
<1>1. PICK t \in Token \ InUse :
        /\ db' = [db EXCEPT !.row = [@ EXCEPT !.token = t]]
        /\ attempt' = [attempt EXCEPT ![f] =
              [Idle EXCEPT !.pc = "claimed", !.token = t,
                           !.recovery = r, !.state = db.row.state]]
  BY DEF ClaimAs
<1>2. UNCHANGED <<chain, sent, counted>>
  BY DEF ClaimAs, wire
<1>3. /\ Onwards /\ db'.row = [db.row EXCEPT !.token = t]
      /\ db'.block = db.block /\ db'.applied = db.applied
  BY <1>1, <1>2, RowWritten
<1>4. /\ db'.row.state = db.row.state /\ db'.row.outcome = db.row.outcome
      /\ db'.row.token = t /\ t # NoToken
  BY <1>3 DEF TypeOK, Database, Row
<1>5. /\ attempt'[f].token = t /\ attempt'[f].pc = "claimed"
      /\ attempt'[f].state = db.row.state
      /\ \A g \in Frontend \ {f} : attempt'[g] = attempt[g]
                                   /\ attempt[g].token # t
  BY <1>1 DEF TypeOK, Idle, InUse
<1>. QED
  BY <1>2, <1>3, <1>4, <1>5 DEF Claims

\* A step that leaves the row, or writes the tip.
LEMMA QuietSame ==
    ASSUME TypeOK, UNCHANGED <<db, chain, sent, counted>>
    PROVE  Quiet /\ Onwards
  BY SameDb DEF Quiet

\* Recording a tip counts for nothing.
LEMMA QuietTip ==
    ASSUME TypeOK, db' = RecordTip(db), chain.work >= db.seen,
           UNCHANGED <<chain, sent, counted>>
    PROVE  Quiet /\ Onwards
  BY TipWritten DEF Quiet

\* The holder's writes.
LEMMA HolderWrites ==
    ASSUME TypeOK, NEW f \in Frontend, NEW from \in Unfinished,
           NEW to \in Unfinished, NEW o \in Outcome,
           Holds(f, {from}), db' = [db EXCEPT !.row = Moved(to, o)],
           UNCHANGED <<chain, sent, counted>>
    PROVE  Moves(f, from, to, o) /\ Onwards
<1>1. db.row \in Row
  BY DEF TypeOK, Database
<1>. QED
  BY <1>1, RowWritten, MovedType DEF Moves, Holds

\* The steps before the reservation.
LEMMA BBefore ==
    ASSUME TypeOK, NEW f \in Frontend,
           \/ SkipScreen(f) \/ Screen(f) \/ RecoverScreen(f) \/ Adopt(f)
           \/ AwaitStandby(f) \/ Renew(f) \/ CarryCheck(f)
           \/ JournalUnreadable(f) \/ OfferNotExecuted(f) \/ CallReturns(f)
           \/ LaneSettle(f) \/ NotSettled(f) \/ Fail(f) \/ Crash(f)
           \/ ReleaseGivesUp(f) \/ Settle(f) \/ Land(f)
    PROVE  Books /\ Onwards
<1>. USE DEF wire, outside
<1>0. chain.work \in Nat /\ db.seen \in Nat
  BY DEF TypeOK, Chain, Database
<1>1. CASE Adopt(f)
  <2>1. CASE Refused(f, {"pending"})
    BY <1>1, <2>1, QuietSame DEF Adopt, Refused, Books
  <2>2. CASE ~Refused(f, {"pending"})
    <3>1. /\ Holds(f, {"pending"}) /\ UNCHANGED <<chain, sent, counted>>
          /\ db' = [db EXCEPT !.row = Moved("reconciliation", "unknown")]
      BY <1>1, <2>2 DEF Adopt
    <3>. QED
      BY <3>1, HolderWrites DEF Holder, Books
  <2>. QED
    BY <2>1, <2>2
<1>2. CASE RecoverScreen(f)
  <2>1. /\ db' = RecordTip(db) /\ UNCHANGED <<chain, sent, counted>>
        /\ chain.work >= db.seen
    BY <1>2 DEF RecoverScreen, ObserveTo
  <2>. QED
    BY <2>1, QuietTip DEF Books
<1>3. CASE Screen(f)
  <2>1. /\ db' = RecordTip(db) /\ UNCHANGED <<chain, sent, counted>>
        /\ chain.work >= db.seen
    BY <1>3 DEF Screen
  <2>. QED
    BY <2>1, QuietTip DEF Books
<1>4. CASE Settle(f) \/ Land(f)
  <2>1. /\ db' = db \/ (db' = RecordTip(db) /\ chain.work >= db.seen)
        /\ UNCHANGED <<chain, sent, counted>>
    BY <1>4 DEF Settle, Land, ObserveTo
  <2>. QED
    BY <2>1, QuietTip, QuietSame DEF Books
<1>5. CASE ~(Adopt(f) \/ RecoverScreen(f) \/ Screen(f) \/ Settle(f) \/ Land(f))
  <2>1. UNCHANGED <<db, chain, sent, counted>>
    BY <1>5 DEF SkipScreen, AwaitStandby, Renew, Refused, CarryCheck,
       JournalUnreadable, OfferNotExecuted, CallReturns, LaneSettle,
       NotSettled, Fail, Crash, ReleaseGivesUp
  <2>. QED
    BY <2>1, QuietSame DEF Books
<1>. QED
  BY <1>1, <1>2, <1>3, <1>4, <1>5

\* From the reservation to the recorded answer.
LEMMA BCall ==
    ASSUME TypeOK, NEW f \in Frontend,
           \/ Reserve(f) \/ Capture(f) \/ SendOffer(f) \/ ReleaseUnsent(f)
           \/ RecordOffer(f) \/ Landing(f) \/ ReleaseClaim(f)
    PROVE  Books /\ Onwards
<1>. USE DEF wire, outside
<1>0. /\ db \in Database /\ db.row \in Row /\ db.row.outcome \in Outcome
      /\ attempt[f].outcome \in Outcome
  BY DEF TypeOK, Database, Row, Attempt
<1>1. CASE Reserve(f) \/ Capture(f)
  <2>1. CASE db' = db
    BY <1>1, <2>1, QuietSame DEF Reserve, Capture, Books
  <2>2. CASE db' # db
    <3>1. /\ Holds(f, {"pending"}) /\ UNCHANGED <<chain, sent, counted>>
          /\ db' = [db EXCEPT !.row = Moved("offer_reserved", @.outcome)]
      BY <1>1, <2>2 DEF Reserve, Capture, ReserveIn, Refused
    <3>. QED
      BY <1>0, <3>1, HolderWrites DEF Holder, Books
  <2>. QED
    BY <2>1, <2>2
<1>2. CASE SendOffer(f)
  BY <1>2, SameDb DEF SendOffer, At, Sends, Books
<1>3. CASE ReleaseUnsent(f)
  <2>1. CASE db' = db
    BY <1>3, <2>1, QuietSame DEF ReleaseUnsent, Books
  <2>2. CASE db' # db
    <3>1. /\ Holds(f, {"offer_reserved"}) /\ attempt[f].pc = "unsent"
          /\ UNCHANGED <<chain, sent, counted>>
          /\ db' = [db EXCEPT !.row = Released(Moved("pending", @.outcome))]
      BY <1>3, <2>2 DEF ReleaseUnsent, At
    <3>2. /\ Onwards /\ db'.row = Released(Moved("pending", db.row.outcome))
          /\ db'.block = db.block /\ db'.applied = db.applied
      BY <3>1, RowWritten
    <3>3. /\ db'.row.state = "pending" /\ db'.row.outcome = db.row.outcome
          /\ db'.row.token = NoToken
      BY <1>0, <3>2, MovedType, ReleasedType
    <3>. QED
      BY <3>1, <3>2, <3>3 DEF Holds, Unsends, Books
  <2>. QED
    BY <2>1, <2>2
<1>4. CASE RecordOffer(f)
  <2>1. CASE db' = db
    BY <1>4, <2>1, QuietSame DEF RecordOffer, Books
  <2>2. CASE db' # db
    <3>1. /\ Holds(f, {"offer_reserved"}) /\ attempt[f].pc = "record"
          /\ UNCHANGED <<chain, sent, counted>>
          /\ db' = [db EXCEPT !.row = Moved("offered", attempt[f].outcome)]
      BY <1>4, <2>2 DEF RecordOffer, Refused, At
    <3>. QED
      BY <1>0, <3>1, HolderWrites DEF Holder, Books
  <2>. QED
    BY <2>1, <2>2
<1>5. CASE Landing(f)
  <2>1. CASE db' = db
    BY <1>5, <2>1, QuietSame DEF Landing, Books
  <2>2. CASE db' # db
    <3>. DEFINE b == IF db.block.chain = "none"
                     THEN [db.block EXCEPT !.chain = "prepared"] ELSE db.block
    <3>1. /\ db.row.token = attempt[f].token /\ attempt[f].pc = "landing"
          /\ UNCHANGED <<chain, sent, counted>>
          /\ db' = [db EXCEPT !.block = b]
      BY <1>5, <2>2 DEF Landing, At, Holds
    <3>2. b.published = db.block.published
      BY <1>0 DEF Database, PoolBlock
    <3>. HIDE DEF b
    <3>3. /\ db'.row = db.row /\ db'.applied = db.applied /\ db'.block = b
          /\ db'.revision = db.revision /\ db'.seen = db.seen
      BY <1>0, <3>1 DEF Database
    <3>4. Onwards
      BY <3>1, <3>3, DbFacts DEF Onwards
    <3>. QED
      BY <3>1, <3>2, <3>3, <3>4 DEF Lands, Books
  <2>. QED
    BY <2>1, <2>2
<1>6. CASE ReleaseClaim(f)
  <2>1. PICK r \in {db.row, Released(db.row)} :
          db' = [db EXCEPT !.row = r] /\ UNCHANGED <<chain, sent, counted>>
    BY <1>6 DEF ReleaseClaim
  <2>2. /\ r.state = db.row.state /\ r.outcome = db.row.outcome
        /\ r.token \in {db.row.token, NoToken}
    BY <1>0, <2>1, ReleasedType
  <2>3. /\ Onwards /\ db'.row = r /\ db'.block = db.block
        /\ db'.applied = db.applied
    BY <2>1, RowWritten
  <2>. QED
    BY <2>1, <2>2, <2>3 DEF Quiet, Books
<1>. QED
  BY <1>1, <1>2, <1>3, <1>4, <1>5, <1>6

\* A row written and released together with the block.
LEMMA BlockWritten ==
    ASSUME TypeOK, NEW d \in Database, NEW s \in Unfinished \cup Terminal,
           NEW o \in Outcome,
           db' = [d EXCEPT !.row = Released(Moved(s, o))],
           d.seen = db.seen, d.revision \in {db.revision, db.revision + 1},
           UNCHANGED chain
    PROVE  /\ Onwards /\ db'.row.state = s /\ db'.row.outcome = o
           /\ db'.row.token = NoToken
           /\ db'.block = d.block /\ db'.applied = d.applied
<1>1. /\ db'.row = Released(Moved(s, o)) /\ db'.block = d.block
      /\ db'.applied = d.applied /\ db'.seen = d.seen
      /\ db'.revision = d.revision
  BY DEF Database
<1>2. /\ db'.row.state = s /\ db'.row.outcome = o /\ db'.row.token = NoToken
  BY <1>1, DbFacts, MovedType, ReleasedType
<1>3. Onwards
  BY <1>1, DbFacts DEF Onwards
<1>. QED
  BY <1>1, <1>2, <1>3

\* Landing, settling and putting aside.
LEMMA BVerdicts ==
    ASSUME TypeOK, NEW f \in Frontend,
           Abandon(f) \/ FinishSubmitted(f) \/ Orphan(f) \/ Reconcile(f)
    PROVE  Books /\ Onwards
<1>. USE DEF wire, outside
<1>0. attempt[f].obs \in Observation /\ attempt[f].obs.work \in Nat
      /\ Coalesced(db.row.outcome) \in Outcome
  BY DbFacts DEF TypeOK, Attempt, Observation, Coalesced
<1>1. CASE db' = db
  <2>1. UNCHANGED <<chain, sent>>
    BY DEF Abandon, FinishSubmitted, Orphan, Reconcile
  <2>2. CASE counted' = counted
    BY <1>1, <2>1, <2>2, QuietSame DEF Books
  <2>3. CASE counted' # counted
    <3>1. FinishSubmitted(f)
      BY <2>3 DEF Abandon, Orphan, Reconcile
    <3>2. /\ db.row.state \in Unfinished
          /\ db' = [Confirm(db, attempt[f].obs) EXCEPT
                 !.row = Released(Moved("submitted", Coalesced(@.outcome)))]
      BY <3>1 DEF FinishSubmitted, Holds
    <3>3. db'.row.state = "submitted"
      <4>. DEFINE d == Confirm(db, attempt[f].obs)
      <4>1. /\ d \in Database /\ d.seen = db.seen /\ d.row = db.row
            /\ d.revision \in {db.revision, db.revision + 1}
        BY <1>0, DbFacts, ConfirmType
      <4>2. db' = [d EXCEPT
                 !.row = Released(Moved("submitted", Coalesced(d.row.outcome)))]
        BY <3>2
      <4>. HIDE DEF d
      <4>. QED
        BY <1>0, <2>1, <4>1, <4>2, BlockWritten
    <3>. QED
      BY <1>1, <3>2, <3>3
  <2>. QED
    BY <2>2, <2>3
<1>2. CASE db' # db /\ Abandon(f)
  <2>1. /\ db.row.state = "pending" /\ UNCHANGED <<chain, sent, counted>>
        /\ db' = [Deactivate(db, attempt[f].obs) EXCEPT
                       !.row = Released(Moved("abandoned", @.outcome))]
    BY <1>2 DEF Abandon, Holds
  <2>2. db' = [Deactivate(db, attempt[f].obs) EXCEPT
                       !.row = Released(Moved("abandoned", db.row.outcome))]
    BY <1>0, <2>1, DbFacts, DeactivateType
  <2>3. /\ Onwards /\ db'.row.state = "abandoned" /\ db'.row.token = NoToken
        /\ db'.row.outcome = db.row.outcome
        /\ db'.block = Deactivate(db, attempt[f].obs).block
        /\ db'.applied = Deactivate(db, attempt[f].obs).applied
    <3>. DEFINE d == Deactivate(db, attempt[f].obs)
    <3>1. /\ d \in Database /\ d.seen = db.seen
          /\ d.revision \in {db.revision, db.revision + 1}
      BY <1>0, DbFacts, DeactivateType
    <3>2. db' = [d EXCEPT !.row = Released(Moved("abandoned", db.row.outcome))]
      BY <2>2
    <3>. HIDE DEF d
    <3>3. /\ Onwards /\ db'.row.state = "abandoned" /\ db'.row.token = NoToken
          /\ db'.row.outcome = db.row.outcome
          /\ db'.block = d.block /\ db'.applied = d.applied
      BY ZenonT(60), <1>0, <2>1, <3>1, <3>2, DbFacts, BlockWritten
    <3>. QED
      BY <3>3 DEF d
  <2>4. Settles
    BY <1>0, <2>1, <2>3, DbFacts, DeactivateType DEF Settles
  <2>. QED
    BY <2>3, <2>4 DEF Books
<1>3. CASE FinishSubmitted(f)
  <2>1. /\ db.row.state \in Unfinished /\ UNCHANGED <<chain, sent>>
        /\ attempt[f].pc = "settling" /\ attempt[f].obs.at = "ours"
        /\ db.revision = attempt[f].obs.revision
        /\ counted' = IF db.block.published THEN counted ELSE counted + 1
        /\ db' = [Confirm(db, attempt[f].obs) EXCEPT
                 !.row = Released(Moved("submitted", Coalesced(@.outcome)))]
    BY <1>3 DEF FinishSubmitted, Holds, At, Unmoved, CountFirst, First
  <2>2. db' = [Confirm(db, attempt[f].obs) EXCEPT
                 !.row = Released(Moved("submitted", Coalesced(db.row.outcome)))]
    BY <1>0, <2>1, DbFacts, ConfirmType
  <2>3. /\ Onwards /\ db'.row.state = "submitted" /\ db'.row.token = NoToken
        /\ db'.row.outcome = Coalesced(db.row.outcome)
        /\ db'.block = Confirm(db, attempt[f].obs).block
        /\ db'.applied = Confirm(db, attempt[f].obs).applied
    <3>. DEFINE d == Confirm(db, attempt[f].obs)
    <3>1. /\ d \in Database /\ d.seen = db.seen
          /\ d.revision \in {db.revision, db.revision + 1}
      BY <1>0, DbFacts, ConfirmType
    <3>2. db' = [d EXCEPT !.row = Released(Moved("submitted", Coalesced(db.row.outcome)))]
      BY <2>2
    <3>a. chain' = chain /\ "submitted" \in Unfinished \cup Terminal
      BY <2>1
    <3>. HIDE DEF d
    <3>3. /\ Onwards /\ db'.row.state = "submitted" /\ db'.row.token = NoToken
          /\ db'.row.outcome = Coalesced(db.row.outcome)
          /\ db'.block = d.block /\ db'.applied = d.applied
      BY <1>0, <3>a, <3>1, <3>2, BlockWritten
    <3>. QED
      BY <3>3 DEF d
  <2>4. Credits(attempt[f].obs)
    BY <1>0, <2>1, <2>3, DbFacts, ConfirmType DEF Credits
  <2>5. Settles
    BY <2>1, <2>3, <2>4 DEF Settles
  <2>. QED
    BY <2>3, <2>5 DEF Books
<1>4. CASE Orphan(f)
  <2>1. /\ db.row.state \in OfferStates /\ UNCHANGED <<chain, sent, counted>>
        /\ attempt[f].pc = "settling"
        /\ db.revision = attempt[f].obs.revision
        /\ db' = [Deactivate(db, attempt[f].obs) EXCEPT
                 !.row = Released(Moved("orphaned", Coalesced(@.outcome)))]
    BY <1>4 DEF Orphan, Holds, At, Unmoved
  <2>2. db' = [Deactivate(db, attempt[f].obs) EXCEPT
                 !.row = Released(Moved("orphaned", Coalesced(db.row.outcome)))]
    BY <1>0, <2>1, DbFacts, DeactivateType
  <2>3. /\ Onwards /\ db'.row.state = "orphaned" /\ db'.row.token = NoToken
        /\ db'.row.outcome = Coalesced(db.row.outcome)
        /\ db'.block = Deactivate(db, attempt[f].obs).block
        /\ db'.applied = Deactivate(db, attempt[f].obs).applied
    <3>. DEFINE d == Deactivate(db, attempt[f].obs)
    <3>1. /\ d \in Database /\ d.seen = db.seen
          /\ d.revision \in {db.revision, db.revision + 1}
      BY <1>0, DbFacts, DeactivateType
    <3>2. db' = [d EXCEPT !.row = Released(Moved("orphaned", Coalesced(db.row.outcome)))]
      BY <2>2
    <3>a. chain' = chain /\ "orphaned" \in Unfinished \cup Terminal
      BY <2>1
    <3>. HIDE DEF d
    <3>3. /\ Onwards /\ db'.row.state = "orphaned" /\ db'.row.token = NoToken
          /\ db'.row.outcome = Coalesced(db.row.outcome)
          /\ db'.block = d.block /\ db'.applied = d.applied
      BY <1>0, <3>a, <3>1, <3>2, BlockWritten
    <3>. QED
      BY <3>3 DEF d
  <2>4. Settles
    BY SMTT(30), <1>0, <2>1, <2>3, DbFacts, DeactivateType DEF Settles
  <2>. QED
    BY <2>3, <2>4 DEF Books
<1>5. CASE db' # db /\ Reconcile(f)
  <2>1. /\ db.row.state \in OfferStates /\ UNCHANGED <<chain, sent, counted>>
        /\ db' = [db EXCEPT !.row =
                Released(Moved("reconciliation", Coalesced(db.row.outcome)))]
    BY <1>5 DEF Reconcile, Refused, Holds
  <2>2. /\ Onwards /\ db'.row.state = "reconciliation" /\ db'.row.token = NoToken
        /\ db'.row.outcome = Coalesced(db.row.outcome)
        /\ db'.block = db.block /\ db'.applied = db.applied
    BY <1>0, <2>1, DbFacts, BlockWritten
  <2>. QED
    BY <2>1, <2>2 DEF Settles, Books
<1>. QED
  BY <1>1, <1>2, <1>3, <1>4, <1>5

\* Failures, the operator, the reconciler, the gate and the node.
LEMMA BOthers ==
    ASSUME TypeOK,
           \/ AbandonCandidate \/ SetHold \/ ClearHold \/ ReconcileObserve
           \/ ReconcileWrite \/ ReconcileStop \/ ReleaseCarry
           \/ NodeExecutes \/ ChainMoves
           \/ \E f \in Frontend : SetCarryPaying(f) \/ FenceCarryChange(f)
    PROVE  Books /\ Onwards
<1>. USE DEF wire, outside
<1>1. CASE AbandonCandidate
  <2>1. /\ db.row.state = "pending" /\ UNCHANGED <<chain, sent, counted>>
        /\ db' = [db EXCEPT !.row = Released(Moved("abandoned", db.row.outcome))]
    BY <1>1 DEF AbandonCandidate, AbandonsRow
  <2>2. /\ Onwards /\ db'.row = Released(Moved("abandoned", db.row.outcome))
        /\ db'.block = db.block /\ db'.applied = db.applied
    BY <2>1, RowWritten
  <2>3. /\ db'.row.state = "abandoned" /\ db'.row.token = NoToken
        /\ db'.row.outcome = db.row.outcome
    BY <2>2, DbFacts, MovedType, ReleasedType
  <2>. QED
    BY <2>1, <2>2, <2>3 DEF Settles, Books
<1>2. CASE ReconcileObserve
  <2>1. /\ db' = RecordTip(db) /\ UNCHANGED <<chain, sent, counted>>
        /\ chain.work >= db.seen
    BY <1>2 DEF ReconcileObserve
  <2>. QED
    BY <2>1, QuietTip DEF Books
<1>3. CASE ReconcileWrite
  <2>1. CASE UNCHANGED <<db, counted>>
    BY <1>3, <2>1, QuietSame DEF ReconcileWrite, Books
  <2>2. CASE ~UNCHANGED <<db, counted>>
    <3>. DEFINE o == reconciler.obs
    <3>1. /\ reconciler.busy /\ db.revision = o.revision
          /\ db.block.chain # "none" /\ UNCHANGED <<chain, sent>>
          /\ \/ /\ o.at = "ours" /\ db' = Confirm(db, o)
                /\ counted' = IF db.block.published THEN counted ELSE counted + 1
             \/ db' \in {db, Deactivate(db, o)} /\ UNCHANGED counted
      BY <1>3, <2>2 DEF ReconcileWrite, Unmoved, CountFirst, First
    <3>2. CASE /\ o.at = "ours" /\ db' = Confirm(db, o)
               /\ counted' = IF db.block.published THEN counted ELSE counted + 1
      <4>1. /\ db'.row = db.row /\ db'.block.published
            /\ db'.block.chain # "none" /\ db'.applied = o.work
            /\ db'.seen = db.seen
            /\ db'.revision \in {db.revision, db.revision + 1}
        BY <3>2, DbFacts, ConfirmType
      <4>2. Onwards
        BY <3>1, <4>1, DbFacts DEF Onwards
      <4>. QED
        BY <3>1, <3>2, <4>1, <4>2 DEF Credits, Reconciles, Books
    <3>3. CASE db' \in {db, Deactivate(db, o)} /\ UNCHANGED counted
      <4>1. /\ db'.row = db.row
            /\ db'.block.published = db.block.published
            /\ db'.block.chain # "none" /\ db'.applied \in {db.applied, o.work}
            /\ db'.seen = db.seen
            /\ db'.revision \in {db.revision, db.revision + 1}
        BY <3>1, <3>3, DbFacts, DeactivateType
      <4>2. Onwards
        BY <3>1, <4>1, DbFacts DEF Onwards
      <4>. QED
        BY <3>1, <3>3, <4>1, <4>2 DEF Reconciles, Books
    <3>. QED
      BY <3>1, <3>2, <3>3
  <2>. QED
    BY <2>1, <2>2
<1>4. CASE ReconcileStop \/ \E f \in Frontend : SetCarryPaying(f)
  BY <1>4, QuietSame DEF ReconcileStop, SetCarryPaying, Books
<1>5. CASE SetHold \/ ClearHold \/ ReleaseCarry
           \/ \E f \in Frontend : FenceCarryChange(f)
  <2>1. /\ \/ \E b \in BOOLEAN : db' = [db EXCEPT !.held = b]
           \/ db' = [db EXCEPT !.revision = @ + 1]
        /\ UNCHANGED <<chain, sent, counted>>
    BY <1>5 DEF SetHold, ClearHold, ReleaseCarry, FenceCarryChange
  <2>2. /\ db'.row = db.row /\ db'.block = db.block /\ db'.applied = db.applied
        /\ db'.seen = db.seen
        /\ db'.revision \in {db.revision, db.revision + 1}
    BY <2>1, DbFacts DEF Database
  <2>. QED
    BY <2>1, <2>2, DbFacts DEF Onwards, Quiet, Books
<1>6. CASE NodeExecutes \/ ChainMoves
  <2>1. UNCHANGED <<db, sent, counted>>
    BY <1>6 DEF NodeExecutes, ChainMoves
  <2>2. chain'.work \in {chain.work, chain.work + 1}
    BY <1>6, DbFacts DEF NodeExecutes, ChainMoves, Chain
  <2>. QED
    BY <2>1, <2>2, DbFacts DEF Onwards, Quiet, Books
<1>. QED
  BY <1>1, <1>2, <1>3, <1>4, <1>5, <1>6

\* Standby and promotion aside, a step does what Books says.
LEMMA BNext ==
    ASSUME TypeOK, [Next]_vars, OneDatabase \/ kind.carry
    PROVE  Books /\ Onwards
<1>1. ~Replicate /\ ~Failover
  BY OutboxBounds DEF OneDatabase, TypeOK, Replicate, Failover
<1>2. CASE UNCHANGED vars
  BY <1>2, QuietSame DEF vars, Books
<1>3. ASSUME NEW f \in Frontend, AttemptStep(f)
      PROVE  Books /\ Onwards
  BY <1>3, BBefore, BCall, BVerdicts DEF AttemptStep
<1>4. ASSUME NEW f \in Frontend,
             \/ Claim(f) \/ Recover(f) \/ TakeOver(f) \/ JournalUnreadable(f)
             \/ OfferNotExecuted(f) \/ Fail(f) \/ Crash(f)
             \/ ReleaseGivesUp(f) \/ SetCarryPaying(f) \/ FenceCarryChange(f)
      PROVE  Books /\ Onwards
  <2>1. CASE Claim(f) \/ Recover(f) \/ TakeOver(f)
    <3>1. PICK r \in BOOLEAN : ClaimAs(f, r)
      BY <2>1 DEF Claim, Recover, TakeOver
    <3>. QED
      BY <3>1, BClaims DEF Books
  <2>. QED
    BY <1>4, <2>1, BBefore, BOthers
<1>. QED
  BY <1>1, <1>2, <1>3, <1>4, BOthers DEF Next

-----------------------------------------------------------------------------
\* What a step does to the attempts, the node and the reconciler.

Follows(f) ==
    LET a == attempt[f]
        b == attempt'[f]
    IN  /\ b.obs.at = "ours" => a.obs.at = "ours" \/ chain.at = "ours"
        /\ b.pc \in {"calling", "record"} =>
             a.pc \in {"calling", "record"} \/ sent' = sent + 1
        /\ b.pc = "record" =>
             b.outcome # "none" \/ (a.pc = "record" /\ b.outcome = a.outcome)
        /\ b.pc = "settling" =>
             \/ a.pc = "settling" /\ b.obs = a.obs
             \/ b.obs = Observed(db) /\ db' = RecordTip(db)
        /\ b.pc \in PastOffer =>
             \/ a.pc \in PastOffer
             \/ a.pc = "claimed" /\ a.state # "pending"
             \/ a.pc = "send" /\ db' = db
             \/ a.pc = "adopt" /\ db'.row.state = "reconciliation"
        /\ b.pc = "claimed" => b = a \/ db'.row.state = b.state
        /\ b.token = a.token \/ b.pc \in {"idle", "claimed"}
        /\ Holding(f)' =>
             \/ Holding(f)
             \/ db.row.token = a.token /\ db.row.state = "pending"

\* An attempt that did not move.
LEMMA StillFollows ==
    ASSUME TypeOK, NEW f \in Frontend, attempt'[f] = attempt[f]
    PROVE  Follows(f)
  BY DEF Follows, Holding

\* One that ended or failed.
LEMMA EndFollows ==
    ASSUME TypeOK, NEW f \in Frontend, Leaves(f),
           \/ attempt'[f].pc \in {"idle", "failed"}
           \/ attempt[f].pc \in PastOffer
           \/ attempt[f].pc = "claimed" /\ attempt[f].state # "pending"
           \/ attempt[f].pc = "adopt" /\ db'.row.state = "reconciliation"
    PROVE  \A g \in Frontend : Follows(g)
<1>1. attempt'[f].obs.at # "ours"
  BY DEF Leaves, NoObservation
<1>2. Follows(f)
  BY <1>1 DEF Leaves, Follows, Holding, PastOffer
<1>. QED
  BY <1>2, StillFollows DEF Leaves

\* One that went on before the call, or after it.
LEMMA OnFollows ==
    ASSUME TypeOK, NEW f \in Frontend, Advances(f),
           attempt'[f].obs.at = "ours" =>
             attempt[f].obs.at = "ours" \/ chain.at = "ours",
           \/ attempt'[f].pc \notin PastOffer
           \/ /\ attempt'[f].pc \in PastOffer \ {"calling", "record", "settling"}
              /\ \/ attempt[f].pc \in PastOffer
                 \/ attempt[f].pc = "claimed" /\ attempt[f].state # "pending",
           attempt'[f].pc # "claimed",
           Holding(f)' => Holding(f)
             \/ (db.row.token = attempt[f].token /\ db.row.state = "pending")
    PROVE  \A g \in Frontend : Follows(g)
<1>1. Follows(f)
  BY DEF Advances, Follows, PastOffer
<1>. QED
  BY <1>1, StillFollows DEF Advances

\* A claim starts an attempt with the state the row shows.
LEMMA FClaims ==
    ASSUME TypeOK, NEW f \in Frontend, NEW r \in BOOLEAN, ClaimAs(f, r)
    PROVE  \A g \in Frontend : Follows(g)
<1>1. PICK t \in Token :
        /\ db' = [db EXCEPT !.row = [@ EXCEPT !.token = t]]
        /\ attempt' = [attempt EXCEPT ![f] =
              [Idle EXCEPT !.pc = "claimed", !.token = t,
                           !.recovery = r, !.state = db.row.state]]
  BY DEF ClaimAs
<1>2. db'.row.state = db.row.state
  BY <1>1, DbFacts DEF Database, Row
<1>3. /\ attempt'[f].pc = "claimed" /\ attempt'[f].state = db.row.state
      /\ attempt'[f].obs = NoObservation
      /\ \A g \in Frontend \ {f} : attempt'[g] = attempt[g]
  BY <1>1 DEF TypeOK, Idle
<1>4. Follows(f)
  BY <1>2, <1>3 DEF Follows, Holding, PastOffer, NoObservation
<1>. QED
  BY <1>3, <1>4, StillFollows

\* The steps before the reservation follow.
LEMMA FBefore ==
    ASSUME TypeOK, NEW f \in Frontend,
           \/ SkipScreen(f) \/ Screen(f) \/ RecoverScreen(f) \/ Adopt(f)
           \/ Abandon(f) \/ Reserve(f) \/ Capture(f)
    PROVE  \A g \in Frontend : Follows(g)
<1>. USE DEF At
<1>0. /\ attempt \in [Frontend -> Attempt] /\ attempt[f] \in Attempt
      /\ Observed(db).at = chain.at
      /\ \A p \in {"adopt", "abandon", "reserve", "capture", "reserved"} :
           p \notin PastOffer
  BY DEF TypeOK, Observed, PastOffer
<1>1. CASE SkipScreen(f)
  <2>1. /\ Advances(f) /\ attempt'[f].pc = "reserve"
        /\ attempt'[f].obs = attempt[f].obs
    BY <1>0, <1>1 DEF SkipScreen, ToReserve, Advances, Attempt
  <2>. QED
    BY <1>0, <2>1, OnFollows DEF Holding
<1>2. CASE Screen(f)
  <2>. DEFINE o == Observed(db)
              n == gate[f].generation
  <2>1. attempt[f].pc = "claimed"
    BY <1>2 DEF Screen
  <2>2. PICK pc \in {"adopt", "abandon", "reserve"} :
          attempt' = [attempt EXCEPT ![f] =
                        [@ EXCEPT !.pc = pc, !.obs = o, !.generation = n]]
    BY <1>2 DEF Screen
  <2>3. o.at = chain.at
    BY <1>0
  <2>. HIDE DEF o, n
  <2>4. Advances(f) /\ attempt'[f].pc = pc /\ attempt'[f].obs = o
    BY <1>0, <2>1, <2>2 DEF Advances, Attempt
  <2>. QED
    BY <1>0, <2>3, <2>4, OnFollows DEF Holding
<1>3. CASE RecoverScreen(f)
  <2>. DEFINE pc == IF attempt[f].state = "pending" THEN "adopt" ELSE "land"
  <2>1. /\ ObserveTo(f, pc) \/ Failed(f)
        /\ attempt[f].pc = "claimed"
    BY <1>3 DEF RecoverScreen
  <2>2. /\ pc \in Step \ {"idle"} /\ pc \in {"adopt", "land"}
        /\ pc = "land" => attempt[f].state # "pending"
    BY DEF Step
  <2>. HIDE DEF pc
  <2>3. CASE ObserveTo(f, pc)
    <3>1. Advances(f) /\ attempt'[f].pc = pc /\ attempt'[f].obs = Observed(db)
      BY <2>1, <2>2, <2>3, ObserveToAdvances
    <3>. QED
      BY <1>0, <2>1, <2>2, <3>1, OnFollows DEF Holding, PastOffer
  <2>4. CASE Failed(f)
    BY <2>1, <2>4, FailedLeaves, EndFollows
  <2>. QED
    BY <2>1, <2>3, <2>4
<1>4. CASE Adopt(f)
  <2>1. CASE Refused(f, {"pending"})
    BY <1>4, <2>1, FailedLeaves, EndFollows DEF Adopt, Refused
  <2>2. CASE ~Refused(f, {"pending"})
    <3>1. /\ attempt[f].pc = "adopt" /\ Onward(f, "land")
          /\ db' = [db EXCEPT !.row = Moved("reconciliation", "unknown")]
      BY <1>4, <2>2 DEF Adopt
    <3>2. db'.row.state = "reconciliation"
      BY <3>1, DbFacts, MovedType DEF Database
    <3>. QED
      BY <3>1, <3>2, OnwardLeaves, EndFollows
  <2>. QED
    BY <2>1, <2>2
<1>5. CASE Abandon(f)
  BY <1>5, FailedLeaves, DoneLeaves, EndFollows DEF Abandon
<1>6. ASSUME attempt[f].pc \in {"reserve", "capture"},
             NEW b \in BOOLEAN, ReserveIn(f, b)
      PROVE  \A g \in Frontend : Follows(g)
  <2>1. CASE Refused(f, {"pending"})
    BY <1>6, <2>1, FailedLeaves, EndFollows DEF Refused
  <2>2. CASE ~Refused(f, {"pending"})
    <3>1. /\ db.row.token = attempt[f].token /\ db.row.state = "pending"
          /\ attempt' = [attempt EXCEPT ![f] =
                           [@ EXCEPT !.pc = "reserved", !.current = b]]
      BY <1>6, <2>2 DEF ReserveIn, Holds
    <3>2. /\ Advances(f) /\ attempt'[f].pc = "reserved"
          /\ attempt'[f].obs = attempt[f].obs
      BY <1>0, <1>6, <3>1 DEF Advances, Attempt
    <3>. QED
      BY <1>0, <3>1, <3>2, OnFollows
  <2>. QED
    BY <2>1, <2>2
<1>7. CASE Reserve(f)
  <2>1. CASE db.held \/ Current(f)
    BY <1>6, <1>7, <2>1, FailedLeaves, EndFollows DEF Reserve
  <2>2. CASE ~db.held /\ ~Current(f)
    <3>1. PICK pc \in {"abandon", "capture"} :
            attempt' = [attempt EXCEPT ![f] = [@ EXCEPT !.pc = pc,
                          !.obs.revision = db.revision]]
      BY <1>7, <2>2 DEF Reserve
    <3>2. /\ Advances(f) /\ attempt'[f].pc = pc
          /\ attempt'[f].obs.at = attempt[f].obs.at
      BY <1>0, <1>7, <3>1 DEF Reserve, Advances, Attempt, Observation
    <3>. QED
      BY <1>0, <3>2, OnFollows DEF Holding
  <2>. QED
    BY <2>1, <2>2
<1>8. CASE Capture(f)
  <2>1. CASE Goto(f, "abandon")
    <3>1. /\ Advances(f) /\ attempt'[f].pc = "abandon"
          /\ attempt'[f].obs = attempt[f].obs
      BY <1>8, <2>1, GotoAdvances DEF Capture, Step
    <3>. QED
      BY <1>0, <3>1, OnFollows DEF Holding
  <2>2. CASE ~Goto(f, "abandon")
    BY <1>6, <1>8, <2>2, FailedLeaves, EndFollows DEF Capture
  <2>. QED
    BY <2>1, <2>2
<1>. QED
  BY <1>1, <1>2, <1>3, <1>4, <1>5, <1>7, <1>8

\* The steps from the reservation to the recorded answer follow.
LEMMA FCall ==
    ASSUME TypeOK, NEW f \in Frontend,
           \/ AwaitStandby(f) \/ Renew(f) \/ CarryCheck(f)
           \/ JournalUnreadable(f) \/ OfferNotExecuted(f) \/ SendOffer(f)
           \/ ReleaseUnsent(f) \/ CallReturns(f) \/ RecordOffer(f)
    PROVE  \A g \in Frontend : Follows(g)
<1>. USE DEF At
<1>0. /\ attempt \in [Frontend -> Attempt] /\ attempt[f] \in Attempt
      /\ \A p \in {"waited", "check", "send", "unsent"} :
           p \notin PastOffer /\ p \in Step \ {"idle"}
      /\ "calling" \in Step \ {"idle"}
  BY DEF TypeOK, PastOffer, Step
\* Between reservation and call the attempt only goes on.
<1>1. ASSUME NEW pc \in {"waited", "check", "send", "unsent"}, Holding(f),
             Advances(f), attempt'[f].pc = pc, attempt'[f].obs = attempt[f].obs
      PROVE  \A g \in Frontend : Follows(g)
  BY <1>0, <1>1, OnFollows
<1>2. CASE AwaitStandby(f)
  <2>. DEFINE b == Flushed(f)
  <2>1. attempt[f].pc = "reserved" /\ attempt' = [attempt EXCEPT ![f] =
                     [@ EXCEPT !.pc = "waited", !.flushed = b]]
    BY <1>2 DEF AwaitStandby
  <2>. HIDE DEF b
  <2>2. /\ Advances(f) /\ attempt'[f].pc = "waited"
        /\ attempt'[f].obs = attempt[f].obs
    BY <1>0, <2>1 DEF Advances, Attempt
  <2>. QED
    BY <1>1, <2>1, <2>2 DEF Holding
<1>3. CASE Renew(f)
  <2>1. CASE Refused(f, Unfinished)
    BY <1>3, <2>1, FailedLeaves, EndFollows DEF Renew, Refused
  <2>2. CASE ~Refused(f, Unfinished)
    <3>1. attempt[f].pc = "waited" /\ Goto(f, "check")
      BY <1>3, <2>2 DEF Renew
    <3>. QED
      BY <1>0, <1>1, <3>1, GotoAdvances DEF Holding
  <2>. QED
    BY <2>1, <2>2
<1>4. CASE CarryCheck(f)
  <2>. DEFINE b == ~gate[f].moved /\ claims
  <2>1. attempt[f].pc = "check"
    BY <1>4 DEF CarryCheck
  <2>2. PICK pc \in {"unsent", "send"} :
          attempt' = [attempt EXCEPT ![f] = [@ EXCEPT !.pc = pc, !.clean = b]]
    BY <1>4 DEF CarryCheck
  <2>. HIDE DEF b
  <2>3. /\ Advances(f) /\ attempt'[f].pc = pc
        /\ attempt'[f].obs = attempt[f].obs
    BY <1>0, <2>1, <2>2 DEF Advances, Attempt
  <2>. QED
    BY <1>1, <2>1, <2>3 DEF Holding
<1>5. CASE JournalUnreadable(f) \/ OfferNotExecuted(f)
  <2>1. attempt[f].pc \in {"check", "send"} /\ Goto(f, "unsent")
    BY <1>5 DEF JournalUnreadable, OfferNotExecuted
  <2>. QED
    BY <1>0, <1>1, <2>1, GotoAdvances DEF Holding
<1>6. CASE SendOffer(f)
  <2>1. /\ attempt[f].pc = "send" /\ Goto(f, "calling") /\ sent' = sent + 1
        /\ db' = db
    BY <1>6 DEF SendOffer
  <2>2. /\ Advances(f) /\ attempt'[f].pc = "calling"
        /\ attempt'[f].obs = attempt[f].obs
    BY <1>0, <2>1, GotoAdvances
  <2>3. Follows(f)
    BY <2>1, <2>2 DEF Advances, Follows, Holding
  <2>. QED
    BY <2>2, <2>3, StillFollows DEF Advances
<1>7. CASE ReleaseUnsent(f)
  BY <1>7, FailedLeaves, DoneLeaves, EndFollows DEF ReleaseUnsent
<1>8. CASE CallReturns(f)
  <2>1. attempt[f].pc = "calling"
    BY <1>8 DEF CallReturns
  <2>2. PICK o \in {"answered", "unknown"} :
          attempt' = [attempt EXCEPT ![f] =
                        [@ EXCEPT !.pc = "record", !.outcome = o]]
    BY <1>8 DEF CallReturns, AfterCall
  <2>3. /\ Advances(f) /\ attempt'[f].pc = "record"
        /\ attempt'[f].obs = attempt[f].obs /\ attempt'[f].outcome = o
    BY <1>0, <2>1, <2>2 DEF Advances, Attempt
  <2>4. Follows(f)
    BY <2>1, <2>3 DEF Advances, Follows, Holding, PastOffer
  <2>. QED
    BY <2>3, <2>4, StillFollows DEF Advances
<1>9. CASE RecordOffer(f)
  <2>1. attempt[f].pc = "record" /\ "record" \in PastOffer
        /\ (Failed(f) \/ Onward(f, "land"))
    BY <1>9 DEF RecordOffer, Refused, PastOffer
  <2>. QED
    BY <2>1, FailedLeaves, OnwardLeaves, EndFollows
<1>. QED
  BY <1>2, <1>3, <1>4, <1>5, <1>6, <1>7, <1>8, <1>9

\* The steps after the offer, and the failures, follow.
LEMMA FAfter ==
    ASSUME TypeOK, NEW f \in Frontend,
           \/ LaneSettle(f) \/ Land(f) \/ Landing(f) \/ Settle(f)
           \/ FinishSubmitted(f) \/ Orphan(f) \/ NotSettled(f)
           \/ Reconcile(f) \/ ReleaseClaim(f) \/ Fail(f) \/ Crash(f)
           \/ ReleaseGivesUp(f)
    PROVE  \A g \in Frontend : Follows(g)
<1>. USE DEF At
<1>0. /\ attempt \in [Frontend -> Attempt] /\ attempt[f] \in Attempt
      /\ {"land", "landing", "settling"} \subseteq Step \ {"idle"}
      /\ {"land", "landing", "settle", "settling", "reconcile"} \subseteq PastOffer
      /\ Observed(db).at = chain.at
  BY DEF TypeOK, PastOffer, Step, Observed
<1>1. CASE LaneSettle(f)
  <2>1. /\ attempt[f].pc = "claimed" /\ attempt[f].state # "pending"
        /\ Goto(f, "land")
    BY <1>1 DEF LaneSettle
  <2>2. /\ Advances(f) /\ attempt'[f].pc = "land"
        /\ attempt'[f].obs = attempt[f].obs
    BY <1>0, <2>1, GotoAdvances
  <2>. QED
    BY <1>0, <2>1, <2>2, OnFollows DEF Holding
<1>2. CASE Land(f)
  <2>1. /\ attempt[f].pc = "land"
        /\ ObserveTo(f, "landing") \/ Onward(f, "settle") \/ GiveUp(f)
    BY <1>2 DEF Land
  <2>2. CASE ObserveTo(f, "landing")
    <3>1. /\ Advances(f) /\ attempt'[f].pc = "landing"
          /\ attempt'[f].obs = Observed(db)
      BY <1>0, <2>1, <2>2, ObserveToAdvances
    <3>. QED
      BY <1>0, <2>1, <3>1, OnFollows DEF Holding
  <2>3. CASE Onward(f, "settle") \/ GiveUp(f)
    BY <1>0, <2>1, <2>3, OnwardLeaves, GiveUpLeaves, EndFollows
  <2>. QED
    BY <2>1, <2>2, <2>3
<1>3. CASE Landing(f)
  <2>1. /\ attempt[f].pc = "landing"
        /\ \/ attempt' = [attempt EXCEPT ![f] = [@ EXCEPT !.pc = "land",
                              !.retried = TRUE, !.obs = NoObservation]]
           \/ Onward(f, "settle") \/ GiveUp(f)
    BY <1>3 DEF Landing
  <2>2. CASE attempt' = [attempt EXCEPT ![f] = [@ EXCEPT !.pc = "land",
                              !.retried = TRUE, !.obs = NoObservation]]
    <3>1. /\ Advances(f) /\ attempt'[f].pc = "land"
          /\ attempt'[f].obs = NoObservation
      BY <1>0, <2>1, <2>2 DEF Advances, Attempt
    <3>. QED
      BY <1>0, <2>1, <3>1, OnFollows DEF Holding, NoObservation
  <2>3. CASE Onward(f, "settle") \/ GiveUp(f)
    BY <1>0, <2>1, <2>3, OnwardLeaves, GiveUpLeaves, EndFollows
  <2>. QED
    BY <2>1, <2>2, <2>3
<1>4. CASE Settle(f)
  <2>1. attempt[f].pc = "settle" /\ ObserveTo(f, "settling")
    BY <1>4 DEF Settle
  <2>2. /\ Advances(f) /\ attempt'[f].pc = "settling"
        /\ attempt'[f].obs = Observed(db) /\ db' = RecordTip(db)
    BY <1>0, <2>1, ObserveToAdvances
  <2>3. Follows(f)
    BY <1>0, <2>1, <2>2 DEF Advances, Follows, Holding
  <2>. QED
    BY <2>2, <2>3, StillFollows DEF Advances
<1>5. CASE \/ FinishSubmitted(f) \/ Orphan(f) \/ NotSettled(f) \/ Reconcile(f)
           \/ Crash(f) \/ ReleaseGivesUp(f) \/ ReleaseClaim(f)
  <2>1. /\ attempt[f].pc # "idle"
        /\ \/ Done(f) \/ Failed(f)
           \/ /\ attempt[f].pc = "settling"
              /\ Onward(f, "settle") \/ GiveUp(f)
    BY <1>5 DEF FinishSubmitted, Orphan, NotSettled, Reconcile, Refused, Crash,
       ReleaseGivesUp, ReleaseClaim
  <2>. QED
    BY <1>0, <2>1, DoneLeaves, FailedLeaves, OnwardLeaves, GiveUpLeaves,
       EndFollows
<1>6. CASE Fail(f)
  <2>1. /\ attempt[f].pc # "idle"
        /\ Failed(f) \/ (attempt[f].pc \in PastOffer /\ GiveUp(f))
    BY <1>0, <1>6 DEF Fail, PostOffer
  <2>. QED
    BY <2>1, FailedLeaves, GiveUpLeaves, EndFollows
<1>. QED
  BY <1>1, <1>2, <1>3, <1>4, <1>5, <1>6

\* The node and the reconciler.
Watches ==
    /\ inflight' => inflight \/ sent' = sent + 1
    /\ chain'.known \/ chain'.at = "ours" =>
         inflight \/ chain.known \/ chain.at = "ours"
    /\ reconciler'.obs.at = "ours" =>
         reconciler.obs.at = "ours" \/ chain.at = "ours"
    /\ reconciler'.busy =>
         \/ reconciler' = reconciler
         \/ reconciler'.obs = Observed(db) /\ db' = RecordTip(db)

\* Every step but a replication or a promotion.
LEMMA FNext ==
    ASSUME TypeOK, [Next]_vars, OneDatabase
    PROVE  Watches /\ \A g \in Frontend : Follows(g)
<1>1. ~Replicate /\ ~Failover
  BY OutboxBounds DEF OneDatabase, TypeOK, Replicate, Failover
<1>2. CASE UNCHANGED vars
  BY <1>2, StillFollows DEF vars, Watches
<1>3. ASSUME NEW f \in Frontend, AttemptStep(f)
      PROVE  Watches /\ \A g \in Frontend : Follows(g)
  <2>1. /\ UNCHANGED <<chain, reconciler>>
        /\ inflight' = inflight \/ sent' = sent + 1
    BY <1>3 DEF AttemptStep, SkipScreen, Screen, RecoverScreen, Adopt, Abandon,
       Reserve, Capture, AwaitStandby, Renew, CarryCheck, SendOffer,
       ReleaseUnsent, CallReturns, RecordOffer, LaneSettle, Land, Landing,
       Settle, FinishSubmitted, Orphan, NotSettled, Reconcile, ReleaseClaim,
       outside, wire
  <2>2. Watches
    BY <2>1 DEF Watches
  <2>. QED
    BY <1>3, <2>2, FBefore, FCall, FAfter DEF AttemptStep
<1>4. ASSUME NEW f \in Frontend,
             \/ Claim(f) \/ Recover(f) \/ TakeOver(f) \/ JournalUnreadable(f)
             \/ OfferNotExecuted(f) \/ Fail(f) \/ Crash(f)
             \/ ReleaseGivesUp(f) \/ SetCarryPaying(f) \/ FenceCarryChange(f)
      PROVE  Watches /\ \A g \in Frontend : Follows(g)
  <2>1. UNCHANGED <<chain, reconciler, inflight>>
    BY <1>4 DEF Claim, Recover, TakeOver, ClaimAs, JournalUnreadable,
       OfferNotExecuted, Fail, Crash, ReleaseGivesUp, SetCarryPaying,
       FenceCarryChange, outside, wire
  <2>2. Watches
    BY <2>1 DEF Watches
  <2>3. CASE Claim(f) \/ Recover(f) \/ TakeOver(f)
    <3>1. PICK r \in BOOLEAN : ClaimAs(f, r)
      BY <2>3 DEF Claim, Recover, TakeOver
    <3>. QED
      BY <2>2, <3>1, FClaims
  <2>4. CASE SetCarryPaying(f) \/ FenceCarryChange(f)
    BY <2>2, <2>4, StillFollows DEF SetCarryPaying, FenceCarryChange
  <2>. QED
    BY <1>4, <2>2, <2>3, <2>4, FCall, FAfter
<1>5. ASSUME \/ AbandonCandidate \/ SetHold \/ ClearHold \/ ReconcileObserve
             \/ ReconcileWrite \/ ReconcileStop \/ ReleaseCarry
             \/ NodeExecutes \/ ChainMoves
      PROVE  Watches /\ \A g \in Frontend : Follows(g)
  <2>1. UNCHANGED attempt
    BY <1>5 DEF AbandonCandidate, SetHold, ClearHold, ReconcileObserve,
       ReconcileWrite, ReconcileStop, ReleaseCarry, NodeExecutes, ChainMoves
  <2>2. CASE NodeExecutes \/ ChainMoves
    <3>1. UNCHANGED reconciler /\ (inflight' => inflight)
      BY <2>2 DEF NodeExecutes, ChainMoves, outside
    <3>2. chain'.known \/ chain'.at = "ours" =>
            inflight \/ chain.known \/ chain.at = "ours"
      BY <2>2, DbFacts DEF NodeExecutes, ChainMoves, Chain
    <3>. QED
      BY <2>1, <3>1, <3>2, StillFollows DEF Watches
  <2>3. CASE ReconcileObserve
    <3>1. /\ UNCHANGED <<chain, inflight>> /\ db' = RecordTip(db)
          /\ reconciler' = [busy |-> TRUE, obs |-> Observed(db)]
      BY <2>3 DEF ReconcileObserve, wire
    <3>2. Observed(db).at = chain.at
      BY DEF Observed
    <3>. QED
      BY <2>1, <3>1, <3>2, StillFollows DEF Watches
  <2>4. CASE ~(NodeExecutes \/ ChainMoves \/ ReconcileObserve)
    <3>1. /\ UNCHANGED <<chain, inflight>>
          /\ reconciler' = reconciler \/ reconciler' = NoReconcile
      BY <1>5, <2>4 DEF AbandonCandidate, SetHold, ClearHold, ReconcileWrite,
         ReconcileStop, ReleaseCarry, wire, outside
    <3>. QED
      BY <2>1, <3>1, StillFollows DEF Watches, NoReconcile, NoObservation
  <2>. QED
    BY <2>2, <2>3, <2>4
<1>. QED
  BY <1>1, <1>2, <1>3, <1>4, <1>5 DEF Next

-----------------------------------------------------------------------------
\* PromiseInv is inductive.

\* No step makes two calls, and none takes one back.
LEMMA SentGrows ==
    ASSUME TypeOK, Books
    PROVE  sent' \in {sent, sent + 1} /\ sent \in Nat
  BY DbFacts DEF Books, Quiet, Claims, Lands, Holder, Moves, Unsends, Sends,
     Settles, Reconciles

\* What the node shows, it shows after a call.
LEMMA KeepsWitness ==
    ASSUME TypeOK, ChainWitness, Books, Watches,
           \A f \in Frontend : Follows(f)
    PROVE  ChainWitness'
<1>1. /\ sent \in Nat /\ sent' \in Nat /\ sent' >= sent
      /\ sent' = sent + 1 => sent' >= 1
  BY SentGrows
<1>2. inflight' \/ chain'.known \/ chain'.at = "ours" => sent' >= 1
  BY <1>1 DEF ChainWitness, Watches
<1>3. reconciler'.obs.at = "ours" => sent' >= 1
  BY <1>1 DEF ChainWitness, Watches
<1>4. ASSUME NEW f \in Frontend
      PROVE  /\ attempt'[f].obs.at = "ours" => sent' >= 1
             /\ attempt'[f].pc \in {"calling", "record"} => sent' >= 1
             /\ attempt'[f].pc = "record" => attempt'[f].outcome # "none"
  BY <1>1 DEF ChainWitness, Follows
<1>. QED
  BY <1>2, <1>3, <1>4 DEF ChainWitness

\* The answer appears with the record of the call.
LEMMA KeepsUnrecorded ==
    ASSUME TypeOK, ChainWitness, Unrecorded, Books
    PROVE  Unrecorded'
<1>1. /\ sent \in Nat /\ sent' \in Nat /\ sent' >= sent
  BY SentGrows
<1>2. CASE Quiet \/ Claims \/ Lands \/ Sends \/ Reconciles \/ Unsends
  <2>1. /\ db'.row.outcome = db.row.outcome
        /\ \/ db'.row.state = db.row.state
           \/ db.row.state = "offer_reserved" /\ db'.row.state = "pending"
    BY <1>2 DEF Quiet, Claims, Lands, Sends, Reconciles, Unsends
  <2>. QED
    BY <1>1, <2>1 DEF Unrecorded
<1>3. CASE Holder
  BY <1>1, <1>3 DEF Holder, Moves, Unrecorded
<1>4. CASE Settles
  <2>1. \/ db.row.state = "pending" /\ db'.row.state = "abandoned"
             /\ db'.row.outcome = db.row.outcome
        \/ db'.row.state \in {"reconciliation", "orphaned"}
        \/ /\ db'.row.state = "submitted"
           /\ \E f \in Frontend : attempt[f].obs.at = "ours"
    BY <1>4 DEF Settles, Credits
  <2>. QED
    BY <1>1, <2>1 DEF Unrecorded, ChainWitness
<1>. QED
  BY <1>2, <1>3, <1>4 DEF Books

\* Lane, recovery and reconciler share one first confirmation.
LEMMA KeepsCount ==
    ASSUME TypeOK, CountedOnce, Books
    PROVE  CountedOnce'
<1>1. CASE Quiet \/ Claims \/ Lands \/ Holder \/ Unsends \/ Sends
  BY <1>1 DEF Quiet, Claims, Lands, Holder, Moves, Unsends, Sends, CountedOnce
<1>2. CASE Settles \/ Reconciles
  <2>1. \/ db'.block.published = db.block.published /\ counted' = counted
        \/ /\ db'.block.published
           /\ counted' = IF db.block.published THEN counted ELSE counted + 1
    BY <1>2 DEF Settles, Reconciles, Credits
  <2>. QED
    BY <2>1 DEF CountedOnce
<1>. QED
  BY <1>1, <1>2 DEF Books

\* No block lands while its row is pending again.
LEMMA KeepsLanded ==
    ASSUME TypeOK, TypeOK', OfferInv, OfferInv', OneDatabase, LandedLater,
           Books, \A f \in Frontend : Follows(f)
    PROVE  LandedLater'
<1>. DEFINE InLand(a) == \/ a.pc \in PastOffer
                         \/ a.pc = "claimed" /\ a.state # "pending"
<1>0. /\ \A f \in Frontend : Holding(f) => Kept(db)
      /\ \A f \in Frontend : /\ attempt[f].pc # "idle" <=> attempt[f].token # NoToken
                             /\ attempt'[f].pc # "idle" <=> attempt'[f].token # NoToken
      /\ \A f, g \in Frontend : attempt[f].token = attempt[g].token
                                /\ attempt[f].token # NoToken => f = g
  BY DEF OfferInv, ReservedOnce, Sure, Copies, TokensApart
\* A row that is shown still has its holder.
<1>1. ASSUME NEW g \in Frontend, db'.row.token = attempt'[g].token,
             Holding(g)' \/ InLand(attempt'[g])
      PROVE  /\ db'.row.token # NoToken
             /\ \/ attempt'[g].pc = "claimed" /\ db'.row.state # "pending"
                \/ attempt'[g].token = attempt[g].token
  BY <1>0, <1>1 DEF Follows, Holding, PastOffer
\* Steps that leave the row's state and the block alone.
<1>2. ASSUME db'.row.state = db.row.state,
             db'.row.token \in {db.row.token, NoToken},
             db.block.chain = "none" => db'.block.chain = "none"
      PROVE  LandedLater'
  <2>1. db'.row.state = "pending" => db'.block.chain = "none"
    BY <1>2 DEF LandedLater
  <2>2. ASSUME NEW g \in Frontend, db'.row.token = attempt'[g].token, Holding(g)'
        PROVE  db'.block.chain = "none"
    <3>1. db.row.token = attempt[g].token
      BY <1>1, <1>2, <2>2 DEF Holding
    <3>. QED
      BY <1>2, <2>2, <3>1 DEF LandedLater, Follows
  <2>3. ASSUME NEW g \in Frontend, db'.row.token = attempt'[g].token,
               InLand(attempt'[g])
        PROVE  db'.row.state # "pending"
    <3>1. CASE attempt'[g].pc = "claimed" /\ db'.row.state # "pending"
      BY <3>1
    <3>2. CASE attempt'[g].token = attempt[g].token
      <4>1. db.row.token = attempt[g].token
        BY <1>1, <1>2, <2>3, <3>2
      <4>2. \/ InLand(attempt[g])
            \/ attempt[g].pc = "send"
            \/ db'.row.state = "reconciliation"
            \/ attempt'[g].pc = "claimed" /\ db'.row.state = attempt'[g].state
        BY <2>3 DEF Follows
      <4>3. CASE InLand(attempt[g])
        BY <1>2, <4>1, <4>3 DEF LandedLater
      <4>4. CASE attempt[g].pc = "send"
        BY <1>0, <1>2, <4>4 DEF Holding, Kept
      <4>5. CASE attempt'[g].pc = "claimed" /\ db'.row.state = attempt'[g].state
        BY <2>3, <4>5 DEF PastOffer
      <4>. QED
        BY <4>2, <4>3, <4>4, <4>5
    <3>. QED
      BY <1>1, <2>3, <3>1, <3>2
  <2>. QED
    BY <2>1, <2>2, <2>3 DEF LandedLater
<1>3. CASE Quiet \/ Sends
  BY <1>2, <1>3 DEF Quiet, Sends
<1>4. CASE Claims
  <2>1. PICK f \in Frontend :
          /\ attempt'[f].token = db'.row.token /\ db'.row.token # NoToken
          /\ attempt'[f].pc = "claimed" /\ attempt'[f].state = db.row.state
          /\ \A g \in Frontend \ {f} : /\ attempt'[g] = attempt[g]
                                       /\ attempt[g].token # db'.row.token
    BY <1>4 DEF Claims
  <2>2. db'.row.state = db.row.state /\ db'.block = db.block
    BY <1>4 DEF Claims
  <2>3. ~Holding(f)' /\ (InLand(attempt'[f]) => db'.row.state # "pending")
    BY <2>1, <2>2 DEF Holding, PastOffer
  <2>. QED
    BY <2>1, <2>2, <2>3 DEF LandedLater
<1>5. CASE Lands
  <2>1. PICK f \in Frontend :
          attempt[f].pc = "landing" /\ db.row.token = attempt[f].token
    BY <1>5 DEF Lands
  <2>2. db'.row = db.row /\ db.row.state # "pending"
    BY <1>5, <2>1 DEF Lands, LandedLater, PastOffer
  <2>3. ASSUME NEW g \in Frontend, db'.row.token = attempt'[g].token, Holding(g)'
        PROVE  FALSE
    <3>1. /\ attempt'[g].token = attempt[g].token /\ attempt[g].token # NoToken
      BY <1>1, <2>3 DEF Holding
    <3>2. g = f
      BY <1>0, <2>1, <2>2, <2>3, <3>1
    <3>. QED
      BY <2>1, <2>2, <2>3, <3>2 DEF Follows, Holding
  <2>. QED
    BY <2>2, <2>3 DEF LandedLater
<1>6. CASE Holder
  <2>1. /\ db'.row.state # "pending" /\ db'.row.token = db.row.token
        /\ db'.block = db.block
    BY <1>6 DEF Holder, Moves
  <2>2. ASSUME NEW g \in Frontend, db'.row.token = attempt'[g].token, Holding(g)'
        PROVE  db'.block.chain = "none"
    <3>1. db.row.token = attempt[g].token
      BY <1>1, <2>1, <2>2 DEF Holding
    <3>. QED
      BY <2>1, <2>2, <3>1 DEF LandedLater, Follows
  <2>. QED
    BY <2>1, <2>2 DEF LandedLater
<1>7. CASE Unsends
  <2>1. /\ db'.row.token = NoToken /\ db'.block = db.block
        /\ db.block.chain = "none"
    BY <1>7 DEF Unsends, LandedLater, Holding
  <2>. QED
    BY <1>1, <2>1 DEF LandedLater
<1>8. CASE Settles
  <2>1. db'.row.token = NoToken /\ db'.row.state # "pending"
    BY <1>8 DEF Settles
  <2>. QED
    BY <1>1, <2>1 DEF LandedLater
<1>9. CASE Reconciles
  BY <1>2, <1>9 DEF Reconciles
<1>. QED
  BY <1>3, <1>4, <1>5, <1>6, <1>7, <1>8, <1>9 DEF Books

\* What the steps of one database do to the settled work: a verdict is
\* written only by the newest observation.
LEMMA Applied ==
    ASSUME TypeOK, SettledInOrder, LandedLater, Books
    PROVE  db'.applied = db.applied \/ db'.applied = db.seen
<1>1. CASE Quiet \/ Claims \/ Lands \/ Holder \/ Unsends \/ Sends
  BY <1>1 DEF Quiet, Claims, Lands, Holder, Moves, Unsends, Sends
<1>2. CASE Settles
  <2>1. \/ db'.applied = db.applied
        \/ \E f \in Frontend : /\ attempt[f].pc = "settling"
                               /\ db.revision = attempt[f].obs.revision
                               /\ db'.applied = attempt[f].obs.work
    BY <1>2 DEF Settles, Credits, LandedLater
  <2>. QED
    BY <2>1 DEF SettledInOrder, Sees
<1>3. CASE Reconciles
  BY <1>3 DEF Reconciles, Credits, SettledInOrder, Sees
<1>. QED
  BY <1>1, <1>2, <1>3 DEF Books

\* What an observation is after the step.
SeesNext(o) ==
    /\ o.revision <= db'.revision /\ o.work <= db'.seen
    /\ o.revision = db'.revision => o.work = db'.seen

\* Observations grow old together with the revision that fences them.
LEMMA KeepsOrder ==
    ASSUME TypeOK, TypeOK', SettledInOrder, LandedLater, Books, Onwards,
           Watches, \A f \in Frontend : Follows(f)
    PROVE  SettledInOrder' /\ db'.applied >= db.applied
<1>1. /\ db.applied \in Nat /\ db.seen \in Nat /\ db.revision \in Nat
      /\ db'.applied \in Nat /\ db'.seen \in Nat /\ db'.revision \in Nat
      /\ chain.work \in Nat /\ chain'.work \in Nat
  BY DEF TypeOK, Database, Chain
<1>2. /\ db.applied <= db.seen /\ db.seen <= chain.work
      /\ db'.applied = db.applied \/ db'.applied = db.seen
  BY Applied DEF SettledInOrder
<1>3. /\ db'.applied <= db'.seen /\ db'.seen <= chain'.work
      /\ db'.applied >= db.applied
  BY <1>1, <1>2 DEF Onwards
<1>4. ASSUME NEW o \in Observation, Sees(o)
      PROVE  SeesNext(o)
  <2>1. o.revision \in Nat /\ o.work \in Nat
    BY <1>4 DEF Observation
  <2>. QED
    BY <1>1, <1>4, <2>1 DEF Sees, SeesNext, Onwards
<1>5. ASSUME NEW o, o = Observed(db), db' = RecordTip(db)
      PROVE  SeesNext(o)
  <2>1. /\ o.work = chain.work /\ o.revision = db'.revision
        /\ db'.seen = chain.work
    BY <1>5, DbFacts, RecordTipType DEF Observed
  <2>. QED
    BY <1>1, <2>1 DEF SeesNext
<1>6. ASSUME NEW f \in Frontend, attempt'[f].pc = "settling"
      PROVE  SeesNext(attempt'[f].obs)
  <2>1. attempt[f].obs \in Observation
    BY DEF TypeOK, Attempt
  <2>. QED
    BY <1>4, <1>5, <1>6, <2>1 DEF Follows, SettledInOrder
<1>7. ASSUME reconciler'.busy
      PROVE  SeesNext(reconciler'.obs)
  BY <1>4, <1>5, <1>7, DbFacts DEF Watches, SettledInOrder
<1>. QED
  BY <1>3, <1>6, <1>7 DEF SettledInOrder, Sees, SeesNext

\* The persisted row satisfies the invariant.
LEMMA InitPromise == Init => PromiseInv
<1>. SUFFICES ASSUME Init
              PROVE  PromiseInv
  OBVIOUS
<1>1. \A f \in Frontend :
        attempt[f].pc = "idle" /\ attempt[f].obs.at = "parent"
  BY DEF Init, InitOf, Idle, NoObservation
<1>. QED
  BY <1>1 DEF Init, InitOf, Pending, NoReconcile, NoObservation, PromiseInv,
     ChainWitness, Unrecorded, CountedOnce, LandedLater, SettledInOrder,
     Holding, PastOffer

\* Every step keeps the invariant, and verdicts only get newer.
LEMMA NextPromise ==
    ASSUME TypeOK, OfferInv, PromiseInv, [Next]_vars, OneDatabase
    PROVE  PromiseInv' /\ db'.applied >= db.applied
<1>1. TypeOK' /\ OfferInv'
  BY TNext, NextOffer
<1>2. Books /\ Onwards /\ Watches /\ \A g \in Frontend : Follows(g)
  BY BNext, FNext
<1>. QED
  BY <1>1, <1>2, KeepsWitness, KeepsUnrecorded, KeepsCount, KeepsLanded,
     KeepsOrder DEF PromiseInv

\* The witness, the answer, the count, the landing and the order of the
\* verdicts hold on one database whatever interleaving reaches them.
THEOREM PromiseInvariant ==
    ASSUME MaxFailovers = 0
    PROVE  Spec => [](TypeOK /\ OfferInv /\ PromiseInv)
<1>1. Init => TypeOK /\ OfferInv /\ PromiseInv
  BY TInit, InitOffer, InitPromise
<1>2. TypeOK /\ OfferInv /\ PromiseInv /\ [Next]_vars
        => (TypeOK /\ OfferInv /\ PromiseInv)'
  BY TNext, NextOffer, NextPromise DEF OneDatabase
<1>. QED
  BY <1>1, <1>2, PTL DEF Spec

-----------------------------------------------------------------------------
\* The promise is kept, step by step.

Verdict(d) == IF d.row.state \in Terminal THEN d.row.state ELSE "open"

\* A step that the promise does not see, said of the model's own state.
Unseen ==
    /\ Verdict(db') = Verdict(db)
    /\ db'.row.outcome = "answered" <=> db.row.outcome = "answered"
    /\ UNCHANGED <<sent, counted>>

\* What leaves the mapped state alone is a stutter of the promise.
LEMMA UnseenStutters == Unseen => UNCHANGED Promise!vars
  BY DEF Unseen, Verdict, Promise!vars

\* After a call there was exactly one.
LEMMA SentOnce ==
    ASSUME TypeOK, OfferInv, OneDatabase, sent >= 1
    PROVE  sent = 1 /\ Kept(db)
  BY DEF OfferInv, OfferedOnce, Trusted, Copies

\* The call is the first, and the row is not given up.
LEMMA OffersFirst ==
    ASSUME TypeOK, OfferInv, PromiseInv, OneDatabase, Sends
    PROVE  Promise!Offer
<1>1. PICK f \in Frontend : attempt[f].pc = "send"
  BY DEF Sends
<1>2. sent = 0 /\ Kept(db)
  BY <1>1 DEF OfferInv, ReservedOnce, Holding, Sure, Trusted, Copies
<1>3. sent' = 1 /\ UNCHANGED <<db, counted>>
  BY <1>2 DEF Sends
<1>4. db.row.state \notin {"submitted", "abandoned"}
  BY <1>2 DEF Kept, PromiseInv, Unrecorded
<1>5. db.row.state \in Terminal => db.row.state = "orphaned"
  BY <1>4 DEF Terminal
<1>. QED
  BY <1>2, <1>3, <1>5 DEF Promise!Offer

\* The holder's steps: one of them may be the answer.
LEMMA AnswersOnce ==
    ASSUME TypeOK, OfferInv, PromiseInv, OneDatabase, Holder
    PROVE  Promise!Answer \/ Unseen
<1>1. PICK f \in Frontend :
        \/ Moves(f, "pending", "offer_reserved", db.row.outcome)
        \/ Moves(f, "pending", "reconciliation", "unknown")
        \/ /\ attempt[f].pc = "record"
           /\ Moves(f, "offer_reserved", "offered", attempt[f].outcome)
  BY DEF Holder
<1>2. db.row.state \in {"pending", "offer_reserved"} /\ db.row.outcome = "none"
  BY <1>1 DEF Moves, PromiseInv, Unrecorded
<1>3. /\ db'.row.state \in {"offer_reserved", "reconciliation", "offered"}
      /\ UNCHANGED <<sent, counted>>
  BY <1>1 DEF Moves
<1>4. Verdict(db) = "open" /\ Verdict(db') = "open"
  BY <1>2, <1>3 DEF Verdict
<1>5. CASE db'.row.outcome = "answered"
  <2>1. attempt[f].pc = "record"
    BY <1>1, <1>2, <1>5 DEF Moves
  <2>2. sent = 1
    BY <2>1, SentOnce DEF PromiseInv, ChainWitness
  <2>. QED
    BY <1>3, <1>4, <1>5, <2>2 DEF Promise!Answer, Verdict
<1>6. CASE db'.row.outcome # "answered"
  BY <1>2, <1>3, <1>4, <1>6 DEF Unseen
<1>. QED
  BY <1>5, <1>6

\* A confirmation credits the block if no earlier one did.
LEMMA CreditsOnce ==
    ASSUME TypeOK, OfferInv, PromiseInv, OneDatabase, NEW o, Credits(o),
           sent >= 1
    PROVE  sent = 1 /\ (Promise!Credit \/ counted' = counted)
  BY SentOnce DEF Credits, PromiseInv, CountedOnce, Promise!Credit

\* A settlement is the verdict, or leaves the row open.
LEMMA JudgesOnce ==
    ASSUME TypeOK, OfferInv, PromiseInv, OneDatabase, Settles
    PROVE  Promise!Abandon \/ Promise!Submit \/ Promise!Orphan \/ Unseen
<1>. DEFINE Kept2 == db'.row.outcome = "answered" <=> db.row.outcome = "answered"
<1>0. sent' = sent /\ sent \in Nat
      /\ (db'.row.outcome \in {db.row.outcome, Coalesced(db.row.outcome)} => Kept2)
  BY DbFacts DEF Settles, Coalesced
<1>1. CASE /\ db.row.state = "pending" /\ db'.row.state = "abandoned"
           /\ db'.row.outcome = db.row.outcome /\ counted' = counted
  <2>1. sent = 0
    BY <1>0, <1>1, SentOnce DEF Kept
  <2>2. Verdict(db) = "open" /\ Verdict(db') = "abandoned"
    BY <1>1 DEF Verdict
  <2>. QED
    BY <1>0, <1>1, <2>1, <2>2 DEF Promise!Abandon, Verdict
<1>2. CASE /\ db.row.state \in OfferStates /\ db'.row.state = "reconciliation"
           /\ db'.row.outcome = Coalesced(db.row.outcome) /\ counted' = counted
  <2>1. Verdict(db) = "open" /\ Verdict(db') = "open"
    BY <1>2 DEF Verdict
  <2>. QED
    BY <1>0, <1>2, <2>1 DEF Unseen
<1>3. ASSUME NEW f \in Frontend, attempt[f].pc = "settling",
             db'.row.outcome = Coalesced(db.row.outcome),
             db.row.state \in Unfinished, db'.row.state = "submitted",
             Credits(attempt[f].obs)
      PROVE  Promise!Submit
  <2>1. sent >= 1
    BY <1>3 DEF Credits, PromiseInv, ChainWitness
  <2>2. sent = 1 /\ (Promise!Credit \/ counted' = counted)
    BY <1>3, <2>1, CreditsOnce
  <2>3. Verdict(db) = "open" /\ Verdict(db') = "submitted"
    BY <1>3 DEF Verdict
  <2>4. Kept2
    BY <1>0, <1>3
  <2>. QED
    BY <1>0, <2>2, <2>3, <2>4 DEF Promise!Submit, Verdict
<1>4. ASSUME NEW f \in Frontend,
             db'.row.outcome = Coalesced(db.row.outcome),
             db.row.state \in OfferStates, db'.row.state = "orphaned",
             counted' = counted
      PROVE  Promise!Orphan
  <2>1. Verdict(db) = "open" /\ Verdict(db') = "orphaned"
    BY <1>4 DEF Verdict
  <2>2. Kept2
    BY <1>0, <1>4
  <2>. QED
    BY <1>0, <1>4, <2>1, <2>2 DEF Promise!Orphan, Verdict
<1>. QED
  BY <1>1, <1>2, <1>3, <1>4 DEF Settles

\* The reconciler may be the one to credit.
LEMMA ReconcilesOnce ==
    ASSUME TypeOK, OfferInv, PromiseInv, OneDatabase, Reconciles
    PROVE  Promise!CreditOnly \/ Unseen
<1>1. db'.row = db.row /\ sent' = sent
  BY DEF Reconciles
<1>2. CASE Credits(reconciler.obs)
  <2>1. sent >= 1
    BY <1>2 DEF Credits, PromiseInv, ChainWitness
  <2>2. sent = 1 /\ (Promise!Credit \/ counted' = counted)
    BY <1>2, <2>1, CreditsOnce
  <2>. QED
    BY <1>1, <2>2 DEF Promise!CreditOnly, Unseen, Verdict
<1>3. CASE counted' = counted
  BY <1>1, <1>3 DEF Unseen, Verdict
<1>. QED
  BY <1>2, <1>3 DEF Reconciles

\* Every step is a step of the promise or a stutter.
LEMMA PromiseStep ==
    ASSUME TypeOK, OfferInv, PromiseInv, OneDatabase, Books
    PROVE  [Promise!Next]_(Promise!vars)
<1>1. CASE Quiet \/ Claims \/ Lands
  BY <1>1, UnseenStutters DEF Quiet, Claims, Lands, Unseen, Verdict
<1>2. CASE Unsends
  <2>1. Verdict(db) = "open" /\ Verdict(db') = "open"
    BY <1>2 DEF Unsends, Verdict
  <2>. QED
    BY <1>2, <2>1, UnseenStutters DEF Unsends, Unseen
<1>. QED
  BY <1>1, <1>2, UnseenStutters, OffersFirst, AnswersOnce, JudgesOnce,
     ReconcilesOnce DEF Books, Promise!Next

\* KeepsPromise, for any number of frontends, tokens, faults and tips: the
\* outbox on one database implements OneOffer.
THEOREM PromiseKept ==
    ASSUME MaxFailovers = 0
    PROVE  Spec => KeepsPromise
<1>1. Init => Promise!Init
  BY DEF Init, InitOf, Pending, Promise!Init
<1>2. TypeOK /\ OfferInv /\ PromiseInv /\ [Next]_vars
        => [Promise!Next]_(Promise!vars)
  BY BNext, PromiseStep DEF OneDatabase
<1>. QED
  BY <1>1, <1>2, PromiseInvariant, PTL DEF Spec, KeepsPromise, Promise!Spec

\* NewestVerdict: a verdict from an older tip never overwrites one from a
\* newer tip, the payout revision fencing every settlement.
THEOREM VerdictsInOrder ==
    ASSUME MaxFailovers = 0
    PROVE  Spec => NewestVerdict
<1>1. TypeOK /\ OfferInv /\ PromiseInv /\ [Next]_vars
        => [db'.applied >= db.applied]_vars
  BY NextPromise DEF OneDatabase
<1>. QED
  BY <1>1, PromiseInvariant, PTL DEF Spec, NewestVerdict

-----------------------------------------------------------------------------
\* The carry gate.

\* Between reservation and answer.
Guarded == {"reserved", "waited", "check", "send", "calling"}

\* A gate that moved shows it, or the revision does; a reservation of current
\* work was made before the gate moved.
GateKnown(f) ==
    /\ gate[f].moved =>
         gate[f].fencePending \/ db.revision > Issued \/ ~gate[f].paying
    /\ ~gate[f].moved => gate[f].generation = 0
    /\ attempt[f].generation <= gate[f].generation
    /\ /\ attempt[f].pc \in {"reserved", "waited", "check"}
       /\ attempt[f].current /\ ~kind.leased /\ gate[f].moved
       => gate[f].generation > attempt[f].generation

SentClean(f) ==
    attempt[f].pc \in {"send", "calling"} /\ attempt[f].current /\ ~kind.leased
        => attempt[f].clean

CarryInv ==
    kind.carry => \A f \in Frontend : GateKnown(f) /\ SentClean(f)

\* The types the gate's arithmetic needs.
LEMMA CarryFacts ==
    ASSUME TypeOK
    PROVE  /\ kind.carry \in BOOLEAN /\ db.revision \in Nat
           /\ \A f \in Frontend :
                /\ attempt[f] \in Attempt /\ attempt[f].generation \in Nat
                /\ gate[f] \in Gate /\ gate[f].generation \in Nat
  BY DEF TypeOK, Kind, Database, Attempt, Gate

\* The candidate does not change.
LEMMA KindFixed ==
    ASSUME [Next]_vars
    PROVE  kind' = kind
<1>1. ASSUME NEW f \in Frontend, AttemptStep(f)
      PROVE  kind' = kind
  BY <1>1 DEF AttemptStep, SkipScreen, Screen, RecoverScreen, Adopt, Abandon,
     Reserve, Capture, AwaitStandby, Renew, CarryCheck, SendOffer,
     ReleaseUnsent, CallReturns, RecordOffer, LaneSettle, Land, Landing,
     Settle, FinishSubmitted, Orphan, NotSettled, Reconcile, ReleaseClaim,
     outside
<1>2. ASSUME NEW f \in Frontend,
             \/ Claim(f) \/ Recover(f) \/ TakeOver(f) \/ JournalUnreadable(f)
             \/ OfferNotExecuted(f) \/ Fail(f) \/ Crash(f)
             \/ ReleaseGivesUp(f) \/ SetCarryPaying(f) \/ FenceCarryChange(f)
      PROVE  kind' = kind
  BY <1>2 DEF Claim, Recover, TakeOver, ClaimAs, JournalUnreadable,
     OfferNotExecuted, Fail, Crash, ReleaseGivesUp, SetCarryPaying,
     FenceCarryChange, outside
<1>3. ASSUME \/ AbandonCandidate \/ SetHold \/ ClearHold \/ ReconcileObserve
             \/ ReconcileWrite \/ ReconcileStop \/ ReleaseCarry
             \/ NodeExecutes \/ ChainMoves \/ Replicate \/ Failover
      PROVE  kind' = kind
  BY <1>3 DEF AbandonCandidate, SetHold, ClearHold, ReconcileObserve,
     ReconcileWrite, ReconcileStop, ReleaseCarry, NodeExecutes, ChainMoves,
     Replicate, Failover, outside
<1>. QED
  BY <1>1, <1>2, <1>3 DEF Next, vars

\* A step of one attempt that neither reserves nor sends.
Mild(f) ==
    /\ \A g \in Frontend \ {f} : attempt'[g] = attempt[g]
    /\ attempt'[f].generation \in
         {0, attempt[f].generation, gate[f].generation}
    /\ attempt'[f].pc \notin Guarded

\* A step that neither reserves nor sends keeps the gate's invariant.
LEMMA MildKeeps ==
    ASSUME TypeOK, CarryInv, NEW f \in Frontend,
           Mild(f) \/ UNCHANGED attempt, gate' = gate, kind' = kind,
           kind.carry => db'.revision >= db.revision /\ db'.revision \in Nat
    PROVE  CarryInv'
<1>. SUFFICES ASSUME kind.carry, NEW g \in Frontend
              PROVE  GateKnown(g)' /\ SentClean(g)'
  BY DEF CarryInv
<1>1. GateKnown(g) /\ SentClean(g)
  BY DEF CarryInv
<1>2. CASE attempt'[g] = attempt[g]
  BY <1>1, <1>2, CarryFacts DEF GateKnown, SentClean
<1>3. CASE g = f /\ Mild(f)
  <2>1. /\ attempt'[g].generation <= gate[g].generation
        /\ attempt'[g].pc \notin Guarded
    BY <1>1, <1>3, CarryFacts DEF Mild, GateKnown
  <2>. QED
    BY <1>1, <2>1, CarryFacts DEF GateKnown, SentClean, Guarded
<1>. QED
  BY <1>2, <1>3 DEF Mild

\* The ways to go on that are mild.
LEMMA MildSteps ==
    ASSUME TypeOK, NEW f \in Frontend,
           \/ Done(f) \/ Failed(f) \/ GiveUp(f)
           \/ \E pc \in {"land", "settle", "reconcile"} : Onward(f, pc)
           \/ \E pc \in Step \ Guarded : Goto(f, pc) \/ ObserveTo(f, pc)
    PROVE  Mild(f)
<1>. DEFINE Mildly(a) == /\ a.generation \in {0, attempt[f].generation}
                         /\ a.pc \notin Guarded
<1>0. attempt \in [Frontend -> Attempt] /\ attempt[f] \in Attempt
  BY CarryFacts DEF TypeOK
<1>1. ASSUME NEW a, Mildly(a), attempt' = [attempt EXCEPT ![f] = a]
      PROVE  Mild(f)
  BY <1>0, <1>1 DEF Mild
<1>2. Mildly(Idle) /\ Mildly([Idle EXCEPT !.pc = "failed",
                                          !.token = attempt[f].token])
  BY DEF Idle, Guarded
<1>3. ASSUME NEW pc \in {"land", "settle", "reconcile"}
      PROVE  Mildly([Idle EXCEPT !.pc = pc, !.token = attempt[f].token,
                                 !.recovery = attempt[f].recovery,
                                 !.state = attempt[f].state])
  BY DEF Idle, Guarded
<1>4. ASSUME NEW pc \in Step \ Guarded
      PROVE  /\ Mildly([attempt[f] EXCEPT !.pc = pc])
             /\ Mildly([attempt[f] EXCEPT !.pc = pc, !.obs = Observed(db)])
  BY <1>0 DEF Attempt
<1>. HIDE DEF Mildly
<1>5. CASE Done(f) \/ Failed(f)
  BY <1>1, <1>2, <1>5 DEF Done, Failed
<1>6. ASSUME NEW pc \in {"land", "settle", "reconcile"}, Onward(f, pc)
      PROVE  Mild(f)
  BY <1>1, <1>3, <1>6 DEF Onward
<1>7. ASSUME NEW pc \in Step \ Guarded, Goto(f, pc) \/ ObserveTo(f, pc)
      PROVE  Mild(f)
  <2>1. CASE Goto(f, pc)
    BY <1>1, <1>4, <2>1 DEF Goto
  <2>2. CASE ObserveTo(f, pc)
    BY <1>1, <1>4, <2>2 DEF ObserveTo
  <2>. QED
    BY <1>7, <2>1, <2>2
<1>8. CASE GiveUp(f)
  BY <1>5, <1>6, <1>8 DEF GiveUp
<1>. QED
  BY <1>5, <1>6, <1>7, <1>8

\* The steps that reserve, wait, check and send.
Minded(f) ==
    LET a == attempt[f]
        b == attempt'[f]
    IN  /\ \A g \in Frontend \ {f} : attempt'[g] = attempt[g]
        /\ b.generation = a.generation
        /\ \/ /\ b.pc = "reserved"
              /\ b.current /\ ~kind.leased =>
                   db.revision = Issued /\ ~NotCurrent(f)
           \/ /\ a.pc \in {"reserved", "waited"} /\ b.pc \in {"waited", "check"}
              /\ b.current = a.current
           \/ /\ a.pc = "check" /\ b.pc = "send" /\ b.current = a.current
              /\ kind.carry /\ a.current /\ ~kind.leased =>
                   ~Unsendable(f) /\ claims /\ (~gate[f].moved => b.clean)
           \/ /\ a.pc = "send" /\ b.pc = "calling" /\ b.current = a.current
              /\ b.clean = a.clean

\* Reserving needs a gate at rest, sending the generation reserved at.
LEMMA MindedKeeps ==
    ASSUME TypeOK, CarryInv, NEW f \in Frontend, Minded(f),
           gate' = gate, kind' = kind,
           kind.carry => db'.revision >= db.revision /\ db'.revision \in Nat
    PROVE  CarryInv'
<1>. SUFFICES ASSUME kind.carry, NEW g \in Frontend
              PROVE  GateKnown(g)' /\ SentClean(g)'
  BY DEF CarryInv
<1>1. GateKnown(g) /\ SentClean(g)
  BY DEF CarryInv
<1>2. CASE attempt'[g] = attempt[g]
  BY <1>1, <1>2, CarryFacts DEF GateKnown, SentClean
<1>3. CASE g = f
  <2>. DEFINE a == attempt[g]
              b == attempt'[g]
  <2>1. /\ b.generation = a.generation
        /\ \/ /\ b.pc = "reserved"
              /\ b.current /\ ~kind.leased =>
                   db.revision = Issued /\ ~NotCurrent(g)
           \/ /\ a.pc \in {"reserved", "waited"} /\ b.pc \in {"waited", "check"}
              /\ b.current = a.current
           \/ /\ a.pc = "check" /\ b.pc = "send" /\ b.current = a.current
              /\ kind.carry /\ a.current /\ ~kind.leased =>
                   ~Unsendable(g) /\ claims /\ (~gate[g].moved => b.clean)
           \/ /\ a.pc = "send" /\ b.pc = "calling" /\ b.current = a.current
              /\ b.clean = a.clean
    BY <1>3 DEF Minded
  <2>. HIDE DEF b
  <2>2. CASE /\ b.pc = "reserved"
             /\ b.current /\ ~kind.leased =>
                  db.revision = Issued /\ ~NotCurrent(g)
    <3>1. b.current /\ ~kind.leased => ~gate[g].moved
      BY <1>1, <2>2 DEF GateKnown, NotCurrent
    <3>. QED
      BY <1>1, <2>1, <2>2, <3>1, CarryFacts DEF GateKnown, SentClean, b
  <2>3. CASE /\ a.pc \in {"reserved", "waited"} /\ b.pc \in {"waited", "check"}
             /\ b.current = a.current
    BY <1>1, <2>1, <2>3, CarryFacts DEF GateKnown, SentClean, b
  <2>4. CASE /\ a.pc = "check" /\ b.pc = "send" /\ b.current = a.current
             /\ kind.carry /\ a.current /\ ~kind.leased =>
                  ~Unsendable(g) /\ claims /\ (~gate[g].moved => b.clean)
    <3>1. b.current /\ ~kind.leased => b.clean
      BY <1>1, <2>4, CarryFacts DEF GateKnown, Unsendable
    <3>. QED
      BY <1>1, <2>1, <2>4, <3>1, CarryFacts DEF GateKnown, SentClean, b
  <2>5. CASE /\ a.pc = "send" /\ b.pc = "calling" /\ b.current = a.current
             /\ b.clean = a.clean
    BY <1>1, <2>1, <2>5, CarryFacts DEF GateKnown, SentClean, b
  <2>. QED
    BY <2>1, <2>2, <2>3, <2>4, <2>5
<1>. QED
  BY <1>2, <1>3 DEF Minded

\* Before the reservation every step is mild.
LEMMA BeforeGuard ==
    ASSUME TypeOK, NEW f \in Frontend,
           \/ Claim(f) \/ Recover(f) \/ TakeOver(f) \/ SkipScreen(f)
           \/ Screen(f) \/ RecoverScreen(f) \/ Adopt(f) \/ Abandon(f)
    PROVE  Mild(f) /\ gate' = gate
<1>0. /\ attempt \in [Frontend -> Attempt] /\ attempt[f] \in Attempt
      /\ {"adopt", "abandon", "reserve", "land"} \subseteq Step \ Guarded
      /\ "claimed" \notin Guarded
  BY CarryFacts DEF TypeOK, Step, Guarded
<1>1. gate' = gate
  BY DEF Claim, Recover, TakeOver, ClaimAs, SkipScreen, Screen, RecoverScreen,
     Adopt, Abandon, outside
<1>2. CASE Claim(f) \/ Recover(f) \/ TakeOver(f)
  <2>1. PICK r \in BOOLEAN : ClaimAs(f, r)
    BY <1>2 DEF Claim, Recover, TakeOver
  <2>2. PICK t \in Token : attempt' = [attempt EXCEPT ![f] =
          [Idle EXCEPT !.pc = "claimed", !.token = t,
                       !.recovery = r, !.state = db.row.state]]
    BY <2>1 DEF ClaimAs
  <2>. QED
    BY <1>0, <1>1, <2>2 DEF Mild, Idle
<1>3. CASE SkipScreen(f)
  <2>1. attempt' = [attempt EXCEPT ![f] =
          [@ EXCEPT !.pc = "reserve", !.generation = gate[f].generation]]
    BY <1>3 DEF SkipScreen, ToReserve
  <2>. QED
    BY <1>0, <1>1, <2>1 DEF Mild, Attempt
<1>4. CASE Screen(f)
  <2>1. PICK pc \in {"adopt", "abandon", "reserve"} :
          attempt' = [attempt EXCEPT ![f] =
              [@ EXCEPT !.pc = pc, !.obs = Observed(db),
                        !.generation = gate[f].generation]]
    BY <1>4 DEF Screen
  <2>. QED
    BY <1>0, <1>1, <2>1 DEF Mild, Attempt
<1>5. CASE RecoverScreen(f)
  <2>1. Failed(f) \/ ObserveTo(f, "adopt") \/ ObserveTo(f, "land")
    BY <1>5 DEF RecoverScreen
  <2>. QED
    BY <1>0, <1>1, <2>1, MildSteps
<1>6. CASE Adopt(f) \/ Abandon(f)
  BY <1>1, <1>6, MildSteps DEF Adopt, Abandon, Refused
<1>. QED
  BY <1>2, <1>3, <1>4, <1>5, <1>6

\* The reservation itself.
LEMMA ReserveMinds ==
    ASSUME TypeOK, NEW f \in Frontend, NEW c \in BOOLEAN, ReserveIn(f, c),
           c /\ ~kind.leased => db.revision = Issued /\ ~NotCurrent(f)
    PROVE  Mild(f) \/ Minded(f)
<1>1. CASE Refused(f, {"pending"})
  BY <1>1, MildSteps DEF Refused
<1>2. CASE attempt' = [attempt EXCEPT ![f] =
                        [@ EXCEPT !.pc = "reserved", !.current = c]]
  <2>1. attempt \in [Frontend -> Attempt] /\ attempt[f] \in Attempt
    BY CarryFacts DEF TypeOK
  <2>2. /\ attempt'[f].pc = "reserved" /\ attempt'[f].current = c
        /\ attempt'[f].generation = attempt[f].generation
        /\ \A g \in Frontend \ {f} : attempt'[g] = attempt[g]
    BY <1>2, <2>1 DEF Attempt
  <2>. QED
    BY <2>2 DEF Minded
<1>. QED
  BY <1>1, <1>2 DEF ReserveIn

\* reserve_offer_within, the checks before the call, and the call.
LEMMA InGuard ==
    ASSUME TypeOK, NEW f \in Frontend,
           \/ Reserve(f) \/ Capture(f) \/ AwaitStandby(f) \/ Renew(f)
           \/ CarryCheck(f) \/ JournalUnreadable(f) \/ SendOffer(f)
           \/ OfferNotExecuted(f)
    PROVE  (Mild(f) \/ Minded(f)) /\ gate' = gate
<1>0. /\ attempt \in [Frontend -> Attempt] /\ attempt[f] \in Attempt
      /\ {"abandon", "capture", "unsent"} \subseteq Step \ Guarded
      /\ {"check", "calling", "waited", "send"} \subseteq Step
  BY CarryFacts DEF TypeOK, Step, Guarded
<1>1. gate' = gate
  BY DEF Reserve, Capture, AwaitStandby, Renew, CarryCheck, JournalUnreadable,
     SendOffer, OfferNotExecuted, outside
\* Going on inside the guard changes the phase only.
<1>2. ASSUME NEW pc, Goto(f, pc)
      PROVE  /\ attempt'[f].pc = pc /\ attempt'[f].current = attempt[f].current
             /\ attempt'[f].generation = attempt[f].generation
             /\ attempt'[f].clean = attempt[f].clean
             /\ \A g \in Frontend \ {f} : attempt'[g] = attempt[g]
  BY <1>0, <1>2 DEF Goto, Attempt
<1>3. CASE Reserve(f)
  <2>1. CASE Current(f) /\ ReserveIn(f, TRUE)
    BY <1>1, <2>1, ReserveMinds DEF Current
  <2>2. CASE Failed(f)
    BY <1>1, <2>2, MildSteps
  <2>3. CASE attempt' = [attempt EXCEPT ![f] =
                [@ EXCEPT !.pc = IF kind.capture = "off" THEN "abandon"
                                                         ELSE "capture",
                          !.obs.revision = db.revision]]
    <3>. DEFINE pc == IF kind.capture = "off" THEN "abandon" ELSE "capture"
    <3>1. pc \in Step \ Guarded
      BY <1>0
    <3>. HIDE DEF pc
    <3>2. attempt' = [attempt EXCEPT ![f] =
                        [@ EXCEPT !.pc = pc, !.obs.revision = db.revision]]
      BY <2>3 DEF pc
    <3>3. /\ attempt'[f].pc = pc
          /\ attempt'[f].generation = attempt[f].generation
          /\ \A g \in Frontend \ {f} : attempt'[g] = attempt[g]
      BY <1>0, <3>2 DEF Attempt, Observation
    <3>. QED
      BY <1>1, <3>1, <3>3 DEF Mild
  <2>. QED
    BY <1>3, <2>1, <2>2, <2>3 DEF Reserve
<1>4. CASE Capture(f)
  <2>1. Failed(f) \/ Goto(f, "abandon") \/ ReserveIn(f, FALSE)
    BY <1>4 DEF Capture
  <2>. QED
    BY <1>0, <1>1, <2>1, ReserveMinds, MildSteps
<1>5. CASE AwaitStandby(f)
  <2>. DEFINE b == Flushed(f)
  <2>1. attempt[f].pc = "reserved" /\ attempt' = [attempt EXCEPT ![f] =
                     [@ EXCEPT !.pc = "waited", !.flushed = b]]
    BY <1>5 DEF AwaitStandby, At
  <2>. HIDE DEF b
  <2>2. /\ attempt'[f].pc = "waited" /\ attempt'[f].current = attempt[f].current
        /\ attempt'[f].generation = attempt[f].generation
        /\ \A g \in Frontend \ {f} : attempt'[g] = attempt[g]
    BY <1>0, <2>1 DEF Attempt
  <2>. QED
    BY <1>1, <2>1, <2>2 DEF Minded
<1>6. CASE Renew(f)
  <2>1. CASE Refused(f, Unfinished)
    BY <1>1, <2>1, MildSteps DEF Refused
  <2>2. CASE attempt[f].pc = "waited" /\ Goto(f, "check")
    BY <1>1, <1>2, <2>2 DEF Minded
  <2>. QED
    BY <1>6, <2>1, <2>2 DEF Renew, At
<1>7. CASE CarryCheck(f)
  <2>. DEFINE checked == kind.carry /\ attempt[f].current /\ ~kind.leased
              moved == checked /\ (Unsendable(f) \/ ~claims)
              pc == IF moved THEN "unsent" ELSE "send"
              b == ~gate[f].moved /\ claims
  <2>1. attempt[f].pc = "check" /\ attempt' = [attempt EXCEPT ![f] =
              [@ EXCEPT !.pc = pc, !.clean = b]]
    BY <1>7 DEF CarryCheck, At
  <2>2. /\ checked /\ pc = "send" =>
             ~Unsendable(f) /\ claims /\ (~gate[f].moved => b)
        /\ pc \in {"unsent", "send"}
    OBVIOUS
  <2>. HIDE DEF pc, b
  <2>3. /\ attempt'[f].pc = pc /\ attempt'[f].current = attempt[f].current
        /\ attempt'[f].generation = attempt[f].generation
        /\ attempt'[f].clean = b
        /\ \A g \in Frontend \ {f} : attempt'[g] = attempt[g]
    BY <1>0, <2>1 DEF Attempt
  <2>4. CASE pc = "unsent"
    BY <1>0, <1>1, <2>3, <2>4 DEF Mild
  <2>5. CASE pc = "send"
    BY <1>1, <2>1, <2>2, <2>3, <2>5 DEF Minded
  <2>. QED
    BY <2>2, <2>4, <2>5
<1>8. CASE JournalUnreadable(f) \/ OfferNotExecuted(f)
  BY <1>0, <1>1, <1>8, MildSteps DEF JournalUnreadable, OfferNotExecuted
<1>9. CASE SendOffer(f)
  <2>1. attempt[f].pc = "send" /\ Goto(f, "calling")
    BY <1>9 DEF SendOffer, At
  <2>. QED
    BY <1>1, <1>2, <2>1 DEF Minded
<1>. QED
  BY <1>3, <1>4, <1>5, <1>6, <1>7, <1>8, <1>9

\* After the call every step is mild.
LEMMA AfterGuard ==
    ASSUME TypeOK, NEW f \in Frontend,
           \/ ReleaseUnsent(f) \/ CallReturns(f) \/ RecordOffer(f)
           \/ LaneSettle(f) \/ Land(f) \/ Landing(f) \/ Settle(f)
           \/ FinishSubmitted(f) \/ Orphan(f) \/ NotSettled(f)
           \/ Reconcile(f) \/ ReleaseClaim(f) \/ Fail(f)
           \/ ReleaseGivesUp(f)
    PROVE  Mild(f) /\ gate' = gate
<1>0. /\ attempt \in [Frontend -> Attempt] /\ attempt[f] \in Attempt
      /\ {"land", "landing", "settle", "settling", "record"}
           \subseteq Step \ Guarded
  BY CarryFacts DEF TypeOK, Step, Guarded
<1>1. gate' = gate
  BY DEF ReleaseUnsent, CallReturns, RecordOffer, LaneSettle, Land, Landing,
     Settle, FinishSubmitted, Orphan, NotSettled, Reconcile, ReleaseClaim,
     Fail, ReleaseGivesUp, outside
<1>2. CASE \/ ReleaseUnsent(f) \/ RecordOffer(f) \/ LaneSettle(f)
           \/ Settle(f) \/ FinishSubmitted(f) \/ Orphan(f)
  <2>1. \/ Done(f) \/ Failed(f) \/ Goto(f, "land") \/ Onward(f, "land")
        \/ ObserveTo(f, "settling")
    BY <1>2 DEF ReleaseUnsent, RecordOffer, LaneSettle, Settle,
       FinishSubmitted, Orphan, Refused
  <2>. QED
    BY <1>0, <1>1, <2>1, MildSteps
<1>3. CASE NotSettled(f) \/ Reconcile(f) \/ ReleaseClaim(f)
           \/ Fail(f) \/ ReleaseGivesUp(f)
  <2>1. Done(f) \/ Failed(f) \/ GiveUp(f) \/ Onward(f, "settle")
    BY <1>3 DEF NotSettled, Reconcile, ReleaseClaim, Fail, ReleaseGivesUp,
       Refused
  <2>. QED
    BY <1>0, <1>1, <2>1, MildSteps
<1>4. CASE CallReturns(f)
  <2>1. PICK o \in {"answered", "unknown"} :
          attempt' = [attempt EXCEPT ![f] =
                        [@ EXCEPT !.pc = "record", !.outcome = o]]
    BY <1>4 DEF CallReturns, AfterCall
  <2>. QED
    BY <1>0, <1>1, <2>1 DEF Mild, Attempt
<1>5. CASE Land(f)
  <2>1. Onward(f, "settle") \/ ObserveTo(f, "landing") \/ GiveUp(f)
    BY <1>5 DEF Land
  <2>. QED
    BY <1>0, <1>1, <2>1, MildSteps
<1>6. CASE Landing(f)
  <2>1. \/ Onward(f, "settle") \/ GiveUp(f)
        \/ attempt' = [attempt EXCEPT ![f] = [@ EXCEPT !.pc = "land",
                         !.retried = TRUE, !.obs = NoObservation]]
    BY <1>6 DEF Landing
  <2>2. CASE attempt' = [attempt EXCEPT ![f] = [@ EXCEPT !.pc = "land",
                           !.retried = TRUE, !.obs = NoObservation]]
    BY <1>0, <1>1, <2>2 DEF Mild, Attempt
  <2>. QED
    BY <1>1, <2>1, <2>2, MildSteps
<1>. QED
  BY <1>2, <1>3, <1>4, <1>5, <1>6

\* The gate itself: it moves, its fence follows, its process restarts.
LEMMA GateSteps ==
    ASSUME TypeOK, CarryInv, NEW f \in Frontend, kind' = kind,
           kind.carry => db'.revision >= db.revision /\ db'.revision \in Nat,
           Crash(f) \/ SetCarryPaying(f) \/ FenceCarryChange(f)
    PROVE  CarryInv'
<1>. SUFFICES ASSUME kind.carry, NEW g \in Frontend
              PROVE  GateKnown(g)' /\ SentClean(g)'
  BY DEF CarryInv
<1>0. /\ attempt \in [Frontend -> Attempt] /\ gate \in [Frontend -> Gate]
      /\ GateKnown(g) /\ SentClean(g)
  BY DEF TypeOK, CarryInv
<1>1. CASE Crash(f)
  <2>1. /\ attempt' = [attempt EXCEPT ![f] = Idle]
        /\ gate' = [gate EXCEPT ![f] = [paying |-> FALSE,
                       fencePending |-> FALSE, generation |-> 0, moved |-> TRUE]]
    BY <1>1 DEF Crash, Done
  <2>2. CASE g # f
    <3>1. attempt'[g] = attempt[g] /\ gate'[g] = gate[g]
      BY <1>0, <2>1, <2>2
    <3>. QED
      BY <1>0, <3>1, CarryFacts DEF GateKnown, SentClean
  <2>3. CASE g = f
    <3>1. /\ attempt'[g].generation = 0 /\ attempt'[g].pc = "idle"
          /\ gate'[g].generation = 0 /\ gate'[g].moved
          /\ ~gate'[g].paying
      BY <1>0, <2>1, <2>3 DEF Idle
    <3>. QED
      BY <3>1 DEF GateKnown, SentClean
  <2>. QED
    BY <2>2, <2>3
<1>2. CASE SetCarryPaying(f)
  <2>1. /\ attempt' = attempt
        /\ gate' = [gate EXCEPT ![f] =
              [paying |-> ~@.paying, fencePending |-> TRUE,
               generation |-> @.generation + 1, moved |-> TRUE]]
    BY <1>2 DEF SetCarryPaying
  <2>2. CASE g # f
    <3>1. gate'[g] = gate[g]
      BY <1>0, <2>1, <2>2
    <3>. QED
      BY <1>0, <2>1, <3>1, CarryFacts DEF GateKnown, SentClean
  <2>3. CASE g = f
    <3>1. /\ gate'[g].generation = gate[g].generation + 1
          /\ gate'[g].moved /\ gate'[g].fencePending
      BY <1>0, <2>1, <2>3
    <3>. QED
      BY <1>0, <2>1, <3>1, CarryFacts DEF GateKnown, SentClean
  <2>. QED
    BY <2>2, <2>3
<1>3. CASE FenceCarryChange(f)
  <2>1. /\ attempt' = attempt /\ db' = [db EXCEPT !.revision = @ + 1]
        /\ gate' = [gate EXCEPT ![f] = [@ EXCEPT !.fencePending = FALSE]]
    BY <1>3 DEF FenceCarryChange
  <2>2. db'.revision > Issued
    BY <2>1, CarryFacts DEF TypeOK, Database
  <2>3. /\ gate'[g].generation = gate[g].generation
        /\ gate'[g].moved = gate[g].moved
    BY <1>0, <2>1 DEF Gate
  <2>. QED
    BY <1>0, <2>1, <2>2, <2>3, CarryFacts DEF GateKnown, SentClean
<1>. QED
  BY <1>1, <1>2, <1>3

\* The gates start open and at rest.
LEMMA InitCarry == Init => CarryInv
<1>. SUFFICES ASSUME Init, NEW f \in Frontend
              PROVE  GateKnown(f) /\ SentClean(f)
  BY DEF CarryInv
<1>1. /\ attempt[f].generation = 0 /\ attempt[f].pc = "idle"
      /\ gate[f].generation = 0 /\ ~gate[f].moved
  BY DEF Init, InitOf, Idle
<1>. QED
  BY <1>1 DEF GateKnown, SentClean

\* Every step keeps the gate's invariant.
LEMMA NextCarry == TypeOK /\ CarryInv /\ [Next]_vars => CarryInv'
<1>. SUFFICES ASSUME TypeOK, CarryInv, [Next]_vars
              PROVE  CarryInv'
  OBVIOUS
<1>1. kind' = kind
  BY KindFixed
<1>2. kind.carry => db'.revision >= db.revision /\ db'.revision \in Nat
  BY BNext, TNext, CarryFacts DEF Onwards, TypeOK, Database
<1>3. ASSUME UNCHANGED <<attempt, gate>>
      PROVE  CarryInv'
  BY <1>1, <1>2, <1>3, CarryFacts DEF CarryInv, GateKnown, SentClean
<1>4. ASSUME NEW f \in Frontend, AttemptStep(f)
      PROVE  CarryInv'
  <2>1. (Mild(f) \/ Minded(f)) /\ gate' = gate
    BY <1>4, BeforeGuard, InGuard, AfterGuard DEF AttemptStep
  <2>. QED
    BY <1>1, <1>2, <2>1, MildKeeps, MindedKeeps
<1>5. ASSUME NEW f \in Frontend,
             \/ Claim(f) \/ Recover(f) \/ TakeOver(f) \/ JournalUnreadable(f)
             \/ OfferNotExecuted(f) \/ Fail(f) \/ ReleaseGivesUp(f)
      PROVE  CarryInv'
  <2>1. (Mild(f) \/ Minded(f)) /\ gate' = gate
    BY <1>5, BeforeGuard, InGuard, AfterGuard
  <2>. QED
    BY <1>1, <1>2, <2>1, MildKeeps, MindedKeeps
<1>6. ASSUME NEW f \in Frontend,
             Crash(f) \/ SetCarryPaying(f) \/ FenceCarryChange(f)
      PROVE  CarryInv'
  BY <1>1, <1>2, <1>6, GateSteps
<1>7. ASSUME \/ AbandonCandidate \/ SetHold \/ ClearHold \/ ReconcileObserve
             \/ ReconcileWrite \/ ReconcileStop \/ ReleaseCarry
             \/ NodeExecutes \/ ChainMoves \/ Replicate \/ Failover
      PROVE  CarryInv'
  <2>1. UNCHANGED <<attempt, gate>>
    BY <1>7 DEF AbandonCandidate, SetHold, ClearHold, ReconcileObserve,
       ReconcileWrite, ReconcileStop, ReleaseCarry, NodeExecutes, ChainMoves,
       Replicate, Failover, outside
  <2>. QED
    BY <1>3, <2>1
<1>8. CASE UNCHANGED vars
  BY <1>3, <1>8 DEF vars
<1>. QED
  BY <1>4, <1>5, <1>6, <1>7, <1>8 DEF Next

\* CarrySentClean, for any number of frontends and moves of their gates: a
\* carry-paying block sent as current work meets a gate that never moved
\* since the work was issued, and a journal that still claims ownership.
THEOREM CarryClean == Spec => []CarrySentClean
<1>1. Init => TypeOK /\ CarryInv
  BY TInit, InitCarry
<1>2. TypeOK /\ CarryInv /\ [Next]_vars => (TypeOK /\ CarryInv)'
  BY TNext, NextCarry
<1>3. CarryInv => CarrySentClean
  BY DEF CarryInv, SentClean, CarrySentClean
<1>. QED
  BY <1>1, <1>2, <1>3, PTL DEF Spec

=============================================================================
