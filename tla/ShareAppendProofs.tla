------------------------- MODULE ShareAppendProofs -------------------------
(***************************************************************************)
(* Proofs about ShareAppend, for every number of submissions, of           *)
(* settlements, of faults and of promotions.                               *)
(*                                                                         *)
(* The argument.  The fields of one submission fit together (Fits: the     *)
(* gate says whether COMMIT was sent); one transaction holds ORDER_LOCK,   *)
(* and what it is about to insert is still absent and still of this        *)
(* revision (LockInv); a submission that has not got past its gate, or     *)
(* was refused, has left nothing behind (CleanInv); an insert that was     *)
(* confirmed in time is on the standby (KeptInv).  A step of a submission  *)
(* is quiet or a COMMIT; the others write under ORDER_LOCK or promote.     *)
(* A block's submission moves one way (LandedInv): its gate is never       *)
(* closed, its task never aborted, and when it has nothing left to insert  *)
(* the outbox holds the row or there is an account of why not.             *)
(***************************************************************************)
EXTENDS ShareAppend, TLAPS

-----------------------------------------------------------------------------
\* The inductive invariant.

\* How a submission's fields hang together, whatever the database holds.
Shape(r) ==
    /\ r.pc # "done" => ~r.own
    /\ r.pc = "idle" => r.task = "none"
    /\ r.task = "none" => r.pc = "idle" /\ r.tx = "none" /\ r.gate = "open"
    /\ r.tx = "open" <=> r.task = "hook"
    /\ r.task = "commit" => r.tx = "sent"
    /\ r.tx = "sent" => r.task \in {"commit", "ended"}
    /\ r.task \in {"hook", "contended"} => r.path = "share"
    /\ r.task = "probe" => r.path = "enqueue"
    /\ r.path = "none" => r.task = "none"

\* The gate: COMMIT is sent under a committing gate and no other, which then
\* says how the append ended.
GateShape(r) ==
    /\ r.path # "share" => r.gate = "open"
    /\ r.path = "share" /\ r.tx = "sent" => r.gate = "committing"
    /\ r.gate = "committing" => r.path = "share"
                                  /\ r.task \in {"commit", "ended"}
    /\ r.task \in {"hook", "commit"} /\ r.path = "share" =>
         r.res \in {"inserted", "recorded", "captured"}
    /\ r.task = "commit" /\ r.path = "enqueue" => r.res = "enqueued"
    /\ r.gate = "committing" /\ r.task = "ended" =>
         r.res \in {"inserted", "recorded", "captured", "io", "refused"}
    /\ r.task = "ended" /\ r.tx = "sent" => r.res = "io"
    /\ r.tx # "none" /\ r.res = "inserted" => r.write.share
    /\ r.write.share => r.write.form # "deferred"
    /\ r.own /\ r.code \in Refusals =>
         r.tx # "sent" /\ (r.task = "ended" \/ Closed(r.gate))

\* ORDER_LOCK is held by one transaction; what it is about to insert is not
\* there yet and is decided at the revision that still stands.
LockInv ==
    /\ \A s, t \in Submission :
         sub[s].tx # "none" /\ sub[t].tx # "none" => s = t
    /\ \A s \in Submission :
         sub[s].tx # "none" /\ sub[s].write.share =>
           db.shares = {} /\ db.rev = sub[s].rev
    /\ standby.shares \subseteq db.shares
    /\ ProofCreditedOnce

\* Submissions that have written nothing, on either database.
Clean(r) ==
    \/ r.task \in {"none", "probe", "start"} \/ r.tx = "sent"
    \/ r.path = "share" /\ r.gate # "committing"
    \/ r.task = "ended" /\ r.res \in {"refused", "unheld"}
    \/ r.own /\ r.code \in Refusals

CleanInv ==
    \A s \in Submission :
      Clean(sub[s]) => ~Wrote(s, db) /\ ~Wrote(s, standby)

\* Shares whose COMMIT was answered in time, or that were accepted: they are
\* on both databases.
Kept(r) ==
    \/ /\ r.task = "ended" /\ r.res = "inserted"
       /\ ~r.slow /\ r.gate = "committing"
    \/ r.own /\ r.code = "accepted"

KeptInv == \A s \in Submission : Kept(sub[s]) => standby.shares # {}

Inv == LockInv /\ CleanInv /\ KeptInv

-----------------------------------------------------------------------------
\* Type correctness.

USE AppendAssumption DEF Refusals

\* A submission's record that fits.
Fits(r) == r \in SubmissionState /\ Shape(r) /\ GateShape(r)

\* What a step of submission s does to the records: its own alone, and well.
FitStep(s) ==
    /\ sub' = [sub EXCEPT ![s] = sub'[s]]
    /\ Fits(sub'[s])

\* The fields a submission is given.
LEMMA SpawnType ==
    ASSUME NEW r \in SubmissionState, NEW path \in Paths,
           NEW form \in Forms \cup {"none"}, NEW grace \in BOOLEAN,
           NEW fenced \in BOOLEAN, NEW rev \in Nat,
           NEW task \in {"start", "probe"}
    PROVE  [r EXCEPT !.pc = "wait", !.path = path, !.form = form,
                     !.grace = grace, !.fenced = fenced, !.rev = rev,
                     !.task = task] \in SubmissionState
<1>. DEFINE m == [r EXCEPT !.pc = "wait", !.path = path, !.form = form]
<1>1. m \in SubmissionState
  BY DEF SubmissionState
<1>. HIDE DEF m
<1>2. [m EXCEPT !.grace = grace, !.fenced = fenced, !.rev = rev,
                !.task = task] \in SubmissionState
  BY <1>1 DEF SubmissionState
<1>. QED
  BY <1>2 DEF m

\* Submit: the new submission's record fits.
LEMMA SpawnFits ==
    ASSUME NEW s \in Submission, TypeOK, Fits(sub[s]), Submit(s)
    PROVE  FitStep(s)
<1>1. PICK path \in {"share", "enqueue"}, form \in Forms \cup {"none"},
           grace \in BOOLEAN, fenced \in BOOLEAN :
             Spawn(s, path, form, grace, fenced)
  BY DEF Submit, SubmitCurrent, SubmitLeased, SubmitGrace, SubmitDeferred,
         SubmitBlockOnly, Forms
<1>. DEFINE task == IF path = "share" THEN "start" ELSE "probe"
            n == [sub[s] EXCEPT !.pc = "wait", !.path = path, !.form = form,
                    !.grace = grace, !.fenced = fenced, !.rev = db.rev,
                    !.task = task]
<1>2. sub' = [sub EXCEPT ![s] = n] /\ sub[s].pc = "idle" /\ sub'[s] = n
  BY <1>1 DEF Spawn, TypeOK
<1>3. db.rev \in Nat
  BY DEF TypeOK, Database
<1>4. /\ task \in {"start", "probe"}
      /\ path \in Paths /\ sub[s] \in SubmissionState
  BY DEF Paths, Fits
<1>5. ASSUME NEW rev \in Nat, NEW k \in {"start", "probe"}
      PROVE  [sub[s] EXCEPT !.pc = "wait", !.path = path, !.form = form,
                !.grace = grace, !.fenced = fenced, !.rev = rev,
                !.task = k] \in SubmissionState
  BY <1>4, SpawnType, ZenonT(60)
<1>6. n \in SubmissionState
  BY <1>3, <1>4, <1>5
<1>7. Shape(n) /\ GateShape(n)
  BY <1>2 DEF Fits, SubmissionState, Shape, GateShape
<1>. HIDE DEF n
<1>. QED
  BY <1>2, <1>6, <1>7 DEF FitStep, Fits

\* End: ending a task before COMMIT keeps the record fitting.
LEMMA EndFits ==
    ASSUME NEW s \in Submission, Fits(sub[s]), NEW res \in Results,
           sub[s].task # "none", 
           sub[s].path = "share" /\ sub[s].gate = "committing" =>
             res \in {"inserted", "recorded", "captured", "io", "refused"}
    PROVE  Fits(End(s, res)) 
<1>. DEFINE n == End(s, res)
<1>1. n \in SubmissionState
  BY DEF Fits, End, NoWrite, SubmissionState
<1>2. Shape(n) /\ GateShape(n)
  BY DEF Fits, End, NoWrite, Shape, GateShape, SubmissionState, GateStates,
         Closed, Closures
<1>. QED
  BY <1>1, <1>2 DEF Fits

\* Replacing one submission's record by one that fits.
LEMMA Put ==
    ASSUME NEW s \in Submission, TypeOK, NEW n, Fits(n),
           sub' = [sub EXCEPT ![s] = n]
    PROVE  FitStep(s)
<1>1. sub'[s] = n
  BY DEF TypeOK
<1>. QED
  BY <1>1 DEF FitStep

\* What the statements of an append decide.
LEMMA DecisionFacts ==
    ASSUME NEW s \in Submission, Fits(sub[s]), NEW d \in Decision(s)
    PROVE  /\ d.res \in Results
           /\ d.write \in [share : BOOLEAN, form : Forms \cup {"none"}]
           /\ ~d.ends => d.res \in {"inserted", "recorded", "captured"}
           /\ ~d.ends /\ d.res = "inserted" => d.write.share
           /\ d.write.share => /\ d.write.form # "deferred"
                              /\ db.shares = {} /\ db.rev = sub[s].rev
<1>. DEFINE moved == db.rev # sub[s].rev
            stop(res) == {[ends |-> TRUE, write |-> NoWrite, res |-> res]}
            go(share, form, res) ==
              {[ends |-> FALSE, write |-> [share |-> share, form |-> form],
                res |-> res]}
            row(share, form, res) ==
              (IF db.row = NoRow THEN go(share, form, res)
               ELSE IF db.row.form = form
               THEN go(share, "none", IF share THEN res ELSE "recorded")
               ELSE stop("refused"))
              \cup (IF left.failovers = MaxFailovers THEN {}
                    ELSE stop("unheld"))
<1>1. \/ \E res \in {"moved", "recorded"} : d \in stop(res)
      \/ d \in row(FALSE, "deferred", "captured")
      \/ /\ ~moved /\ sub[s].form = "none"
         /\ d \in go(~Recorded, "none",
                    IF Recorded THEN "recorded" ELSE "inserted")
      \/ /\ ~moved
         /\ d \in row(~Recorded, "credited",
                     IF Recorded THEN "recorded" ELSE "inserted")
  BY DEF Decision, DecisionAt
<1>2. ASSUME NEW res \in Results, d \in stop(res) PROVE
        d.res = res /\ d.write = NoWrite /\ d.ends
  BY <1>2
<1>3. ASSUME NEW share \in BOOLEAN, NEW form \in Forms \cup {"none"},
             NEW res \in Results, d \in go(share, form, res)
      PROVE  /\ d.res = res /\ ~d.ends
             /\ d.write = [share |-> share, form |-> form]
  BY <1>3
<1>4. ASSUME NEW share \in BOOLEAN, NEW form \in Forms, NEW res \in Results,
             d \in row(share, form, res)
      PROVE  \/ d \in stop("refused") \/ d \in stop("unheld")
             \/ d \in go(share, form, res)
             \/ d \in go(share, "none", IF share THEN res ELSE "recorded")
  BY <1>4
<1>. HIDE DEF stop, go, row
<1>5. CASE \E res \in {"moved", "recorded", "refused", "unheld"} :
             d \in stop(res)
  <2>1. PICK res \in {"moved", "recorded", "refused", "unheld"} :
          d \in stop(res)
    BY <1>5
  <2>2. res \in Results
    BY DEF Results
  <2>3. d.res = res /\ d.write = NoWrite /\ d.ends
    BY <1>2, <2>1, <2>2
  <2>4. ~NoWrite.share /\ NoWrite \in [share : BOOLEAN,
                                      form : Forms \cup {"none"}]
    BY DEF NoWrite
  <2>. QED
    BY <2>2, <2>3, <2>4
<1>6. CASE d \in row(FALSE, "deferred", "captured")
  <2>1. \/ d \in stop("refused") \/ d \in stop("unheld")
        \/ d \in go(FALSE, "deferred", "captured")
        \/ d \in go(FALSE, "none", "recorded")
    BY <1>4, <1>6 DEF Forms, Results
  <2>2. CASE d \in go(FALSE, "deferred", "captured")
    <3>1. /\ d.res = "captured" /\ ~d.ends
          /\ d.write = [share |-> FALSE, form |-> "deferred"]
      BY <2>2, <1>3 DEF Forms, Results
    <3>2. ~d.write.share /\ d.write \in [share : BOOLEAN,
                                         form : Forms \cup {"none"}]
      BY <3>1 DEF Forms
    <3>. QED
      BY <3>1, <3>2 DEF Results
  <2>3. CASE d \in go(FALSE, "none", "recorded")
    <3>1. /\ d.res = "recorded" /\ ~d.ends
          /\ d.write = [share |-> FALSE, form |-> "none"]
      BY <2>3, <1>3 DEF Forms, Results
    <3>2. ~d.write.share /\ d.write \in [share : BOOLEAN,
                                         form : Forms \cup {"none"}]
      BY <3>1 DEF Forms
    <3>. QED
      BY <3>1, <3>2 DEF Results
  <2>. QED
    BY <2>1, <2>2, <2>3, <1>5
<1>7. ASSUME ~moved, NEW form \in {"none", "credited"},
             d \in go(~Recorded, form,
                     IF Recorded THEN "recorded" ELSE "inserted")
      PROVE  /\ d.res \in {"recorded", "inserted"} /\ ~d.ends
             /\ d.write = [share |-> ~Recorded, form |-> form]
             /\ d.res = "inserted" => ~Recorded
  BY <1>3, <1>7 DEF Forms, Results, Recorded
<1>8. CASE ~moved /\ \E form \in {"none", "credited"} :
             d \in go(~Recorded, form,
                     IF Recorded THEN "recorded" ELSE "inserted")
  <2>1. PICK form \in {"none", "credited"} :
          d \in go(~Recorded, form,
                  IF Recorded THEN "recorded" ELSE "inserted")
    BY <1>8
  <2>2. /\ d.res \in {"recorded", "inserted"} /\ ~d.ends
        /\ d.write = [share |-> ~Recorded, form |-> form]
        /\ d.res = "inserted" => ~Recorded
    BY <1>7, <1>8, <2>1
  <2>3. /\ d.write.share = ~Recorded /\ d.write.form = form
        /\ d.write \in [share : BOOLEAN, form : Forms \cup {"none"}]
    BY <2>2 DEF Forms
  <2>. QED
    BY <1>8, <2>2, <2>3 DEF Results, Recorded
<1>9. CASE /\ ~moved
           /\ d \in row(~Recorded, "credited",
                       IF Recorded THEN "recorded" ELSE "inserted")
  <2>1. \/ d \in stop("refused") \/ d \in stop("unheld")
        \/ d \in go(~Recorded, "credited",
                   IF Recorded THEN "recorded" ELSE "inserted")
        \/ d \in go(~Recorded, "none",
                   IF Recorded THEN "recorded" ELSE "inserted")
    BY <1>4, <1>9 DEF Forms, Results, Recorded
  <2>. QED
    BY <2>1, <1>5, <1>8, <1>9
<1>. QED
  BY <1>1, <1>5, <1>6, <1>8, <1>9

\* Statements: what they decide fits, and ends or holds ORDER_LOCK.
LEMMA StatementsFits ==
    ASSUME NEW s \in Submission, TypeOK, Fits(sub[s]), Statements(s)
    PROVE  FitStep(s)
<1>1. PICK d \in Decision(s) :
        sub' = [sub EXCEPT ![s] =
                  IF d.ends THEN End(s, d.res)
                  ELSE [sub[s] EXCEPT !.task = "hook", !.tx = "open",
                                 !.write = d.write, !.res = d.res]]
  BY DEF Statements
<1>2. sub[s].path = "share" /\ sub[s].task = "start"
  BY DEF Statements
<1>3. CASE d.ends
  <2>1. Fits(End(s, d.res))
    BY <1>2, DecisionFacts, EndFits DEF Fits, GateShape
  <2>. QED
    BY <1>1, <1>3, <2>1, Put
<1>4. CASE ~d.ends
  <2>. DEFINE n == [sub[s] EXCEPT !.task = "hook", !.tx = "open",
                                  !.write = d.write, !.res = d.res]
  <2>1. n \in SubmissionState
    BY DecisionFacts DEF Fits, SubmissionState
  <2>2. Shape(n) /\ GateShape(n)
    BY <1>2, <1>4, DecisionFacts
    DEF Fits, SubmissionState, Shape, GateShape
  <2>. HIDE DEF n
  <2>3. sub' = [sub EXCEPT ![s] = n]
    BY <1>1, <1>4 DEF n
  <2>. QED
    BY <2>1, <2>2, <2>3, Put DEF Fits
<1>. QED
  BY <1>3, <1>4

\* The gate's transitions: a committing gate stays, a closed one stays
\* closed, and only BeginCommit of an open one commits.
LEMMA GateFacts ==
    ASSUME NEW g \in GateStates
    PROVE  /\ Contend(g) \in GateStates /\ Reopen(g) \in GateStates
           /\ \A c \in {"deadline", "stale", "unavailable"} :
                /\ CloseFor(g, c) \in GateStates
                /\ CloseFor(g, c) = "committing" <=> g = "committing"
                /\ g # "committing" => Closed(CloseFor(g, c))
           /\ Contend(g) = "committing" <=> g = "committing"
           /\ Reopen(g) = "committing" <=> g = "committing"
           /\ Closed(g) => Closed(Contend(g)) /\ Closed(Reopen(g))
  BY DEF GateStates, Closures, Closed, Contend, Reopen, CloseFor

\* RollBack: a gate that refused COMMIT leaves a fitting record.
LEMMA RollBackFits ==
    ASSUME NEW s \in Submission, Fits(sub[s]), sub[s].task = "hook",
           NEW g \in GateStates, g # "committing",
           Closed(sub[s].gate) => Closed(g)
    PROVE  Fits(RollBack(s, g))
<1>1. PICK k \in {"contended", "ended"}, x \in {"recorded", "closed"} :
        /\ RollBack(s, g) =
             [sub[s] EXCEPT !.gate = g, !.tx = "none", !.write = NoWrite,
                            !.task = k, !.res = x]
        /\ k = "contended" => g = "contended"
  BY DEF RollBack
<1>2. sub[s].path = "share" /\ sub[s].pc # "idle"
  BY DEF Fits, Shape
<1>3. RollBack(s, g) \in SubmissionState
  <2>. DEFINE m == [sub[s] EXCEPT !.gate = g, !.tx = "none",
                                  !.write = NoWrite]
  <2>1. m \in SubmissionState
    BY DEF Fits, SubmissionState, NoWrite
  <2>. HIDE DEF m
  <2>2. [m EXCEPT !.task = k, !.res = x] \in SubmissionState
    BY <2>1 DEF SubmissionState, Results
  <2>. QED
    BY <1>1, <2>2 DEF m
<1>4. Shape(RollBack(s, g))
  BY <1>1, <1>2 DEF Fits, SubmissionState, Shape, NoWrite
<1>5. GateShape(RollBack(s, g))
  BY <1>1, <1>2 DEF Fits, SubmissionState, GateShape, NoWrite, Closed,
                    Closures
<1>. QED
  BY <1>3, <1>4, <1>5 DEF Fits

\* Hook: COMMIT is sent behind a committing gate only.
LEMMA HookFits ==
    ASSUME NEW s \in Submission, TypeOK, Fits(sub[s]), Hook(s)
    PROVE  FitStep(s)
<1>1. sub[s].task = "hook" /\ sub[s].path = "share"
      /\ sub[s].gate # "committing" /\ sub[s].gate \in GateStates
  BY DEF Hook, Fits, Shape, GateShape, SubmissionState
<1>. DEFINE n == [sub[s] EXCEPT !.gate = "committing", !.task = "commit",
                                !.tx = "sent"]
<1>2. \/ sub[s].gate = "open" /\ sub' = [sub EXCEPT ![s] = n]
      \/ \E g \in GateStates :
           /\ g # "committing" /\ (Closed(sub[s].gate) => Closed(g))
           /\ sub' = [sub EXCEPT ![s] = RollBack(s, g)]
  <2>1. PICK v \in {"ok", "contended", "stale", "unavailable"} :
          LET gate == CASE v = "ok" -> BeginCommit(sub[s].gate)
                        [] v = "contended" -> Contend(sub[s].gate)
                        [] OTHER -> CloseFor(sub[s].gate, v)
          IN sub' = [sub EXCEPT ![s] =
                       IF v = "ok" /\ sub[s].gate = "open"
                       THEN [sub[s] EXCEPT !.gate = gate, !.task = "commit",
                                           !.tx = "sent"]
                       ELSE RollBack(s, gate)]
    BY DEF Hook
  <2>2. CASE v = "ok" /\ sub[s].gate = "open"
    BY <2>1, <2>2 DEF BeginCommit
  <2>3. CASE v = "ok" /\ sub[s].gate # "open"
    BY <2>1, <2>3, <1>1 DEF BeginCommit
  <2>4. CASE v = "contended"
    BY <2>1, <2>4, <1>1, GateFacts
  <2>5. CASE v \in {"stale", "unavailable"}
    <3>1. sub' = [sub EXCEPT ![s] = RollBack(s, CloseFor(sub[s].gate, v))]
      BY <2>1, <2>5
    <3>. QED
      BY <3>1, <2>5, <1>1, GateFacts
  <2>. QED
    BY <2>2, <2>3, <2>4, <2>5
<1>3. CASE sub[s].gate = "open" /\ sub' = [sub EXCEPT ![s] = n]
  <2>1. n \in SubmissionState
    BY DEF Fits, SubmissionState, GateStates
  <2>2. Shape(n)
    BY <1>1 DEF Fits, SubmissionState, Shape
  <2>3. ~(sub[s].own /\ sub[s].code \in Refusals)
    BY <1>1, <1>3 DEF Fits, GateShape, Closed, Closures
  <2>4. GateShape(n)
    BY <1>1, <2>3 DEF Fits, SubmissionState, Shape, GateShape
  <2>. HIDE DEF n
  <2>. QED
    BY <1>3, <2>1, <2>2, <2>4, Put DEF Fits
<1>4. CASE \E g \in GateStates :
             /\ g # "committing" /\ (Closed(sub[s].gate) => Closed(g))
             /\ sub' = [sub EXCEPT ![s] = RollBack(s, g)]
  BY <1>1, <1>4, RollBackFits, Put
<1>. QED
  BY <1>2, <1>3, <1>4

\* RetryAfterContention: the gate reopens, or the append ends.
LEMMA RetryFits ==
    ASSUME NEW s \in Submission, TypeOK, Fits(sub[s]),
           RetryAfterContention(s)
    PROVE  FitStep(s)
<1>1. /\ sub[s].task = "contended" /\ sub[s].path = "share"
      /\ sub[s].gate # "committing" /\ sub[s].gate \in GateStates
  BY DEF RetryAfterContention, Fits, Shape, GateShape, SubmissionState
<1>2. \E g \in GateStates :
        /\ g # "committing" /\ (Closed(sub[s].gate) => Closed(g))
        /\ sub' = [sub EXCEPT ![s] =
                     IF g = "open"
                     THEN [sub[s] EXCEPT !.gate = g, !.task = "start",
                                         !.res = "none"]
                     ELSE [sub[s] EXCEPT !.gate = g, !.task = "ended",
                                         !.res = "closed"]]
  BY <1>1, GateFacts DEF RetryAfterContention
<1>3. ASSUME NEW g \in GateStates, g # "committing",
             Closed(sub[s].gate) => Closed(g),
             NEW k \in {"start", "ended"}, NEW x \in {"none", "closed"}
      PROVE  Fits([sub[s] EXCEPT !.gate = g, !.task = k, !.res = x])
  <2>. DEFINE n == [sub[s] EXCEPT !.gate = g, !.task = k, !.res = x]
  <2>1. n \in SubmissionState
    BY DEF Fits, SubmissionState, Results
  <2>2. Shape(n)
    BY <1>1 DEF Fits, SubmissionState, Shape
  <2>3. GateShape(n)
    BY <1>1, <1>3 DEF Fits, SubmissionState, Shape, GateShape
  <2>. QED
    BY <2>1, <2>2, <2>3 DEF Fits
<1>. QED
  BY <1>2, <1>3, Put

\* Aborted: an aborted task has sent no COMMIT.
LEMMA AbortedFits ==
    ASSUME NEW s \in Submission, TypeOK, Fits(sub[s]), Aborted(s)
    PROVE  FitStep(s)
<1>1. Fits(End(s, "none"))
  BY EndFits DEF Aborted, Fits, GateShape, Results
<1>. QED
  BY <1>1, Put DEF Aborted

\* ProbeShare keeps the record fitting.
LEMMA ProbeFits ==
    ASSUME NEW s \in Submission, TypeOK, Fits(sub[s]), ProbeShare(s)
    PROVE  FitStep(s)
<1>. DEFINE n == [sub[s] EXCEPT !.task = "start"]
<1>1. sub[s].task = "probe"
  BY DEF ProbeShare
<1>2. Fits(End(s, "recorded"))
  BY <1>1, EndFits DEF Results
<1>3. n \in SubmissionState
  BY DEF Fits, SubmissionState
<1>4. Shape(n) /\ GateShape(n)
  BY <1>1 DEF Fits, SubmissionState, Shape, GateShape
<1>. HIDE DEF n
<1>5. \/ sub' = [sub EXCEPT ![s] = n]
      \/ sub' = [sub EXCEPT ![s] = End(s, "recorded")]
  BY DEF ProbeShare, n
<1>. QED
  BY <1>2, <1>3, <1>4, <1>5, Put DEF Fits

\* Enqueue keeps the record fitting.
LEMMA EnqueueFits ==
    ASSUME NEW s \in Submission, TypeOK, Fits(sub[s]), Enqueue(s)
    PROVE  FitStep(s)
<1>. DEFINE w == [share |-> FALSE, form |-> sub[s].form]
            n == [sub[s] EXCEPT !.task = "commit", !.tx = "sent",
                                !.res = "enqueued", !.write = w]
<1>1. sub[s].task = "start" /\ sub[s].path = "enqueue"
  BY DEF Enqueue
<1>2. Fits(End(s, "recorded")) /\ Fits(End(s, "unheld"))
  BY <1>1, EndFits DEF Results
<1>3. w \in [share : BOOLEAN, form : Forms \cup {"none"}] /\ ~w.share
  BY DEF Fits, SubmissionState
<1>. HIDE DEF w
<1>4. n \in SubmissionState
  BY ZenonT(60), <1>3 DEF Fits, SubmissionState, Results
<1>5. Shape(n)
  BY <1>1, <1>3 DEF Fits, SubmissionState, Shape
<1>6. ~(sub[s].own /\ sub[s].code \in Refusals)
  BY <1>1 DEF Fits, Shape, GateShape, SubmissionState, Closed, Closures
<1>7. GateShape(n)
  BY <1>1, <1>3, <1>6 DEF Fits, SubmissionState, GateShape
<1>. HIDE DEF n
<1>8. \/ sub' = [sub EXCEPT ![s] = n]
      \/ sub' = [sub EXCEPT ![s] = End(s, "recorded")]
      \/ sub' = [sub EXCEPT ![s] = End(s, "unheld")]
  BY DEF Enqueue, n, w
<1>. QED
  BY <1>2, <1>4, <1>5, <1>7, <1>8, Put DEF Fits

\* The end of a transaction that was sent.
LEMMA EndedFits ==
    ASSUME NEW s \in Submission, Fits(sub[s]), sub[s].tx = "sent",
           NEW res \in {sub[s].res, "refused"}, NEW slow \in BOOLEAN
    PROVE  Fits(Ended(s, res, slow))
<1>1. PICK x \in Results :
        /\ Ended(s, res, slow) =
             [sub[s] EXCEPT !.tx = "none", !.write = NoWrite,
                            !.task = "ended", !.slow = slow, !.res = x]
        /\ x \in {sub[s].res, "refused"}
  BY DEF Ended, Fits, SubmissionState, Results
<1>. DEFINE m == [sub[s] EXCEPT !.tx = "none", !.write = NoWrite,
                                !.task = "ended", !.slow = slow, !.res = x]
<1>2. m \in SubmissionState
  BY DEF Fits, SubmissionState, NoWrite
<1>3. Shape(m)
  BY DEF Fits, SubmissionState, Shape, NoWrite
<1>4. GateShape(m)
  BY <1>1 DEF Fits, SubmissionState, Shape, GateShape, NoWrite
<1>. QED
  BY <1>1, <1>2, <1>3, <1>4 DEF Fits

\* Server: the end of a COMMIT keeps the record fitting.
LEMMA ServerFits ==
    ASSUME NEW s \in Submission, TypeOK, Fits(sub[s]), Server(s)
    PROVE  FitStep(s)
<1>1. /\ sub[s].tx = "sent"
      /\ \E res \in {sub[s].res, "refused"}, slow \in BOOLEAN :
           sub' = [sub EXCEPT ![s] = Ended(s, res, slow)]
  BY DEF Server, ServerCommits, ServerCommitsLocally, ServerRefuses
<1>. QED
  BY <1>1, EndedFits, Put

\* Faults: a failed statement or a lost connection does too.
LEMMA FaultsFits ==
    ASSUME NEW s \in Submission, TypeOK, Fits(sub[s]), Faults(s)
    PROVE  FitStep(s)
<1>1. CASE StatementFails(s)
  <2>1. \E res \in {"refused", "io"} : sub' = [sub EXCEPT ![s] = End(s, res)]
    BY <1>1 DEF StatementFails
  <2>2. Fits(End(s, "refused")) /\ Fits(End(s, "io"))
    BY <1>1, EndFits DEF StatementFails, Results
  <2>. QED
    BY <2>1, <2>2, Put
<1>2. CASE ConnectionLost(s)
  <2>. DEFINE n == [sub[s] EXCEPT !.task = "ended", !.res = "io"]
  <2>1. n \in SubmissionState
    BY DEF Fits, SubmissionState, Results
  <2>2. Shape(n) /\ GateShape(n)
    BY <1>2 DEF ConnectionLost, Fits, SubmissionState, Shape, GateShape
  <2>. HIDE DEF n
  <2>3. sub' = [sub EXCEPT ![s] = n]
    BY <1>2 DEF ConnectionLost, n
  <2>. QED
    BY <2>1, <2>2, <2>3, Put DEF Fits
<1>. QED
  BY <1>1, <1>2 DEF Faults

\* An answer: a refusal is the submission's own only once its task has ended
\* without a COMMIT under way, or its gate is closed for good.
LEMMA AnsweredFits ==
    ASSUME NEW s \in Submission, Fits(sub[s]), NEW code \in Codes,
           NEW own \in BOOLEAN, sub[s].pc \notin {"idle", "done"},
           own /\ code \in Refusals =>
             sub[s].tx # "sent" /\ sub[s].task = "ended"
    PROVE  Fits(Answered(s, code, own))
<1>. DEFINE n == [sub[s] EXCEPT !.pc = "done", !.code = code, !.own = own]
<1>1. n \in SubmissionState
  BY DEF Fits, SubmissionState
<1>2. Shape(n) /\ GateShape(n)
  BY DEF Fits, SubmissionState, Shape, GateShape
<1>. QED
  BY <1>1, <1>2 DEF Fits, Answered

\* What an append that ended is answered.
LEMMA OutcomeFacts ==
    ASSUME NEW s \in Submission, Fits(sub[s]), sub[s].path = "share",
           sub[s].task = "ended"
    PROVE  /\ AppendOutcome(s) \in Codes
           /\ AppendOutcome(s) \in Refusals => sub[s].tx # "sent"
           /\ AppendOutcome(s) = "accepted" =>
                /\ sub[s].res = "inserted" /\ ~sub[s].slow
                /\ sub[s].gate = "committing"
           /\ /\ AppendOutcome(s) \in Refusals
              /\ sub[s].gate = "committing"
              /\ sub[s].res # "captured"
              => sub[s].res = "refused"
<1>1. AppendOutcome(s) \in Codes
  BY DEF AppendOutcome, ClosedGateOutcome, Codes
<1>2. sub[s].tx = "sent" => sub[s].gate = "committing" /\ sub[s].res = "io"
  BY DEF Fits, GateShape
<1>3. sub[s].gate = "committing" /\ sub[s].res = "io" =>
        AppendOutcome(s) = "unknown"
  BY DEF AppendOutcome
<1>4. AppendOutcome(s) = "accepted" =>
        /\ sub[s].res = "inserted" /\ ~sub[s].slow
        /\ sub[s].gate = "committing"
  BY DEF AppendOutcome, ClosedGateOutcome, Fits, SubmissionState
<1>5. sub[s].gate = "committing" =>
        sub[s].res \in {"inserted", "recorded", "captured", "io", "refused"}
  BY DEF Fits, GateShape
<1>6. /\ AppendOutcome(s) \in Refusals /\ sub[s].gate = "committing"
      /\ sub[s].res # "captured"
      => sub[s].res = "refused"
  BY <1>5 DEF AppendOutcome
<1>. QED
  BY <1>1, <1>2, <1>3, <1>4, <1>6

\* A wait that becomes another wait.
LEMMA WaitFits ==
    ASSUME NEW s \in Submission, Fits(sub[s]), NEW pc \in {"grace", "settle"},
           sub[s].pc \notin {"idle", "done"}
    PROVE  Fits([sub[s] EXCEPT !.pc = pc])
<1>. DEFINE n == [sub[s] EXCEPT !.pc = pc]
<1>1. n \in SubmissionState
  BY DEF Fits, SubmissionState
<1>2. Shape(n) /\ GateShape(n)
  BY DEF Fits, SubmissionState, Shape, GateShape
<1>. QED
  BY <1>1, <1>2 DEF Fits

\* AppendJoined: the answer to an append that ended fits it.
LEMMA AppendJoinedFits ==
    ASSUME NEW s \in Submission, TypeOK, Fits(sub[s]), AppendJoined(s)
    PROVE  FitStep(s)
<1>1. /\ sub[s].path = "share" /\ sub[s].task = "ended"
      /\ sub[s].pc \notin {"idle", "done"}
  BY DEF AppendJoined
<1>2. \/ sub' = [sub EXCEPT ![s] = Answered(s, AppendOutcome(s), TRUE)]
      \/ sub' = [sub EXCEPT ![s] = Answered(s, "unknown", FALSE)]
      \/ sub' = [sub EXCEPT ![s] = [sub[s] EXCEPT !.pc = "settle"]]
  BY DEF AppendJoined
<1>3. Fits(Answered(s, AppendOutcome(s), TRUE))
  BY <1>1, OutcomeFacts, AnsweredFits
<1>4. Fits(Answered(s, "unknown", FALSE))
  BY <1>1, AnsweredFits DEF Codes
<1>5. Fits([sub[s] EXCEPT !.pc = "settle"])
  BY <1>1, WaitFits
<1>. QED
  BY <1>2, <1>3, <1>4, <1>5, Put

\* Deadline: a refusal at the deadline has closed the gate.
LEMMA DeadlineFits ==
    ASSUME NEW s \in Submission, TypeOK, Fits(sub[s]), Deadline(s)
    PROVE  FitStep(s)
<1>. DEFINE g == CloseFor(sub[s].gate, "deadline")
            c == ClosedGateOutcome(g)
            n == [sub[s] EXCEPT !.pc = "done", !.code = c, !.own = TRUE,
                                !.gate = g, !.doomed = TRUE]
<1>1. /\ sub[s].path = "share" /\ sub[s].pc \notin {"idle", "done"}
      /\ sub[s].gate \in GateStates /\ g \in GateStates
      /\ g = "committing" <=> sub[s].gate = "committing"
  BY GateFacts DEF Deadline, Fits, SubmissionState
<1>2. \/ sub' = [sub EXCEPT ![s] = n] /\ Closed(g)
      \/ sub' = [sub EXCEPT ![s] = Answered(s, "unknown", FALSE)]
      \/ sub' = [sub EXCEPT ![s] = [sub[s] EXCEPT !.pc = "grace"]]
  BY DEF Deadline, Answered
<1>3. Fits(Answered(s, "unknown", FALSE))
  BY <1>1, AnsweredFits DEF Codes
<1>4. Fits([sub[s] EXCEPT !.pc = "grace"])
  BY <1>1, WaitFits
<1>5. c \in Codes
  BY DEF ClosedGateOutcome, Codes
<1>6. ASSUME Closed(g) PROVE Fits(n)
  <2>1. g # "committing" /\ sub[s].gate # "committing"
    BY <1>1, <1>6 DEF Closed, Closures
  <2>2. sub[s].tx # "sent"
    BY <1>1, <2>1 DEF Fits, GateShape
  <2>. HIDE DEF g, c
  <2>3. n \in SubmissionState
    BY <1>1, <1>5 DEF Fits, SubmissionState
  <2>4. Shape(n)
    BY <1>1 DEF Fits, SubmissionState, Shape
  <2>5. GateShape(n)
    BY <1>1, <1>6, <2>1, <2>2 DEF Fits, SubmissionState, Shape, GateShape
  <2>. QED
    BY <2>3, <2>4, <2>5 DEF Fits
<1>. QED
  BY <1>2, <1>3, <1>4, <1>6, Put

\* EnqueueJoined: the answer to an enqueue that ended fits it.
LEMMA EnqueueJoinedFits ==
    ASSUME NEW s \in Submission, TypeOK, Fits(sub[s]), EnqueueJoined(s)
    PROVE  FitStep(s)
<1>1. /\ sub[s].path = "enqueue" /\ sub[s].task = "ended"
      /\ sub[s].pc \notin {"idle", "done"}
  BY DEF EnqueueJoined
<1>2. \/ sub' = [sub EXCEPT ![s] = Answered(s, "duplicate", TRUE)]
      \/ /\ sub[s].res \in {"refused", "unheld"}
         /\ \E code \in {"failed", "stale"} :
              sub' = [sub EXCEPT ![s] = Answered(s, code, TRUE)]
      \/ sub' = [sub EXCEPT ![s] = Answered(s, "stale", FALSE)]
      \/ sub' = [sub EXCEPT ![s] = [sub[s] EXCEPT !.pc = "settle"]]
  BY DEF EnqueueJoined
<1>3. Fits(Answered(s, "duplicate", TRUE)) /\ Fits(Answered(s, "stale", FALSE))
  BY <1>1, AnsweredFits DEF Codes
<1>4. ASSUME sub[s].res \in {"refused", "unheld"},
             NEW code \in {"failed", "stale"}
      PROVE  Fits(Answered(s, code, TRUE))
  <2>1. sub[s].tx # "sent"
    BY <1>1, <1>4 DEF Fits, GateShape
  <2>2. code \in Codes
    BY DEF Codes
  <2>. QED
    BY <1>1, <2>1, <2>2, AnsweredFits
<1>5. Fits([sub[s] EXCEPT !.pc = "settle"])
  BY <1>1, WaitFits
<1>. QED
  BY <1>2, <1>3, <1>4, <1>5, Put

\* Disconnect: an aborted append has a closed gate.
LEMMA DisconnectFits ==
    ASSUME NEW s \in Submission, TypeOK, Fits(sub[s]), Disconnect(s)
    PROVE  FitStep(s)
<1>1. /\ sub[s].pc \notin {"idle", "done"} /\ sub[s].gate \in GateStates
      /\ sub[s].doomed \in BOOLEAN
  BY DEF Disconnect, Fits, SubmissionState
<1>2. \E g \in GateStates, b \in BOOLEAN :
        /\ g # sub[s].gate => /\ sub[s].path = "share" /\ g # "committing"
                              /\ sub[s].gate # "committing"
        /\ sub' = [sub EXCEPT ![s] = [sub[s] EXCEPT !.pc = "gone", !.gate = g,
                                                    !.doomed = b]]
  <2>. DEFINE gate == CloseFor(sub[s].gate, "deadline")
              aborts == /\ sub[s].path = "share" /\ Refusable(s)
                        /\ sub[s].task # "ended" /\ Closed(gate)
  <2>1. /\ gate \in GateStates
        /\ gate = "committing" <=> sub[s].gate = "committing"
    BY <1>1, GateFacts
  <2>2. sub' = [sub EXCEPT ![s] =
                  [sub[s] EXCEPT !.pc = "gone",
                                 !.gate = IF aborts THEN gate ELSE sub[s].gate,
                                 !.doomed = sub[s].doomed \/ aborts]]
    BY DEF Disconnect
  <2>3. Closed(gate) => gate # "committing"
    BY DEF Closed, Closures
  <2>. HIDE DEF gate
  <2>. DEFINE g == IF aborts THEN gate ELSE sub[s].gate
              b == sub[s].doomed \/ aborts
  <2>4. g \in GateStates /\ b \in BOOLEAN
    BY <1>1, <2>1
  <2>5. g # sub[s].gate => /\ sub[s].path = "share" /\ g # "committing"
                           /\ sub[s].gate # "committing"
    BY <2>1, <2>3
  <2>6. sub' = [sub EXCEPT ![s] = [sub[s] EXCEPT !.pc = "gone", !.gate = g,
                                                !.doomed = b]]
    BY <2>2
  <2>. HIDE DEF g, b
  <2>. QED
    BY <2>4, <2>5, <2>6
<1>3. ASSUME NEW g \in GateStates, NEW b \in BOOLEAN,
             g # sub[s].gate => /\ sub[s].path = "share" /\ g # "committing"
                                /\ sub[s].gate # "committing"
      PROVE  Fits([sub[s] EXCEPT !.pc = "gone", !.gate = g, !.doomed = b])
  <2>. DEFINE n == [sub[s] EXCEPT !.pc = "gone", !.gate = g, !.doomed = b]
  <2>1. n \in SubmissionState
    BY DEF Fits, SubmissionState
  <2>2. Shape(n)
    BY <1>1 DEF Fits, SubmissionState, Shape
  <2>3. GateShape(n)
    BY <1>1, <1>3 DEF Fits, SubmissionState, Shape, GateShape
  <2>. QED
    BY <2>1, <2>2, <2>3 DEF Fits
<1>. QED
  BY <1>2, <1>3, Put

\* Every answering step keeps the record fitting.
LEMMA AnswerFits ==
    ASSUME NEW s \in Submission, TypeOK, Fits(sub[s]), Answer(s)
    PROVE  FitStep(s)
<1>1. CASE GraceEnds(s) \/ BoundEnds(s) \/ Poll(s)
  <2>1. /\ sub[s].pc \notin {"idle", "done"}
        /\ \E code \in Codes :
             sub' = [sub EXCEPT ![s] = Answered(s, code, FALSE)]
    <3>1. CASE GraceEnds(s) \/ BoundEnds(s)
      BY <3>1 DEF GraceEnds, BoundEnds, Codes
    <3>2. CASE Poll(s)
      <4>1. \/ sub' = [sub EXCEPT ![s] = Answered(s, "accepted", FALSE)]
            \/ sub' = [sub EXCEPT ![s] = Answered(s, "stale", FALSE)]
            \/ sub' = [sub EXCEPT ![s] = Answered(s, "failed", FALSE)]
        BY <3>2 DEF Poll
      <4>2. sub[s].pc = "settle"
        BY <3>2 DEF Poll
      <4>. QED
        BY <4>1, <4>2 DEF Codes
    <3>. QED
      BY <1>1, <3>1, <3>2
  <2>. QED
    BY <2>1, AnsweredFits, Put
<1>. QED
  BY <1>1, AppendJoinedFits, DeadlineFits, EnqueueJoinedFits, DisconnectFits
  DEF Answer

\* Every step of a submission.
LEMMA SubmissionFits ==
    ASSUME NEW s \in Submission, TypeOK, Fits(sub[s]),
           Submit(s) \/ Task(s) \/ Server(s) \/ Answer(s) \/ Faults(s)
    PROVE  FitStep(s)
  BY SpawnFits, StatementsFits, HookFits, RetryFits, AbortedFits, ProbeFits,
     EnqueueFits, ServerFits, AnswerFits, FaultsFits
  DEF Task

\* What every step keeps of the submissions.
SubFits ==
    /\ sub \in [Submission -> SubmissionState]
    /\ \A s \in Submission : Fits(sub[s])

\* A step that touches one submission keeps the others' records.
LEMMA FitStepAll ==
    ASSUME SubFits, NEW s \in Submission, FitStep(s)
    PROVE  SubFits'
<1>1. sub' \in [Submission -> SubmissionState]
  BY DEF SubFits, FitStep, Fits
<1>2. \A t \in Submission : sub'[t] = sub[t] \/ t = s
  BY DEF SubFits, FitStep
<1>. QED
  BY <1>1, <1>2 DEF SubFits, FitStep

\* Failover: the transactions it ends leave fitting records.
LEMMA FailoverFits ==
    ASSUME SubFits, Failover
    PROVE  SubFits'
<1>1. sub' = [s \in Submission |->
                IF sub[s].tx = "none" THEN sub[s] ELSE End(s, "io")]
  BY DEF Failover
<1>2. ASSUME NEW s \in Submission PROVE Fits(sub'[s])
  <2>1. sub[s].tx # "none" => Fits(End(s, "io"))
    BY EndFits DEF SubFits, Fits, Shape, Results
  <2>. QED
    BY <1>1, <2>1 DEF SubFits
<1>3. sub' \in [Submission -> SubmissionState]
  BY <1>1, <1>2 DEF Fits
<1>. QED
  BY <1>2, <1>3 DEF SubFits

\* The steps that leave the submissions alone.
Around ==
    Bump \/ Offer \/ Abandon \/ Lose \/ Confirm \/ BlockActive \/ TipMoves

\* The steps around the submissions leave them alone.
LEMMA AroundSub ==
    ASSUME Around
    PROVE  UNCHANGED sub
  BY DEF Around, Bump, Offer, Abandon, Lose, RowMoves, Confirm, BlockActive,
         TipMoves

\* Every step keeps every submission's record fitting.
LEMMA NextFits ==
    ASSUME TypeOK, SubFits, [Next]_vars
    PROVE  SubFits'
<1>1. CASE Next
  <2>1. ASSUME NEW s \in Submission,
               Submit(s) \/ Task(s) \/ Server(s) \/ Answer(s) \/ Faults(s)
        PROVE  SubFits'
    BY <2>1, SubmissionFits, FitStepAll DEF SubFits
  <2>2. CASE Failover
    BY <2>2, FailoverFits
  <2>3. CASE Around
    BY <2>3, AroundSub DEF SubFits
  <2>. QED
    BY <1>1, <2>1, <2>2, <2>3 DEF Next, Around
<1>2. CASE UNCHANGED vars
  BY <1>2 DEF vars, SubFits
<1>. QED
  BY <1>1, <1>2

\* Applied: what a COMMIT writes is a database.
LEMMA AppliedType ==
    ASSUME TypeOK, NEW s \in Submission
    PROVE  Applied(s) \in Database
<1>1. sub[s] \in SubmissionState /\ db \in Database
  BY DEF TypeOK
<1>2. /\ sub[s].grace \in BOOLEAN
      /\ sub[s].write \in [share : BOOLEAN, form : Forms \cup {"none"}]
  BY <1>1 DEF SubmissionState
<1>3. [by |-> s, grace |-> sub[s].grace] \in ShareRow
  BY <1>2 DEF ShareRow, Tags
<1>4. sub[s].write.form # "none" =>
        [form |-> sub[s].write.form, by |-> s, state |-> "pending"]
          \in [form : Forms, by : Submission, state : RowStates]
  BY <1>2 DEF RowStates
<1>. DEFINE shares == IF sub[s].write.share
                      THEN db.shares \cup {[by |-> s, grace |-> sub[s].grace]}
                      ELSE db.shares
            row == IF sub[s].write.form # "none"
                   THEN [form |-> sub[s].write.form, by |-> s,
                         state |-> "pending"]
                   ELSE db.row
<1>5. shares \in SUBSET ShareRow
  BY <1>1, <1>3 DEF Database
<1>6. row \in {NoRow} \cup [form : Forms, by : Submission, state : RowStates]
  BY <1>1, <1>4 DEF Database
<1>7. Applied(s) = [db EXCEPT !.shares = shares, !.row = row]
  BY <1>1 DEF Applied, Database
<1>. HIDE DEF shares, row
<1>. QED
  BY <1>1, <1>5, <1>6, <1>7 DEF Database

\* What the steps of a submission do to the databases: nothing, or its COMMIT
\* on the primary, with the standby or without it.
Committed(s) ==
    /\ sub[s].tx = "sent" /\ db' = Applied(s)
    /\ standby' = db' \/ standby' = standby
    /\ sub' = [sub EXCEPT ![s] = Ended(s, sub[s].res, sub'[s].slow)]
    /\ ~sub'[s].slow => standby' = db'
DataStep(s) ==
    /\ UNCHANGED <<proof, tip, active>>
    /\ \/ left' = left
       \/ left.faults > 0 /\ left' = [left EXCEPT !.faults = @ - 1]
    /\ UNCHANGED <<db, standby>> \/ Committed(s)

\* The two ways a COMMIT takes effect.
LEMMA CommitData ==
    ASSUME NEW s \in Submission, TypeOK,
           ServerCommits(s) \/ ServerCommitsLocally(s)
    PROVE  Committed(s)
<1>1. sub \in [Submission -> SubmissionState]
  BY DEF TypeOK
<1>2. ASSUME NEW slow \in BOOLEAN,
             sub' = [sub EXCEPT ![s] = Ended(s, sub[s].res, slow)]
      PROVE  sub'[s].slow = slow
  BY <1>1, <1>2 DEF Ended, SubmissionState
<1>3. CASE ServerCommits(s)
  <2>1. PICK slow \in BOOLEAN :
          sub' = [sub EXCEPT ![s] = Ended(s, sub[s].res, slow)]
    BY <1>3 DEF ServerCommits
  <2>. QED
    BY <1>2, <1>3, <2>1 DEF ServerCommits, Committed
<1>4. CASE ServerCommitsLocally(s)
  BY <1>2, <1>4 DEF ServerCommitsLocally, Committed
<1>. QED
  BY <1>3, <1>4

\* Server: what it does to the databases.
LEMMA ServerData ==
    ASSUME NEW s \in Submission, TypeOK, Server(s)
    PROVE  DataStep(s)
<1>1. CASE ServerRefuses(s)
  BY <1>1 DEF ServerRefuses, DataStep
<1>2. CASE ServerCommits(s) \/ ServerCommitsLocally(s)
  BY <1>2, CommitData DEF ServerCommits, ServerCommitsLocally, DataStep
<1>. QED
  BY <1>1, <1>2 DEF Server

\* The other steps of a submission write neither database.
LEMMA SubmissionData ==
    ASSUME NEW s \in Submission, TypeOK,
           Submit(s) \/ Task(s) \/ Server(s) \/ Answer(s) \/ Faults(s)
    PROVE  DataStep(s)
<1>1. CASE Submit(s)
  BY <1>1 DEF Submit, SubmitCurrent, SubmitLeased, SubmitGrace,
              SubmitDeferred, SubmitBlockOnly, Spawn, DataStep
<1>2. CASE Task(s)
  BY <1>2 DEF Task, Statements, Hook, RetryAfterContention, Aborted,
              ProbeShare, Enqueue, DataStep
<1>3. CASE Answer(s)
  BY <1>3 DEF Answer, AppendJoined, Deadline, GraceEnds, EnqueueJoined,
              BoundEnds, Poll, Disconnect, DataStep
<1>4. CASE Faults(s)
  BY <1>4 DEF Faults, StatementFails, ConnectionLost, DataStep
<1>. QED
  BY <1>1, <1>2, <1>3, <1>4, ServerData

\* A submission's step keeps the databases' types.
LEMMA DataType ==
    ASSUME NEW s \in Submission, TypeOK, DataStep(s),
           sub' \in [Submission -> SubmissionState]
    PROVE  TypeOK'
<1>1. db' \in Database /\ standby' \in Database
  BY AppliedType DEF DataStep, Committed, TypeOK
<1>2. left' \in [faults : 0..MaxFaults, failovers : 0..MaxFailovers]
  BY DEF DataStep, TypeOK
<1>. QED
  BY <1>1, <1>2 DEF TypeOK, DataStep

\* The settlements and the block's way change the primary and the standby
\* alike, or nothing of either.
LEMMA AroundData ==
    ASSUME TypeOK, Around
    PROVE  /\ db' \in Database /\ UNCHANGED left
           /\ UNCHANGED <<db, standby>> \/ (standby' = db' /\ ~OrderHeld)
           /\ db'.shares = db.shares
              \/ (/\ db.shares = {}
                  /\ db'.shares = {[by |-> "settlement", grace |-> FALSE]})
           /\ \A s \in Submission : Wrote(s, db') => Wrote(s, db)
<1>1. db \in Database
  BY DEF TypeOK
<1>2. CASE Bump
  BY <1>1, <1>2 DEF Bump, Write, Database, Wrote
<1>3. ASSUME NEW to \in RowStates, db.row # NoRow, ~OrderHeld,
             db' = [db EXCEPT !.row.state = to], standby' = db',
             UNCHANGED left
      PROVE  /\ db' \in Database /\ UNCHANGED left
             /\ standby' = db' /\ ~OrderHeld
             /\ db'.shares = db.shares
             /\ \A s \in Submission : Wrote(s, db') => Wrote(s, db)
  <2>1. db.row \in [form : Forms, by : Submission, state : RowStates]
    BY <1>1, <1>3 DEF Database
  <2>2. /\ db'.row = [db.row EXCEPT !.state = to] /\ db'.shares = db.shares
        /\ db'.rev = db.rev /\ db' = [db EXCEPT !.row = db'.row]
    BY <1>1, <1>3 DEF Database
  <2>3. /\ db'.row \in [form : Forms, by : Submission, state : RowStates]
        /\ db'.row.by = db.row.by
    BY <2>1, <2>2
  <2>4. db' \in Database
    BY <1>1, <2>2, <2>3 DEF Database
  <2>. QED
    BY <1>3, <2>2, <2>3, <2>4 DEF Wrote
<1>4. CASE Offer \/ Abandon \/ Lose
  BY <1>3, <1>4 DEF Offer, Abandon, Lose, RowMoves, Write, RowStates
<1>5. CASE Confirm
  <2>. DEFINE row == [db.row EXCEPT !.state = "confirmed"]
              shares == IF db.row.form = "deferred" /\ ~Recorded
                        THEN {[by |-> "settlement", grace |-> FALSE]}
                        ELSE db.shares
  <2>1. db.row \in [form : Forms, by : Submission, state : RowStates]
    BY <1>1, <1>5 DEF Database, Confirm
  <2>2. db' = [db EXCEPT !.rev = db.rev + 1, !.row = row, !.shares = shares]
    BY <1>1, <1>5 DEF Confirm, Write, Database
  <2>3. /\ row \in [form : Forms, by : Submission, state : RowStates]
        /\ row.by = db.row.by
    BY <2>1 DEF RowStates
  <2>4. shares = db.shares
        \/ (db.shares = {} /\ shares = {[by |-> "settlement", grace |-> FALSE]})
    BY DEF Recorded
  <2>5. shares \in SUBSET ShareRow
    BY <1>1, <2>4 DEF Database, ShareRow, Tags
  <2>. HIDE DEF row, shares
  <2>6. db' \in Database /\ db'.shares = shares /\ db'.row = row
    <3>1. db.rev + 1 \in Nat
      BY <1>1 DEF Database
    <3>2. ASSUME NEW k \in Nat,
                 NEW w \in [form : Forms, by : Submission, state : RowStates],
                 NEW h \in SUBSET ShareRow,
                 db' = [db EXCEPT !.rev = k, !.row = w, !.shares = h]
          PROVE  db' \in Database /\ db'.shares = h /\ db'.row = w
      BY <1>1, <3>2 DEF Database
    <3>. QED
      BY <2>2, <2>3, <2>5, <3>1, <3>2
  <2>7. ASSUME NEW s \in Submission, Wrote(s, db')
        PROVE  Wrote(s, db)
    <3>1. s # "settlement"
      OBVIOUS
    <3>. QED
      BY <2>3, <2>4, <2>6, <2>7, <3>1, <1>5 DEF Wrote, Confirm
  <2>. QED
    BY <2>4, <2>6, <2>7, <1>5 DEF Confirm, Write
<1>6. CASE BlockActive \/ TipMoves
  BY <1>1, <1>6 DEF BlockActive, TipMoves
<1>. QED
  BY <1>2, <1>3, <1>4, <1>5, <1>6 DEF Around

\* Every step keeps TypeOK.
LEMMA NextType ==
    ASSUME TypeOK, SubFits, [Next]_vars
    PROVE  TypeOK'
<1>1. sub' \in [Submission -> SubmissionState]
  BY NextFits DEF SubFits
<1>2. ASSUME NEW s \in Submission,
             Submit(s) \/ Task(s) \/ Server(s) \/ Answer(s) \/ Faults(s)
      PROVE  TypeOK'
  BY <1>1, <1>2, SubmissionData, DataType
<1>3. CASE Failover
  BY <1>1, <1>3 DEF Failover, TypeOK
<1>4. CASE Around
  <2>1. db' \in Database /\ standby' \in Database /\ left' = left
    BY <1>4, AroundData DEF TypeOK
  <2>2. /\ proof' \in Proofs /\ tip' \in {"parent", "leased", "moved"}
        /\ active' \in BOOLEAN
    BY <1>4 DEF Around, TypeOK, Bump, Offer, Abandon, Lose, RowMoves, Confirm,
                BlockActive, TipMoves
  <2>. QED
    BY <1>1, <2>1, <2>2 DEF TypeOK
<1>5. CASE UNCHANGED vars
  BY <1>5 DEF vars, TypeOK
<1>. QED
  BY <1>2, <1>3, <1>4, <1>5 DEF Next, Around

\* The initial state is typed, and every submission's record fits.
LEMMA InitType ==
    ASSUME Init
    PROVE  TypeOK /\ SubFits
<1>1. NoWrite \in [share : BOOLEAN, form : Forms \cup {"none"}]
  BY DEF NoWrite
<1>2. Fresh \in SubmissionState
  BY <1>1 DEF Fresh, SubmissionState, GateStates, Results, Codes, Paths
<1>3. Shape(Fresh) /\ GateShape(Fresh)
  BY DEF Fresh, NoWrite, Shape, GateShape
<1>4. db \in Database /\ standby \in Database
  BY DEF Init, Database
<1>5. sub \in [Submission -> SubmissionState]
      /\ \A s \in Submission : sub[s] = Fresh
  BY <1>2 DEF Init
<1>6. left \in [faults : 0..MaxFaults, failovers : 0..MaxFailovers]
  BY DEF Init
<1>7. SubFits
  BY <1>2, <1>3, <1>5 DEF SubFits, Fits
<1>. QED
  BY <1>4, <1>5, <1>6, <1>7 DEF Init, TypeOK

-----------------------------------------------------------------------------
\* What a submission's steps do under ORDER_LOCK, and to what it has written.

\* A transaction begins when none is open, with what its statements decided
\* on this database, or goes on with it.
TxKept(s) ==
    sub'[s].tx # "none" =>
      \/ /\ ~OrderHeld
         /\ sub'[s].write.share => db.shares = {} /\ db.rev = sub'[s].rev
      \/ /\ sub[s].tx # "none"
         /\ sub'[s].write = sub[s].write /\ sub'[s].rev = sub[s].rev

\* A step that is no COMMIT: it makes no submission clean or kept.
Quiet(s) ==
    /\ TxKept(s)
    /\ Clean(sub'[s]) => Clean(sub[s])
    /\ Kept(sub'[s]) => Kept(sub[s])

\* End: the fields of the ended record.
LEMMA EndFields ==
    ASSUME NEW s \in Submission, sub[s] \in SubmissionState, NEW res
    PROVE  /\ End(s, res).tx = "none" /\ End(s, res).res = res
           /\ End(s, res).own = sub[s].own /\ End(s, res).code = sub[s].code
  BY DEF End, SubmissionState

\* Ending a transaction, or an append that has none.
LEMMA EndQuiet ==
    ASSUME NEW s \in Submission, SubFits, Clean(sub[s]),
           NEW res \in Results, res # "inserted",
           sub' = [sub EXCEPT ![s] = End(s, res)]
    PROVE  Quiet(s)
<1>1. /\ sub'[s] = End(s, res) /\ sub[s] \in SubmissionState
  BY DEF SubFits
<1>2. /\ sub'[s].tx = "none" /\ sub'[s].res = res
      /\ sub'[s].own = sub[s].own /\ sub'[s].code = sub[s].code
  BY <1>1, EndFields
<1>. QED
  BY <1>2 DEF Quiet, TxKept, Kept

\* Submit commits nothing.
LEMMA SubmitQuiet ==
    ASSUME NEW s \in Submission, SubFits, Submit(s)
    PROVE  Quiet(s)
<1>1. /\ sub[s] \in SubmissionState /\ Fits(sub[s])
      /\ sub \in [Submission -> SubmissionState]
  BY DEF SubFits
<1>2. PICK path, form, grace, fenced : Spawn(s, path, form, grace, fenced)
  BY DEF Submit, SubmitCurrent, SubmitLeased, SubmitGrace, SubmitDeferred,
         SubmitBlockOnly
<1>3. sub[s].task = "none" /\ sub[s].tx = "none" /\ ~sub[s].own
  BY <1>1, <1>2 DEF Spawn, Fits, Shape
<1>. DEFINE task == IF path = "share" THEN "start" ELSE "probe"
<1>4. sub'[s] = [sub[s] EXCEPT !.pc = "wait", !.path = path,
                   !.form = form, !.grace = grace, !.fenced = fenced,
                   !.rev = db.rev, !.task = task]
  BY <1>1, <1>2 DEF Spawn
<1>5. task # "ended"
  OBVIOUS
<1>. HIDE DEF task
<1>6. /\ sub'[s].tx = sub[s].tx /\ sub'[s].own = sub[s].own
      /\ sub'[s].task # "ended"
  BY <1>1, <1>4, <1>5 DEF SubmissionState
<1>. QED
  BY <1>3, <1>6 DEF Quiet, TxKept, Kept, Clean

\* Statements: a transaction opens on what this database holds.
LEMMA StatementsQuiet ==
    ASSUME NEW s \in Submission, SubFits, Statements(s)
    PROVE  Quiet(s)
<1>1. /\ sub[s] \in SubmissionState /\ Fits(sub[s])
      /\ sub \in [Submission -> SubmissionState]
  BY DEF SubFits
<1>2. PICK d \in Decision(s) :
        sub' = [sub EXCEPT ![s] =
                  IF d.ends THEN End(s, d.res)
                  ELSE [sub[s] EXCEPT !.task = "hook", !.tx = "open",
                                      !.write = d.write, !.res = d.res]]
  BY DEF Statements
<1>3. /\ sub[s].task = "start" /\ ~OrderHeld /\ Clean(sub[s])
      /\ sub[s].gate # "committing"
  BY <1>1 DEF Statements, Clean, Fits, GateShape
<1>4. CASE d.ends
  <2>1. sub'[s] = End(s, d.res)
    BY <1>1, <1>2, <1>4
  <2>2. /\ sub'[s].tx = "none" /\ sub'[s].gate = sub[s].gate
        /\ sub'[s].own = sub[s].own /\ sub'[s].code = sub[s].code
    BY <1>1, <2>1 DEF End, SubmissionState
  <2>. QED
    BY <1>3, <2>2 DEF Quiet, TxKept, Kept
<1>5. CASE ~d.ends
  <2>1. sub'[s] = [sub[s] EXCEPT !.task = "hook", !.tx = "open",
                                 !.write = d.write, !.res = d.res]
    BY <1>1, <1>2, <1>5
  <2>2. /\ sub'[s].write = d.write /\ sub'[s].rev = sub[s].rev
        /\ sub'[s].task = "hook"
        /\ sub'[s].own = sub[s].own /\ sub'[s].code = sub[s].code
    BY <1>1, <2>1 DEF SubmissionState
  <2>3. sub'[s].write.share => db.shares = {} /\ db.rev = sub'[s].rev
    BY <1>1, <2>2, DecisionFacts
  <2>. QED
    BY <1>3, <2>2, <2>3 DEF Quiet, TxKept, Kept
<1>. QED
  BY <1>4, <1>5

\* Hook: the transaction goes on, or is rolled back.
LEMMA HookQuiet ==
    ASSUME NEW s \in Submission, SubFits, Hook(s)
    PROVE  Quiet(s)
<1>1. /\ sub[s] \in SubmissionState /\ Fits(sub[s])
      /\ sub \in [Submission -> SubmissionState]
  BY DEF SubFits
<1>2. /\ sub[s].task = "hook" /\ sub[s].tx = "open" /\ Clean(sub[s])
  BY <1>1 DEF Hook, Clean, Fits, Shape, GateShape
<1>3. \E g :
        \/ sub' = [sub EXCEPT ![s] = [sub[s] EXCEPT !.gate = g,
                                        !.task = "commit", !.tx = "sent"]]
        \/ sub' = [sub EXCEPT ![s] = RollBack(s, g)]
  BY DEF Hook
<1>4. ASSUME NEW g,
             sub' = [sub EXCEPT ![s] = [sub[s] EXCEPT !.gate = g,
                                          !.task = "commit", !.tx = "sent"]]
      PROVE  Quiet(s)
  <2>1. sub'[s] = [sub[s] EXCEPT !.gate = g, !.task = "commit", !.tx = "sent"]
    BY <1>1, <1>4
  <2>2. /\ sub'[s].write = sub[s].write /\ sub'[s].rev = sub[s].rev
        /\ sub'[s].task = "commit"
        /\ sub'[s].own = sub[s].own /\ sub'[s].code = sub[s].code
    BY <1>1, <2>1 DEF SubmissionState
  <2>. QED
    BY <1>2, <2>2 DEF Quiet, TxKept, Kept
<1>5. ASSUME NEW g, sub' = [sub EXCEPT ![s] = RollBack(s, g)]
      PROVE  Quiet(s)
  <2>1. sub'[s] = RollBack(s, g)
    BY <1>1, <1>5
  <2>2. /\ sub'[s].tx = "none" /\ sub'[s].res \in {"recorded", "closed"}
        /\ sub'[s].own = sub[s].own /\ sub'[s].code = sub[s].code
    BY <1>1, <2>1 DEF RollBack, SubmissionState
  <2>. QED
    BY <1>2, <2>2 DEF Quiet, TxKept, Kept
<1>. QED
  BY <1>3, <1>4, <1>5

\* RetryAfterContention commits nothing.
LEMMA RetryQuiet ==
    ASSUME NEW s \in Submission, SubFits, RetryAfterContention(s)
    PROVE  Quiet(s)
<1>1. /\ sub[s] \in SubmissionState /\ Fits(sub[s])
      /\ sub \in [Submission -> SubmissionState]
  BY DEF SubFits
<1>2. sub[s].tx = "none" /\ Clean(sub[s])
  BY <1>1 DEF RetryAfterContention, Clean, Fits, Shape, GateShape,
              SubmissionState
<1>3. PICK g :
        sub' = [sub EXCEPT ![s] =
                  IF g = "open"
                  THEN [sub[s] EXCEPT !.gate = g, !.task = "start",
                                      !.res = "none"]
                  ELSE [sub[s] EXCEPT !.gate = g, !.task = "ended",
                                      !.res = "closed"]]
  BY DEF RetryAfterContention
<1>4. \/ sub'[s] = [sub[s] EXCEPT !.gate = g, !.task = "start", !.res = "none"]
      \/ sub'[s] = [sub[s] EXCEPT !.gate = g, !.task = "ended",
                                  !.res = "closed"]
  BY <1>1, <1>3
<1>5. /\ sub'[s].tx = "none" /\ sub'[s].res # "inserted"
      /\ sub'[s].own = sub[s].own /\ sub'[s].code = sub[s].code
  BY ZenonT(60), <1>1, <1>2, <1>4 DEF SubmissionState
<1>. QED
  BY <1>2, <1>5 DEF Quiet, TxKept, Kept

\* ProbeShare commits nothing.
LEMMA ProbeQuiet ==
    ASSUME NEW s \in Submission, SubFits, ProbeShare(s)
    PROVE  Quiet(s)
<1>1. /\ sub[s] \in SubmissionState /\ Fits(sub[s])
      /\ sub \in [Submission -> SubmissionState]
  BY DEF SubFits
<1>2. sub[s].tx = "none" /\ Clean(sub[s])
  BY <1>1 DEF ProbeShare, Clean, Fits, Shape, SubmissionState
<1>3. CASE sub' = [sub EXCEPT ![s] = End(s, "recorded")]
  BY <1>2, <1>3, EndQuiet DEF Results
<1>4. CASE sub' = [sub EXCEPT ![s] = [sub[s] EXCEPT !.task = "start"]]
  <2>1. sub'[s] = [sub[s] EXCEPT !.task = "start"]
    BY <1>1, <1>4
  <2>2. /\ sub'[s].tx = "none" /\ sub'[s].task = "start"
        /\ sub'[s].own = sub[s].own /\ sub'[s].code = sub[s].code
    BY <1>1, <1>2, <2>1 DEF SubmissionState
  <2>. QED
    BY <1>2, <2>2 DEF Quiet, TxKept, Kept
<1>. QED
  BY <1>3, <1>4 DEF ProbeShare

\* Enqueue: its row is decided under ORDER_LOCK.
LEMMA EnqueueQuiet ==
    ASSUME NEW s \in Submission, SubFits, Enqueue(s)
    PROVE  Quiet(s)
<1>1. /\ sub[s] \in SubmissionState /\ Fits(sub[s])
      /\ sub \in [Submission -> SubmissionState]
  BY DEF SubFits
<1>2. Clean(sub[s]) /\ ~OrderHeld
  BY DEF Enqueue, Clean
<1>3. CASE \E res \in {"recorded", "unheld"} :
             sub' = [sub EXCEPT ![s] = End(s, res)]
  BY <1>2, <1>3, EndQuiet DEF Results
<1>. DEFINE w == [share |-> FALSE, form |-> sub[s].form]
<1>4. CASE sub' = [sub EXCEPT ![s] =
                     [sub[s] EXCEPT !.task = "commit", !.tx = "sent",
                                    !.res = "enqueued", !.write = w]]
  <2>1. ~w.share
    OBVIOUS
  <2>. HIDE DEF w
  <2>2. sub'[s] = [sub[s] EXCEPT !.task = "commit", !.tx = "sent",
                                 !.res = "enqueued", !.write = w]
    BY <1>1, <1>4
  <2>3. /\ sub'[s].write = w /\ sub'[s].task = "commit"
        /\ sub'[s].own = sub[s].own /\ sub'[s].code = sub[s].code
    BY <1>1, <2>2 DEF SubmissionState
  <2>. QED
    BY <1>2, <2>1, <2>3 DEF Quiet, TxKept, Kept
<1>. QED
  BY <1>3, <1>4 DEF Enqueue

\* Aborted commits nothing.
LEMMA AbortedQuiet ==
    ASSUME NEW s \in Submission, SubFits, Aborted(s)
    PROVE  Quiet(s)
<1>1. Fits(sub[s])
  BY DEF SubFits
<1>2. Clean(sub[s])
  BY <1>1 DEF Aborted, Clean, Fits, Shape, GateShape
<1>. QED
  BY <1>2, EndQuiet DEF Aborted, Results

\* Faults: neither commits anything.
LEMMA FaultsQuiet ==
    ASSUME NEW s \in Submission, SubFits, Faults(s)
    PROVE  Quiet(s)
<1>1. /\ sub[s] \in SubmissionState /\ Fits(sub[s])
      /\ sub \in [Submission -> SubmissionState]
  BY DEF SubFits
<1>2. CASE StatementFails(s)
  <2>1. \E res \in {"refused", "io"} : sub' = [sub EXCEPT ![s] = End(s, res)]
    BY <1>2 DEF StatementFails
  <2>2. Clean(sub[s])
    BY <1>2 DEF StatementFails, Clean
  <2>. QED
    BY <2>1, <2>2, EndQuiet DEF Results
<1>3. CASE ConnectionLost(s)
  <2>1. sub'[s] = [sub[s] EXCEPT !.task = "ended", !.res = "io"]
    BY <1>1, <1>3 DEF ConnectionLost
  <2>2. sub[s].tx = "sent" /\ Clean(sub[s])
    BY <1>1, <1>3 DEF ConnectionLost, Clean, Fits, Shape
  <2>3. /\ sub'[s].write = sub[s].write /\ sub'[s].rev = sub[s].rev
        /\ sub'[s].res = "io"
        /\ sub'[s].own = sub[s].own /\ sub'[s].code = sub[s].code
    BY <1>1, <2>1 DEF SubmissionState
  <2>. QED
    BY <2>2, <2>3 DEF Quiet, TxKept, Kept
<1>. QED
  BY <1>2, <1>3 DEF Faults

\* ServerRefuses: a COMMIT that was refused wrote nothing.
LEMMA RefusedQuiet ==
    ASSUME NEW s \in Submission, SubFits, ServerRefuses(s)
    PROVE  Quiet(s)
<1>1. /\ sub[s] \in SubmissionState /\ Fits(sub[s])
      /\ sub \in [Submission -> SubmissionState]
  BY DEF SubFits
<1>2. /\ Clean(sub[s]) /\ sub[s].tx = "sent"
      /\ sub[s].task # "commit" => sub[s].res = "io"
  BY <1>1 DEF ServerRefuses, Clean, Fits, Shape, GateShape
<1>3. sub'[s] = Ended(s, "refused", FALSE)
  BY <1>1 DEF ServerRefuses
<1>4. /\ sub'[s].tx = "none" /\ sub'[s].res # "inserted"
      /\ sub'[s].own = sub[s].own /\ sub'[s].code = sub[s].code
  BY <1>1, <1>2, <1>3 DEF Ended, SubmissionState
<1>. QED
  BY <1>2, <1>4 DEF Quiet, TxKept, Kept

\* The fields an answer leaves alone.
Same(r, q) ==
    /\ r.tx = q.tx /\ r.write = q.write /\ r.rev = q.rev /\ r.task = q.task
    /\ r.res = q.res /\ r.path = q.path /\ r.slow = q.slow

\* An answer is quiet when it claims no more than the task has shown.
LEMMA SameQuiet ==
    ASSUME NEW s \in Submission, SubFits, Same(sub'[s], sub[s]),
           sub'[s].gate = sub[s].gate,
           sub'[s].own /\ sub'[s].code \in Refusals => Clean(sub[s]),
           sub'[s].own /\ sub'[s].code = "accepted" => Kept(sub[s])
    PROVE  Quiet(s)
  BY DEF Same, Quiet, TxKept, Clean, Kept

\* Answered: it leaves the task's fields alone.
LEMMA AnsweredSame ==
    ASSUME NEW s \in Submission, SubFits, NEW code, NEW own,
           sub' = [sub EXCEPT ![s] = Answered(s, code, own)]
    PROVE  /\ Same(sub'[s], sub[s]) /\ sub'[s].gate = sub[s].gate
           /\ sub'[s].own = own /\ sub'[s].code = code
<1>1. sub[s] \in SubmissionState /\ sub'[s] = Answered(s, code, own)
  BY DEF SubFits
<1>2. ASSUME NEW r \in SubmissionState, NEW q,
             q = [r EXCEPT !.pc = "done", !.code = code, !.own = own]
      PROVE  Same(q, r) /\ q.gate = r.gate /\ q.own = own /\ q.code = code
  BY <1>2 DEF Same, SubmissionState
<1>. QED
  BY <1>1, <1>2 DEF Answered

\* A change of pc alone is quiet.
LEMMA WaitQuiet ==
    ASSUME NEW s \in Submission, SubFits, NEW pc,
           sub' = [sub EXCEPT ![s] = [sub[s] EXCEPT !.pc = pc]],
           sub[s].pc # "done"
    PROVE  Quiet(s)
<1>1. /\ sub[s] \in SubmissionState /\ ~sub[s].own
      /\ sub'[s] = [sub[s] EXCEPT !.pc = pc]
  BY DEF SubFits, Fits, Shape
<1>2. ASSUME NEW r \in SubmissionState, NEW q, q = [r EXCEPT !.pc = pc]
      PROVE  Same(q, r) /\ q.gate = r.gate /\ q.own = r.own
  BY <1>2 DEF Same, SubmissionState
<1>. QED
  BY <1>1, <1>2, SameQuiet

\* AppendJoined refuses what wrote nothing, accepts what is kept.
LEMMA AppendJoinedQuiet ==
    ASSUME NEW s \in Submission, SubFits, AppendJoined(s)
    PROVE  Quiet(s)
<1>1. /\ sub[s].path = "share" /\ sub[s].task = "ended" /\ Fits(sub[s])
      /\ sub[s].pc # "done"
  BY DEF AppendJoined, SubFits
<1>2. \/ /\ sub[s].res # "captured"
         /\ sub' = [sub EXCEPT ![s] = Answered(s, AppendOutcome(s), TRUE)]
      \/ sub' = [sub EXCEPT ![s] = Answered(s, "unknown", FALSE)]
      \/ sub' = [sub EXCEPT ![s] = [sub[s] EXCEPT !.pc = "settle"]]
  BY DEF AppendJoined
<1>3. CASE /\ sub[s].res # "captured"
           /\ sub' = [sub EXCEPT ![s] = Answered(s, AppendOutcome(s), TRUE)]
  <2>1. AppendOutcome(s) \in Refusals => Clean(sub[s])
    BY <1>1, <1>3, OutcomeFacts DEF Clean
  <2>2. AppendOutcome(s) = "accepted" => Kept(sub[s])
    BY <1>1, OutcomeFacts DEF Kept
  <2>. QED
    BY <1>3, <2>1, <2>2, AnsweredSame, SameQuiet
<1>4. CASE sub' = [sub EXCEPT ![s] = Answered(s, "unknown", FALSE)]
  BY <1>4, AnsweredSame, SameQuiet
<1>5. CASE sub' = [sub EXCEPT ![s] = [sub[s] EXCEPT !.pc = "settle"]]
  BY <1>1, <1>5, WaitQuiet
<1>. QED
  BY <1>2, <1>3, <1>4, <1>5

\* EnqueueJoined refuses what wrote nothing.
LEMMA EnqueueJoinedQuiet ==
    ASSUME NEW s \in Submission, SubFits, EnqueueJoined(s)
    PROVE  Quiet(s)
<1>1. sub[s].task = "ended" /\ sub[s].pc # "done"
  BY DEF EnqueueJoined
<1>2. \/ sub' = [sub EXCEPT ![s] = Answered(s, "duplicate", TRUE)]
      \/ /\ sub[s].res \in {"refused", "unheld"}
         /\ \E code \in {"failed", "stale"} :
              sub' = [sub EXCEPT ![s] = Answered(s, code, TRUE)]
      \/ sub' = [sub EXCEPT ![s] = Answered(s, "stale", FALSE)]
      \/ sub' = [sub EXCEPT ![s] = [sub[s] EXCEPT !.pc = "settle"]]
  BY DEF EnqueueJoined
<1>3. CASE sub' = [sub EXCEPT ![s] = Answered(s, "duplicate", TRUE)]
  <2>1. /\ Same(sub'[s], sub[s]) /\ sub'[s].gate = sub[s].gate
        /\ sub'[s].code = "duplicate"
    BY <1>3, AnsweredSame
  <2>. QED
    BY <2>1, SameQuiet
<1>4. CASE /\ sub[s].res \in {"refused", "unheld"}
           /\ \E code \in {"failed", "stale"} :
                sub' = [sub EXCEPT ![s] = Answered(s, code, TRUE)]
  <2>1. Clean(sub[s])
    BY <1>1, <1>4 DEF Clean
  <2>2. PICK code \in {"failed", "stale"} :
          sub' = [sub EXCEPT ![s] = Answered(s, code, TRUE)]
    BY <1>4
  <2>3. /\ Same(sub'[s], sub[s]) /\ sub'[s].gate = sub[s].gate
        /\ sub'[s].code = code
    BY <2>2, AnsweredSame
  <2>. QED
    BY <2>1, <2>3, SameQuiet
<1>5. CASE sub' = [sub EXCEPT ![s] = Answered(s, "stale", FALSE)]
  BY <1>5, AnsweredSame, SameQuiet
<1>6. CASE sub' = [sub EXCEPT ![s] = [sub[s] EXCEPT !.pc = "settle"]]
  BY <1>1, <1>6, WaitQuiet
<1>. QED
  BY <1>2, <1>3, <1>4, <1>5, <1>6

\* An answer or a disconnection that closes a gate that is not committing.
LEMMA ClosingQuiet ==
    ASSUME NEW s \in Submission, SubFits, Same(sub'[s], sub[s]),
           sub[s].path = "share", sub[s].gate # "committing",
           sub'[s].gate # "committing",
           sub'[s].own => sub'[s].code # "accepted"
    PROVE  Quiet(s)
<1>1. Clean(sub[s])
  BY DEF Clean
<1>. QED
  BY <1>1 DEF Same, Quiet, TxKept, Kept

\* Deadline refuses an append whose COMMIT was not sent.
LEMMA DeadlineQuiet ==
    ASSUME NEW s \in Submission, SubFits, Deadline(s)
    PROVE  Quiet(s)
<1>. DEFINE g == CloseFor(sub[s].gate, "deadline")
            c == ClosedGateOutcome(g)
<1>1. /\ sub[s].path = "share" /\ sub[s].pc # "done"
      /\ sub[s] \in SubmissionState /\ sub[s].gate \in GateStates
      /\ sub \in [Submission -> SubmissionState]
  BY DEF Deadline, SubFits, SubmissionState
<1>2. \/ /\ Closed(g)
         /\ sub' = [sub EXCEPT ![s] =
                      [sub[s] EXCEPT !.pc = "done", !.code = c, !.own = TRUE,
                                     !.gate = g, !.doomed = TRUE]]
      \/ sub' = [sub EXCEPT ![s] = Answered(s, "unknown", FALSE)]
      \/ sub' = [sub EXCEPT ![s] = [sub[s] EXCEPT !.pc = "grace"]]
  BY DEF Deadline, Answered
<1>3. CASE sub' = [sub EXCEPT ![s] = Answered(s, "unknown", FALSE)]
  BY <1>3, AnsweredSame, SameQuiet
<1>4. CASE sub' = [sub EXCEPT ![s] = [sub[s] EXCEPT !.pc = "grace"]]
  BY <1>1, <1>4, WaitQuiet
<1>5. CASE /\ Closed(g)
           /\ sub' = [sub EXCEPT ![s] =
                        [sub[s] EXCEPT !.pc = "done", !.code = c, !.own = TRUE,
                                       !.gate = g, !.doomed = TRUE]]
  <2>1. g # "committing" /\ sub[s].gate # "committing" /\ c # "accepted"
    BY <1>1, <1>5, GateFacts DEF Closed, Closures, ClosedGateOutcome
  <2>. HIDE DEF g, c
  <2>2. sub'[s] = [sub[s] EXCEPT !.pc = "done", !.code = c, !.own = TRUE,
                                 !.gate = g, !.doomed = TRUE]
    BY <1>1, <1>5
  <2>3. ASSUME NEW r \in SubmissionState, NEW q,
               q = [r EXCEPT !.pc = "done", !.code = c, !.own = TRUE,
                             !.gate = g, !.doomed = TRUE]
        PROVE  Same(q, r) /\ q.gate = g /\ q.code = c
    BY <2>3 DEF Same, SubmissionState
  <2>. QED
    BY <1>1, <2>1, <2>2, <2>3, ClosingQuiet
<1>. QED
  BY <1>2, <1>3, <1>4, <1>5

\* Disconnect answers nothing.
LEMMA DisconnectQuiet ==
    ASSUME NEW s \in Submission, SubFits, Disconnect(s)
    PROVE  Quiet(s)
<1>. DEFINE gate == CloseFor(sub[s].gate, "deadline")
            aborts == /\ sub[s].path = "share" /\ Refusable(s)
                      /\ sub[s].task # "ended" /\ Closed(gate)
            g == IF aborts THEN gate ELSE sub[s].gate
            b == sub[s].doomed \/ aborts
<1>1. /\ sub[s] \in SubmissionState /\ sub[s].gate \in GateStates
      /\ sub \in [Submission -> SubmissionState] /\ ~sub[s].own
  BY DEF Disconnect, SubFits, SubmissionState, Fits, Shape
<1>2. sub'[s] = [sub[s] EXCEPT !.pc = "gone", !.gate = g, !.doomed = b]
  BY <1>1 DEF Disconnect
<1>3. \/ g = sub[s].gate
      \/ /\ sub[s].path = "share" /\ g # "committing"
         /\ sub[s].gate # "committing"
  BY <1>1, GateFacts DEF Closed, Closures
<1>. HIDE DEF g, b
<1>4. ASSUME NEW r \in SubmissionState, NEW q,
             q = [r EXCEPT !.pc = "gone", !.gate = g, !.doomed = b]
      PROVE  Same(q, r) /\ q.gate = g /\ q.own = r.own
  BY <1>4 DEF Same, SubmissionState
<1>5. Same(sub'[s], sub[s]) /\ sub'[s].gate = g /\ ~sub'[s].own
  BY <1>1, <1>2, <1>4
<1>. QED
  BY <1>3, <1>5, SameQuiet, ClosingQuiet

\* Every answering step is quiet.
LEMMA AnswerQuiet ==
    ASSUME NEW s \in Submission, SubFits, Answer(s)
    PROVE  Quiet(s)
<1>1. ASSUME NEW code, sub' = [sub EXCEPT ![s] = Answered(s, code, FALSE)]
      PROVE  Quiet(s)
  <2>1. /\ Same(sub'[s], sub[s]) /\ sub'[s].gate = sub[s].gate
        /\ ~sub'[s].own
    BY <1>1, AnsweredSame
  <2>. QED
    BY <2>1, SameQuiet
<1>2. CASE GraceEnds(s) \/ BoundEnds(s) \/ Poll(s)
  <2>1. \/ sub' = [sub EXCEPT ![s] = Answered(s, "unknown", FALSE)]
        \/ sub' = [sub EXCEPT ![s] = Answered(s, "accepted", FALSE)]
        \/ sub' = [sub EXCEPT ![s] = Answered(s, "stale", FALSE)]
        \/ sub' = [sub EXCEPT ![s] = Answered(s, "failed", FALSE)]
    BY <1>2 DEF GraceEnds, BoundEnds, Poll
  <2>. QED
    BY <1>1, <2>1
<1>. QED
  BY <1>2, AppendJoinedQuiet, DeadlineQuiet, EnqueueJoinedQuiet,
     DisconnectQuiet
  DEF Answer

\* Every step of a submission is quiet or is its COMMIT.
LEMMA SubmissionStep ==
    ASSUME NEW s \in Submission, TypeOK, SubFits,
           Submit(s) \/ Task(s) \/ Server(s) \/ Answer(s) \/ Faults(s)
    PROVE  (Quiet(s) /\ UNCHANGED <<db, standby>>) \/ Committed(s)
<1>1. UNCHANGED <<db, standby>> \/ Committed(s)
  BY SubmissionData DEF DataStep
<1>2. CASE Server(s)
  <2>1. CASE ServerRefuses(s)
    BY <2>1, RefusedQuiet DEF ServerRefuses
  <2>2. CASE ServerCommits(s) \/ ServerCommitsLocally(s)
    BY <2>2, CommitData
  <2>. QED
    BY <1>2, <2>1, <2>2 DEF Server
<1>3. CASE ~Server(s)
  BY <1>1, <1>3, SubmitQuiet, StatementsQuiet, HookQuiet, RetryQuiet,
     AbortedQuiet, ProbeQuiet, EnqueueQuiet, AnswerQuiet, FaultsQuiet
  DEF Task
<1>. QED
  BY <1>2, <1>3

-----------------------------------------------------------------------------
\* The invariant.

\* A quiet step of a submission keeps the invariant.
LEMMA QuietInv ==
    ASSUME SubFits, Inv, NEW s \in Submission, FitStep(s), Quiet(s),
           UNCHANGED <<db, standby>>
    PROVE  Inv'
<1>1. \A t \in Submission : t # s => sub'[t] = sub[t]
  BY DEF SubFits, FitStep
<1>2. \A t \in Submission :
        sub[t].tx \in {"none", "open", "sent"} /\ (~OrderHeld => sub[t].tx = "none")
  BY DEF SubFits, SubmissionState, OrderHeld
<1>3. LockInv'
  <2>1. ASSUME NEW t \in Submission, NEW u \in Submission,
               sub'[t].tx # "none", sub'[u].tx # "none"
        PROVE  t = u
    BY <1>1, <1>2, <2>1 DEF Inv, LockInv, Quiet, TxKept
  <2>2. ASSUME NEW t \in Submission, sub'[t].tx # "none", sub'[t].write.share
        PROVE  db'.shares = {} /\ db'.rev = sub'[t].rev
    BY <1>1, <2>2 DEF Inv, LockInv, Quiet, TxKept
  <2>. QED
    BY <2>1, <2>2 DEF Inv, LockInv, ProofCreditedOnce
<1>4. CleanInv'
  BY <1>1 DEF Inv, CleanInv, Quiet, Wrote
<1>5. KeptInv'
  BY <1>1 DEF Inv, KeptInv, Quiet
<1>. QED
  BY <1>3, <1>4, <1>5 DEF Inv

\* What a COMMIT leaves.
LEMMA AppliedFacts ==
    ASSUME TypeOK, NEW s \in Submission
    PROVE  /\ db.shares \subseteq Applied(s).shares
           /\ sub[s].write.share =>
                Applied(s).shares =
                  db.shares \cup {[by |-> s, grace |-> sub[s].grace]}
           /\ ~sub[s].write.share => Applied(s).shares = db.shares
           /\ sub[s].write.form = "none" => Applied(s).row = db.row
           /\ sub[s].write.form # "none" =>
                Applied(s).row = [form |-> sub[s].write.form, by |-> s,
                                  state |-> "pending"]
<1>1. sub[s] \in SubmissionState /\ db \in Database
  BY DEF TypeOK
<1>2. sub[s].write.share \in BOOLEAN
  BY <1>1 DEF SubmissionState
<1>. QED
  BY <1>1, <1>2 DEF Applied, Database

\* A COMMIT keeps the invariant.
LEMMA CommittedInv ==
    ASSUME TypeOK, SubFits, Inv, NEW s \in Submission, Committed(s)
    PROVE  Inv'
<1>1. /\ sub \in [Submission -> SubmissionState] /\ sub[s] \in SubmissionState
      /\ Fits(sub[s]) /\ sub[s].tx = "sent" /\ db' = Applied(s)
      /\ standby' = db' \/ standby' = standby
      /\ ~sub'[s].slow => standby' = db'
      /\ \A t \in Submission : t # s => sub'[t] = sub[t]
  BY DEF Committed, SubFits
<1>2. sub'[s] = Ended(s, sub[s].res, sub'[s].slow)
  BY <1>1 DEF Committed
<1>3. /\ sub'[s].tx = "none" /\ sub'[s].res = sub[s].res
      /\ sub'[s].task = "ended" /\ sub'[s].gate = sub[s].gate
      /\ sub'[s].path = sub[s].path
      /\ sub'[s].own = sub[s].own /\ sub'[s].code = sub[s].code
  <2>. DEFINE slow == sub'[s].slow
  <2>1. sub'[s] = [sub[s] EXCEPT !.tx = "none", !.write = NoWrite,
                     !.task = "ended", !.slow = slow, !.res = sub[s].res]
    BY <1>2 DEF Ended
  <2>. HIDE DEF slow
  <2>. QED
    BY <1>1, <2>1 DEF SubmissionState
<1>4. \A t \in Submission : t # s => sub'[t].tx = "none"
  BY <1>1 DEF Inv, LockInv
<1>5. /\ db.shares \subseteq db'.shares /\ standby.shares \subseteq db.shares
      /\ sub[s].write.share => db.shares = {}
  BY <1>1, AppliedFacts DEF Inv, LockInv
<1>6. LockInv'
  <2>1. ProofCreditedOnce'
    BY ZenonT(60), <1>1, <1>5, AppliedFacts DEF Inv, LockInv, ProofCreditedOnce
  <2>. QED
    BY SMTT(30), <1>1, <1>3, <1>4, <1>5, <2>1 DEF LockInv
<1>7. CleanInv'
  <2>1. ~Clean(sub'[s])
    <3>1. ~(sub[s].own /\ sub[s].code \in Refusals)
      BY <1>1 DEF Fits, GateShape
    <3>2. sub[s].res \notin {"refused", "unheld"}
      BY <1>1 DEF Fits, Shape, GateShape, SubmissionState, Paths
    <3>3. sub[s].path = "share" => sub[s].gate = "committing"
      BY <1>1 DEF Fits, GateShape
    <3>. QED
      BY <1>3, <3>1, <3>2, <3>3 DEF Clean
  <2>2. ASSUME NEW t \in Submission, t # s, ~Wrote(t, db)
        PROVE  ~Wrote(t, db')
    <3>. DEFINE new == [by |-> s, grace |-> sub[s].grace]
                row == [form |-> sub[s].write.form, by |-> s,
                        state |-> "pending"]
    <3>1. /\ db'.shares = db.shares \/ db'.shares = db.shares \cup {new}
          /\ db'.row = db.row \/ db'.row = row
      BY <1>1, AppliedFacts
    <3>2. new.by = s /\ row.by = s
      OBVIOUS
    <3>. HIDE DEF new, row
    <3>. QED
      BY <2>2, <3>1, <3>2 DEF Wrote
  <2>. QED
    BY <1>1, <2>1, <2>2 DEF Inv, CleanInv
<1>8. KeptInv'
  <2>1. standby.shares # {} => standby'.shares # {}
    BY <1>1, <1>5
  <2>2. Kept(sub'[s]) => standby'.shares # {}
    <3>1. CASE sub[s].own /\ sub[s].code = "accepted"
      BY <2>1, <3>1 DEF Inv, KeptInv, Kept
    <3>2. CASE sub[s].res = "inserted" /\ ~sub'[s].slow
      <4>1. sub[s].write.share
        BY <1>1, <3>2 DEF Fits, GateShape
      <4>. QED
        BY <1>1, <3>2, <4>1, AppliedFacts
    <3>. QED
      BY <1>3, <3>1, <3>2 DEF Kept
  <2>. QED
    BY <1>1, <2>1, <2>2 DEF Inv, KeptInv
<1>. QED
  BY <1>6, <1>7, <1>8 DEF Inv

\* A promotion keeps the invariant: what was accepted is on the standby.
LEMMA FailoverInv ==
    ASSUME SubFits, Inv, Failover
    PROVE  Inv'
<1>1. /\ db' = standby /\ standby' = standby
      /\ sub' = [s \in Submission |->
                   IF sub[s].tx = "none" THEN sub[s] ELSE End(s, "io")]
  BY DEF Failover
<1>2. ASSUME NEW s \in Submission
      PROVE  /\ sub'[s].tx = "none"
             /\ Clean(sub'[s]) => Clean(sub[s])
             /\ Kept(sub'[s]) => Kept(sub[s])
  <2>1. sub[s] \in SubmissionState
    BY DEF SubFits
  <2>2. CASE sub[s].tx = "none"
    BY <1>1, <2>2
  <2>3. CASE sub[s].tx # "none"
    <3>1. sub'[s] = End(s, "io")
      BY <1>1, <2>3
    <3>2. /\ sub'[s].tx = "none" /\ sub'[s].res = "io"
          /\ sub'[s].task = "ended" /\ sub'[s].gate = sub[s].gate
          /\ sub'[s].path = sub[s].path
          /\ sub'[s].own = sub[s].own /\ sub'[s].code = sub[s].code
      BY <2>1, <3>1 DEF End, SubmissionState
    <3>. QED
      BY <3>2 DEF Clean, Kept
  <2>. QED
    BY <2>2, <2>3
<1>3. LockInv'
  BY <1>1, <1>2 DEF Inv, LockInv, ProofCreditedOnce
<1>4. CleanInv'
  BY <1>1, <1>2 DEF Inv, CleanInv, Wrote
<1>5. KeptInv'
  BY <1>1, <1>2 DEF Inv, KeptInv
<1>. QED
  BY <1>3, <1>4, <1>5 DEF Inv

\* The steps around the submissions keep the invariant.
LEMMA AroundInv ==
    ASSUME TypeOK, SubFits, Inv, Around
    PROVE  Inv'
<1>1. sub' = sub
  BY AroundSub
<1>2. CASE UNCHANGED <<db, standby>>
  BY <1>1, <1>2 DEF Inv, LockInv, ProofCreditedOnce, CleanInv, Wrote, Clean,
                    KeptInv, Kept
<1>3. CASE standby' = db' /\ ~OrderHeld
  <2>1. \A s \in Submission : sub[s].tx = "none"
    BY <1>3 DEF SubFits, SubmissionState, OrderHeld
  <2>2. \/ db'.shares = db.shares
        \/ \E x : db'.shares = {x}
    BY AroundData
  <2>3. LockInv'
    BY <1>1, <1>3, <2>1, <2>2 DEF Inv, LockInv, ProofCreditedOnce
  <2>4. \A s \in Submission : Wrote(s, db') => Wrote(s, db)
    BY AroundData
  <2>5. CleanInv'
    BY <1>1, <1>3, <2>4 DEF Inv, CleanInv, Clean
  <2>6. standby.shares # {} => standby'.shares # {}
    BY <1>3, <2>2 DEF Inv, LockInv
  <2>7. KeptInv'
    BY <1>1, <2>6 DEF Inv, KeptInv, Kept
  <2>. QED
    BY <2>3, <2>5, <2>7 DEF Inv
<1>. QED
  BY <1>2, <1>3, AroundData

\* The invariant holds initially.
LEMMA InitInv ==
    ASSUME Init
    PROVE  Inv
<1>1. /\ \A s \in Submission : sub[s] = Fresh
      /\ db.shares = {} /\ standby.shares = {}
      /\ db.row = NoRow /\ standby.row = NoRow
  BY DEF Init
<1>2. Fresh.tx = "none" /\ ~Kept(Fresh)
  BY DEF Fresh, Kept
<1>3. LockInv
  BY <1>1, <1>2 DEF LockInv, ProofCreditedOnce
<1>4. CleanInv
  BY <1>1 DEF CleanInv, Wrote
<1>5. KeptInv
  BY <1>1, <1>2 DEF KeptInv
<1>. QED
  BY <1>3, <1>4, <1>5 DEF Inv

\* Every step keeps the invariant.
LEMMA NextInv ==
    ASSUME TypeOK, SubFits, Inv, [Next]_vars
    PROVE  Inv'
<1>1. ASSUME NEW s \in Submission,
             Submit(s) \/ Task(s) \/ Server(s) \/ Answer(s) \/ Faults(s)
      PROVE  Inv'
  <2>1. FitStep(s)
    BY <1>1, SubmissionFits DEF SubFits
  <2>. QED
    BY <1>1, <2>1, SubmissionStep, QuietInv, CommittedInv
<1>2. CASE UNCHANGED vars
  BY <1>2 DEF vars, Inv, LockInv, ProofCreditedOnce, CleanInv, Wrote, Clean,
              KeptInv, Kept
<1>. QED
  BY <1>1, <1>2, FailoverInv, AroundInv DEF Next, Around

\* The inductive invariant, with type correctness, holds always.
LEMMA InvHolds == Spec => [](TypeOK /\ SubFits /\ Inv)
<1>1. Init => TypeOK /\ SubFits /\ Inv
  BY InitType, InitInv
<1>2. TypeOK /\ SubFits /\ Inv /\ [Next]_vars => (TypeOK /\ SubFits /\ Inv)'
  BY NextType, NextFits, NextInv
<1>. QED
  BY <1>1, <1>2, PTL DEF Spec

-----------------------------------------------------------------------------
\* The theorems.

\* One proof is credited by one share row on the database, however often it
\* was sent, over whatever paths and through whatever faults
\* (append_probed under ORDER_LOCK, window.rs).
THEOREM CreditedOnce == Spec => []ProofCreditedOnce
<1>1. Inv => ProofCreditedOnce
  BY DEF Inv, LockInv
<1>. QED
  BY <1>1, InvHolds, PTL

\* Every variable keeps its type, whatever the submissions, the server and the
\* settlements do.
THEOREM AppendTypeCorrect == Spec => []TypeOK
  BY InvHolds, PTL

\* A submission that was refused for good has written neither a share nor a
\* block, and will not (CommitGate, classify_share_append,
\* enqueue_failed_before_commit).
THEOREM RefusalFinal == Spec => []RefusedWroteNothing
<1>1. Inv => RefusedWroteNothing
  BY DEF Inv, CleanInv, Clean, RefusedWroteNothing
<1>. QED
  BY <1>1, InvHolds, PTL

\* A share that was accepted survives the loss of the primary
\* (sync_rep_unknown).
THEOREM AcceptanceDurable == Spec => []AcceptedSurvives
<1>1. Inv => AcceptedSurvives
  BY DEF Inv, LockInv, KeptInv, Kept, AcceptedSurvives
<1>. QED
  BY <1>1, InvHolds, PTL

\* What a step adds to the share rows, and under which revision.
Fenced(s, grace) ==
    [by |-> s, grace |-> grace] \in db'.shares \ db.shares =>
      /\ db.rev = sub[s].rev
      /\ db'.row.form = "deferred" => db'.row.by # s

AllFenced == \A s \in Submission : \A grace \in BOOLEAN : Fenced(s, grace)

\* Every step credits under the fence: only a COMMIT adds a submission's row.
LEMMA NextFenced ==
  ASSUME TypeOK, SubFits, Inv, [Next]_vars
  PROVE  AllFenced
<1>1. ASSUME UNCHANGED db PROVE AllFenced
  BY <1>1 DEF AllFenced, Fenced
<1>2. CASE Failover
  BY <1>2 DEF Failover, Inv, LockInv, AllFenced, Fenced
<1>3. CASE Around
  <2>1. db'.shares \subseteq db.shares
        \/ db'.shares = {[by |-> "settlement", grace |-> FALSE]}
    BY <1>3, AroundData
  <2>2. ASSUME NEW s \in Submission, NEW grace \in BOOLEAN
        PROVE  [by |-> s, grace |-> grace]
                 # [by |-> "settlement", grace |-> FALSE]
    <3>1. /\ [by |-> s, grace |-> grace].by = s
          /\ [by |-> "settlement", grace |-> FALSE].by = "settlement"
          /\ s # "settlement"
      OBVIOUS
    <3>. QED
      BY <3>1
  <2>. QED
    BY <2>1, <2>2 DEF AllFenced, Fenced
<1>4. ASSUME NEW s \in Submission, Committed(s)
      PROVE  AllFenced
  <2>1. /\ db' = Applied(s) /\ sub[s].tx = "sent" /\ Fits(sub[s])
        /\ sub[s] \in SubmissionState
    BY <1>4 DEF Committed, SubFits
  <2>2. SUFFICES ASSUME NEW t \in Submission, NEW grace \in BOOLEAN,
                        [by |-> t, grace |-> grace] \in db'.shares \ db.shares
                 PROVE  /\ db.rev = sub[t].rev
                        /\ db'.row.form = "deferred" => db'.row.by # t
    BY DEF AllFenced, Fenced
  <2>. DEFINE new == [by |-> s, grace |-> sub[s].grace]
              old == [by |-> t, grace |-> grace]
  <2>3. /\ sub[s].write.share
        /\ old = new
    BY ZenonT(60), <2>1, <2>2, AppliedFacts
  <2>4. t = s
    <3>1. old.by = t /\ new.by = s
      OBVIOUS
    <3>. HIDE DEF old, new
    <3>. QED
      BY <2>3, <3>1
  <2>5. db.rev = sub[s].rev /\ sub[s].write.form # "deferred"
    BY <2>1, <2>3 DEF Inv, LockInv, Fits, GateShape
  <2>6. ~Wrote(s, db)
    BY <2>1 DEF Inv, CleanInv, Clean
  <2>7. db'.row.form = "deferred" => db'.row.by # s
    <3>1. CASE sub[s].write.form = "none"
      <4>1. db'.row = db.row
        BY <2>1, <3>1, AppliedFacts
      <4>2. ASSUME db.row.form = "deferred" PROVE db.row # NoRow
        BY <4>2 DEF NoRow
      <4>3. ASSUME db.row # NoRow PROVE db.row.by # s
        BY <2>6, <4>3 DEF Wrote
      <4>. QED
        BY <4>1, <4>2, <4>3
    <3>2. CASE sub[s].write.form # "none"
      <4>1. db'.row = [form |-> sub[s].write.form, by |-> s,
                       state |-> "pending"]
        BY <2>1, <3>2, AppliedFacts
      <4>2. db'.row.form = sub[s].write.form
        BY <4>1
      <4>. QED
        BY <2>5, <4>2
    <3>. QED
      BY <3>1, <3>2
  <2>. QED
    BY <2>4, <2>5, <2>7
<1>5. ASSUME NEW s \in Submission,
             Submit(s) \/ Task(s) \/ Server(s) \/ Answer(s) \/ Faults(s)
      PROVE  AllFenced
  BY <1>1, <1>4, <1>5, SubmissionStep
<1>6. CASE UNCHANGED vars
  BY <1>1, <1>6 DEF vars
<1>. QED
  BY <1>2, <1>3, <1>5, <1>6 DEF Next, Around

\* A share is credited at the revision it was admitted at, and never beside
\* its own deferred capture (append_prepared's FOR SHARE fence).
THEOREM RevisionFenced == Spec => CreditedAtRevision
<1>1. TypeOK /\ SubFits /\ Inv /\ [Next]_vars =>
        [\A s \in Submission : \A grace \in BOOLEAN :
         [by |-> s, grace |-> grace] \in db'.shares \ db.shares =>
           /\ db.rev = sub[s].rev
           /\ db'.row.form = "deferred" => db'.row.by # s]_vars
  BY NextFenced DEF AllFenced, Fenced
<1>. QED
  BY <1>1, InvHolds, PTL DEF Spec, CreditedAtRevision

-----------------------------------------------------------------------------
\* A block's way to the outbox.

\* Why the outbox may hold no row of a submission's block (Excused).
Accounted(r, failovers) ==
    \/ r.res \in {"recorded", "unheld", "refused", "io"}
    \/ r.res = "moved" /\ ~Capture
    \/ failovers < MaxFailovers

\* A task that has nothing left to insert.
Through(r) ==
    \/ r.task = "ended"
    \/ r.task \in {"hook", "commit"} /\ r.write.form = "none"

\* A submission that carries a block: nothing closes its gate or aborts its
\* task, and once it has nothing left to insert the row is there.
Landed(r, row, failovers) ==
    r.form # "none" =>
      /\ r.gate \in {"open", "committing"} /\ r.task # "contended"
      /\ ~r.doomed /\ ~r.fenced
      /\ Through(r) => row # NoRow \/ Accounted(r, failovers)

LandedInv ==
    \A s \in Submission :
      /\ Landed(sub[s], db.row, left.failovers)
      /\ sub[s].task = "none" => ~sub[s].doomed

\* What a step of submission s leaves of its own record.
Lands(s) ==
    sub'[s].task # "none" /\ Landed(sub'[s], db.row, left.failovers)

\* What the invariants say of a submission.
LEMMA Known ==
    ASSUME SubFits, LandedInv, NEW s \in Submission
    PROVE  /\ sub \in [Submission -> SubmissionState]
           /\ sub[s] \in SubmissionState /\ Fits(sub[s])
           /\ Landed(sub[s], db.row, left.failovers)
           /\ sub[s].task = "none" => ~sub[s].doomed
  BY DEF SubFits, LandedInv

\* A spawned task: its gate is open, a block's append is not fenced.
LEMMA SubmitLands ==
    ASSUME NEW s \in Submission, SubFits, LandedInv, Submit(s)
    PROVE  Lands(s)
<1>1. PICK path \in {"share", "enqueue"}, form \in Forms \cup {"none"},
           grace \in BOOLEAN, fenced \in BOOLEAN :
        /\ Spawn(s, path, form, grace, fenced)
        /\ form # "none" => ~fenced
  BY DEF Submit, SubmitCurrent, SubmitLeased, SubmitGrace, SubmitDeferred,
         SubmitBlockOnly, Forms
<1>2. sub[s].task = "none" /\ sub[s].gate = "open" /\ ~sub[s].doomed
  BY <1>1, Known DEF Spawn, Fits, Shape
<1>3. PICK task \in {"start", "probe"} :
        sub'[s] = [sub[s] EXCEPT !.pc = "wait", !.path = path, !.form = form,
                     !.grace = grace, !.fenced = fenced, !.rev = db.rev,
                     !.task = task]
  BY <1>1, Known DEF Spawn
<1>4. /\ sub'[s].task = task /\ sub'[s].gate = "open" /\ ~sub'[s].doomed
      /\ sub'[s].form = form /\ sub'[s].fenced = fenced
  BY <1>2, <1>3, Known DEF SubmissionState
<1>. QED
  BY <1>1, <1>4 DEF Lands, Landed, Through

\* What the statements of a block's append decide: they insert the row, find
\* it, or end for a reason.
LEMMA BlockDecision ==
    ASSUME NEW s \in Submission, SubFits, sub[s].form # "none",
           NEW d \in Decision(s)
    PROVE  /\ d.ends => \/ d.res \in {"recorded", "refused", "unheld"}
                        \/ d.res = "moved" /\ ~Capture
           /\ ~d.ends => d.write.form # "none" \/ db.row # NoRow
<1>. DEFINE moved == db.rev # sub[s].rev
            stop(res) == {[ends |-> TRUE, write |-> NoWrite, res |-> res]}
            go(share, form, res) ==
              {[ends |-> FALSE, write |-> [share |-> share, form |-> form],
                res |-> res]}
            row(share, form, res) ==
              (IF db.row = NoRow THEN go(share, form, res)
               ELSE IF db.row.form = form
               THEN go(share, "none", IF share THEN res ELSE "recorded")
               ELSE stop("refused"))
              \cup (IF left.failovers = MaxFailovers THEN {}
                    ELSE stop("unheld"))
<1>1. \/ d \in stop("moved") /\ ~Capture
      \/ d \in stop("recorded")
      \/ d \in row(FALSE, "deferred", "captured")
      \/ d \in row(~Recorded, "credited",
                   IF Recorded THEN "recorded" ELSE "inserted")
  BY DEF Decision, DecisionAt
<1>2. ASSUME NEW res, d \in stop(res)
      PROVE  d.res = res /\ d.ends
  BY <1>2
<1>3. ASSUME NEW share, NEW form, NEW res, d \in go(share, form, res)
      PROVE  ~d.ends /\ d.write.form = form
  BY <1>3
<1>4. ASSUME NEW share, NEW form, NEW res, d \in row(share, form, res)
      PROVE  \/ d \in stop("refused") \/ d \in stop("unheld")
             \/ d \in go(share, form, res)
             \/ /\ db.row # NoRow
                /\ d \in go(share, "none",
                            IF share THEN res ELSE "recorded")
  BY <1>4
<1>. HIDE DEF stop, go, row
<1>5. ASSUME NEW share, NEW form \in {"deferred", "credited"}, NEW res,
             d \in row(share, form, res)
      PROVE  /\ d.ends => d.res \in {"refused", "unheld"}
             /\ ~d.ends => d.write.form # "none" \/ db.row # NoRow
  BY <1>2, <1>3, <1>4, <1>5
<1>. QED
  BY <1>1, <1>2, <1>5

\* Statements: a block's append goes on with its row, or is accounted for.
LEMMA StatementsLands ==
    ASSUME NEW s \in Submission, SubFits, LandedInv, Statements(s)
    PROVE  Lands(s)
<1>1. PICK d \in Decision(s) :
        sub' = [sub EXCEPT ![s] =
                  IF d.ends THEN End(s, d.res)
                  ELSE [sub[s] EXCEPT !.task = "hook", !.tx = "open",
                                      !.write = d.write, !.res = d.res]]
  BY DEF Statements
<1>2. CASE d.ends
  <2>1. sub'[s] = End(s, d.res)
    BY <1>1, <1>2, Known
  <2>2. /\ sub'[s].task = "ended" /\ sub'[s].res = d.res
        /\ sub'[s].form = sub[s].form /\ sub'[s].gate = sub[s].gate
        /\ sub'[s].doomed = sub[s].doomed /\ sub'[s].fenced = sub[s].fenced
    BY <2>1, Known DEF End, SubmissionState
  <2>3. sub[s].form # "none" => Accounted(sub'[s], left.failovers)
    BY <1>2, <2>2, BlockDecision DEF Accounted
  <2>. QED
    BY <2>2, <2>3, Known DEF Lands, Landed
<1>3. CASE ~d.ends
  <2>1. sub'[s] = [sub[s] EXCEPT !.task = "hook", !.tx = "open",
                                 !.write = d.write, !.res = d.res]
    BY <1>1, <1>3, Known
  <2>2. /\ sub'[s].task = "hook" /\ sub'[s].write = d.write
        /\ sub'[s].form = sub[s].form /\ sub'[s].gate = sub[s].gate
        /\ sub'[s].doomed = sub[s].doomed /\ sub'[s].fenced = sub[s].fenced
    BY <2>1, Known DEF SubmissionState
  <2>3. sub[s].form # "none" => d.write.form # "none" \/ db.row # NoRow
    BY <1>3, BlockDecision
  <2>. QED
    BY <2>2, <2>3, Known DEF Lands, Landed, Through
<1>. QED
  BY <1>2, <1>3

\* Hook: no fence stands before a block, whose gate is open.
LEMMA HookLands ==
    ASSUME NEW s \in Submission, SubFits, LandedInv, Hook(s)
    PROVE  Lands(s)
<1>1. \E g :
        \/ sub' = [sub EXCEPT ![s] = [sub[s] EXCEPT !.gate = g,
                                        !.task = "commit", !.tx = "sent"]]
        \/ sub' = [sub EXCEPT ![s] = RollBack(s, g)]
  BY DEF Hook
<1>2. CASE sub[s].form = "none"
  <2>1. PICK g :
          \/ sub'[s] = [sub[s] EXCEPT !.gate = g, !.task = "commit",
                                      !.tx = "sent"]
          \/ sub'[s] = RollBack(s, g)
    BY <1>1, Known
  <2>2. CASE sub'[s] = [sub[s] EXCEPT !.gate = g, !.task = "commit",
                                      !.tx = "sent"]
    BY <1>2, <2>2, Known DEF Lands, Landed, SubmissionState
  <2>3. CASE sub'[s] = RollBack(s, g)
    <3>1. PICK k \in {"contended", "ended"} :
            \E x : sub'[s] = [sub[s] EXCEPT !.gate = g, !.tx = "none",
                               !.write = NoWrite, !.task = k, !.res = x]
      BY <2>3 DEF RollBack
    <3>2. sub'[s].form = "none" /\ sub'[s].task = k
      BY <1>2, <3>1, Known DEF SubmissionState
    <3>. QED
      BY <3>1, <3>2 DEF Lands, Landed
  <2>. QED
    BY <2>1, <2>2, <2>3
<1>3. CASE sub[s].form # "none"
  <2>1. ~sub[s].fenced /\ sub[s].gate = "open" /\ sub[s].task = "hook"
    BY <1>3, Known DEF Hook, Landed, Fits, GateShape
  <2>2. sub' = [sub EXCEPT ![s] = [sub[s] EXCEPT !.gate = "committing",
                                     !.task = "commit", !.tx = "sent"]]
    BY <2>1 DEF Hook, BeginCommit
  <2>3. sub'[s] = [sub[s] EXCEPT !.gate = "committing", !.task = "commit",
                                 !.tx = "sent"]
    BY <2>2, Known
  <2>4. /\ sub'[s].task = "commit" /\ sub'[s].gate = "committing"
        /\ sub'[s].form = sub[s].form /\ sub'[s].write = sub[s].write
        /\ sub'[s].doomed = sub[s].doomed /\ sub'[s].fenced = sub[s].fenced
        /\ sub'[s].res = sub[s].res
    BY <2>3, Known DEF SubmissionState
  <2>. QED
    BY <1>3, <2>1, <2>4, Known DEF Lands, Landed, Through, Accounted
<1>. QED
  BY <1>2, <1>3

\* A block's append never meets contention, and is never aborted.
LEMMA RefusedLands ==
    ASSUME NEW s \in Submission, SubFits, LandedInv,
           RetryAfterContention(s) \/ Aborted(s)
    PROVE  Lands(s)
<1>1. sub[s].form = "none"
  BY Known DEF RetryAfterContention, Aborted, Landed
<1>2. PICK g, r :
        \/ sub'[s] = [sub[s] EXCEPT !.gate = g, !.task = "start",
                                    !.res = "none"]
        \/ sub'[s] = [sub[s] EXCEPT !.gate = g, !.task = "ended",
                                    !.res = "closed"]
        \/ sub'[s] = End(s, r)
  BY Known DEF RetryAfterContention, Aborted
<1>3. sub'[s].form = "none" /\ sub'[s].task # "none"
  BY ZenonT(60), <1>1, <1>2, Known DEF End, SubmissionState
<1>. QED
  BY <1>3 DEF Lands, Landed

\* A task that ends with a result that accounts for the missing row.
LEMMA EndLands ==
    ASSUME NEW s \in Submission, SubFits, LandedInv,
           NEW res \in {"recorded", "unheld", "refused", "io"},
           sub' = [sub EXCEPT ![s] = End(s, res)],
           sub[s].task # "contended"
    PROVE  Lands(s)
<1>1. sub'[s] = End(s, res)
  BY Known
<1>2. /\ sub'[s].task = "ended" /\ sub'[s].res = res
      /\ sub'[s].form = sub[s].form /\ sub'[s].gate = sub[s].gate
      /\ sub'[s].doomed = sub[s].doomed /\ sub'[s].fenced = sub[s].fenced
  BY <1>1, Known DEF End, SubmissionState
<1>. QED
  BY <1>2, Known DEF Lands, Landed, Accounted

\* ProbeShare finds the share, or goes on to the insert.
LEMMA ProbeLands ==
    ASSUME NEW s \in Submission, SubFits, LandedInv, ProbeShare(s)
    PROVE  Lands(s)
<1>1. CASE sub' = [sub EXCEPT ![s] = End(s, "recorded")]
  BY <1>1, EndLands DEF ProbeShare
<1>2. CASE sub' = [sub EXCEPT ![s] = [sub[s] EXCEPT !.task = "start"]]
  <2>1. sub'[s] = [sub[s] EXCEPT !.task = "start"]
    BY <1>2, Known
  <2>2. /\ sub'[s].task = "start"
        /\ sub'[s].form = sub[s].form /\ sub'[s].gate = sub[s].gate
        /\ sub'[s].doomed = sub[s].doomed /\ sub'[s].fenced = sub[s].fenced
    BY <2>1, Known DEF SubmissionState
  <2>. QED
    BY <2>2, Known DEF Lands, Landed, Through
<1>. QED
  BY <1>1, <1>2 DEF ProbeShare

\* Enqueue inserts the row, finds it, or may not hold it.
LEMMA EnqueueLands ==
    ASSUME NEW s \in Submission, SubFits, LandedInv, Enqueue(s)
    PROVE  Lands(s)
<1>1. CASE \E res \in {"recorded", "unheld"} :
             sub' = [sub EXCEPT ![s] = End(s, res)]
  BY <1>1, EndLands DEF Enqueue
<1>. DEFINE w == [share |-> FALSE, form |-> sub[s].form]
<1>2. CASE sub' = [sub EXCEPT ![s] =
                     [sub[s] EXCEPT !.task = "commit", !.tx = "sent",
                                    !.res = "enqueued", !.write = w]]
  <2>1. w.form = sub[s].form
    OBVIOUS
  <2>. HIDE DEF w
  <2>2. sub'[s] = [sub[s] EXCEPT !.task = "commit", !.tx = "sent",
                                 !.res = "enqueued", !.write = w]
    BY <1>2, Known
  <2>3. /\ sub'[s].task = "commit" /\ sub'[s].write = w
        /\ sub'[s].form = sub[s].form /\ sub'[s].gate = sub[s].gate
        /\ sub'[s].doomed = sub[s].doomed /\ sub'[s].fenced = sub[s].fenced
    BY <2>2, Known DEF SubmissionState
  <2>. QED
    BY <2>1, <2>3, Known DEF Lands, Landed, Through
<1>. QED
  BY <1>1, <1>2 DEF Enqueue

\* Faults: what they end is accounted for.
LEMMA FaultsLands ==
    ASSUME NEW s \in Submission, SubFits, LandedInv, Faults(s)
    PROVE  Lands(s)
<1>1. CASE StatementFails(s)
  <2>1. \E res \in {"refused", "io"} : sub' = [sub EXCEPT ![s] = End(s, res)]
    BY <1>1 DEF StatementFails
  <2>2. sub[s].task # "contended"
    BY <1>1 DEF StatementFails
  <2>. QED
    BY <2>1, <2>2, EndLands
<1>2. CASE ConnectionLost(s)
  <2>1. sub'[s] = [sub[s] EXCEPT !.task = "ended", !.res = "io"]
    BY <1>2, Known DEF ConnectionLost
  <2>2. /\ sub'[s].task = "ended" /\ sub'[s].res = "io"
        /\ sub'[s].form = sub[s].form /\ sub'[s].gate = sub[s].gate
        /\ sub'[s].doomed = sub[s].doomed /\ sub'[s].fenced = sub[s].fenced
    BY <2>1, Known DEF SubmissionState
  <2>. QED
    BY <2>2, Known DEF Lands, Landed, Accounted
<1>. QED
  BY <1>1, <1>2 DEF Faults

\* The end of a COMMIT: a refusal is accounted for, an insert is the row.
LEMMA ServerLands ==
    ASSUME NEW s \in Submission, TypeOK, SubFits, LandedInv, Server(s)
    PROVE  sub'[s].task # "none" /\ Landed(sub'[s], db'.row, left.failovers)
<1>1. PICK res \in {sub[s].res, "refused"}, slow \in BOOLEAN :
        /\ sub' = [sub EXCEPT ![s] = Ended(s, res, slow)]
        /\ res = "refused" \/ db' = Applied(s)
        /\ sub[s].tx = "sent"
  BY DEF Server, ServerCommits, ServerCommitsLocally, ServerRefuses
<1>. DEFINE x == IF sub[s].task = "commit" THEN res ELSE sub[s].res
<1>2. sub'[s] = [sub[s] EXCEPT !.tx = "none", !.write = NoWrite,
                   !.task = "ended", !.slow = slow, !.res = x]
  BY <1>1, Known DEF Ended
<1>3. /\ sub[s].task = "commit" \/ x = "io"
      /\ sub[s].task = "commit" => x = res
  BY <1>1, Known DEF Fits, Shape, GateShape
<1>. HIDE DEF x
<1>4. /\ sub'[s].task = "ended" /\ sub'[s].res = x
      /\ sub'[s].form = sub[s].form /\ sub'[s].gate = sub[s].gate
      /\ sub'[s].doomed = sub[s].doomed /\ sub'[s].fenced = sub[s].fenced
  BY <1>2, Known DEF SubmissionState
<1>5. CASE x \in {"io", "refused"}
  BY <1>4, <1>5, Known DEF Landed, Accounted
<1>6. CASE x \notin {"io", "refused"}
  <2>1. /\ sub[s].task = "commit" /\ db' = Applied(s) /\ x = sub[s].res
    BY <1>1, <1>3, <1>6
  <2>2. CASE sub[s].write.form = "none"
    <3>1. db'.row = db.row
      BY <2>1, <2>2, AppliedFacts
    <3>. QED
      BY <1>4, <2>1, <2>2, <3>1, Known DEF Landed, Through, Accounted
  <2>3. CASE sub[s].write.form # "none"
    <3>1. db'.row = [form |-> sub[s].write.form, by |-> s,
                     state |-> "pending"]
      BY <2>1, <2>3, AppliedFacts
    <3>2. db'.row # NoRow
      <4>1. db'.row.form # NoRow.form
        BY <2>3, <3>1 DEF NoRow
      <4>. QED
        BY <4>1
    <3>. QED
      BY <1>4, <3>2, Known DEF Landed
  <2>. QED
    BY <2>2, <2>3
<1>. QED
  BY <1>5, <1>6

\* An answer leaves a block's gate and its task alone.
LEMMA AnswerLands ==
    ASSUME NEW s \in Submission, SubFits, LandedInv, Answer(s)
    PROVE  Lands(s)
<1>1. sub[s].pc # "idle" /\ sub[s].task # "none"
  BY Known DEF Answer, AppendJoined, Deadline, GraceEnds, EnqueueJoined,
     BoundEnds, Poll, Disconnect, Fits, Shape
<1>. DEFINE Alone(n) ==
              /\ n.task = sub[s].task /\ n.form = sub[s].form
              /\ n.fenced = sub[s].fenced /\ n.res = sub[s].res
              /\ n.write = sub[s].write
              /\ ~Refusable(s) =>
                   n.gate = sub[s].gate /\ n.doomed = sub[s].doomed
<1>2. ASSUME NEW n, NEW code, NEW own, n = Answered(s, code, own)
      PROVE  Alone(n)
  BY <1>2, Known DEF Answered, SubmissionState
<1>3. ASSUME NEW n, NEW pc, n = [sub[s] EXCEPT !.pc = pc]
      PROVE  Alone(n)
  BY <1>3, Known DEF SubmissionState
<1>4. ASSUME NEW n, NEW code, NEW gate, Refusable(s),
             n = [Answered(s, code, TRUE) EXCEPT !.gate = gate,
                                                 !.doomed = TRUE]
      PROVE  Alone(n)
  BY <1>4, Known DEF Answered, SubmissionState
<1>5. ASSUME NEW n, NEW gate, NEW doomed,
             ~Refusable(s) => gate = sub[s].gate /\ doomed = sub[s].doomed,
             n = [sub[s] EXCEPT !.pc = "gone", !.gate = gate,
                                !.doomed = doomed]
      PROVE  Alone(n)
  BY <1>5, Known DEF SubmissionState
<1>. HIDE DEF Alone
<1>6. CASE Disconnect(s)
  <2>. DEFINE g == CloseFor(sub[s].gate, "deadline")
              aborts == /\ sub[s].path = "share" /\ Refusable(s)
                        /\ sub[s].task # "ended" /\ Closed(g)
              gate == IF aborts THEN g ELSE sub[s].gate
              doomed == sub[s].doomed \/ aborts
  <2>1. sub'[s] = [sub[s] EXCEPT !.pc = "gone", !.gate = gate,
                                 !.doomed = doomed]
    BY <1>6, Known DEF Disconnect
  <2>2. ~Refusable(s) => gate = sub[s].gate /\ doomed = sub[s].doomed
    BY Known DEF SubmissionState
  <2>. HIDE DEF gate, doomed
  <2>3. Alone(sub'[s])
    BY <1>5, <2>1, <2>2
  <2>. QED
    BY <1>1, <2>3, Known
    DEF Alone, Refusable, Lands, Landed, Through, Accounted
<1>7. CASE Deadline(s)
  <2>. DEFINE gate == CloseFor(sub[s].gate, "deadline")
  <2>1. \/ /\ Refusable(s)
           /\ sub'[s] = [Answered(s, ClosedGateOutcome(gate), TRUE) EXCEPT
                           !.gate = gate, !.doomed = TRUE]
        \/ sub'[s] = [sub[s] EXCEPT !.pc = "grace"]
        \/ sub'[s] = Answered(s, "unknown", FALSE)
    BY <1>7, Known DEF Deadline
  <2>. HIDE DEF gate
  <2>2. ASSUME Refusable(s),
               sub'[s] = [Answered(s, ClosedGateOutcome(gate), TRUE) EXCEPT
                            !.gate = gate, !.doomed = TRUE]
        PROVE  Alone(sub'[s])
    BY <1>4, <2>2
  <2>3. ASSUME sub'[s] = [sub[s] EXCEPT !.pc = "grace"]
        PROVE  Alone(sub'[s])
    BY <1>3, <2>3
  <2>4. ASSUME sub'[s] = Answered(s, "unknown", FALSE)
        PROVE  Alone(sub'[s])
    BY <1>2, <2>4
  <2>5. Alone(sub'[s])
    BY <2>1, <2>2, <2>3, <2>4
  <2>. QED
    BY <1>1, <2>5, Known
    DEF Alone, Refusable, Lands, Landed, Through, Accounted
<1>8. CASE ~Disconnect(s) /\ ~Deadline(s)
  <2>1. \/ \E code, own : sub'[s] = Answered(s, code, own)
        \/ sub'[s] = [sub[s] EXCEPT !.pc = "settle"]
    <3>1. CASE AppendJoined(s)
      BY <3>1, Known DEF AppendJoined
    <3>2. CASE EnqueueJoined(s)
      <4>1. \/ \E code, own :
                 sub' = [sub EXCEPT ![s] = Answered(s, code, own)]
            \/ sub' = [sub EXCEPT ![s] = [sub[s] EXCEPT !.pc = "settle"]]
        BY <3>2 DEF EnqueueJoined
      <4>. QED
        BY <4>1, Known
    <3>3. CASE GraceEnds(s) \/ BoundEnds(s) \/ Poll(s)
      <4>1. \E code : sub' = [sub EXCEPT ![s] = Answered(s, code, FALSE)]
        BY <3>3 DEF GraceEnds, BoundEnds, Poll
      <4>. QED
        BY <4>1, Known
    <3>. QED
      BY <1>8, <3>1, <3>2, <3>3 DEF Answer
  <2>2. ASSUME NEW code, NEW own, sub'[s] = Answered(s, code, own)
        PROVE  Alone(sub'[s])
    BY <1>2, <2>2
  <2>3. ASSUME sub'[s] = [sub[s] EXCEPT !.pc = "settle"]
        PROVE  Alone(sub'[s])
    BY <1>3, <2>3
  <2>4. Alone(sub'[s])
    BY <2>1, <2>2, <2>3
  <2>. QED
    BY <1>1, <2>4, Known
    DEF Alone, Refusable, Lands, Landed, Through, Accounted
<1>. QED
  BY <1>6, <1>7, <1>8

\* A row that is there stays, whatever its state, but for a promotion.
LEMMA RowStays ==
    ASSUME TypeOK, NEW s \in Submission, db.row # NoRow
    PROVE  Applied(s).row # NoRow
<1>1. CASE sub[s].write.form = "none"
  BY <1>1, AppliedFacts
<1>2. CASE sub[s].write.form # "none"
  <2>1. Applied(s).row = [form |-> sub[s].write.form, by |-> s,
                          state |-> "pending"]
    BY <1>2, AppliedFacts
  <2>2. Applied(s).row.form # NoRow.form
    BY <1>2, <2>1 DEF NoRow
  <2>. QED
    BY <2>2
<1>. QED
  BY <1>1, <1>2

\* The steps around the submissions keep the row.
LEMMA AroundRow ==
    ASSUME TypeOK, Around, db.row # NoRow
    PROVE  db'.row # NoRow
<1>1. db \in Database
      /\ db.row \in [form : Forms, by : Submission, state : RowStates]
  BY DEF TypeOK, Database
<1>2. db'.row = db.row \/ \E to : db'.row = [db.row EXCEPT !.state = to]
  <2>1. ASSUME NEW to, db' = [db EXCEPT !.row.state = to]
        PROVE  db'.row = [db.row EXCEPT !.state = to]
    BY <1>1, <2>1 DEF Database
  <2>2. CASE Offer \/ Abandon \/ Lose
    BY <2>1, <2>2 DEF Offer, Abandon, Lose, RowMoves, Write
  <2>3. CASE Confirm
    <3>. DEFINE shares == IF db.row.form = "deferred" /\ ~Recorded
                          THEN {[by |-> "settlement", grace |-> FALSE]}
                          ELSE db.shares
                row == [db.row EXCEPT !.state = "confirmed"]
    <3>1. db' = [db EXCEPT !.rev = db.rev + 1, !.row = row, !.shares = shares]
      BY <1>1, <2>3 DEF Confirm, Write, Database
    <3>. HIDE DEF row, shares
    <3>2. db'.row = row
      BY <1>1, <3>1 DEF Database
    <3>. QED
      BY <3>2 DEF row
  <2>4. CASE Bump \/ BlockActive \/ TipMoves
    BY <1>1, <2>4 DEF Bump, Write, BlockActive, TipMoves, Database
  <2>. QED
    BY <2>2, <2>3, <2>4 DEF Around
<1>3. \A to : [db.row EXCEPT !.state = to].form = db.row.form
  BY <1>1
<1>4. db.row.form # NoRow.form
  BY <1>1 DEF NoRow, Forms
<1>. QED
  BY <1>2, <1>3, <1>4

\* The other submissions of a step.
LEMMA OthersLand ==
    ASSUME LandedInv, NEW t \in Submission, sub'[t] = sub[t],
           db.row # NoRow => db'.row # NoRow,
           left'.failovers = left.failovers
    PROVE  /\ Landed(sub'[t], db'.row, left'.failovers)
           /\ sub'[t].task = "none" => ~sub'[t].doomed
  BY DEF LandedInv, Landed, Accounted

\* A promotion loses rows, and every submission is excused.
LEMMA FailoverLands ==
    ASSUME TypeOK, SubFits, LandedInv, Failover
    PROVE  LandedInv'
<1>1. /\ sub' = [s \in Submission |->
                   IF sub[s].tx = "none" THEN sub[s] ELSE End(s, "io")]
      /\ left'.failovers < MaxFailovers
  <2>1. left \in [faults : 0..MaxFaults, failovers : 0..MaxFailovers]
    BY DEF TypeOK
  <2>2. left'.failovers = left.failovers - 1
    BY <2>1 DEF Failover
  <2>3. left'.failovers < MaxFailovers
    <3>1. MaxFailovers \in Nat /\ left.failovers \in 0..MaxFailovers
      BY <2>1, AppendAssumption
    <3>. QED
      BY <2>2, <3>1
  <2>. QED
    BY <2>3 DEF Failover
<1>2. ASSUME NEW s \in Submission
      PROVE  /\ Landed(sub'[s], db'.row, left'.failovers)
             /\ sub'[s].task = "none" => ~sub'[s].doomed
  <2>1. CASE sub[s].tx = "none"
    <3>1. sub'[s] = sub[s]
      BY <1>1, <2>1
    <3>. QED
      BY <1>1, <3>1, Known DEF Landed, Accounted
  <2>2. CASE sub[s].tx # "none"
    <3>1. sub'[s] = End(s, "io")
      BY <1>1, <2>2
    <3>2. /\ sub'[s].task = "ended" /\ sub'[s].res = "io"
          /\ sub'[s].form = sub[s].form /\ sub'[s].gate = sub[s].gate
          /\ sub'[s].doomed = sub[s].doomed /\ sub'[s].fenced = sub[s].fenced
      BY <3>1, Known DEF End, SubmissionState
    <3>. QED
      BY <3>2, Known DEF Landed, Accounted
  <2>. QED
    BY <2>1, <2>2
<1>. QED
  BY <1>2 DEF LandedInv

\* A step of a submission.
LEMMA SubmissionLands ==
    ASSUME TypeOK, SubFits, LandedInv, NEW s \in Submission,
           Submit(s) \/ Task(s) \/ Server(s) \/ Answer(s) \/ Faults(s)
    PROVE  LandedInv'
<1>1. FitStep(s) /\ DataStep(s)
  BY SubmissionFits, SubmissionData DEF SubFits
<1>2. left'.failovers = left.failovers
  <2>1. left \in [faults : 0..MaxFaults, failovers : 0..MaxFailovers]
    BY DEF TypeOK
  <2>. QED
    BY <1>1, <2>1 DEF DataStep
<1>3. db.row # NoRow => db'.row # NoRow
  BY <1>1, RowStays DEF DataStep, Committed
<1>4. ASSUME NEW t \in Submission, t # s
      PROVE  sub'[t] = sub[t]
  BY <1>1, <1>4, Known DEF FitStep
<1>5. sub'[s].task # "none" /\ Landed(sub'[s], db'.row, left'.failovers)
  <2>1. CASE Server(s)
    BY <1>2, <2>1, ServerLands
  <2>2. CASE ~Server(s)
    <3>1. db' = db
      BY <2>2 DEF Submit, SubmitCurrent, SubmitLeased, SubmitGrace,
         SubmitDeferred, SubmitBlockOnly, Spawn, Task, Statements, Hook,
         RetryAfterContention, Aborted, ProbeShare, Enqueue, Answer,
         AppendJoined, Deadline, GraceEnds, EnqueueJoined, BoundEnds, Poll,
         Disconnect, Faults, StatementFails, ConnectionLost
    <3>2. Lands(s)
      BY <2>2, SubmitLands, StatementsLands, HookLands, RefusedLands,
         ProbeLands, EnqueueLands, FaultsLands, AnswerLands
      DEF Task
    <3>. QED
      BY <1>2, <3>1, <3>2 DEF Lands
  <2>. QED
    BY <2>1, <2>2
<1>. QED
  BY <1>2, <1>3, <1>4, <1>5, OthersLand DEF LandedInv

\* LandedInv is kept by every step.
LEMMA NextLands ==
    ASSUME TypeOK, SubFits, LandedInv, [Next]_vars
    PROVE  LandedInv'
<1>1. CASE Around
  <2>1. sub' = sub /\ left' = left /\ (db.row # NoRow => db'.row # NoRow)
    BY <1>1, AroundSub, AroundData, AroundRow
  <2>. QED
    BY <2>1, OthersLand DEF LandedInv
<1>2. CASE UNCHANGED vars
  BY <1>2 DEF vars, LandedInv, Landed, Through, Accounted
<1>. QED
  BY <1>1, <1>2, SubmissionLands, FailoverLands DEF Next, Around

\* A found block whose task has ended is in the outbox, whatever the deadline,
\* the session and the other submissions did meanwhile, unless it is excused
\* (CommitGate refuses no append that carries a block, window.rs).
THEOREM BlockLanded == Spec => []BlockReachesOutbox
<1>1. Init => LandedInv
  <2>1. SUFFICES ASSUME Init, NEW s \in Submission
                 PROVE  /\ Landed(sub[s], db.row, left.failovers)
                        /\ sub[s].task = "none" => ~sub[s].doomed
    BY DEF LandedInv
  <2>2. sub[s] = Fresh
    BY <2>1 DEF Init
  <2>3. sub[s].form = "none" /\ ~sub[s].doomed
    BY <2>2 DEF Fresh
  <2>. QED
    BY <2>3 DEF Landed
<1>2. TypeOK /\ SubFits /\ LandedInv /\ [Next]_vars => LandedInv'
  BY NextLands
<1>3. LandedInv => BlockReachesOutbox
  BY DEF LandedInv, Landed, Through, Accounted, BlockReachesOutbox, Excused
<1>. QED
  BY <1>1, <1>2, <1>3, InvHolds, PTL DEF Spec
=============================================================================
