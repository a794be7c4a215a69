------------------------- MODULE MCCandidateOutbox -------------------------
EXTENDS CandidateOutbox, TLC

\* Single-writer candidates: a leased one, whose revision is never looked at,
\* and a screened one with every outcome of the capture.
SingleWriter == {k \in Kind : ~k.carry /\ (k.leased => k.capture = "off")}

\* Carry-paying candidates of a dual writer that are screened.
CarryPaying == {k \in Kind : k.carry /\ ~k.leased}

\* One that is screened, with capture on.
Captured == {[leased |-> FALSE, carry |-> FALSE, capture |-> "within"]}

SpecSingle == InitOf(SingleWriter) /\ [][Next]_vars
SpecGateFailover == InitOf(CarryPaying \cup Captured) /\ [][Next]_vars
SpecCaptured == InitOf(Captured) /\ [][Next]_vars
FairSpecCaptured == SpecCaptured /\ Fairness

\* Bounds: the same for every candidate, or room for a second reorg for those
\* whose late capture is refused, and two faults only for those with none.
\* Once offered, a block's course does not depend on the capture.
Zero == [c \in {"off", "within", "over"} |-> 0]
One == [c \in {"off", "within", "over"} |-> 1]
Two == [c \in {"off", "within", "over"} |-> 2]
ThreeIfOver == [Two EXCEPT !["over"] = 3]
TwoIfOff == [One EXCEPT !["off"] = 2]

Symmetry == Permutations(Token) \cup Permutations(Frontend)
=============================================================================
