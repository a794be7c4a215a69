---------------------------- MODULE MCCarryOwner ----------------------------
EXTENDS CarryOwner

\* Budgets: neither node, each once, the first owner or its taker once.
Never == [n \in Node |-> 0]
EachOnce == [n \in Node |-> 1]
OwnerOnce == [n \in Node |-> 1 - n]
TakerOnce == [n \in Node |-> n]

(***************************************************************************)
(* A pair in service: both nodes seeded and synced, node 0 the owner and   *)
(* paying.  A state Init reaches; starting here leaves the bounds to the   *)
(* handover: either backups are left or restarts, never both.              *)
(***************************************************************************)
SeedRow(e, owner) == [NoRow EXCEPT !.epoch = e, !.owner = owner,
                                   !.action = "seed"]

SeededRows == [o \in Node |-> {SeedRow(2 - o, o = 0)}]

InitSeeded ==
    /\ journal = [n \in Node |-> SeededRows]
    /\ verified = [n \in Node |-> TRUE]
    /\ backup = [n \in Node |-> [rows |-> SeededRows, verified |-> TRUE]]
    /\ env = [n \in Node |-> n = 0]
    /\ caughtUp = [n \in Node |-> TRUE]
    /\ paying = [n \in Node |-> n = 0]
    /\ guard = [n \in Node |-> [NewGuard EXCEPT !.confirmed = (n = 0),
                                                !.highest = 2 - n]]
    /\ transfer = [n \in Node |-> NoTransfer]
    /\ tip = 0 /\ clock = 3
    /\ backups \in {0, MaxBackups}
    /\ restores = [n \in Node |-> 0]
    /\ restarts = [n \in Node |-> IF backups = MaxBackups THEN 0
                                  ELSE MaxRestarts[n]]
    /\ lastPaid = [n \in Node |-> IF n = 0 THEN 0 ELSE -1]

SpecSeeded == InitSeeded /\ [][Next]_vars
FairSpecSeeded == SpecSeeded /\ Fairness

(***************************************************************************)
(* The same pair just after node 0 released, before its guard or node 1    *)
(* has seen the release; the backups still hold node 0's claim.  Node 1's  *)
(* setting is changed ahead of the transfer.  Either a restore of each     *)
(* database is left, or one of node 0's and a restart.                     *)
(***************************************************************************)
InitReleased ==
    /\ journal = [n \in Node |-> [o \in Node |->
          IF n = 0 /\ o = 0
          THEN SeededRows[0] \cup {[NoRow EXCEPT !.epoch = 3,
                                                 !.action = "release"]}
          ELSE SeededRows[o]]]
    /\ clock = 4
    /\ verified = [n \in Node |-> TRUE]
    /\ backup = [n \in Node |-> [rows |-> SeededRows, verified |-> TRUE]]
    /\ env = [n \in Node |-> TRUE]
    /\ caughtUp = [n \in Node |-> TRUE]
    /\ paying = [n \in Node |-> n = 0]
    /\ guard = [n \in Node |-> [NewGuard EXCEPT !.confirmed = (n = 0),
                                                !.highest = 2 - n]]
    /\ transfer = [n \in Node |-> NoTransfer]
    /\ tip = 0
    /\ backups = 0
    /\ \/ restores = [n \in Node |-> 0] /\ restarts = MaxRestarts
       \/ restores = [n \in Node |-> n] /\ restarts = [n \in Node |-> 0]
    /\ lastPaid = [n \in Node |-> IF n = 0 THEN 0 ELSE -1]

(***************************************************************************)
(* Two empty databases and any settings; the chain, the clock's first two  *)
(* values, node 1's restore and the restart are spent, which leaves three  *)
(* rows and a restore of node 0.                                           *)
(***************************************************************************)
InitEmpty ==
    /\ journal = [n \in Node |-> [o \in Node |-> {}]]
    /\ verified = [n \in Node |-> FALSE]
    /\ backup = [n \in Node |-> [rows |-> journal[n], verified |-> FALSE]]
    /\ env \in [Node -> BOOLEAN]
    /\ caughtUp = [n \in Node |-> FALSE]
    /\ paying = [n \in Node |-> FALSE]
    /\ guard = [n \in Node |-> NewGuard]
    /\ transfer = [n \in Node |-> NoTransfer]
    /\ tip = MaxTip /\ clock = 2
    /\ backups = 0
    /\ restores = [n \in Node |-> n] /\ restarts = [n \in Node |-> 1 - n]
    /\ lastPaid = [n \in Node |-> -1]

SpecRestore == (InitEmpty \/ InitReleased) /\ [][Next]_vars
=============================================================================
