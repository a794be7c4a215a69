------------------------------ MODULE MCFanout ------------------------------
EXTENDS Fanout

CONSTANTS w1, w2

Budget(mature, up, height, failures, reorgs, evictions, spends, peers) ==
    [mature |-> mature, up |-> up, height |-> height, failures |-> failures,
     reorgs |-> reorgs, evictions |-> evictions, spends |-> spends,
     peers |-> peers]

\* A sponsored fanout whose coins the owner wants, one whose block is
\* disconnected, one the peer funds too, on a chain that is reorganised and
\* with an owner that spends; two that compete for coins; one with a fee of
\* its own.
MCBudgets ==
    {Budget({1}, Worker, 2, 2, 0, 1, 1, 0), Budget({1}, {w1}, 3, 1, 1, 0, 0, 0),
     Budget({1}, {w1}, 3, 0, 1, 0, 0, 1), Budget({1, 2}, Worker, 2, 0, 0, 0, 0, 0),
     Budget({1}, {w1}, 2, 1, 0, 1, 1, 1), Budget({3}, Worker, 3, 0, 1, 0, 0, 0)}
=============================================================================
