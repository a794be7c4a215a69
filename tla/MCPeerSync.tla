----------------------------- MODULE MCPeerSync -----------------------------
EXTENDS PeerSync

Budget(appends, landings, failures, restores) ==
    [appends |-> appends, landings |-> landings, failures |-> failures,
     restores |-> restores]

\* Landings that commit out of order; a window ahead of the share cursor;
\* keys of three appends through a restore; a failed recovery; landings
\* through a restore.
MCBudgets ==
    {Budget(1, 2, 1, 0), Budget(2, 1, 1, 0), Budget(3, 0, 0, 1),
     Budget(2, 0, 1, 1), Budget(1, 2, 0, 1)}
=============================================================================
