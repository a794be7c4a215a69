SPECIFICATION FairSpec
CONSTANTS
    Header = {h1, h2}
    Landers = {0}
    Restorable = {0}
    BatchRows = 2
    AppendsInGap = FALSE
    Budgets <- MCBudgets
    MaxKey = 6
    MaxSync = 3
    MaxRestores = 1
INVARIANTS TypeOK CursorsComplete WindowHeld 
PROPERTIES PairConverges
CHECK_DEADLOCK FALSE
