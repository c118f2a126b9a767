\* Two of the pilot's seven tasks: one that is answered before another fails.
\* The budget lets the cheapest provider through.
SPECIFICATION FairSpec
CONSTANTS
    Names <- MCNames
    PilotSize = 2
    LiveUsages <- MCUsages
    BudgetUSD = 1000
INVARIANTS
    TypeOK
    RowsMatchBills
    BillsAreWanted
    TotalExplained
    EveryProviderReported
PROPERTY
    MatrixEnds
