\* Two goroutines, two backends, two days and a price that may change between
\* any two steps.  Two lines: two records that race, a record and a torn line,
\* or one record on each side of midnight or of a restart.
SPECIFICATION Spec
CONSTANTS
    Recorders = {g1, g2}
    Backends = {1, 2}
    Usages <- MCUsages
    Prices <- MCPrices
    DefaultPricing <- MCPricing
    NoEvent = NoEvent
    MaxLines = 2
    MaxDay = 2
SYMMETRY MCSymmetry
INVARIANTS
    TypeOK
    TotalsMatchLog
    AlertFollowsLog
PROPERTY
    AlertStays
