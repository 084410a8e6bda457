\* Two callers, three entries, two failures and two truncations: an append may
\* fall into a truncation, truncations may overlap, and a piece of a line that
\* an append or a truncation left may be glued to an entry that is then cut off
\* or acknowledged.
SPECIFICATION Spec
CONSTANTS
    Caller = {c1, c2}
    Key = {k1, k2}
    Value = {v1}
    Missing = Missing
    MaxEntries = 3
    MaxFailures = 2
    MaxCuts = 2
SYMMETRY Symmetry
CHECK_DEADLOCK FALSE
INVARIANTS
    TypeOK
    LostOnlyToARaceOrACrash
    FailureCostsOneEntry
    ReplayIsIndependentOfTheFile
