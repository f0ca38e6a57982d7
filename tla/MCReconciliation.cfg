SPECIFICATION MCSpec
CONSTANTS
    Txns = {p, q}
    Dates = {1, 2}
    PostingDates = {1, 2}
    Amounts <- AmountsBothWays
    NewAmounts <- Minus
    Balances = {0, 1}
    Reviews = {"exact", "batch"}
    Sessions = {s1}
    MaxWrites = 2
    MaxSeq = 2
SYMMETRY Symmetry
INVARIANTS CheckpointsAreSound PeriodStands CountedExactlyOnce
PROPERTY InvalidatesWhatWasReviewed
