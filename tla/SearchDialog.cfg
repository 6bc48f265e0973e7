\* Two dialogs of one page; no symmetry, for the liveness.
SPECIFICATION FairSpec
CONSTANTS
    Queries = {a, b}
    Empty = Empty
    MaxRequests = 4
    MaxDialogs = 2
    MaxHits = 1
INVARIANTS AnsweredIsShown CancelledStaysHidden StalledIsPending
PROPERTIES NewestWins LoadingEnds
\* The searches and dialogs of a page are bounded.
CHECK_DEADLOCK FALSE
