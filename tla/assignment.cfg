\* Every schema of up to 3 sources and 3 targets, wide and tall ones included,
\* every pair unranked or with one of two weights.
CONSTANTS
    MaxSize = 3
    Weights = {1, 3}
    NoScore = NoScore
SPECIFICATION SolverFairSpec
INVARIANTS
    MatchingComplete
    DualsCertify
    BestTotal
PROPERTY
    Solved
