\* Two chains, a pool of one connection (so that a Begin can block behind
\* another chain's transaction, statement or leaked connection), nesting
\* two deep.  No symmetry: the run checks a liveness property.
CONSTANTS
    c1 = c1
    c2 = c2
    Chains <- MCChains
    MaxConns = 1
    MaxDepth = 2
SPECIFICATION FairSpec
INVARIANT TypeOK
INVARIANT SuccessIsDurable
INVARIANT CommitOnlyCleanBody
PROPERTY ImplementsAbstract
PROPERTY CancelledCallReturns
