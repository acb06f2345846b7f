CONSTANTS
    c1 = c1
    c2 = c2
    Chains <- MCChains
    MaxConns = 1
    MaxDepth = 2
SYMMETRY MCSymmetry
SPECIFICATION Spec
INVARIANT NoLeakedTransaction
