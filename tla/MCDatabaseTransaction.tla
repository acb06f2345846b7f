----------------------- MODULE MCDatabaseTransaction -----------------------
(* Model-checking instance of DatabaseTransaction: two call chains sharing *)
(* a pool of one or two connections, Transaction nested two deep.          *)
EXTENDS DatabaseTransaction, ErrorClassifier, TLC

CONSTANTS c1, c2

MCChains == {c1, c2}

\* Chains are interchangeable: the model never distinguishes them.
MCSymmetry == Permutations(MCChains)
=============================================================================
