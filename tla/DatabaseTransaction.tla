------------------------- MODULE DatabaseTransaction -------------------------
(***************************************************************************)
(* Database.Transaction, Database.Query and Database.Exec of the kit       *)
(* package (src/cache.go, the pgx-based Database, lines 1320-1641).        *)
(*                                                                         *)
(* Several logical call chains (goroutines) share one pgxpool of MaxConns  *)
(* connections.  A chain calls Transaction(ctx, level, fn); the outermost  *)
(* call begins a pgx transaction, puts it in the context under             *)
(* KeyDatabaseTransaction and runs fn, which may issue statements, call    *)
(* Transaction again (reentrant nesting, bounded by MaxDepth), return nil  *)
(* or an error, or panic.  The caller's context may be cancelled (deadline *)
(* or cancel) at any step of the call.                                     *)
(*                                                                         *)
(* The data of statements is abstracted away: a statement either leaves    *)
(* the transaction usable or fails on the server, which aborts it (every   *)
(* later statement fails and COMMIT answers ROLLBACK).                     *)
(***************************************************************************)
EXTENDS Naturals, Sequences, FiniteSets

CONSTANTS
    Chains,     \* the logical call chains (goroutines) using the Database
    MaxConns,   \* DatabaseMaxConns: size of the pgxpool
    MaxDepth    \* bound on the nesting depth of Transaction calls

ASSUME ConstantsAssumption ==
    /\ MaxConns \in Nat \ {0}
    /\ MaxDepth \in Nat \ {0}

-----------------------------------------------------------------------------
(***************************************************************************)
(* Isolation levels (lines 1339-1353).  The four IsolationLevel variables  *)
(* are declared in a var block, not a const block with iota: only the      *)
(* first has an initializer, the other three take the zero value, so all   *)
(* four are 0.  _KisoLevelToPisoLevel is a map literal whose keys are      *)
(* variables: it is built at run time by inserting its entries in order,   *)
(* the last entry for a key winning.                                       *)
(***************************************************************************)
IsoLvl == [IsoLvlReadUncommitted |-> 0,
           IsoLvlReadCommitted   |-> 0,
           IsoLvlRepeatableRead  |-> 0,
           IsoLvlSerializable    |-> 0]

\* The pgx.TxIsoLevel strings sent to PostgreSQL.
PgLevels == {"read uncommitted", "read committed", "repeatable read", "serializable"}

\* A Go map literal with run-time keys, given as the sequence of its keys
\* and the sequence of its values: entries are inserted in order, so the
\* last entry for a key wins.
MapLiteral(keys, vals) ==
    [k \in {keys[i] : i \in DOMAIN keys} |->
        vals[CHOOSE i \in DOMAIN keys :
                /\ keys[i] = k
                /\ \A j \in DOMAIN keys : keys[j] = k => j <= i]]

KisoLevelToPisoLevel ==
    MapLiteral(<<IsoLvl.IsoLvlReadUncommitted, IsoLvl.IsoLvlReadCommitted,
                 IsoLvl.IsoLvlRepeatableRead, IsoLvl.IsoLvlSerializable>>,
               <<"read uncommitted", "read committed",
                 "repeatable read", "serializable">>)

\* _DATABASE_DEFAULT_CONFIG.DatabaseDefaultIsolationLevel (line 1328).
DatabaseDefaultIsolationLevel == IsoLvl.IsoLvlReadCommitted

\* The level argument of Transaction: nil or one of the exported variables.
RequestedLevels == {"nil"} \cup DOMAIN IsoLvl

\* Lines 1582-1584 and 1596: the level pgx is asked to begin with.
PgLevelOf(level) ==
    KisoLevelToPisoLevel[IF level = "nil" THEN DatabaseDefaultIsolationLevel
                                          ELSE IsoLvl[level]]

-----------------------------------------------------------------------------
VARIABLES
    pc,         \* where each chain is in its outermost Transaction call
    depth,      \* number of Transaction frames on the chain's stack
    cancelled,  \* ctx.Err() != nil for the context of the current call
    txState,    \* the chain's pgx transaction, as the server sees it
    txIso,      \* the isolation level it was begun with
    requested,  \* the level argument of the outermost call
    fnResult,   \* what the outermost fn returned
    result,     \* what the outermost Transaction call returned
    leaked      \* connections held forever by unreachable transactions

vars == <<pc, depth, cancelled, txState, txIso, requested, fnResult, result, leaked>>

Phases == {"Idle", "Begin", "CheckBegun", "Body", "Commit", "CheckCommit", "Querying"}
TxStates == {"none", "active", "aborted", "committed", "rolledback"}
Open == {"active", "aborted"}

\* Phases in which the chain's transaction holds a pool connection.
TxPhases == {"CheckBegun", "Body", "Commit"}

\* pgxpool connections in use: open transactions, statements run on the
\* pool, and the connections of leaked transactions.
ConnsInUse ==
    Cardinality({c \in Chains : pc[c] \in TxPhases /\ txState[c] \in Open})
    + Cardinality({c \in Chains : pc[c] = "Querying"})
    + leaked

FreeConns == MaxConns - ConnsInUse

\* pgx Tx.Rollback: a no-op (ErrTxClosed) on a transaction already closed.
Rollback(s) == IF s \in Open THEN "rolledback" ELSE s

TypeOK ==
    /\ pc \in [Chains -> Phases]
    /\ depth \in [Chains -> 0..MaxDepth]
    /\ cancelled \in [Chains -> BOOLEAN]
    /\ txState \in [Chains -> TxStates]
    /\ txIso \in [Chains -> PgLevels \cup {"none"}]
    /\ requested \in [Chains -> RequestedLevels]
    /\ fnResult \in [Chains -> {"none", "nil", "error"}]
    /\ result \in [Chains -> {"none", "nil", "error", "panic"}]
    /\ leaked \in Nat

Init ==
    /\ pc = [c \in Chains |-> "Idle"]
    /\ depth = [c \in Chains |-> 0]
    /\ cancelled = [c \in Chains |-> FALSE]
    /\ txState = [c \in Chains |-> "none"]
    /\ txIso = [c \in Chains |-> "none"]
    /\ requested = [c \in Chains |-> "nil"]
    /\ fnResult = [c \in Chains |-> "none"]
    /\ result = [c \in Chains |-> "none"]
    /\ leaked = 0

-----------------------------------------------------------------------------
(***************************************************************************)
(* The outermost Transaction call.                                         *)
(***************************************************************************)

\* Transaction(ctx, level, fn) on a context without a transaction: the
\* chain starts a call with a fresh context (lines 1581-1586).
Call(c, level) ==
    /\ pc[c] = "Idle"
    /\ pc' = [pc EXCEPT ![c] = "Begin"]
    /\ requested' = [requested EXCEPT ![c] = level]
    /\ cancelled' = [cancelled EXCEPT ![c] = FALSE]
    /\ txState' = [txState EXCEPT ![c] = "none"]
    /\ txIso' = [txIso EXCEPT ![c] = "none"]
    /\ fnResult' = [fnResult EXCEPT ![c] = "none"]
    /\ result' = [result EXCEPT ![c] = "none"]
    /\ UNCHANGED <<depth, leaked>>

\* Return from the outermost call with the given result.
Return(c, r) ==
    /\ pc' = [pc EXCEPT ![c] = "Idle"]
    /\ depth' = [depth EXCEPT ![c] = 0]
    /\ result' = [result EXCEPT ![c] = r]

\* Fault variant of BeginTx: the connection is acquired without the
\* caller's ctx, so the wait for a free connection does not end with it.
BeginTxIgnoringCtx(c) ==
    /\ pc[c] = "Begin"
    /\ FreeConns > 0
    /\ \/ /\ pc' = [pc EXCEPT ![c] = "CheckBegun"]
          /\ txState' = [txState EXCEPT ![c] = "active"]
          /\ txIso' = [txIso EXCEPT ![c] = PgLevelOf(requested[c])]
          /\ UNCHANGED <<depth, result>>
       \/ /\ Return(c, "error")
          /\ UNCHANGED <<txState, txIso>>
    /\ UNCHANGED <<cancelled, requested, fnResult, leaked>>

\* self.pool.BeginTx (lines 1595-1601): acquire a connection (blocking
\* while the pool is exhausted, failing once ctx is done) and send BEGIN.
BeginTx(c) ==
    /\ pc[c] = "Begin"
    /\ \/ /\ ~cancelled[c]
          /\ FreeConns > 0
          /\ pc' = [pc EXCEPT ![c] = "CheckBegun"]
          /\ txState' = [txState EXCEPT ![c] = "active"]
          /\ txIso' = [txIso EXCEPT ![c] = PgLevelOf(requested[c])]
          /\ UNCHANGED <<depth, result>>
       \/ /\ cancelled[c] \/ FreeConns > 0
          /\ Return(c, "error")
          /\ UNCHANGED <<txState, txIso>>
    /\ UNCHANGED <<cancelled, requested, fnResult, leaked>>

\* err = ctx.Err() right after BeginTx (lines 1603-1606): on a cancelled
\* context the call returns without rolling the transaction back.
CheckBegun(c) ==
    /\ pc[c] = "CheckBegun"
    /\ IF cancelled[c]
         THEN /\ Return(c, "error")
              /\ leaked' = leaked + 1
         ELSE /\ pc' = [pc EXCEPT ![c] = "Body"]
              /\ depth' = [depth EXCEPT ![c] = 1]
              /\ UNCHANGED <<result, leaked>>
    /\ UNCHANGED <<cancelled, txState, txIso, requested, fnResult>>

\* Fault variant of FnReturn: the error of fn is not checked before commit.
FnReturnIgnoringError(c) ==
    /\ pc[c] = "Body"
    /\ depth[c] = 1
    /\ \E r \in {"nil", "error"} :
          /\ fnResult' = [fnResult EXCEPT ![c] = r]
          /\ IF cancelled[c]
               THEN /\ txState' = [txState EXCEPT ![c] = Rollback(@)]
                    /\ Return(c, "error")
               ELSE /\ pc' = [pc EXCEPT ![c] = "Commit"]
                    /\ UNCHANGED <<depth, txState, result>>
    /\ UNCHANGED <<cancelled, txIso, requested, leaked>>

\* fn returns to the outermost frame (lines 1616-1626): an error, or a
\* cancelled context, rolls the transaction back; otherwise commit.
FnReturn(c) ==
    /\ pc[c] = "Body"
    /\ depth[c] = 1
    /\ \E r \in {"nil", "error"} :
          /\ fnResult' = [fnResult EXCEPT ![c] = r]
          /\ IF r = "error" \/ cancelled[c]
               THEN /\ txState' = [txState EXCEPT ![c] = Rollback(@)]
                    /\ Return(c, "error")
               ELSE /\ pc' = [pc EXCEPT ![c] = "Commit"]
                    /\ UNCHANGED <<depth, txState, result>>
    /\ UNCHANGED <<cancelled, txIso, requested, leaked>>

\* Fault variant of Commit: a failed COMMIT is not reported.
CommitIgnoringError(c) ==
    /\ pc[c] = "Commit"
    /\ \/ /\ txState[c] = "active"
          /\ ~cancelled[c]
          /\ txState' = [txState EXCEPT ![c] = "committed"]
       \/ txState' = [txState EXCEPT ![c] = Rollback(@)]
    /\ pc' = [pc EXCEPT ![c] = "CheckCommit"]
    /\ UNCHANGED <<depth, result, cancelled, txIso, requested, fnResult, leaked>>

\* transaction.Commit (lines 1628-1632).  COMMIT of an aborted transaction
\* answers ROLLBACK, a cancelled context fails before sending it, and the
\* server or network may fail it; pgx closes the transaction in every case
\* and the Rollback that follows is a no-op.
Commit(c) ==
    /\ pc[c] = "Commit"
    /\ \/ /\ txState[c] = "active"
          /\ ~cancelled[c]
          /\ txState' = [txState EXCEPT ![c] = "committed"]
          /\ pc' = [pc EXCEPT ![c] = "CheckCommit"]
          /\ UNCHANGED <<depth, result>>
       \/ /\ txState' = [txState EXCEPT ![c] = Rollback(@)]
          /\ Return(c, "error")
    /\ UNCHANGED <<cancelled, txIso, requested, fnResult, leaked>>

\* Fault variant of CheckCommit: the context is not checked after commit.
CheckCommitWithoutCtxCheck(c) ==
    /\ pc[c] = "CheckCommit"
    /\ txState' = [txState EXCEPT ![c] = Rollback(@)]
    /\ Return(c, "nil")
    /\ UNCHANGED <<cancelled, txIso, requested, fnResult, leaked>>

\* err = ctx.Err() after the commit (lines 1634-1640): a context cancelled
\* meanwhile makes the call roll back (a no-op now) and report failure.
CheckCommit(c) ==
    /\ pc[c] = "CheckCommit"
    /\ txState' = [txState EXCEPT ![c] = Rollback(@)]
    /\ Return(c, IF cancelled[c] THEN "error" ELSE "nil")
    /\ UNCHANGED <<cancelled, txIso, requested, fnResult, leaked>>

-----------------------------------------------------------------------------
(***************************************************************************)
(* What fn does.  Inside fn the context carries the transaction, so every  *)
(* nested Transaction, Query and Exec finds it.                            *)
(***************************************************************************)

\* Transaction called on a context that already carries a transaction
\* (lines 1582-1587): the level is ignored and fn runs on the same ctx.
NestedTransaction(c, level) ==
    /\ pc[c] = "Body"
    /\ depth[c] < MaxDepth
    /\ depth' = [depth EXCEPT ![c] = @ + 1]
    /\ UNCHANGED <<pc, cancelled, txState, txIso, requested, fnResult, result, leaked>>

\* Fault variant of NestedReturn: a frame returns without telling whether
\* it is nested.
NestedReturnUnguarded(c) ==
    /\ pc[c] = "Body"
    /\ depth' = [depth EXCEPT ![c] = @ - 1]
    /\ UNCHANGED <<pc, cancelled, txState, txIso, requested, fnResult, result, leaked>>

\* The nested fn returns (lines 1587-1592): its error, wrapped, goes back
\* to the enclosing fn, which may return it or carry on.
NestedReturn(c) ==
    /\ pc[c] = "Body"
    /\ depth[c] > 1
    /\ depth' = [depth EXCEPT ![c] = @ - 1]
    /\ UNCHANGED <<pc, cancelled, txState, txIso, requested, fnResult, result, leaked>>

\* A statement run on the transaction: it succeeds, or fails on the server
\* and aborts the transaction.
RunOnTx(c) ==
    /\ pc[c] = "Body"
    /\ txState' \in {[txState EXCEPT ![c] = "aborted"], txState}
    /\ UNCHANGED <<pc, depth, cancelled, txIso, requested, fnResult, result, leaked>>

\* A statement on a context without a transaction checks out a pool
\* connection for its duration.
RunOnPool(c) ==
    /\ pc[c] = "Idle"
    /\ FreeConns > 0
    /\ pc' = [pc EXCEPT ![c] = "Querying"]
    /\ UNCHANGED <<depth, cancelled, txState, txIso, requested, fnResult, result, leaked>>

\* Database.Query (lines 1515-1549): on the transaction of the context if
\* there is one, on the pool otherwise; ctx.Err and scan errors are
\* returned without touching the transaction.
Query(c) == RunOnTx(c) \/ RunOnPool(c)

\* Database.Exec (lines 1551-1579): the same connection choice as Query.
Exec(c) == RunOnTx(c) \/ RunOnPool(c)

\* The rows are scanned (pgxscan closes them) or the command tag returned:
\* the pool connection goes back to the pool.
ReleasePoolConn(c) ==
    /\ pc[c] = "Querying"
    /\ pc' = [pc EXCEPT ![c] = "Idle"]
    /\ UNCHANGED <<depth, cancelled, txState, txIso, requested, fnResult, result, leaked>>

\* Fault variant of Panic: the deferred function re-panics without rollback.
PanicWithoutRollback(c) ==
    /\ pc[c] = "Body"
    /\ Return(c, "panic")
    /\ UNCHANGED <<txState, cancelled, txIso, requested, fnResult, leaked>>

\* fn panics at any depth.  Nested frames have no defer, so the panic
\* unwinds to the outermost frame, whose deferred recover rolls the
\* transaction back and panics again (lines 1608-1614).
Panic(c) ==
    /\ pc[c] = "Body"
    /\ txState' = [txState EXCEPT ![c] = Rollback(@)]
    /\ Return(c, "panic")
    /\ UNCHANGED <<cancelled, txIso, requested, fnResult, leaked>>

\* The context's deadline passes or it is cancelled during the call.
Cancel(c) ==
    /\ pc[c] \notin {"Idle", "Querying"}
    /\ ~cancelled[c]
    /\ cancelled' = [cancelled EXCEPT ![c] = TRUE]
    /\ UNCHANGED <<pc, depth, txState, txIso, requested, fnResult, result, leaked>>

-----------------------------------------------------------------------------
Next ==
    \E c \in Chains :
        \/ \E level \in RequestedLevels : Call(c, level)
        \/ BeginTx(c)
        \/ CheckBegun(c)
        \/ \E level \in RequestedLevels : NestedTransaction(c, level)
        \/ NestedReturn(c)
        \/ Query(c)
        \/ Exec(c)
        \/ ReleasePoolConn(c)
        \/ Panic(c)
        \/ FnReturn(c)
        \/ Commit(c)
        \/ CheckCommit(c)
        \/ Cancel(c)

Spec == Init /\ [][Next]_vars

\* Go runs a runnable goroutine, and pgxpool's Acquire wakes when a
\* connection is released or ctx is done: the code's own steps are weakly
\* fair.  fn and every nested fn are assumed to return (or panic) in the
\* end, however many statements and nested calls they make: a frame that
\* keeps reaching its return eventually takes it.  Starting calls and
\* statements, cancellation and statement failures are the environment's.
CodeStep(c) ==
    \/ BeginTx(c) \/ CheckBegun(c) \/ Commit(c) \/ CheckCommit(c)
    \/ ReleasePoolConn(c)

FnEnds(c) == FnReturn(c) \/ Panic(c)

FairSpec ==
    /\ Spec
    /\ \A c \in Chains : /\ WF_vars(CodeStep(c))
                        /\ SF_vars(NestedReturn(c))
                        /\ SF_vars(FnEnds(c))

-----------------------------------------------------------------------------
(***************************************************************************)
(* Properties.                                                             *)
(***************************************************************************)

\* A Transaction call that returns nil has committed its transaction: the
\* caller is never told "done" for work that was rolled back (the commit
\* error check of line 1629 and the ctx checks of lines 1622 and 1634).
SuccessIsDurable ==
    \A c \in Chains : result[c] = "nil" => txState[c] = "committed"

\* A transaction is committed only when the outermost fn returned nil: an
\* error from fn always leads to rollback (lines 1616-1620), whatever the
\* nested calls and statements did before.
CommitOnlyCleanBody ==
    \A c \in Chains : txState[c] = "committed" => fnResult[c] = "nil"

\* Spec 4.3 (4, 5): a transaction is never left open once the Transaction
\* call that began it has returned, whatever the context did.
NoLeakedTransaction ==
    \A c \in Chains : pc[c] = "Idle" => txState[c] \notin Open

\* Spec 4.3 (4): a Transaction call that fails has not committed its
\* transaction ("no silent partial commits").
ErrorMeansNotCommitted ==
    \A c \in Chains : result[c] = "error" => txState[c] # "committed"

\* Spec 3 and 6: a transaction is begun at the level the outermost call
\* asked for, Read Committed when it passed nil.
SpecLevel == [l \in RequestedLevels |->
                CASE l = "nil" -> "read committed"
                  [] l = "IsoLvlReadUncommitted" -> "read uncommitted"
                  [] l = "IsoLvlReadCommitted" -> "read committed"
                  [] l = "IsoLvlRepeatableRead" -> "repeatable read"
                  [] l = "IsoLvlSerializable" -> "serializable"]

IsolationAsRequested ==
    \A c \in Chains : txIso[c] # "none" => txIso[c] = SpecLevel[requested[c]]

\* Once the context of a Transaction call is done, the call returns, even
\* when the pool is exhausted by other chains' transactions and by the
\* connections that the path of lines 1603-1606 leaked: BeginTx at line
\* 1595 gives up waiting for a connection, and no later step blocks.
CancelledCallReturns ==
    \A c \in Chains : cancelled[c] ~> pc[c] = "Idle"

-----------------------------------------------------------------------------
(***************************************************************************)
(* Refinement of TransactionAbstract: a chain runs a call outside Idle and *)
(* Querying, an active or aborted pgx transaction is open, and the live    *)
(* context is the negation of cancelled.                                   *)
(***************************************************************************)
AbsCall == [c \in Chains |-> IF pc[c] \in {"Idle", "Querying"} THEN "idle"
                                                              ELSE "running"]
AbsTx == [c \in Chains |-> IF txState[c] \in Open THEN "open" ELSE txState[c]]
AbsLive == [c \in Chains |-> ~cancelled[c]]

Abstract == INSTANCE TransactionAbstract
                WITH call <- AbsCall, tx <- AbsTx, res <- result, live <- AbsLive

\* Spec 4.3: seen from its caller and the server, Transaction is one call
\* that opens at most one transaction, commits it only while the call runs
\* on a live context, reports nil only for a commit, closes it before a
\* panic propagates, and never touches it after the call returned.
ImplementsAbstract == Abstract!Spec
=============================================================================
