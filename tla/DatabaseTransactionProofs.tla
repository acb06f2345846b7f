--------------------- MODULE DatabaseTransactionProofs ---------------------
(***************************************************************************)
(* Proofs about DatabaseTransaction, for every set of chains, pool size    *)
(* and nesting bound.                                                      *)
(***************************************************************************)
EXTENDS DatabaseTransaction, TLAPS

(***************************************************************************)
(* What each phase of the outermost Transaction call knows about the       *)
(* chain's transaction and results; it makes the outcome properties        *)
(* inductive.                                                              *)
(***************************************************************************)
PhaseInv(c) ==
    /\ pc[c] = "Begin" =>
          txState[c] = "none" /\ fnResult[c] = "none" /\ result[c] = "none"
    /\ pc[c] \in {"CheckBegun", "Body"} =>
          txState[c] \in Open /\ fnResult[c] = "none" /\ result[c] = "none"
    /\ pc[c] = "Commit" =>
          txState[c] \in Open /\ fnResult[c] = "nil" /\ result[c] = "none"
    /\ pc[c] = "CheckCommit" =>
          txState[c] = "committed" /\ fnResult[c] = "nil" /\ result[c] = "none"

\* A panic leaves the transaction rolled back (the deferred recover of
\* lines 1608-1614), and a call reporting nil had a live context: two
\* facts the refinement's abstract guards need.
PanicRolledBack ==
    \A c \in Chains : result[c] = "panic" => txState[c] = "rolledback"

SuccessUncancelled ==
    \A c \in Chains : result[c] = "nil" => ~cancelled[c]

\* The outcome properties checked by MCDatabaseTransaction.cfg, and the
\* two facts above.
OutcomeInv ==
    /\ SuccessIsDurable
    /\ CommitOnlyCleanBody
    /\ PanicRolledBack
    /\ SuccessUncancelled

\* The inductive strengthening of OutcomeInv.
IInv ==
    /\ TypeOK
    /\ \A c \in Chains : PhaseInv(c)
    /\ OutcomeInv
-----------------------------------------------------------------------------
(***************************************************************************)
(* Every isolation level, nil included, reaches pgx as "serializable":     *)
(* the four IsolationLevel variables are all 0 and the last entry of the   *)
(* _KisoLevelToPisoLevel literal for key 0 is pgx.Serializable.            *)
(***************************************************************************)
LEMMA AllLevelsSerializable ==
    \A l \in RequestedLevels : PgLevelOf(l) = "serializable"
<1> DEFINE keys == <<0, 0, 0, 0>>
           vals == <<"read uncommitted", "read committed",
                     "repeatable read", "serializable">>
           Last(i) == /\ keys[i] = 0
                      /\ \A j \in DOMAIN keys : keys[j] = 0 => j <= i
<1>1. KisoLevelToPisoLevel = MapLiteral(keys, vals)
  BY DEF KisoLevelToPisoLevel, IsoLvl
<1>2. (CHOOSE i \in DOMAIN keys : Last(i)) = 4
  <2>1. DOMAIN keys = 1..4
    OBVIOUS
  <2>2. \A i \in 1..4 : keys[i] = 0
    OBVIOUS
  <2>3. Last(4)
    BY <2>1, <2>2
  <2>4. \A i \in DOMAIN keys : Last(i) => i = 4
    BY <2>1, <2>2
  <2> QED
    BY <2>3, <2>4, <2>1
<1>3. MapLiteral(keys, vals)[0] = "serializable"
  <2>1. 0 \in {keys[i] : i \in DOMAIN keys}
    BY 1 \in DOMAIN keys
  <2>2. MapLiteral(keys, vals)[0] = vals[CHOOSE i \in DOMAIN keys : Last(i)]
    BY <2>1, Zenon DEF MapLiteral, Last
  <2>3. vals[4] = "serializable"
    OBVIOUS
  <2> QED
    BY <1>2, <2>2, <2>3, Zenon
<1>4. \A l \in RequestedLevels :
         (IF l = "nil" THEN DatabaseDefaultIsolationLevel ELSE IsoLvl[l]) = 0
  BY DEF RequestedLevels, IsoLvl, DatabaseDefaultIsolationLevel
<1> QED
  BY <1>1, <1>3, <1>4 DEF PgLevelOf

\* Every level pgx is asked for is a PostgreSQL isolation level.
LEMMA PgLevelType ==
    \A l \in RequestedLevels : PgLevelOf(l) \in PgLevels
BY AllLevelsSerializable DEF PgLevels

-----------------------------------------------------------------------------
\* Rollback leaves a transaction state a transaction state.
LEMMA RollbackType ==
    \A s \in TxStates : Rollback(s) \in TxStates
BY DEF Rollback, Open, TxStates

\* NewDatabase starts with every chain idle and nothing leaked.
LEMMA TypeInit == Init => TypeOK
BY ConstantsAssumption DEF Init, TypeOK, Phases, TxStates, RequestedLevels

\* Every step keeps the variables in their types.
LEMMA TypeStep == TypeOK /\ [Next]_vars => TypeOK'
  <2> SUFFICES ASSUME TypeOK, [Next]_vars PROVE TypeOK'
    OBVIOUS
  <2> USE ConstantsAssumption DEF TypeOK, Phases, TxStates
  <2>1. ASSUME NEW c \in Chains, NEW level \in RequestedLevels, Call(c, level)
        PROVE TypeOK'
    BY <2>1 DEF Call
  <2>2. ASSUME NEW c \in Chains, BeginTx(c) PROVE TypeOK'
    BY <2>2, PgLevelType DEF BeginTx, Return
  <2>3. ASSUME NEW c \in Chains, CheckBegun(c) PROVE TypeOK'
    BY <2>3 DEF CheckBegun, Return
  <2>4. ASSUME NEW c \in Chains, NEW level \in RequestedLevels,
               NestedTransaction(c, level)
        PROVE TypeOK'
    BY <2>4 DEF NestedTransaction
  <2>5. ASSUME NEW c \in Chains, NestedReturn(c) PROVE TypeOK'
    BY <2>5 DEF NestedReturn
  <2>6. ASSUME NEW c \in Chains, Query(c) \/ Exec(c) PROVE TypeOK'
    BY <2>6 DEF Query, Exec, RunOnTx, RunOnPool
  <2>7. ASSUME NEW c \in Chains, ReleasePoolConn(c) PROVE TypeOK'
    BY <2>7 DEF ReleasePoolConn
  <2>8. ASSUME NEW c \in Chains, Panic(c) PROVE TypeOK'
    BY <2>8, RollbackType DEF Panic, Return
  <2>9. ASSUME NEW c \in Chains, FnReturn(c) PROVE TypeOK'
    BY <2>9, RollbackType DEF FnReturn, Return
  <2>10. ASSUME NEW c \in Chains, Commit(c) PROVE TypeOK'
    BY <2>10, RollbackType DEF Commit, Return
  <2>11. ASSUME NEW c \in Chains, CheckCommit(c) PROVE TypeOK'
    BY <2>11, RollbackType DEF CheckCommit, Return
  <2>12. ASSUME NEW c \in Chains, Cancel(c) PROVE TypeOK'
    BY <2>12 DEF Cancel
  <2>13. CASE UNCHANGED vars
    BY <2>13 DEF vars
  <2> QED
    BY <2>1, <2>2, <2>3, <2>4, <2>5, <2>6, <2>7, <2>8, <2>9, <2>10,
       <2>11, <2>12, <2>13 DEF Next

\* The type invariant holds in every reachable state.
THEOREM TypeCorrect == Spec => []TypeOK
BY TypeInit, TypeStep, PTL DEF Spec

-----------------------------------------------------------------------------
(***************************************************************************)
(* The outcome of a Transaction call agrees with its result: a nil result  *)
(* means the transaction was committed with a live context, a commit       *)
(* means fn returned nil, and a panic leaves the transaction rolled back.  *)
(* The properties alone are not inductive (a chain in the middle of a call *)
(* could hold any state); PhaseInv says what each phase knows.             *)
(***************************************************************************)
LEMMA IInvInit == Init => IInv
BY TypeInit DEF Init, IInv, PhaseInv, OutcomeInv, SuccessIsDurable,
   CommitOnlyCleanBody, PanicRolledBack, SuccessUncancelled

\* Every step keeps IInv.
LEMMA IInvStep == IInv /\ [Next]_vars => IInv'
<1> SUFFICES ASSUME IInv, [Next]_vars PROVE IInv'
  OBVIOUS
<1>1. TypeOK'
  BY TypeStep DEF IInv
<1> DEFINE Inner == (\A c \in Chains : PhaseInv(c)) /\ OutcomeInv
<1> SUFFICES Inner'
  BY <1>1 DEF IInv
<1> USE DEF IInv, TypeOK, PhaseInv, OutcomeInv, SuccessIsDurable,
        CommitOnlyCleanBody, PanicRolledBack, SuccessUncancelled, Open
<1>2. ASSUME NEW c \in Chains, NEW level \in RequestedLevels, Call(c, level)
      PROVE Inner'
  BY <1>2 DEF Call
<1>3. ASSUME NEW c \in Chains, BeginTx(c) PROVE Inner'
  BY <1>3 DEF BeginTx, Return
<1>4. ASSUME NEW c \in Chains, CheckBegun(c) PROVE Inner'
  BY <1>4 DEF CheckBegun, Return
<1>5. ASSUME NEW c \in Chains, NEW level \in RequestedLevels,
             NestedTransaction(c, level)
      PROVE Inner'
  BY <1>5 DEF NestedTransaction
<1>6. ASSUME NEW c \in Chains, NestedReturn(c) PROVE Inner'
  BY <1>6 DEF NestedReturn
<1>7. ASSUME NEW c \in Chains, Query(c) \/ Exec(c) PROVE Inner'
  BY <1>7 DEF Query, Exec, RunOnTx, RunOnPool
<1>8. ASSUME NEW c \in Chains, ReleasePoolConn(c) PROVE Inner'
  BY <1>8 DEF ReleasePoolConn
<1>9. ASSUME NEW c \in Chains, Panic(c) PROVE Inner'
  BY <1>9 DEF Panic, Return, Rollback
<1>10. ASSUME NEW c \in Chains, FnReturn(c) PROVE Inner'
  BY <1>10 DEF FnReturn, Return, Rollback
<1>11. ASSUME NEW c \in Chains, Commit(c) PROVE Inner'
  BY <1>11 DEF Commit, Return, Rollback
<1>12. ASSUME NEW c \in Chains, CheckCommit(c) PROVE Inner'
  BY <1>12 DEF CheckCommit, Return, Rollback
<1>13. ASSUME NEW c \in Chains, Cancel(c) PROVE Inner'
  BY <1>13 DEF Cancel, Phases
<1>14. CASE UNCHANGED vars
  BY <1>14 DEF vars, Inner
<1> QED
  BY <1>2, <1>3, <1>4, <1>5, <1>6, <1>7, <1>8, <1>9, <1>10, <1>11,
     <1>12, <1>13, <1>14 DEF Next

\* The outcome properties checked by MCDatabaseTransaction.cfg hold for
\* every number of chains, pool size and nesting bound.
THEOREM OutcomeCorrect == Spec => []OutcomeInv
BY IInvInit, IInvStep, PTL DEF Spec, IInv

\* Lines 1622-1634: a Transaction call that returns nil has committed its
\* transaction, for every number of chains, pool size and nesting bound.
THEOREM DurableSuccess == Spec => []SuccessIsDurable
BY OutcomeCorrect, PTL DEF OutcomeInv

\* Lines 1616-1620: a transaction is committed only after the outermost
\* fn returned nil, however deep the nested calls went.
THEOREM CleanCommit == Spec => []CommitOnlyCleanBody
BY OutcomeCorrect, PTL DEF OutcomeInv

-----------------------------------------------------------------------------
(***************************************************************************)
(* Refinement: every step of the model is a step of TransactionAbstract   *)
(* under the mapping AbsCall, AbsTx, result, AbsLive, or leaves the        *)
(* mapped state alone.  PhaseInv supplies what the abstract guards need:  *)
(* a transaction is open in Body and Commit and committed in CheckCommit. *)
(***************************************************************************)
AStep == [Abstract!Next]_Abstract!avars

LEMMA RefineInit == Init => Abstract!Init
<1> SUFFICES ASSUME Init PROVE Abstract!Init
  OBVIOUS
<1>1. AbsCall = [c \in Chains |-> "idle"]
  BY DEF Init, AbsCall
<1>2. AbsTx = [c \in Chains |-> "none"]
  BY DEF Init, AbsTx, Open
<1>3. AbsLive = [c \in Chains |-> TRUE]
  BY DEF Init, AbsLive
<1> QED
  BY <1>1, <1>2, <1>3 DEF Init, Abstract!Init

LEMMA RefineStep == IInv /\ [Next]_vars => AStep
<1> SUFFICES ASSUME IInv, [Next]_vars PROVE AStep
  OBVIOUS
<1> USE DEF IInv, TypeOK, PhaseInv, AbsCall, AbsTx, AbsLive, Open,
        Abstract!avars, AStep
\* A step that keeps pc in or out of {"Idle", "Querying"}, txState open or
\* as it was, and cancelled is a stutter of the abstract specification.
<1>1. ASSUME NEW c \in Chains,
             NestedReturn(c) \/ ReleasePoolConn(c) \/ RunOnPool(c)
      PROVE  AStep
  BY <1>1 DEF NestedReturn, ReleasePoolConn, RunOnPool
<1>2. ASSUME NEW c \in Chains, NEW level \in RequestedLevels,
             NestedTransaction(c, level)
      PROVE  AStep
  BY <1>2 DEF NestedTransaction
<1>3. ASSUME NEW c \in Chains, RunOnTx(c) PROVE AStep
  BY <1>3 DEF RunOnTx
<1>4. ASSUME NEW c \in Chains, NEW level \in RequestedLevels, Call(c, level)
      PROVE  Abstract!Start(c)
  BY <1>4 DEF Call, Abstract!Start
<1>5. ASSUME NEW c \in Chains, BeginTx(c) PROVE AStep
  <2>1. CASE pc'[c] = "CheckBegun"
    <3>1. Abstract!Begin(c)
      BY <1>5, <2>1 DEF BeginTx, Return, Abstract!Begin
    <3> QED
      BY <3>1 DEF Abstract!Next
  <2>2. CASE pc'[c] # "CheckBegun"
    <3>1. Abstract!Return(c, "error")
      BY <1>5, <2>2 DEF BeginTx, Return, Abstract!Return
    <3> QED
      BY <3>1 DEF Abstract!Next
  <2> QED
    BY <2>1, <2>2
<1>6. ASSUME NEW c \in Chains, CheckBegun(c) PROVE AStep
  <2>1. CASE cancelled[c]
    <3>1. Abstract!Return(c, "error")
      BY <1>6, <2>1 DEF CheckBegun, Return, Abstract!Return
    <3> QED
      BY <3>1 DEF Abstract!Next
  <2>2. CASE ~cancelled[c]
    BY <1>6, <2>2 DEF CheckBegun
  <2> QED
    BY <2>1, <2>2
<1>7. ASSUME NEW c \in Chains, Panic(c) PROVE Abstract!Return(c, "panic")
  BY <1>7 DEF Panic, Return, Rollback, Abstract!Return, Abstract!Closed
<1>8. ASSUME NEW c \in Chains, FnReturn(c) PROVE AStep
  <2>1. PICK r \in {"nil", "error"} :
          /\ fnResult' = [fnResult EXCEPT ![c] = r]
          /\ IF r = "error" \/ cancelled[c]
               THEN /\ txState' = [txState EXCEPT ![c] = Rollback(@)]
                    /\ Return(c, "error")
               ELSE /\ pc' = [pc EXCEPT ![c] = "Commit"]
                    /\ UNCHANGED <<depth, txState, result>>
    BY <1>8 DEF FnReturn
  <2>0. pc[c] = "Body" /\ UNCHANGED cancelled
    BY <1>8 DEF FnReturn
  <2>2. CASE r = "error" \/ cancelled[c]
    <3>1. Abstract!Return(c, "error")
      BY <2>0, <2>1, <2>2 DEF Return, Rollback, Abstract!Return,
         Abstract!Closed
    <3> QED
      BY <3>1 DEF Abstract!Next
  <2>3. CASE ~(r = "error" \/ cancelled[c])
    BY <2>0, <2>1, <2>3
  <2> QED
    BY <2>2, <2>3
<1>9. ASSUME NEW c \in Chains, Commit(c) PROVE AStep
  <2>1. CASE pc'[c] = "CheckCommit"
    <3>1. Abstract!Commit(c)
      BY <1>9, <2>1 DEF Commit, Return, Abstract!Commit
    <3> QED
      BY <3>1 DEF Abstract!Next
  <2>2. CASE pc'[c] # "CheckCommit"
    <3>1. Abstract!Return(c, "error")
      BY <1>9, <2>2 DEF Commit, Return, Rollback, Abstract!Return,
         Abstract!Closed
    <3> QED
      BY <3>1 DEF Abstract!Next
  <2> QED
    BY <2>1, <2>2
<1>10. ASSUME NEW c \in Chains, CheckCommit(c) PROVE AStep
  <2>1. CASE ~cancelled[c]
    <3>1. Abstract!Return(c, "nil")
      BY <1>10, <2>1 DEF CheckCommit, Return, Rollback, Abstract!Return
    <3> QED
      BY <3>1 DEF Abstract!Next
  <2>2. CASE cancelled[c]
    <3>1. Abstract!Return(c, "error")
      BY <1>10, <2>2 DEF CheckCommit, Return, Rollback, Abstract!Return
    <3> QED
      BY <3>1 DEF Abstract!Next
  <2> QED
    BY <2>1, <2>2
<1>11. ASSUME NEW c \in Chains, Cancel(c) PROVE Abstract!Cancel(c)
  BY <1>11 DEF Cancel, Abstract!Cancel
<1>12. CASE UNCHANGED vars
  BY <1>12 DEF vars
<1> QED
  BY <1>1, <1>2, <1>3, <1>4, <1>5, <1>6, <1>7, <1>8, <1>9, <1>10, <1>11,
     <1>12
  DEF Next, Query, Exec, Abstract!Next

\* Spec 4.3, for every set of chains, pool size and nesting bound: the
\* model implements TransactionAbstract, so a Transaction call commits only
\* while it runs on a live context, reports nil only for a commit, closes
\* its transaction before a panic leaves it, and never touches it after
\* returning.
THEOREM Refinement == Spec => ImplementsAbstract
<1>1. Spec => []IInv
  BY IInvInit, IInvStep, PTL DEF Spec
<1> QED
  BY <1>1, RefineInit, RefineStep, PTL
  DEF Spec, ImplementsAbstract, Abstract!Spec, AStep

=============================================================================
