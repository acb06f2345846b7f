--------------------------- MODULE MigratorProofs ---------------------------
(***************************************************************************)
(* Proofs about Migrator for every number of migrations and calls, every   *)
(* choice of deadlines and every uint width above MaxVersion.              *)
(***************************************************************************)
EXTENDS Migrator, TLAPS

\* The UNCHANGED groups of the actions.
USE DEF SchemaVars, ChanVars, CallerVars, GoroutineVars

(***************************************************************************)
(* Rollback's uint comparison: a desired version t that the dirty path may *)
(* have made -1 only reaches Migrate when the version read is above it as  *)
(* a uint, and then t is a real version; -1 wraps above every version.     *)
(***************************************************************************)
LEMMA UintWrap ==
    \A cur \in Versions, t \in -1..MaxVersion :
        cur > t % UintModulus => t \in Versions
<1> SUFFICES ASSUME NEW cur \in Versions, NEW t \in -1..MaxVersion,
                    cur > t % UintModulus
             PROVE t \in Versions
  OBVIOUS
<1>1. CASE t = -1
  <2>1. (-1) % UintModulus = UintModulus - 1
    BY MigratorAssumption, SMT
  <2> QED
    BY <1>1, <2>1, MigratorAssumption DEF Versions
<1>2. CASE t \in 0..MaxVersion
  BY <1>2 DEF Versions
<1> QED
  BY <1>1, <1>2

\* The comparison of RollbackDecide keeps the goroutine variables typed.
LEMMA DecideType ==
    ASSUME TypeOK, NEW g \in Calls, NEW cur \in Versions,
           NEW t \in -1..MaxVersion, RollbackDecide(g, cur, t)
    PROVE  /\ gpc' \in [Calls -> GPhases]
           /\ gwant' \in [Calls -> Versions]
           /\ gres' \in [Calls -> Results]
<1>1. CASE cur > t % UintModulus
  <2>1. t \in Versions
    BY <1>1, UintWrap
  <2>2. CallMigrate(g, t)
    BY <1>1, MigratorAssumption DEF RollbackDecide, Versions
  <2> QED
    BY <2>1, <2>2 DEF CallMigrate, TypeOK, GPhases
<1>2. CASE ~(cur > t % UintModulus)
  <2>1. Finish(g, "nil") \/ Finish(g, "generic")
    BY <1>2, MigratorAssumption DEF RollbackDecide, Versions
  <2>2. UNCHANGED gwant
    BY <1>2, MigratorAssumption DEF RollbackDecide, Versions
  <2> QED
    BY <2>1, <2>2 DEF Finish, TypeOK, GPhases, Results
<1> QED
  BY <1>1, <1>2

(***************************************************************************)
(* TypeOK is not inductive: Complete and Timeout read gop[calls], so a     *)
(* waiting caller must have started a goroutine.                           *)
(***************************************************************************)
TInv ==
    /\ TypeOK
    /\ cpc = "waiting" => calls \in Calls

\* TypeOK in two halves, so that a step's provers see half of it at once.
TypeState ==
    /\ version \in Versions /\ dirty \in BOOLEAN
    /\ lockHolder \in {0} \cup Calls
    /\ stopBuf \in BOOLEAN /\ stopped \in BOOLEAN /\ migClosed \in BOOLEAN
    /\ doneField \in Channels /\ closedCh \subseteq Channels
    /\ crashed \in BOOLEAN
    /\ cpc \in {"idle", "waiting", "closing", "closed"} /\ cdl \in BOOLEAN
    /\ calls \in 0..MaxCalls

\* The second half: the caller's record and the goroutines' variables.
TypeProcs ==
    /\ last \in [op : Ops \cup {"none", "Close"}, target : Versions,
                 res : Results]
    /\ gpc \in [Calls -> GPhases] /\ gop \in [Calls -> Ops]
    /\ gtarget \in [Calls -> Versions] /\ gcur \in [Calls -> Versions]
    /\ gwant \in [Calls -> Versions] /\ gres \in [Calls -> Results]
    /\ clpc \in {"none", "stop", "wait", "close", "return"}

\* The two halves make up TypeOK in the next state.
LEMMA TypeSplit == TypeOK' <=> TypeState' /\ TypeProcs'
BY DEF TypeOK, TypeState, TypeProcs

\* Every value the caller can record as its last result is typed.
LEMMA LastType ==
    ASSUME NEW o \in Ops \cup {"none", "Close"}, NEW t \in Versions,
           NEW r \in Results
    PROVE  [op |-> o, target |-> t, res |-> r]
              \in [op : Ops \cup {"none", "Close"}, target : Versions,
                   res : Results]
OBVIOUS

\* NewMigrator starts with every goroutine idle and done closed.
LEMMA TypeInit == Init => TInv
<1> SUFFICES ASSUME Init PROVE TInv
  OBVIOUS
<1>1. last \in [op : Ops \cup {"none", "Close"}, target : Versions,
                res : Results]
  BY MigratorAssumption, LastType DEF Init, Versions, Results
<1>2. /\ gpc \in [Calls -> GPhases] /\ gop \in [Calls -> Ops]
      /\ gtarget \in [Calls -> Versions] /\ gcur \in [Calls -> Versions]
      /\ gwant \in [Calls -> Versions] /\ gres \in [Calls -> Results]
  BY MigratorAssumption DEF Init, GPhases, Ops, Versions, Results
<1>3. /\ doneField \in Channels /\ closedCh \subseteq Channels
      /\ lockHolder \in {0} \cup Calls /\ calls \in 0..MaxCalls
  BY MigratorAssumption DEF Init, Channels
<1> QED
  BY <1>1, <1>2, <1>3 DEF Init, TInv, TypeOK

\* Every step keeps TInv.
LEMMA TypeStep == TInv /\ [Next]_vars => TInv'
<1> SUFFICES ASSUME TypeOK, cpc = "waiting" => calls \in Calls, [Next]_vars
             PROVE TInv'
  BY DEF TInv
<1> USE MigratorAssumption
<1>1. ASSUME NEW op \in Ops, NEW t \in Versions, NEW dl \in Deadlines,
             Call(op, t, dl)
      PROVE TInv'
  BY <1>1 DEF Call, TInv, TypeOK, Calls, Channels, GPhases
<1>2. CASE Complete
  <2>1. calls \in Calls /\ gres[calls] \in Results
    BY <1>2 DEF Complete, TypeOK
  <2> QED
    BY <1>2, <2>1, LastType DEF Complete, TInv, TypeOK
<1>3. CASE Timeout
  <2>1. calls \in Calls
    BY <1>3 DEF Timeout
  <2> QED
    BY <1>3, <2>1, LastType DEF Timeout, TInv, TypeOK, Results
<1>4. ASSUME NEW dl \in Deadlines, StartClose(dl) PROVE TInv'
  BY <1>4 DEF StartClose, TInv, TypeOK
<1>5. CASE CloseStep
  BY <1>5 DEF CloseStep, CloseStop, CloseWait, CloseMigrator, TInv, TypeOK
<1>6. CASE CloseReturn
  <2>1. last' \in [op : Ops \cup {"none", "Close"}, target : Versions,
                   res : Results]
    BY <1>6, LastType DEF CloseReturn, Versions, Results
  <2> QED
    BY <1>6, <2>1 DEF CloseReturn, TInv, TypeOK
<1>7. ASSUME NEW g \in Calls, GoroutineStep(g) PROVE TInv'
  <2> USE DEF TInv, TypeOK, GPhases, Results
  <2>1. CASE VersionBody(g) \/ AssertBody(g)
    BY <2>1 DEF VersionBody, AssertBody, Finish
  <2>2. CASE ApplyCheck(g)
    BY <2>2 DEF ApplyCheck, Finish, CallMigrate
  <2>3. CASE RollbackCheck(g)
    <3>1. gcur' \in [Calls -> Versions]
      BY <2>3 DEF RollbackCheck
    <3>2. CASE ReadFails \/ ReadNil \/ ReadDirty
      BY <2>3, <3>1, <3>2 DEF RollbackCheck, Finish, ReadNil
    <3>3. CASE ~ReadFails /\ ~ReadNil /\ ~ReadDirty
      <4>1. RollbackDecide(g, version, gtarget[g])
        BY <2>3, <3>3 DEF RollbackCheck
      <4>2. gtarget[g] \in -1..MaxVersion
        BY DEF Versions
      <4> QED
        BY <2>3, <3>1, <4>1, <4>2, DecideType DEF RollbackCheck
    <3> QED
      BY <3>2, <3>3
  <2>4. CASE RollbackForce(g)
    <3>1. CASE lockHolder # 0 \/ migClosed
      BY <2>4, <3>1 DEF RollbackForce, Finish
    <3>2. CASE lockHolder = 0 /\ ~migClosed
      <4>1. /\ RollbackDecide(g, gcur[g], gtarget[g] - 1)
            /\ version' = gcur[g] /\ dirty' = FALSE
        BY <2>4, <3>2, Zenon DEF RollbackForce
      <4>2. gtarget[g] - 1 \in -1..MaxVersion
        BY DEF Versions
      <4>3. gcur[g] \in Versions
        OBVIOUS
      <4>4. /\ gpc' \in [Calls -> GPhases]
            /\ gwant' \in [Calls -> Versions]
            /\ gres' \in [Calls -> Results]
        BY <4>1, <4>2, <4>3, DecideType, Zenon
      <4>5. TypeState'
        BY <2>4, <4>1, <4>3 DEF RollbackForce, TypeState
      <4>6. TypeProcs'
        BY <2>4, <4>4 DEF RollbackForce, TypeProcs
      <4> QED
        BY <2>4, <4>5, <4>6, TypeSplit DEF RollbackForce
    <3> QED
      BY <3>1, <3>2
  <2>5. CASE MigrateLock(g)
    BY <2>5 DEF MigrateLock, Finish
  <2>6. CASE MigrateStep(g)
    <3>1. CASE version = gwant[g]
      BY <2>6, <3>1 DEF MigrateStep, Finish
    <3>2. CASE version # gwant[g] /\ (stopped \/ stopBuf)
      <4>1. /\ stopped' = TRUE /\ stopBuf' = (stopBuf /\ stopped)
            /\ lockHolder' = 0 /\ Finish(g, "nil")
            /\ UNCHANGED <<version, dirty, migClosed, doneField, closedCh,
                           crashed, cpc, cdl, calls, last, clpc, gop,
                           gtarget, gcur, gwant>>
        BY <2>6, <3>2, Zenon DEF MigrateStep
      <4>2. stopBuf' \in BOOLEAN
        BY <4>1, Zenon
      <4> QED
        BY <4>1, <4>2 DEF Finish
    <3>3. CASE version # gwant[g] /\ ~stopped /\ ~stopBuf
      <4>1. Toward(version, gwant[g]) \in Versions
        BY <3>3 DEF Toward, Versions
      <4>2. /\ version' = Toward(version, gwant[g])
            /\ \/ dirty' = FALSE /\ UNCHANGED <<lockHolder, gpc, gres>>
               \/ dirty' = TRUE /\ lockHolder' = 0 /\ Finish(g, "generic")
            /\ UNCHANGED <<stopBuf, stopped, migClosed, doneField, closedCh,
                           crashed, cpc, cdl, calls, last, clpc, gop,
                           gtarget, gcur, gwant>>
        BY <2>6, <3>3, Zenon DEF MigrateStep
      <4>3. TypeState'
        BY <4>1, <4>2 DEF TypeState
      <4>4. TypeProcs'
        BY <4>2 DEF Finish, TypeProcs
      <4> QED
        BY <4>2, <4>3, <4>4, TypeSplit
    <3> QED
      BY <3>1, <3>2, <3>3, Zenon
  <2>7. CASE SelectDone(g)
    <3>1. TypeState'
      BY <2>7 DEF SelectDone, TypeState
    <3>2. TypeProcs'
      BY <2>7 DEF SelectDone, TypeProcs
    <3> QED
      BY <2>7, <3>1, <3>2, TypeSplit DEF SelectDone
  <2>8. CASE CloseDone(g)
    <3>1. TypeState'
      BY <2>8 DEF CloseDone, TypeState, Channels
    <3>2. TypeProcs'
      BY <2>8 DEF CloseDone, TypeProcs
    <3> QED
      BY <2>8, <3>1, <3>2, TypeSplit DEF CloseDone
  <2> QED
    BY <1>7, <2>1, <2>2, <2>3, <2>4, <2>5, <2>6, <2>7, <2>8, Zenon
    DEF GoroutineStep
<1>8. CASE UNCHANGED vars
  BY <1>8 DEF vars, TInv, TypeOK
<1> QED
  BY <1>1, <1>2, <1>3, <1>4, <1>5, <1>6, <1>7, <1>8 DEF Next

\* The type invariant of both Migrator runs holds in every reachable state.
THEOREM TypeCorrect == Spec => []TypeOK
<1>1. Spec => []TInv
  BY TypeInit, TypeStep, PTL DEF Spec
<1> QED
  BY <1>1, PTL DEF TInv
-----------------------------------------------------------------------------
(***************************************************************************)
(* Without a deadline util.Deadline waits for the body, so at most one     *)
(* goroutine, the one of the pending call, is ever past its start and not  *)
(* yet returned; Close, the only sender on GracefulStop, has not started   *)
(* while a call can be made.  What the running goroutine knows of its      *)
(* target makes the outcome properties of MCMigrator.cfg inductive.        *)
(***************************************************************************)
Active(g) == cpc = "waiting" /\ g = calls

\* Phases in which the goroutine's body has returned its result.
Returned == {"select", "close", "return"}

\* What the goroutine of a pending Apply or Rollback knows of its target.
CallInv ==
    cpc = "waiting" =>
        /\ gpc[calls] = "force" => gop[calls] = "Rollback"
        /\ gop[calls] = "Apply" =>
              /\ gpc[calls] \in {"lock", "step"} =>
                    gwant[calls] = gtarget[calls]
              /\ gpc[calls] \in Returned /\ gres[calls] = "nil" =>
                    version = gtarget[calls]
        /\ gop[calls] = "Rollback" =>
              /\ gpc[calls] \in {"lock", "step"} =>
                    gwant[calls] <= gtarget[calls]
              /\ gpc[calls] \in Returned /\ gres[calls] = "nil" =>
                    version <= gtarget[calls]

\* The inductive strengthening of the outcome properties.
SeqInv ==
    /\ cdl = FALSE
    /\ \A g \in Calls : Active(g) \/ gpc[g] \in {"idle", "return"}
    /\ cpc \in {"idle", "waiting"} => ~stopBuf /\ ~stopped
    /\ clpc # "none" => cpc \in {"closing", "closed"}
    /\ CallInv
    /\ ApplySuccessAtTarget
    /\ RollbackSuccessAtOrBelow

(***************************************************************************)
(* Rollback's uint comparison reports success only when the version read   *)
(* is the desired version itself, and calls Migrate only with a real       *)
(* version: the -1 of a dirty first migration wraps above every version.   *)
(***************************************************************************)
LEMMA DecideOutcome ==
    ASSUME NEW g \in Calls, NEW cur \in Versions, NEW t \in -1..MaxVersion,
           RollbackDecide(g, cur, t)
    PROVE  \/ Finish(g, "nil") /\ cur = t /\ UNCHANGED gwant
           \/ Finish(g, "generic") /\ UNCHANGED gwant
           \/ CallMigrate(g, t) /\ t \in Versions
<1>1. CASE t = -1
  <2>1. t % UintModulus = UintModulus - 1
    BY <1>1, MigratorAssumption, SMT
  <2>2. cur < t % UintModulus
    BY <2>1, MigratorAssumption DEF Versions
  <2>3. ~(cur = t % UintModulus) /\ ~(cur > t % UintModulus)
    BY <2>2, MigratorAssumption DEF Versions
  <2> QED
    BY <2>3, Zenon DEF RollbackDecide
<1>2. CASE t \in Versions
  <2>1. t % UintModulus = t
    BY <1>2, MigratorAssumption DEF Versions
  <2> QED
    BY <1>2, <2>1 DEF RollbackDecide
<1> QED
  BY <1>1, <1>2 DEF Versions

\* The variables a goroutine step leaves alone while no stop is pending.
LEMMA GoroutineFrame ==
    ASSUME TypeOK, NEW g \in Calls, GoroutineStep(g), ~stopBuf, ~stopped
    PROVE  /\ UNCHANGED <<cpc, cdl, calls, last, clpc, stopBuf, stopped,
                          gop, gtarget>>
           /\ \A h \in Calls \ {g} : gpc'[h] = gpc[h]
<1> USE DEF TypeOK
<1>1. CASE VersionBody(g) \/ AssertBody(g) \/ ApplyCheck(g)
  BY <1>1 DEF VersionBody, AssertBody, ApplyCheck, Finish, CallMigrate
<1>2. CASE RollbackCheck(g) \/ RollbackForce(g)
  <2>1. \A cur, t : RollbackDecide(g, cur, t) =>
           \A h \in Calls \ {g} : gpc'[h] = gpc[h]
    BY DEF RollbackDecide, Finish, CallMigrate
  <2> QED
    BY <1>2, <2>1 DEF RollbackCheck, RollbackForce, Finish
<1>3. CASE MigrateLock(g) \/ SelectDone(g) \/ CloseDone(g)
  BY <1>3 DEF MigrateLock, SelectDone, CloseDone, Finish
<1>4. CASE MigrateStep(g)
  BY <1>4 DEF MigrateStep, Finish
<1> QED
  BY <1>1, <1>2, <1>3, <1>4 DEF GoroutineStep

\* NewMigrator starts before any call and before Close.
LEMMA SeqInit == Init => SeqInv
BY DEF Init, SeqInv, CallInv, Active, ApplySuccessAtTarget,
   RollbackSuccessAtOrBelow

\* Every step of the caller, of Close and of the running goroutine keeps
\* SeqInv when no call has a deadline.
LEMMA SeqStep ==
    ASSUME Deadlines = {FALSE}, TInv, SeqInv, [Next]_vars
    PROVE  SeqInv'
<1> USE DEF TInv, TypeOK
<1>1. ASSUME NEW op \in Ops, NEW t \in Versions, NEW dl \in Deadlines,
             Call(op, t, dl)
      PROVE SeqInv'
  <2>1. dl = FALSE
    OBVIOUS
  <2>2. /\ cpc = "idle" /\ calls < MaxCalls
        /\ cdl' = dl /\ cpc' = "waiting" /\ calls' = calls + 1
        /\ gpc' = [gpc EXCEPT ![calls + 1] = "version"]
        /\ UNCHANGED <<stopBuf, stopped, clpc>>
    BY <1>1, Zenon DEF Call
  <2>3. calls' \in Calls /\ gpc'[calls'] = "version"
    <3>1. calls \in 0..MaxCalls
      OBVIOUS
    <3>2. calls + 1 \in Calls
      BY <2>2, <3>1, MigratorAssumption DEF Calls
    <3> QED
      BY <2>2, <3>2
  <2>4. \A h \in Calls : Active(h)' \/ gpc'[h] \in {"idle", "return"}
    <3> SUFFICES ASSUME NEW h \in Calls, h # calls'
                 PROVE  gpc'[h] \in {"idle", "return"}
      BY <2>2 DEF Active
    <3>1. gpc[h] \in {"idle", "return"}
      BY <2>2 DEF SeqInv, Active
    <3> QED
      BY <2>2, <3>1
  <2>5. ~stopBuf' /\ ~stopped' /\ clpc' = "none"
    BY <2>2 DEF SeqInv
  <2>6. CallInv'
    BY <2>3 DEF CallInv, GPhases, Returned
  <2>7. ApplySuccessAtTarget' /\ RollbackSuccessAtOrBelow'
    BY <2>2 DEF ApplySuccessAtTarget, RollbackSuccessAtOrBelow
  <2> QED
    BY <2>1, <2>2, <2>4, <2>5, <2>6, <2>7 DEF SeqInv
<1>2. CASE Complete
  <2>1. calls \in Calls /\ gpc[calls] = "return"
    BY <1>2 DEF Complete
  <2>2. \A h \in Calls : gpc'[h] \in {"idle", "return"}
    BY <1>2, <2>1 DEF Complete, SeqInv, Active
  <2>3. last'.op = "Apply" /\ last'.res = "nil" => version' = last'.target
    BY <1>2, <2>1 DEF Complete, SeqInv, CallInv, Returned
  <2>4. last'.op = "Rollback" /\ last'.res = "nil" =>
           version' <= last'.target
    BY <1>2, <2>1 DEF Complete, SeqInv, CallInv, Returned
  <2> QED
    BY <1>2, <2>2, <2>3, <2>4 DEF Complete, SeqInv, CallInv,
       ApplySuccessAtTarget, RollbackSuccessAtOrBelow
<1>3. CASE Timeout
  BY <1>3 DEF Timeout, SeqInv
<1>4. ASSUME NEW dl \in Deadlines, StartClose(dl) PROVE SeqInv'
  BY <1>4 DEF StartClose, SeqInv, CallInv, Active, ApplySuccessAtTarget,
     RollbackSuccessAtOrBelow
<1>5. CASE CloseStep
  BY <1>5 DEF CloseStep, CloseStop, CloseWait, CloseMigrator, SeqInv,
     CallInv, Active, ApplySuccessAtTarget, RollbackSuccessAtOrBelow
<1>6. CASE CloseReturn
  BY <1>6 DEF CloseReturn, SeqInv, CallInv, Active, ApplySuccessAtTarget,
     RollbackSuccessAtOrBelow
<1>7. ASSUME NEW g \in Calls, GoroutineStep(g) PROVE SeqInv'
  <2>1. gpc[g] \notin {"idle", "return"}
    BY <1>7 DEF GoroutineStep, VersionBody, AssertBody, ApplyCheck,
       RollbackCheck, RollbackForce, MigrateLock, MigrateStep, SelectDone,
       CloseDone
  <2>2. cpc = "waiting" /\ g = calls /\ ~stopBuf /\ ~stopped
    BY <2>1 DEF SeqInv, Active
  <2>3. /\ UNCHANGED <<cpc, cdl, calls, last, clpc, stopBuf, stopped,
                       gop, gtarget>>
        /\ \A h \in Calls \ {g} : gpc'[h] = gpc[h]
    BY <1>7, <2>2, GoroutineFrame
  <2>4. \A h \in Calls : Active(h)' \/ gpc'[h] \in {"idle", "return"}
    BY <2>2, <2>3 DEF SeqInv, Active
  <2>5. CallInv'
    <3> DEFINE
          Pre(v, w, r) ==
            /\ v = "force" => gop[g] = "Rollback"
            /\ gop[g] = "Apply" =>
                  /\ v \in {"lock", "step"} => w = gtarget[g]
                  /\ v \in Returned /\ r = "nil" => version = gtarget[g]
            /\ gop[g] = "Rollback" =>
                  /\ v \in {"lock", "step"} => w <= gtarget[g]
                  /\ v \in Returned /\ r = "nil" => version <= gtarget[g]
          Goal ==
            /\ gpc'[g] = "force" => gop[g] = "Rollback"
            /\ gop[g] = "Apply" =>
                  /\ gpc'[g] \in {"lock", "step"} => gwant'[g] = gtarget[g]
                  /\ gpc'[g] \in Returned /\ gres'[g] = "nil" =>
                        version' = gtarget[g]
            /\ gop[g] = "Rollback" =>
                  /\ gpc'[g] \in {"lock", "step"} => gwant'[g] <= gtarget[g]
                  /\ gpc'[g] \in Returned /\ gres'[g] = "nil" =>
                        version' <= gtarget[g]
    <3> SUFFICES Goal
      BY <2>2, <2>3 DEF CallInv
    <3>0. Pre(gpc[g], gwant[g], gres[g])
      BY <2>2 DEF SeqInv, CallInv
    <3>1. CASE VersionBody(g) \/ AssertBody(g)
      BY <3>1 DEF VersionBody, AssertBody, Finish
    <3>2. CASE ApplyCheck(g)
      BY <3>2 DEF ApplyCheck, Finish, CallMigrate, Returned
    <3>3. CASE RollbackCheck(g)
      <4>1. gtarget[g] \in -1..MaxVersion /\ version \in Versions
        BY DEF Versions
      <4>2. CASE ~ReadFails /\ ~ReadNil /\ ~ReadDirty
        <5>1. RollbackDecide(g, version, gtarget[g])
          BY <3>3, <4>2 DEF RollbackCheck
        <5> QED
          BY <3>3, <4>1, <5>1, DecideOutcome
          DEF RollbackCheck, Finish, CallMigrate, Returned
      <4>3. CASE ReadFails \/ ReadNil \/ ReadDirty
        BY <3>3, <4>3 DEF RollbackCheck, Finish, Returned
      <4> QED
        BY <4>2, <4>3
    <3>4. CASE RollbackForce(g)
      <4>1. gtarget[g] - 1 \in -1..MaxVersion /\ gcur[g] \in Versions
        BY MigratorAssumption DEF Versions
      <4>2. CASE lockHolder = 0 /\ ~migClosed
        <5>1. RollbackDecide(g, gcur[g], gtarget[g] - 1)
              /\ version' = gcur[g] /\ gop[g] = "Rollback"
          BY <3>0, <3>4, <4>2, Zenon DEF RollbackForce
        <5>2. \/ Finish(g, "nil") /\ gcur[g] = gtarget[g] - 1
              \/ Finish(g, "generic")
              \/ CallMigrate(g, gtarget[g] - 1)
          BY <4>1, <5>1, DecideOutcome
        <5>3. CASE Finish(g, "nil") /\ gcur[g] = gtarget[g] - 1
          BY <4>1, <5>1, <5>3 DEF Finish, Returned, Versions
        <5>4. CASE Finish(g, "generic")
          BY <5>1, <5>4 DEF Finish, Returned
        <5>5. CASE CallMigrate(g, gtarget[g] - 1)
          BY <4>1, <5>1, <5>5 DEF CallMigrate, Versions, Returned
        <5> QED
          BY <5>2, <5>3, <5>4, <5>5
      <4>3. CASE lockHolder # 0 \/ migClosed
        BY <3>4, <4>3 DEF RollbackForce, Finish, Returned
      <4> QED
        BY <4>2, <4>3
    <3>5. CASE MigrateLock(g)
      BY <3>0, <3>5 DEF MigrateLock, Finish, Returned
    <3>6. CASE MigrateStep(g)
      <4>1. gpc[g] = "step" /\ UNCHANGED gwant
        BY <3>6 DEF MigrateStep
      <4>2. CASE version = gwant[g]
        BY <3>0, <3>6, <4>1, <4>2 DEF MigrateStep, Finish, Returned
      <4>3. CASE version # gwant[g]
        <5>1. \/ UNCHANGED <<gpc, gres>>
              \/ gpc' = [gpc EXCEPT ![g] = "select"]
                 /\ gres' = [gres EXCEPT ![g] = "generic"]
          BY <2>2, <3>6, <4>3 DEF MigrateStep, Finish
        <5> QED
          BY <3>0, <4>1, <5>1 DEF Returned
      <4> QED
        BY <4>2, <4>3
    <3>7. CASE SelectDone(g) \/ CloseDone(g)
      BY <3>0, <3>7 DEF SelectDone, CloseDone, Returned
    <3> QED
      BY <1>7, <3>1, <3>2, <3>3, <3>4, <3>5, <3>6, <3>7 DEF GoroutineStep
  <2> QED
    BY <2>2, <2>3, <2>4, <2>5 DEF SeqInv, ApplySuccessAtTarget,
       RollbackSuccessAtOrBelow
<1>8. CASE UNCHANGED vars
  BY <1>8 DEF vars, SeqInv, CallInv, Active, ApplySuccessAtTarget,
     RollbackSuccessAtOrBelow
<1> QED
  BY <1>1, <1>2, <1>3, <1>4, <1>5, <1>6, <1>7, <1>8 DEF Next

\* Without deadlines TInv /\ SeqInv holds in every reachable state.
LEMMA SeqCorrect ==
    ASSUME Deadlines = {FALSE}
    PROVE  Spec => [](TInv /\ SeqInv)
<1>1. Init => TInv /\ SeqInv
  BY TypeInit, SeqInit
<1>2. TInv /\ SeqInv /\ [Next]_vars => (TInv /\ SeqInv)'
  BY TypeStep, SeqStep
<1> QED
  BY <1>1, <1>2, PTL DEF Spec

(***************************************************************************)
(* When no call carries a deadline, an Apply(t) that returned nil left the *)
(* schema at version t, for every number of migrations and calls: Kit's    *)
(* checks before Migrate and migrate's loop under its lock agree.          *)
(***************************************************************************)
THEOREM ApplyCorrect ==
    Deadlines = {FALSE} => (Spec => []ApplySuccessAtTarget)
<1> SUFFICES ASSUME Deadlines = {FALSE} PROVE Spec => []ApplySuccessAtTarget
  OBVIOUS
<1>1. TInv /\ SeqInv => ApplySuccessAtTarget
  BY DEF SeqInv
<1> QED
  BY <1>1, SeqCorrect, PTL

(***************************************************************************)
(* When no call carries a deadline, a Rollback(t) that returned nil left   *)
(* no migration above t applied, also when it had to Force a dirty         *)
(* version and compare the decremented int as a uint.                      *)
(***************************************************************************)
THEOREM RollbackCorrect ==
    Deadlines = {FALSE} => (Spec => []RollbackSuccessAtOrBelow)
<1> SUFFICES ASSUME Deadlines = {FALSE}
             PROVE Spec => []RollbackSuccessAtOrBelow
  OBVIOUS
<1>1. TInv /\ SeqInv => RollbackSuccessAtOrBelow
  BY DEF SeqInv
<1> QED
  BY <1>1, SeqCorrect, PTL

(***************************************************************************)
(* When no call carries a deadline, the goroutine of the pending call is   *)
(* the only one inside the migrate instance, and what it knows of its      *)
(* target (CallInv) holds at every step, for every bound.                  *)
(***************************************************************************)
THEOREM SequentialInvariant ==
    Deadlines = {FALSE} => (Spec => []SeqInv)
<1> SUFFICES ASSUME Deadlines = {FALSE} PROVE Spec => []SeqInv
  OBVIOUS
<1> QED
  BY SeqCorrect, PTL

-----------------------------------------------------------------------------
(***************************************************************************)
(* Spec 3's monotonic moves, without deadlines.  The running goroutine's   *)
(* Migrate heads from the version towards gwant, which lies on the side    *)
(* its operation allows, and Force rewrites the version the goroutine has  *)
(* just read.  With deadlines an abandoned Rollback's Force can write back *)
(* a version read before a later call moved it, so the bound matters.      *)
(***************************************************************************)
MoveInv ==
    cpc = "waiting" =>
        /\ gpc[calls] = "force" => gcur[calls] = version
        /\ gpc[calls] \in {"lock", "step"} =>
              /\ gop[calls] = "Apply" => version <= gwant[calls]
              /\ gop[calls] = "Rollback" => gwant[calls] <= version

\* Rollback's comparison calls Migrate only with a version below the one
\* read: the -1 of the dirty path wraps above every version.
LEMMA DecideBelow ==
    ASSUME NEW g \in Calls, NEW cur \in Versions, NEW t \in -1..MaxVersion,
           RollbackDecide(g, cur, t)
    PROVE  \/ Finish(g, "nil") \/ Finish(g, "generic")
           \/ CallMigrate(g, t) /\ t \in Versions /\ t < cur
<1>1. CASE t = -1
  <2>1. t % UintModulus = UintModulus - 1
    BY <1>1, MigratorAssumption, SMT
  <2>2. cur < t % UintModulus
    BY <2>1, MigratorAssumption DEF Versions
  <2>3. ~(cur = t % UintModulus) /\ ~(cur > t % UintModulus)
    BY <2>2, MigratorAssumption DEF Versions
  <2> QED
    BY <2>3, Zenon DEF RollbackDecide
<1>2. CASE t \in Versions
  <2>1. t % UintModulus = t
    BY <1>2, MigratorAssumption DEF Versions
  <2> QED
    BY <1>2, <2>1 DEF RollbackDecide, Versions
<1> QED
  BY <1>1, <1>2 DEF Versions

LEMMA MoveInit == Init => MoveInv
  BY DEF Init, MoveInv


\* Every step without deadlines keeps MoveInv: only the pending call's
\* goroutine runs, and each of its steps leaves gwant on the allowed side.
LEMMA MoveStep ==
    ASSUME Deadlines = {FALSE}, TInv, SeqInv, MoveInv, [Next]_vars
    PROVE  MoveInv'
<1> USE DEF TInv, TypeOK, Versions, Calls
<1>1. ASSUME NEW op \in Ops, NEW t \in Versions, NEW dl \in Deadlines,
             Call(op, t, dl)
      PROVE MoveInv'
  <2>1. calls \in 0..MaxCalls /\ calls < MaxCalls
    BY <1>1 DEF Call
  <2>2. calls + 1 \in Calls
    BY <2>1, MigratorAssumption DEF Calls
  <2> QED
    BY <1>1, <2>2 DEF Call, MoveInv
<1>2. CASE Complete \/ Timeout \/ CloseReturn
  BY <1>2 DEF Complete, Timeout, CloseReturn, MoveInv
<1>3. ASSUME NEW dl \in Deadlines, StartClose(dl) PROVE MoveInv'
  BY <1>3 DEF StartClose, MoveInv
<1>4. CASE CloseStep
  BY <1>4 DEF CloseStep, CloseStop, CloseWait, CloseMigrator, MoveInv
<1>5. ASSUME NEW g \in Calls, GoroutineStep(g) PROVE MoveInv'
  <2>1. gpc[g] \notin {"idle", "return"}
    BY <1>5 DEF GoroutineStep, VersionBody, AssertBody, ApplyCheck,
       RollbackCheck, RollbackForce, MigrateLock, MigrateStep, SelectDone,
       CloseDone
  <2>2. cpc = "waiting" /\ g = calls /\ ~stopBuf /\ ~stopped
    BY <2>1 DEF SeqInv, Active
  <2>3. UNCHANGED <<cpc, calls, gop>>
    BY <1>5, <2>2, GoroutineFrame
  <2> DEFINE
        Goal ==
          /\ gpc'[g] = "force" => gcur'[g] = version'
          /\ gpc'[g] \in {"lock", "step"} =>
                /\ gop[g] = "Apply" => version' <= gwant'[g]
                /\ gop[g] = "Rollback" => gwant'[g] <= version'
  <2> SUFFICES Goal
    BY <2>2, <2>3 DEF MoveInv
  <2>4. /\ gpc[g] = "force" => gcur[g] = version
        /\ gpc[g] \in {"lock", "step"} =>
              /\ gop[g] = "Apply" => version <= gwant[g]
              /\ gop[g] = "Rollback" => gwant[g] <= version
    BY <2>2 DEF MoveInv
  <2>5. CASE VersionBody(g) \/ AssertBody(g) \/ SelectDone(g) \/ CloseDone(g)
    BY <2>5 DEF VersionBody, AssertBody, SelectDone, CloseDone, Finish
  <2>6. CASE ApplyCheck(g)
    <3>1. UNCHANGED <<version, gcur>> /\ gop[g] = "Apply"
      BY <2>6 DEF ApplyCheck
    <3>2. CASE Finish(g, "generic") \/ Finish(g, "nil")
      BY <3>1, <3>2 DEF Finish
    <3>3. CASE version < gtarget[g] /\ CallMigrate(g, gtarget[g])
      BY <3>1, <3>3 DEF CallMigrate
    <3> QED
      BY <2>6, <3>2, <3>3 DEF ApplyCheck
  <2>7. CASE RollbackCheck(g)
    <3>1. CASE ~ReadFails /\ ~ReadNil /\ ~ReadDirty
      <4>1. RollbackDecide(g, version, gtarget[g]) /\ UNCHANGED version
        BY <2>7, <3>1 DEF RollbackCheck
      <4>2. gtarget[g] \in -1..MaxVersion
        BY DEF Versions
      <4>3. gop[g] = "Rollback"
        BY <2>7 DEF RollbackCheck
      <4>4. CASE Finish(g, "nil") \/ Finish(g, "generic")
        BY <4>4 DEF Finish
      <4>5. CASE CallMigrate(g, gtarget[g]) /\ gtarget[g] < version
        BY <4>1, <4>3, <4>5 DEF CallMigrate
      <4> QED
        BY <4>1, <4>2, <4>4, <4>5, DecideBelow
    <3>2. CASE ReadFails \/ ReadNil \/ ReadDirty
      BY <2>7, <3>2 DEF RollbackCheck, Finish
    <3> QED
      BY <3>1, <3>2
  <2>8. CASE RollbackForce(g)
    <3>1. CASE lockHolder = 0 /\ ~migClosed
      <4>1. RollbackDecide(g, gcur[g], gtarget[g] - 1)
            /\ version' = gcur[g] /\ gcur' = gcur
        BY <2>8, <3>1, Zenon DEF RollbackForce
      <4>2. gtarget[g] - 1 \in -1..MaxVersion /\ gcur[g] \in Versions
        BY MigratorAssumption DEF Versions
      <4>3. gop[g] = "Rollback"
        BY <2>2, <2>8 DEF RollbackForce, SeqInv, CallInv
      <4>4. CASE Finish(g, "nil") \/ Finish(g, "generic")
        BY <4>4 DEF Finish
      <4>5. CASE CallMigrate(g, gtarget[g] - 1) /\ gtarget[g] - 1 < gcur[g]
        BY <4>1, <4>3, <4>5 DEF CallMigrate
      <4> QED
        BY <4>1, <4>2, <4>4, <4>5, DecideBelow
    <3>2. CASE lockHolder # 0 \/ migClosed
      BY <2>8, <3>2 DEF RollbackForce, Finish
    <3> QED
      BY <3>1, <3>2
  <2>9. CASE MigrateLock(g)
    BY <2>4, <2>9 DEF MigrateLock, Finish
  <2>10. CASE MigrateStep(g)
    <3>1. gpc[g] = "step" /\ UNCHANGED <<gwant, gcur>>
      BY <2>10 DEF MigrateStep
    <3>2. CASE version = gwant[g] \/ stopped \/ stopBuf
      BY <2>10, <3>2 DEF MigrateStep, Finish
    <3>3. CASE version # gwant[g] /\ ~stopped /\ ~stopBuf
      <4>1. version' = Toward(version, gwant[g])
        BY <2>10, <3>3 DEF MigrateStep
      <4>2. gwant[g] \in Versions /\ version \in Versions
        OBVIOUS
      <4>3. CASE dirty' = FALSE /\ UNCHANGED gpc
        BY <2>4, <3>1, <3>3, <4>1, <4>2, <4>3 DEF Toward
      <4>4. CASE Finish(g, "generic")
        BY <3>1, <4>4 DEF Finish
      <4> QED
        BY <2>10, <3>3, <4>3, <4>4 DEF MigrateStep
    <3> QED
      BY <3>2, <3>3
  <2> QED
    BY <1>5, <2>5, <2>6, <2>7, <2>8, <2>9, <2>10 DEF GoroutineStep
<1>6. CASE UNCHANGED vars
  BY <1>6 DEF vars, MoveInv
<1> QED
  BY <1>1, <1>2, <1>3, <1>4, <1>5, <1>6 DEF Next


\* The step SchemaMovesWithCall constrains.
MovesWithCall ==
    \A g \in Calls :
        GoroutineStep(g) =>
            /\ gop[g] = "Apply" => version' >= version
            /\ gop[g] = "Rollback" => version' <= version

\* Only the pending call's goroutine steps, and it moves the version
\* towards gwant or, in Force, rewrites the version it has just read.
LEMMA MoveAction ==
    ASSUME TInv, SeqInv, MoveInv
    PROVE  MovesWithCall
<1> USE DEF TInv, TypeOK, Versions, Calls
<1> SUFFICES ASSUME NEW g \in Calls, GoroutineStep(g)
             PROVE  /\ gop[g] = "Apply" => version' >= version
                    /\ gop[g] = "Rollback" => version' <= version
  BY DEF MovesWithCall
<1>1. gpc[g] \notin {"idle", "return"}
  BY DEF GoroutineStep, VersionBody, AssertBody, ApplyCheck,
     RollbackCheck, RollbackForce, MigrateLock, MigrateStep, SelectDone,
     CloseDone
<1>2. cpc = "waiting" /\ g = calls
  BY <1>1 DEF SeqInv, Active
<1>3. CASE VersionBody(g) \/ AssertBody(g) \/ ApplyCheck(g)
           \/ RollbackCheck(g) \/ MigrateLock(g) \/ SelectDone(g)
           \/ CloseDone(g)
  BY <1>3 DEF VersionBody, AssertBody, ApplyCheck, RollbackCheck,
     MigrateLock, SelectDone, CloseDone
<1>4. CASE RollbackForce(g)
  <2>1. gcur[g] = version
    BY <1>2, <1>4 DEF RollbackForce, MoveInv
  <2> QED
    BY <1>4, <2>1 DEF RollbackForce
<1>5. CASE MigrateStep(g)
  <2>1. CASE version # gwant[g] /\ ~stopped /\ ~stopBuf
    <3>1. version' = Toward(version, gwant[g])
      BY <1>5, <2>1 DEF MigrateStep
    <3>2. /\ gop[g] = "Apply" => version <= gwant[g]
          /\ gop[g] = "Rollback" => gwant[g] <= version
      BY <1>2, <1>5 DEF MigrateStep, MoveInv
    <3> QED
      BY <2>1, <3>1, <3>2 DEF Toward
  <2>2. CASE version = gwant[g] \/ stopped \/ stopBuf
    BY <1>5, <2>2 DEF MigrateStep
  <2> QED
    BY <2>1, <2>2
<1> QED
  BY <1>3, <1>4, <1>5 DEF GoroutineStep

(***************************************************************************)
(* Spec 3, for every number of migrations and calls made without a         *)
(* deadline: no step of an Apply goroutine lowers the schema version and   *)
(* no step of a Rollback goroutine raises it, Force of a dirty version and *)
(* migrate's loop under its lock included.                                 *)
(***************************************************************************)
THEOREM SchemaMoves ==
    Deadlines = {FALSE} => (Spec => SchemaMovesWithCall)
<1> SUFFICES ASSUME Deadlines = {FALSE} PROVE Spec => SchemaMovesWithCall
  OBVIOUS
<1>1. Spec => [](TInv /\ SeqInv /\ MoveInv)
  <2>1. Init => TInv /\ SeqInv /\ MoveInv
    BY TypeInit, SeqInit, MoveInit
  <2>2. TInv /\ SeqInv /\ MoveInv /\ [Next]_vars
          => (TInv /\ SeqInv /\ MoveInv)'
    BY TypeStep, SeqStep, MoveStep
  <2> QED
    BY <2>1, <2>2, PTL DEF Spec
<1>2. TInv /\ SeqInv /\ MoveInv => [MovesWithCall]_vars
  BY MoveAction
<1> QED
  BY <1>1, <1>2, PTL DEF SchemaMovesWithCall, MovesWithCall

=============================================================================
