------------------------------ MODULE Migrator ------------------------------
(***************************************************************************)
(* The schema Migrator of src/unnamed/part_000:227-625.                    *)
(*                                                                         *)
(* One caller uses one Migrator and calls it sequentially (the operations  *)
(* are marked "TODO: concurrent-safe").  Each operation sets self.done to  *)
(* a fresh channel and runs its body in util.Deadline.  When the context   *)
(* has a deadline the body runs on its own goroutine and the caller may    *)
(* return TimedOut while that goroutine goes on (spec 4.1).  The body      *)
(* ends by closing "self.done" unless it is already closed; Close sends    *)
(* GracefulStop, waits on self.done and closes the migrate instance.       *)
(*                                                                         *)
(* The migrate library is modelled by what the calls do: Version() hides   *)
(* the dirty flag of the nil version, Migrate, Down and Force take an      *)
(* in-process lock (ErrLocked when it is held), Migrate and Down re-read   *)
(* the version under it (ErrDirty, ErrNoChange), apply one migration at a  *)
(* time (SetVersion(v, dirty) before and SetVersion(v, clean) after it)    *)
(* and stop between migrations once GracefulStop has been received.        *)
(*                                                                         *)
(* The schema version 0 is database.NilVersion (no migration applied), as  *)
(* Kit sees it: Version() then answers (0, false, ErrNilVersion).          *)
(***************************************************************************)
EXTENDS Integers

CONSTANTS
    MaxVersion,    \* migrations 1..MaxVersion exist in MigrationsPath
    MaxCalls,      \* bound on the caller's operations (Close excluded)
    Deadlines,     \* whether a call's ctx carries a deadline: subset of BOOLEAN
    UintModulus    \* 2^64 in the build; any value > MaxVersion + 1 compares alike

ASSUME MigratorAssumption ==
    /\ MaxVersion \in Nat \ {0}
    /\ MaxCalls \in Nat \ {0}
    /\ Deadlines \subseteq BOOLEAN /\ Deadlines # {}
    /\ UintModulus \in Nat /\ UintModulus > MaxVersion + 1

Versions == 0..MaxVersion
Calls == 1..MaxCalls
\* Channel 0 is made and closed by NewMigrator; channel g by the g-th call.
Channels == 0..MaxCalls
Ops == {"Version", "Assert", "Apply", "Rollback"}
Results == {"none", "nil", "generic", "timedout"}
GPhases == {"idle", "version", "force", "lock", "step", "select", "close",
            "return"}
\* The phases in which a goroutine is still inside the migrate instance.
Running == {"version", "force", "lock", "step"}

VARIABLES
    version,      \* schema_migrations.version (0 = NilVersion)
    dirty,        \* schema_migrations.dirty
    lockHolder,   \* the goroutine holding migrate's lock, 0 when free
    stopBuf,      \* the one-slot GracefulStop channel holds a value
    stopped,      \* migrate.isGracefulStop
    migClosed,    \* migrator.Close() has run
    doneField,    \* the channel self.done refers to
    closedCh,     \* the channels closed so far
    crashed,      \* a goroutine panicked closing a closed channel
    cpc,          \* the caller: "idle", "waiting", "closing", "closed"
    cdl,          \* the caller's current ctx has a deadline
    calls,        \* operations started, the id of the newest goroutine
    last,         \* what the caller's last operation returned
    gpc, gop, gtarget, gcur, gwant, gres,  \* per operation goroutine
    clpc          \* the goroutine running Close's body

vars == <<version, dirty, lockHolder, stopBuf, stopped, migClosed, doneField,
          closedCh, crashed, cpc, cdl, calls, last, gpc, gop, gtarget, gcur,
          gwant, gres, clpc>>

TypeOK ==
    /\ version \in Versions /\ dirty \in BOOLEAN
    /\ lockHolder \in {0} \cup Calls
    /\ stopBuf \in BOOLEAN /\ stopped \in BOOLEAN /\ migClosed \in BOOLEAN
    /\ doneField \in Channels /\ closedCh \subseteq Channels
    /\ crashed \in BOOLEAN
    /\ cpc \in {"idle", "waiting", "closing", "closed"} /\ cdl \in BOOLEAN
    /\ calls \in 0..MaxCalls
    /\ last \in [op : Ops \cup {"none", "Close"}, target : Versions,
                 res : Results]
    /\ gpc \in [Calls -> GPhases] /\ gop \in [Calls -> Ops]
    /\ gtarget \in [Calls -> Versions] /\ gcur \in [Calls -> Versions]
    /\ gwant \in [Calls -> Versions] /\ gres \in [Calls -> Results]
    /\ clpc \in {"none", "stop", "wait", "close", "return"}

\* NewMigrator: migrate.New succeeded, done is made and closed.  The
\* database is whatever earlier processes left, possibly a dirty version
\* from a migration that failed or was killed midway.
Init ==
    /\ version \in Versions /\ dirty \in BOOLEAN
    /\ lockHolder = 0 /\ stopBuf = FALSE /\ stopped = FALSE
    /\ migClosed = FALSE
    /\ doneField = 0 /\ closedCh = {0}
    /\ crashed = FALSE
    /\ cpc = "idle" /\ cdl = FALSE /\ calls = 0
    /\ last = [op |-> "none", target |-> 0, res |-> "none"]
    /\ gpc = [g \in Calls |-> "idle"] /\ gop = [g \in Calls |-> "Version"]
    /\ gtarget = [g \in Calls |-> 0] /\ gcur = [g \in Calls |-> 0]
    /\ gwant = [g \in Calls |-> 0] /\ gres = [g \in Calls |-> "none"]
    /\ clpc = "none"
-----------------------------------------------------------------------------
(***************************************************************************)
(* migrate.Version() as Kit reads it: a closed instance fails, the nil    *)
(* version answers ErrNilVersion with dirty = false, whatever the row says *)
(***************************************************************************)
ReadFails == migClosed
ReadNil == version = 0
ReadDirty == version # 0 /\ dirty

\* Goroutine g's body returns r and goes on to the select on self.done.
Finish(g, r) ==
    /\ gpc' = [gpc EXCEPT ![g] = "select"]
    /\ gres' = [gres EXCEPT ![g] = r]

\* Goroutine g goes on to call Migrate(want) (Down() when want = 0).
CallMigrate(g, want) ==
    /\ gpc' = [gpc EXCEPT ![g] = "lock"]
    /\ gwant' = [gwant EXCEPT ![g] = want]
    /\ UNCHANGED gres

GoroutineVars == <<gpc, gop, gtarget, gcur, gwant, gres>>
CallerVars == <<cpc, cdl, calls, last, clpc>>
SchemaVars == <<version, dirty, lockHolder, stopBuf, stopped, migClosed>>
ChanVars == <<doneField, closedCh, crashed>>

\* The body of Version: read the version, ErrNilVersion is no error.
VersionBody(g) ==
    /\ gpc[g] = "version" /\ gop[g] = "Version"
    /\ Finish(g, IF ReadFails THEN "generic" ELSE "nil")
    /\ UNCHANGED <<SchemaVars, ChanVars, CallerVars, gop, gtarget, gcur, gwant>>

\* The body of Assert: a dirty or different version is an error.
AssertBody(g) ==
    /\ gpc[g] = "version" /\ gop[g] = "Assert"
    /\ Finish(g, IF ReadFails \/ ReadDirty \/ version # gtarget[g]
                 THEN "generic" ELSE "nil")
    /\ UNCHANGED <<SchemaVars, ChanVars, CallerVars, gop, gtarget, gcur, gwant>>

\* Mutant: Apply without the "desired behind current" check.
ApplyCheckWithoutBehindCheck(g) ==
    /\ gpc[g] = "version" /\ gop[g] = "Apply"
    /\ \/ (ReadFails \/ ReadDirty) /\ Finish(g, "generic") /\ UNCHANGED gwant
       \/ ~ReadFails /\ ~ReadDirty /\ version = gtarget[g] /\ Finish(g, "nil")
          /\ UNCHANGED gwant
       \/ ~ReadFails /\ ~ReadDirty /\ version # gtarget[g]
          /\ CallMigrate(g, gtarget[g])
    /\ UNCHANGED <<SchemaVars, ChanVars, CallerVars, gop, gtarget, gcur>>

\* Mutant: Apply treating a later version as nothing to apply.
ApplyCheckBehindIsNoop(g) ==
    /\ gpc[g] = "version" /\ gop[g] = "Apply"
    /\ \/ (ReadFails \/ ReadDirty) /\ Finish(g, "generic") /\ UNCHANGED gwant
       \/ ~ReadFails /\ ~ReadDirty /\ version >= gtarget[g] /\ Finish(g, "nil")
          /\ UNCHANGED gwant
       \/ ~ReadFails /\ ~ReadDirty /\ version < gtarget[g]
          /\ CallMigrate(g, gtarget[g])
    /\ UNCHANGED <<SchemaVars, ChanVars, CallerVars, gop, gtarget, gcur>>

\* The body of Apply up to Migrate: refuse a dirty or a later version,
\* nothing to do at the target, else Migrate(target).
ApplyCheck(g) ==
    /\ gpc[g] = "version" /\ gop[g] = "Apply"
    /\ \/ (ReadFails \/ ReadDirty \/ version > gtarget[g]) /\ Finish(g, "generic")
          /\ UNCHANGED gwant
       \/ ~ReadFails /\ ~ReadDirty /\ version = gtarget[g] /\ Finish(g, "nil")
          /\ UNCHANGED gwant
       \/ ~ReadFails /\ ~ReadDirty /\ version < gtarget[g]
          /\ CallMigrate(g, gtarget[g])
    /\ UNCHANGED <<SchemaVars, ChanVars, CallerVars, gop, gtarget, gcur>>

(***************************************************************************)
(* Rollback's comparison of the version read, cur, with the desired        *)
(* version t, an int that the dirty path may have made -1: both sides are  *)
(* compared as uint, so -1 wraps to the largest value.                     *)
(***************************************************************************)
RollbackDecide(g, cur, t) ==
    LET ut == t % UintModulus IN
    \/ cur = ut /\ Finish(g, "nil") /\ UNCHANGED gwant
    \/ cur < ut /\ Finish(g, "generic") /\ UNCHANGED gwant
    \/ cur > ut /\ CallMigrate(g, t)

\* The body of Rollback up to Force: any Version error, ErrNilVersion
\* included, fails; a dirty version goes to Force.
RollbackCheck(g) ==
    /\ gpc[g] = "version" /\ gop[g] = "Rollback"
    /\ gcur' = [gcur EXCEPT ![g] = version]
    /\ \/ (ReadFails \/ ReadNil) /\ Finish(g, "generic") /\ UNCHANGED gwant
       \/ ~ReadFails /\ ~ReadNil /\ ReadDirty
          /\ gpc' = [gpc EXCEPT ![g] = "force"] /\ UNCHANGED <<gres, gwant>>
       \/ ~ReadFails /\ ~ReadNil /\ ~ReadDirty
          /\ RollbackDecide(g, version, gtarget[g])
    /\ UNCHANGED <<SchemaVars, ChanVars, CallerVars, gop, gtarget>>

\* Mutant: schemaVersion++ for schemaVersion-- on the dirty path.
RollbackForceIncrementing(g) ==
    /\ gpc[g] = "force"
    /\ \/ (lockHolder # 0 \/ migClosed) /\ Finish(g, "generic")
          /\ UNCHANGED <<version, dirty, gwant>>
       \/ lockHolder = 0 /\ ~migClosed
          /\ version' = gcur[g] /\ dirty' = FALSE
          /\ RollbackDecide(g, gcur[g], gtarget[g] + 1)
    /\ UNCHANGED <<lockHolder, stopBuf, stopped, migClosed, ChanVars,
                   CallerVars, gop, gtarget, gcur>>

\* Mutant: the dirty path's -1 compared as a signed int.
RollbackForceSigned(g) ==
    /\ gpc[g] = "force"
    /\ \/ (lockHolder # 0 \/ migClosed) /\ Finish(g, "generic")
          /\ UNCHANGED <<version, dirty, gwant>>
       \/ lockHolder = 0 /\ ~migClosed
          /\ version' = gcur[g] /\ dirty' = FALSE
          /\ LET t == gtarget[g] - 1 IN
             \/ gcur[g] = t /\ Finish(g, "nil") /\ UNCHANGED gwant
             \/ gcur[g] < t /\ Finish(g, "generic") /\ UNCHANGED gwant
             \/ gcur[g] > t /\ CallMigrate(g, t)
    /\ UNCHANGED <<lockHolder, stopBuf, stopped, migClosed, ChanVars,
                   CallerVars, gop, gtarget, gcur>>

\* Force(int(cur)) under migrate's lock, then schemaVersion-- and the
\* comparison of RollbackDecide.
RollbackForce(g) ==
    /\ gpc[g] = "force"
    /\ \/ (lockHolder # 0 \/ migClosed) /\ Finish(g, "generic")
          /\ UNCHANGED <<version, dirty, gwant>>
       \/ lockHolder = 0 /\ ~migClosed
          /\ version' = gcur[g] /\ dirty' = FALSE
          /\ RollbackDecide(g, gcur[g], gtarget[g] - 1)
    /\ UNCHANGED <<lockHolder, stopBuf, stopped, migClosed, ChanVars,
                   CallerVars, gop, gtarget, gcur>>

\* Migrate(want) or Down(): take the lock, re-read the version under it.
MigrateLock(g) ==
    /\ gpc[g] = "lock"
    /\ \/ (lockHolder # 0 \/ migClosed \/ dirty \/ version = gwant[g])
          /\ Finish(g, "generic") /\ UNCHANGED lockHolder
       \/ lockHolder = 0 /\ ~migClosed /\ ~dirty /\ version # gwant[g]
          /\ lockHolder' = g
          /\ gpc' = [gpc EXCEPT ![g] = "step"] /\ UNCHANGED gres
    /\ UNCHANGED <<version, dirty, stopBuf, stopped, migClosed, ChanVars,
                   CallerVars, gop, gtarget, gcur, gwant>>

\* The next version on the way from v to want.
Toward(v, want) == IF v < want THEN v + 1 ELSE v - 1

(***************************************************************************)
(* One turn of migrate's loop: done at want; otherwise stop if             *)
(* GracefulStop was received; otherwise run one migration, which sets the  *)
(* next version dirty and, when it succeeds, clean.  Close sends          *)
(* GracefulStop before it closes the instance, so a running loop stops     *)
(* before it could use a closed instance.                                  *)
(***************************************************************************)
MigrateStep(g) ==
    /\ gpc[g] = "step"
    /\ \/ version = gwant[g]
          /\ lockHolder' = 0 /\ Finish(g, "nil")
          /\ UNCHANGED <<version, dirty, stopBuf, stopped>>
       \/ version # gwant[g] /\ (stopped \/ stopBuf)
          /\ stopped' = TRUE /\ stopBuf' = (stopBuf /\ stopped)
          /\ lockHolder' = 0 /\ Finish(g, "nil")
          /\ UNCHANGED <<version, dirty>>
       \/ version # gwant[g] /\ ~stopped /\ ~stopBuf
          /\ version' = Toward(version, gwant[g])
          /\ \/ dirty' = FALSE /\ UNCHANGED <<lockHolder, gpc, gres>>
             \/ dirty' = TRUE /\ lockHolder' = 0 /\ Finish(g, "generic")
          /\ UNCHANGED <<stopBuf, stopped>>
    /\ UNCHANGED <<migClosed, ChanVars, CallerVars, gop, gtarget, gcur, gwant>>

\* Mutant: the body returns without closing self.done.
SelectDoneWithoutClose(g) ==
    /\ gpc[g] = "select"
    /\ gpc' = [gpc EXCEPT ![g] = "return"]
    /\ UNCHANGED <<SchemaVars, ChanVars, CallerVars, gop, gtarget, gcur,
                   gwant, gres>>

\* select { case <-self.done: default: }: the field is read here.
SelectDone(g) ==
    /\ gpc[g] = "select"
    /\ gpc' = [gpc EXCEPT ![g] = IF doneField \in closedCh THEN "return"
                                                          ELSE "close"]
    /\ UNCHANGED <<SchemaVars, ChanVars, CallerVars, gop, gtarget, gcur,
                   gwant, gres>>

\* close(self.done): the field is read again; a closed channel panics.
CloseDone(g) ==
    /\ gpc[g] = "close"
    /\ \/ doneField \in closedCh /\ crashed' = TRUE /\ UNCHANGED <<gpc, closedCh>>
       \/ doneField \notin closedCh /\ closedCh' = closedCh \cup {doneField}
          /\ gpc' = [gpc EXCEPT ![g] = "return"] /\ UNCHANGED crashed
    /\ UNCHANGED <<SchemaVars, doneField, CallerVars, gop, gtarget, gcur,
                   gwant, gres>>
-----------------------------------------------------------------------------
(***************************************************************************)
(* The caller.  Every operation first sets self.done to a new channel,    *)
(* then starts util.Deadline; without a deadline the body runs to its end  *)
(* before the call returns.                                                *)
(***************************************************************************)
Call(op, t, dl) ==
    /\ cpc = "idle" /\ calls < MaxCalls
    /\ LET g == calls + 1 IN
       /\ calls' = g /\ doneField' = g
       /\ gpc' = [gpc EXCEPT ![g] = "version"]
       /\ gop' = [gop EXCEPT ![g] = op]
       /\ gtarget' = [gtarget EXCEPT ![g] = t]
    /\ cpc' = "waiting" /\ cdl' = dl
    /\ UNCHANGED <<SchemaVars, closedCh, crashed, last, gcur, gwant, gres, clpc>>

\* util.Deadline returns the body's error.
Complete ==
    /\ cpc = "waiting" /\ gpc[calls] = "return"
    /\ cpc' = "idle"
    /\ last' = [op |-> gop[calls], target |-> gtarget[calls],
                res |-> gres[calls]]
    /\ UNCHANGED <<SchemaVars, ChanVars, cdl, calls, clpc, GoroutineVars>>

\* The deadline fires first: ErrMigratorTimedOut, the goroutine goes on.
Timeout ==
    /\ cpc = "waiting" /\ cdl
    /\ cpc' = "idle"
    /\ last' = [op |-> gop[calls], target |-> gtarget[calls], res |-> "timedout"]
    /\ UNCHANGED <<SchemaVars, ChanVars, cdl, calls, clpc, GoroutineVars>>

\* Close(ctx): util.Deadline around the body below.
StartClose(dl) ==
    /\ cpc = "idle"
    /\ cpc' = "closing" /\ cdl' = dl /\ clpc' = "stop"
    /\ UNCHANGED <<SchemaVars, ChanVars, calls, last, GoroutineVars>>

\* select { case GracefulStop <- true: default: }
CloseStop ==
    /\ clpc = "stop"
    /\ stopBuf' = TRUE /\ clpc' = "wait"
    /\ UNCHANGED <<version, dirty, lockHolder, stopped, migClosed, ChanVars,
                   cpc, cdl, calls, last, GoroutineVars>>

\* Mutant: Close does not wait on self.done.
CloseWaitUnguarded ==
    /\ clpc = "wait"
    /\ clpc' = "close"
    /\ UNCHANGED <<SchemaVars, ChanVars, cpc, cdl, calls, last, GoroutineVars>>

\* <-self.done
CloseWait ==
    /\ clpc = "wait" /\ doneField \in closedCh
    /\ clpc' = "close"
    /\ UNCHANGED <<SchemaVars, ChanVars, cpc, cdl, calls, last, GoroutineVars>>

\* migrator.Close()
CloseMigrator ==
    /\ clpc = "close"
    /\ migClosed' = TRUE /\ clpc' = "return"
    /\ UNCHANGED <<version, dirty, lockHolder, stopBuf, stopped, ChanVars,
                   cpc, cdl, calls, last, GoroutineVars>>

\* Close returns the body's result, or TimedOut when its deadline fires.
CloseReturn ==
    /\ cpc = "closing"
    /\ \/ clpc = "return" /\ last' = [op |-> "Close", target |-> 0, res |-> "nil"]
       \/ cdl /\ last' = [op |-> "Close", target |-> 0, res |-> "timedout"]
    /\ cpc' = "closed"
    /\ UNCHANGED <<SchemaVars, ChanVars, cdl, calls, clpc, GoroutineVars>>
-----------------------------------------------------------------------------
GoroutineStep(g) ==
    \/ VersionBody(g) \/ AssertBody(g) \/ ApplyCheck(g) \/ RollbackCheck(g)
    \/ RollbackForce(g) \/ MigrateLock(g) \/ MigrateStep(g)
    \/ SelectDone(g) \/ CloseDone(g)

CloseStep == CloseStop \/ CloseWait \/ CloseMigrator

\* A panic in any goroutine ends the process.
Next ==
    /\ ~crashed
    /\ \/ \E op \in Ops, t \in Versions, dl \in Deadlines : Call(op, t, dl)
       \/ Complete \/ Timeout
       \/ \E dl \in Deadlines : StartClose(dl)
       \/ CloseStep \/ CloseReturn
       \/ \E g \in Calls : GoroutineStep(g)

\* Go schedules every runnable goroutine, and a select whose case is ready
\* eventually takes it; the caller is free to never call Close.
Fairness ==
    /\ \A g \in Calls : WF_vars(GoroutineStep(g))
    /\ WF_vars(CloseStep) /\ WF_vars(Complete) /\ WF_vars(CloseReturn)

Spec == Init /\ [][Next]_vars /\ Fairness
-----------------------------------------------------------------------------
(***************************************************************************)
(* Spec 3 (persisted schema version): Apply and Rollback "move this value  *)
(* monotonically per call".  For sequential calls (no ctx deadline, so     *)
(* util.Deadline never leaves a body running after its call returned), no  *)
(* step of an Apply goroutine lowers the version and no step of a Rollback *)
(* goroutine raises it: Apply refuses a later version (line 470), Rollback *)
(* an earlier one (line 541), and the dirty path's Force(cur) (line 529)   *)
(* rewrites the version it has just read.  With deadlines, abandoned       *)
(* bodies break it (the stale checks of lines 456 and 529).               *)
(***************************************************************************)
SchemaMovesWithCall ==
    [][\A g \in Calls :
         GoroutineStep(g) =>
            /\ gop[g] = "Apply" => version' >= version
            /\ gop[g] = "Rollback" => version' <= version]_vars

(***************************************************************************)
(* When Apply(t) has returned nil to the caller, the schema is at t (spec  *)
(* 8: Apply(5) from 3 applies exactly 2 migrations).                       *)
(***************************************************************************)
ApplySuccessAtTarget ==
    cpc = "idle" /\ last.op = "Apply" /\ last.res = "nil" =>
        version = last.target

(***************************************************************************)
(* When Rollback(t) has returned nil, no migration above t is applied,     *)
(* whether or not Rollback had to Force a dirty version first.             *)
(***************************************************************************)
RollbackSuccessAtOrBelow ==
    cpc = "idle" /\ last.op = "Rollback" /\ last.res = "nil" =>
        version <= last.target

(***************************************************************************)
(* Close waits on self.done so that migrator.Close() never runs while an  *)
(* operation's body is still using the migrate instance.                   *)
(***************************************************************************)
CloseWaitsForOperation ==
    migClosed => \A g \in Calls : gpc[g] \notin Running

(***************************************************************************)
(* The select-then-close on self.done never closes a closed channel, which *)
(* would panic the process.                                                *)
(***************************************************************************)
NoDoubleClose == ~crashed

(***************************************************************************)
(* Assert and Apply check the dirty flag: a nil answer from either means   *)
(* the schema is clean.                                                    *)
(***************************************************************************)
SuccessMeansClean ==
    cpc = "idle" /\ last.op \in {"Assert", "Apply"} /\ last.res = "nil" =>
        ~dirty

(***************************************************************************)
(* A Close that was started returns, whether or not its ctx has a          *)
(* deadline and whatever goroutines earlier timeouts left behind: some     *)
(* goroutine eventually closes the channel it waits on, unless the process *)
(* has died of the double close (NoDoubleClose).                           *)
(***************************************************************************)
CloseReturns == cpc = "closing" ~> (cpc = "closed" \/ crashed)
=============================================================================
