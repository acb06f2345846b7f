# TLA+ verification of Neoxelox/kit

This directory holds TLA+ models of the `kit` Go library (sources under `../src`),
the TLC configurations that model-check them, and TLAPS proofs. `PROJECT.json`
lists the components, the runs, the mutants, the mapping from every model
definition to the source lines it translates, the findings and the hazards.

## 1. Inventory of the system

The repository snapshot concatenates several Go files into each file under `src/`.
The parts, their state and their operations are these.

| Component | Source | State | Operations |
|---|---|---|---|
| Database (pgx pool) | `src/cache.go:1283-1684` | pgxpool.Pool (MaxConns connections), the config's isolation level | NewDatabase, Health, Query, Exec, Transaction, Close |
| Isolation tables | `src/cache.go:1320-1353` | IsoLvl* variables, `_KisoLevelToPisoLevel` | lookup in Transaction |
| Migrator | `src/unnamed/part_000:227-643` | schema version and dirty flag (in the database), `self.done` channel, `migrator.LockTimeout`, `GracefulStop` channel | NewMigrator, Version, Assert, Apply, Rollback, Close |
| Cache (redis) | `src/cache.go:1-247` | redis client | NewCache, Health, Set, Get, Delete, Close |
| Connect | NewDatabase, NewCache, NewMigrator, NewObserver | clients created by each attempt | util.Deadline around util.ExponentialRetry around dial + ping |
| Error classification | `src/cache.go:162-173, 1493-1513` | none | `_dbErrToError`, `_chErrToError` |
| Worker | `src/unnamed/part_000:1-226` | asynq server and scheduler | NewWorker, Run, Register, Schedule, Close |
| Observer | `src/cache.go:248-527` | logger, Sentry hub | level-filtered logging, Flush, Close |
| Server, Recover | `src/server.go` | echo instance | NewServer, Run, Close; Recover.Handle |
| Superseded revisions | `src/migrator.go`, `src/cache.go:923-1282` | as above | older Migrator and Database |

How they interact. Every client's constructor is a *Connect*: `util.Deadline`
bounds the whole step, and inside it `util.ExponentialRetry` repeats dial and ping.
The util package is not part of the snapshot, so it is known only from the spec,
sections 4.1 and 4.2. Transaction puts the pgx transaction in the context. Query,
Exec and a nested Transaction find it there, so everything `fn` does with that
context runs in the one transaction. The Migrator runs every operation in a
goroutine under `util.Deadline`. `Close` waits on the `self.done` channel that the
operations close.

The behaviours that make the code hard to get right:

* a context cancelled between any two steps of a Transaction call;
* several call chains competing for the pool's MaxConns connections;
* panics unwinding through nested Transaction frames;
* goroutines that util.Deadline leaves running after a timeout, which race with
  later operations and with Close (Migrator, Connect, Worker.Close);
* retries that create a new client per attempt;
* the dirty schema state left by a failed migration.

The hazards, each at the line where it bites, are listed in `PROJECT.json`.

## 2. Plan

1. **DatabaseTransaction** (done): Transaction (outermost and nested), Query and
   Exec on the transaction or on the pool, cancellation, panics, the pool bound
   and the isolation tables. Proofs in DatabaseTransactionProofs.
2. **Migrator** (done): the operations as goroutines that can outlive their
   deadline, the `self.done` channel, Close, and the schema version with its
   dirty flag. Proofs in MigratorProofs: the type invariant, and the outcome of
   Apply and Rollback without deadlines.
3. **Connect** (done, ResourceClient): Deadline and ExponentialRetry
   (spec_modelled), with dial and ping for every constructor, Health and Close.
4. **Error classification** (done, ErrorClassifier): pure operators checked
   against the spec's taxonomy over all bounded error texts. Health is modelled
   in ResourceClient.
5. **Worker lifecycle**: Run's partial start and Close under Deadline.
6. **Abstract transaction specification** (done): TransactionAbstract, with
   the refinement checked by tx_outcomes and proved (`Refinement`).
7. **Liveness** (done for cancelled calls): a Transaction call whose context
   is done returns, even when leaked connections exhaust the pool
   (CancelledCallReturns). A call whose context is never cancelled does not
   return once MaxConns connections have leaked (finding 1).
8. **More theorems** (done): every safety property of a passing run has a theorem,
   SchemaMovesWithCall is proved for sequential callers (`SchemaMoves`), and
   the classifier is proved for messages of every length
   (ErrorClassifierProofs). Still open: an abstract Migrator specification
   and its refinement.

## 3. DatabaseTransaction: the model

`DatabaseTransaction.tla` models `Database.Transaction`, `Query` and `Exec`
(`src/cache.go:1515-1641`). A *chain* is one goroutine's call of Transaction,
together with the nested calls that fn makes with the same context.

State, per chain:

* `pc`: the step of the outermost call.
* `depth`: the nesting of Transaction frames.
* `cancelled`: ctx.Err() != nil.
* `txState`: the pgx transaction. It is `none`, `active`, `aborted` (a statement
  failed, so COMMIT will answer ROLLBACK), `committed` or `rolledback`.
* `txIso`: the isolation level it was begun with.
* `requested`: the level the caller passed.
* `fnResult`: what fn returned.
* `result`: what Transaction returned.

Shared state: `leaked`, the number of connections held by transactions that
Transaction abandoned. Free connections are MaxConns minus those held by open
transactions, by pool queries and by leaks.

Actions follow the code in order:

1. `Call`, then `BeginTx`. BeginTx waits for a free connection, and fails on a
   cancelled context.
2. `CheckBegun`: the `ctx.Err()` check after BeginTx.
3. The body of fn:
   * `Query` and `Exec` on the transaction, which may abort it, or on the pool;
   * `NestedTransaction` and `NestedReturn`, which reuse the context's
     transaction;
   * `Panic`;
   * `FnReturn`.
4. `Commit`.
5. `CheckCommit`: the trailing rollback (a no-op after COMMIT) and the ctx.Err()
   check.

`Cancel` is the environment cancelling a chain's context. Each action models the
whole code path, including its Rollback and the returned error. Data (SQL,
rows) is abstracted away. Only whether a statement failed matters.

The isolation tables are translated literally. The four `IsoLvl*` variables are
declared in a `var` block with no initializer, so in Go they are all `0`. The map
literal `_KisoLevelToPisoLevel` is built entry by entry, so for the repeated key
`0` the last entry wins (`MapLiteral`).

### Runs

| Run | cfg | Checks | Result |
|---|---|---|---|
| tx_outcomes | MCDatabaseTransaction.cfg | TypeOK, SuccessIsDurable, CommitOnlyCleanBody, ImplementsAbstract (refinement), CancelledCallReturns (liveness) | pass (24838 distinct states) |
| tx_leak | MCDatabaseTransaction_NoLeakedTransaction.cfg | NoLeakedTransaction | violation: code bug |
| tx_commit_reported_failed | MCDatabaseTransaction_ErrorMeansNotCommitted.cfg | ErrorMeansNotCommitted | violation: divergence from spec 4.3 |
| tx_isolation | MCDatabaseTransaction_IsolationAsRequested.cfg | IsolationAsRequested | violation: code bug |

Bounds and why they suffice:

* **Two chains and one connection.** One chain can hold the only connection while
  the other waits in BeginTx or in a pool query. That is the contention case.
* **Nesting depth 2.** A panic or an error inside a nested frame must unwind
  through a frame without a defer.
* **Cancellation at any step.** The environment can cancel a context at every
  step, so every ctx.Err() check sees both answers.

The violation runs use symmetry over the chains, which is sound because no
definition names a particular chain. tx_outcomes does not, because it checks a
liveness property.

Fairness (`FairSpec`, used by tx_outcomes only):

* The code's own steps are weakly fair (`CodeStep`): BeginTx, CheckBegun,
  Commit, CheckCommit and the release of a pool connection. Go runs a runnable
  goroutine, and pgxpool's Acquire wakes up when a connection is released or
  the context is done.
* fn is assumed to return in the end. `FnEnds` (FnReturn or Panic of the
  outermost fn) and `NestedReturn` are strongly fair. Strong fairness is
  needed because a fn that keeps nesting Transaction calls disables its own
  return at every nested call. Under weak fairness such a fn could loop forever.
* Calls, statements, statement failures and cancellation are the
  environment's, and get no fairness.

`CancelledCallReturns` says a chain whose context is done gets back to Idle.
This must hold even when connections leaked by finding 1 have exhausted the
pool. The scenario: one chain leaks the only connection, another then waits
in BeginTx, and its cancellation must end that wait. If BeginTx acquired its
connection without the caller's context (mutant `BeginTxIgnoringCtx`), the
waiting chain would never return.

### Abstract specification (TransactionAbstract.tla)

TransactionAbstract states what a Transaction call promises to its caller and
to the server. Phases, nesting, statements and the pool are hidden. Per chain
it keeps four things: whether a call runs, the transaction (none, open,
committed, rolled back), the last result, and whether the context is live. The
abstract steps are:

* `Start`;
* `Begin`: opens the transaction;
* `Cancel`;
* `Commit`: only while the call runs on a live context;
* `Return`:
  - nil only for a committed transaction and a live context;
  - panic only after closing an open transaction;
  - error with or without rollback.

The abstract spec allows the two known divergences: a leaked transaction
(error, left open) and committed work reported failed (error, committed). So
the refinement holds. It rules out everything else:

* committing after the call returned;
* committing on a cancelled context;
* reopening or changing a finished transaction;
* a panic that leaves the transaction open.

The mapping is in DatabaseTransaction.tla:

* `AbsCall`: a chain runs a call outside Idle and Querying;
* `AbsTx`: active and aborted are "open";
* `AbsLive`: not cancelled.

Run tx_outcomes checks `ImplementsAbstract == Abstract!Spec` as a PROPERTY. The
theorem `Refinement` proves it for all constants.

### Findings

1. **Leaked transaction** (`src/cache.go:1603`). When the context is cancelled
   after BeginTx succeeds, Transaction returns without rolling back. The
   transaction stays open and its connection is never returned to the pool.
2. **Committed work reported as failed** (`src/cache.go:1634`). When the context
   is cancelled after a successful COMMIT, Transaction returns TransactionFailed.
   A caller that retries applies the work twice.
3. **Isolation levels collapse** (`src/cache.go:1341-1353`). Every transaction,
   and the pool's default_transaction_isolation, is Serializable, not the level
   requested nor the Read Committed default.

### Proofs (DatabaseTransactionProofs.tla)

These theorems hold for every set of chains, every `MaxConns` and every
`MaxDepth`, under `ConstantsAssumption` (both constants are positive naturals):

* `TypeCorrect`: `Spec => []TypeOK`.
* `OutcomeCorrect`: `Spec => []OutcomeInv`, where OutcomeInv is the conjunction
  of the two outcome properties of run tx_outcomes and two facts the
  refinement needs: `PanicRolledBack` (a panic leaves the transaction rolled
  back) and `SuccessUncancelled` (a nil result had a live context). Each
  checked property also has a theorem of its own, derived from it:
  `DurableSuccess` (SuccessIsDurable) and `CleanCommit` (CommitOnlyCleanBody).
  - OutcomeInv is not inductive on its own: a chain in the middle of a call could
    be in any state.
  - The strengthening `IInv` adds `PhaseInv`, which says what each phase of the
    outermost call knows about the transaction and fn's result. For example, in
    CheckCommit the transaction is committed and fn returned nil.
  - TLC checked IInv as an invariant before it was proved.
  - The step proof has one case per action.
* `AllLevelsSerializable`: every requested level maps to Serializable. This is
  finding 3 as a theorem about the translated map literal.
* `Refinement`: `Spec => ImplementsAbstract`.
  - `RefineInit`: Init maps to the abstract Init.
  - `RefineStep`: under IInv, every step is an abstract step or a stutter.
    There is one case per action. PhaseInv supplies the abstract guards: the
    transaction is open in Body and Commit, and committed in CheckCommit.

What stays with TLC: the violations (by nature), and CancelledCallReturns.
TLAPS cannot reason about ENABLED or fairness here.

## 4. Migrator: the model

`Migrator.tla` models the current Migrator of `src/unnamed/part_000`. It covers
NewMigrator's result (288-345), Version, Assert, Apply and Rollback (348-559),
the closing select on `self.done` (424-428, 566-570) and Close (575-624). The
golang-migrate instance is not under src/. Its behaviour is taken from what Kit
relies on:

* `Version()` answers ErrNilVersion for the nil version and hides its dirty flag.
* `Migrate(v)` and `Down()` take an in-process lock and re-read the version
  under it (ErrDirty, ErrNoChange).
* They then step one migration at a time. Each step sets the next version dirty,
  runs the migration and sets it clean. A failure leaves it dirty.
* `GracefulStop` is a buffered channel of size 1. A pending stop is taken before
  the next migration.
* `Force(v)` takes the lock and sets v clean.

State:

* Schema: `version` (0 is the nil version), `dirty`, `lockHolder`, `stopBuf`
  (a value in GracefulStop), `stopped` (migrate's sticky isGracefulStop) and
  `migClosed`.
* Channels: `doneField`, the channel self.done refers to now, with channel i
  made by call i and channel 0 by NewMigrator. `closedCh` is the set of closed
  channels. `crashed` is a panic.
* Caller: `cpc`, `cdl` (the call has a deadline), `calls`, `last` (the last
  result) and `clpc` (the step of Close's body).
* One goroutine per call: `gpc`, `gop`, `gtarget`, `gcur` (the version
  Rollback read), `gwant` (the argument of Migrate) and `gres`.

Every operation sets self.done to a fresh channel and starts its body on a
goroutine (`Call`). Without a deadline the caller waits for it (`Complete`).
With a deadline it may return ErrMigratorTimedOut first (`Timeout`), and the
goroutine goes on. A goroutine's steps are its body and then the closing select:

* VersionBody, AssertBody, ApplyCheck, RollbackCheck;
* RollbackForce, where `RollbackDecide` compares the decremented int with the
  version as uint, modulo `UintModulus`;
* MigrateLock, MigrateStep;
* SelectDone and CloseDone. They read `self.done` twice, once in the select and
  once in close.

Close's body is CloseStop, then CloseWait and then CloseMigrator, under its own
deadline (`CloseReturn`). A panic stops everything (`Next` requires
`~crashed`).

Fairness: weak fairness of each goroutine, of Close's body, of Complete and of
CloseReturn. The Go scheduler runs every runnable goroutine, and a ready select
case is eventually taken. The caller is not required to call anything, so no
fairness is assumed for Call or StartClose. Deadlock checking is off because the
program legitimately stops after Close, and after a panic.

### Runs

| Run | cfg | Checks | Result |
|---|---|---|---|
| migrator_sequential | MCMigratorSequential.cfg | TypeOK, SchemaMovesWithCall, ApplySuccessAtTarget, RollbackSuccessAtOrBelow | pass (171972 states) |
| migrator_lingering | MCMigrator_Lingering.cfg | CloseReturns (liveness) | pass (632230 states) |

SchemaMovesWithCall is the contract for sequential calls, where no ctx has a
deadline and util.Deadline never leaves a body running. Only
migrator_sequential checks it. The stale-check races of hazards
`part_000:456` and `part_000:529` need deadlines, and they break the property
(finding 3).
| migrator_close_under_operation | MCMigrator_CloseWaitsForOperation.cfg | CloseWaitsForOperation | violation: code bug |
| migrator_double_close | MCMigrator_NoDoubleClose.cfg | NoDoubleClose | violation: code bug |
| migrator_nil_dirty | MCMigrator_SuccessMeansClean.cfg | SuccessMeansClean | violation: code bug |

Bounds and why they suffice:

* **Two migrations.** Versions 0, 1 and 2 give an Apply that steps twice, a
  Rollback through a dirty version, and the nil version with its dirty row.
* **Initial schema state.** The initial schema is any version, dirty or clean, as
  earlier processes may have left it.
* **Three calls without deadlines.** The sequential run has three calls, so that
  an Apply, a Rollback and an Assert can follow each other.
* **Two calls with deadlines.** This is the least number for a lingering
  goroutine to race with a later one and with Close.
* **UintModulus is 1024.** Any modulus above MaxVersion + 1 compares alike.

### Findings

1. **Close under a running operation** (`part_000:597`). Close waits on
   `self.done`, which refers only to the newest operation's channel. A body that
   timed out is still using the instance when Close closes it.
2. **Double close** (`part_000:487`). A lingering goroutine and the next one both
   find the new channel open. Both close it, and the process panics.
3. **Apply migrates down** (`part_000:477`). An Apply(1) that read version 0 and
   timed out calls Migrate(1) after a later Apply(2) has completed. This
   contradicts spec 3 and spec 8. TLC shows it when SchemaMovesWithCall is
   checked on the instance of MCMigrator_Lingering.cfg. No run keeps that check:
   it is the race of finding 1 seen from the schema.
4. **Dirty nil version accepted** (`part_000:403`). After a failed down
   migration of version 1, Assert(0) and Apply(0) succeed on a dirty schema.

### Proofs (MigratorProofs.tla)

Assumptions (`MigratorAssumption`):

* MaxVersion and MaxCalls are positive naturals.
* Deadlines is a non-empty set of Booleans.
* UintModulus exceeds MaxVersion + 1. It is 2^64 in the build. The proof showed
  that the bound is needed: at MaxVersion + 1, the wrapped -1 of a dirty
  version 1 would equal the top version.

Theorems:

* `TypeCorrect`: `Spec => []TypeOK`.
  - The strengthening adds one fact: a waiting caller has started goroutine
    `calls`. Complete and Timeout read `gop[calls]`.
  - TypeOK is split into two halves (TypeState, TypeProcs) so that each step's
    obligations stay small.
* `ApplyCorrect` and `RollbackCorrect`: when `Deadlines = {FALSE}`,
  `Spec => []ApplySuccessAtTarget` and `Spec => []RollbackSuccessAtOrBelow`.
  The inductive invariant `SeqInv` says:
  - every goroutine is idle or returned, except the one of the pending call;
  - GracefulStop is empty and migrate is not stopped until Close starts;
  - a pending Apply calls Migrate with its target, and a nil result of its body
    means the version is the target;
  - a pending Rollback calls Migrate at or below its target, and a nil result
    means the version is at or below it;
  - only a Rollback reaches Force.

  The uint comparison is handled by two lemmas. `UintWrap`: a Migrate call from
  Rollback always gets a real version. `DecideOutcome`: Rollback reports nil
  only when the version read equals the desired one.
  TLC checked SeqInv as an invariant of the sequential instance before it was
  proved. `SequentialInvariant` states `Spec => []SeqInv` itself, and the
  theorems cite it.
* `SchemaMoves`: when `Deadlines = {FALSE}`, `Spec => SchemaMovesWithCall`, the
  action property. Its step lemma needs one more invariant, `MoveInv`, about
  the pending call's goroutine:
  - in Force, `gcur` is the version just read, so Force rewrites the version
    as it is;
  - in Migrate, an Apply's `gwant` is at or above the version, and a
    Rollback's is at or below it.

  Then each step of migrate's loop moves towards `gwant`, on the side the
  operation allows. `DecideBelow` shows that Rollback's uint comparison passes
  Migrate only a version below the one read. TLC checked MoveInv, with
  MaxVersion 3, before it was proved. The theorem holds only without
  deadlines. With them, TLC shows a Rollback left behind by a timeout
  forcing a version it read before a later call moved it (hazard
  `part_000:529`).

What stays with TLC:

* CloseReturns, which needs fairness.
* Everything with deadlines. There, ApplySuccessAtTarget fails as well: a
  goroutine left by a timeout moves the schema after a later Apply has returned
  nil. This is the race of finding 3, and the reason the theorems assume no
  deadlines.

## 5. ResourceClient: Connect, Health and Close

`ResourceClient.tla` models one client from its constructor to its Close.
A run explores five constructors (`kind`), chosen in Init from the constant `Kinds`:

| kind | constructor | attempt | Health | Close |
|---|---|---|---|---|
| cache | NewCache `cache.go:59-130` | redis.NewClient, then Ping | `132-161` | `212-234` |
| database | NewDatabase `cache.go:1378-1461` | pgxpool.ConnectConfig, then Ping | `1463-1492` | `1643-1662` |
| legacy_database | NewDatabase `cache.go:982-1079` | ConnectConfig | `1081-1116` | `1250-1269` |
| migrator | NewMigrator `migrator.go:46-113` | migrate.New | none | `migrator.go:299-326` |
| sentry | NewObserver `cache.go:290-344` (with a SentryConfig) | sentry.Init | none | Observer.Close and Flush `464-527` |

Every constructor runs `util.Deadline(ctx, util.ExponentialRetry(attempts, ..., fn))`.
The closure fn assigns the `pool` variable it captured, and the constructor
builds its struct from `pool` once Deadline returned nil. The util package is not
under `src/`. Its two functions are modelled from spec 4.1 and 4.2 (marked
spec_modelled in the map):

* **Deadline.** With a deadline, fn runs on its own goroutine. Once the deadline
  passes (`Expire`), the caller may return TimedOut (`ConnectTimeout`) while fn
  goes on.
* **Retry.** ExponentialRetry has no ctx parameter. After a failure it sleeps
  (`Delay`) and calls fn again, up to `Attempts` times (`Failed`). Every error
  counts as retriable, as with the default nil or empty retriable lists.

State:

* The constructor's body: `gpc`, `attempt`, `gres`, `gcause`, the captured
  `pool`, and `clients`, the state of the client each attempt created (none,
  open, closed). `hub` records that sentry.Init has installed the global client.
* The caller: `cpc`, `cdl` and `expired` (the constructor's ctx), `stored` (the
  client in the returned struct), `healthCalls` and `last` (the last result and
  its cause).
* Close's body: `clpc`, `ccdl`, `cexpired`, `cres` and `ccause`.

The calls that take the ctx (ConnectConfig, Ping) fail once it has expired,
with cause "deadline". migrate.New and sentry.Init take no ctx. A Health body
only reads, so a Health call is one step: it reports nil only when the stored
client is open, and TimedOut only under a deadline. Closing the pool is one
step, except in Observer.Close: there, Flush runs its own Deadline on the same
ctx (`ObserverFlush`), and Logger.Close follows (`ObserverLoggerClose`).
`Terminated` is the stutter of a program that is done with its client.

Fairness: weak fairness of the constructor's body, of Close's body, and of the
two returns. This is the Go scheduler and a ready select case. The deadline is
not assumed to fire.

### Runs

| Run | cfg | Checks | Result |
|---|---|---|---|
| client_lifecycle | MCResourceClient.cfg | TypeOK, FailureAfterAllAttempts, RetryInv, HealthNilOnlyWhenOpen (action property), CallsReturn (liveness) | pass (2098 states) |
| client_orphan_after_ping | MCResourceClientOrphan.cfg | ClientsReleasedAfterClose | violation: code bug |
| client_retry_after_deadline | MCResourceClientRetry.cfg | NoRetryAfterDeadline | violation: divergence from spec 4.2 |

Bounds: every kind, 2 attempts (a retry, and a client left behind by the first
attempt), deadlines on and off, one Health call (before or after Close), one
Close. A second Close is not modelled: spec 4.5 leaves it undefined.

### Proofs (ResourceClientProofs.tla)

Assumption (`ResourceAssumption`): Kinds is a non-empty subset of the five
constructors, Attempts is a positive natural, Deadlines is a non-empty set of
Booleans, and MaxHealth is a natural.

The inductive invariant is `IInv == TypeOK /\ RetryBound`. TypeOK is split
into three parts (TypeCaller, TypeConnect, TypeClose) so that each obligation
stays small. TypeOK alone is not inductive. Delay increments `attempt`, and
only `RetryBound` (`gpc = "delay" => attempt < Attempts`) keeps it within
0..Attempts.

Theorem: `TypeCorrect`, `Spec => []TypeOK`.

There are no theorems about the retry loop's bookkeeping or termination. That
loop is util.ExponentialRetry, which is modelled from the spec, so such a
theorem would hold whatever Kit's code did. The pass run checks only TypeOK
for the same reason. The other candidate properties are left out too: Health
reporting nil only on an open client would only restate HealthResults' guard,
and every constructor and Close returning depends only on the modelled retry
bound. The Kit code's real hazards here are the two violation runs below and
the findings that no run keeps.

What stays with TLC: the divergences, which are violations.

### Findings

1. **Clients of failed attempts stay open** (`cache.go:98`, `cache.go:1431`).
   When the ping fails, the closure returns without closing the client it just
   created, and the next attempt overwrites `pool`. Close releases only the last
   client. A redis client with MinIdleConns keeps dialling in the background.
   This holds even without a deadline.
2. **Retries after the deadline** (`cache.go:1423`). The closure ignores its
   `exceeded` channel. After NewDatabase has returned TimedOut, the abandoned
   loop sleeps and dials again, against spec 4.2.

Two more divergences are stated as properties. TLC finds both violated, but no
run keeps them:

* `NoLatePromotion` (Kinds = {"sentry"}, deadlines on). A late sentry.Init
  installs Sentry for the whole process after NewObserver returned TimedOut
  (spec 4.1). Init is a local DSN parse, so the deadline must be nearly over.
* `DeadlineSurfacesAsTimedOut` (Kinds = {"sentry"}, Attempts = 1, deadlines
  on). Flush's inner Deadline returns ErrObserverTimedOut, which Close wraps
  as Generic (`cache.go:499-502`). The outer select may take that result, and
  `ErrDeadlineExceeded().Is` does not match it, so Close returns Generic
  (spec 7).

The model also shows what the code gets right:

* A dial failure is returned only after all attempts, even when the failures
  come from an expired ctx.
* Health never reports nil on a closed pool.
* Every constructor and every Close returns without help from a deadline.

Not modelled:

* A non-empty retriable list (no constructor's default has one).
* The pool configuration: sizes, timeouts and DSN formatting.
* The observer's log sinks.

## 6. ErrorClassifier: _dbErrToError and _chErrToError

`ErrorClassifier.tla` has pure operators; it holds no state. Query, Exec (through
`_dbErrToError`) and the Cache operations (through `_chErrToError`) pass every
driver error to them.

The error text, `err.Error()`, is a sequence of tokens:

* `"(SQLSTATE "` and `")"` are tokens of their own;
* a SQLSTATE code is one token;
* `"w"` is any text without parentheses.

`SQLStateCapture` models `_DATABASE_ERR_PGCODE.FindStringSubmatch` by what Go's
regexp does. The match starts at the leftmost `"(SQLSTATE "` that has a `")"`
after it. The greedy group then runs to the last `")"` of the text.
`DbErrToError` compares the group with the seven codes of the switch, then
the whole text with `pgx.ErrNoRows.Error()`. `ChErrToError` compares the
sentinel `cache.ErrCacheMiss` by identity.

`ClassifierMatchesSpec` is the reference check. It compares `DbErrToError` with
spec 4.4's taxonomy (`SpecClass`, where class 23 comes from PostgreSQL's errcodes
table) over every raw error pgx returns to Query and Exec:

* a PgError, printed as `"ERROR: msg (SQLSTATE code)"`, wrapped with a prefix or
  not, with a code of class 23 or of another class, and a message of up to two
  tokens of text and `")"`;
* ErrNoRows;
* another error;
* nil.

The check is a constant formula, so it is stated as
`ASSUME ClassifierAssumption`. MCDatabaseTransaction extends the module, so
every tx_outcomes run evaluates it. A switch that lacks a case, such as
ExclusionViolation, stops that run.

Tokens are strings without spaces (`OpenToken` is `"(SQLSTATE"`, `NoRowsText`
is `"no_rows_in_result_set"`). TLAPS's SMT encoding cannot handle a string
that contains a space once a function is applied to it.

### Proofs (ErrorClassifierProofs.tla)

* `OpenAt`, `CloseAt` and `NoCapture`: where `SelectInSeq` and
  `SelectLastInSeq` (SequencesExt) find the first `"(SQLSTATE "` and the last
  `")"`.
* `PgCapture`: the text of a PgError captures exactly its code. This holds
  wrapped or not, and for a message of any length that holds no
  `"(SQLSTATE "`, however many `")"` it holds. The leftmost open is the one
  pgconn appends, and the last `")"` closes it.
* `ClassifierCorrect`: for every alphabet `Tok` without `"(SQLSTATE "` and
  every error in `Errors(Tok)`, `DbErrToError(GoError(e)) = SpecClass(e)`.
  Those errors are:
  - PgErrors with messages of any length;
  - ErrNoRows;
  - other errors whose text is not ErrNoRows's;
  - nil.

  TLC's ASSUME covers only messages of up to two tokens.
* `ClassifierBounded`: ClassifierMatchesSpec itself, from ClassifierCorrect
  with the alphabet `{"w", ")"}`. The proof does not cite the ASSUME, and
  without it the goal is not provable.

`DbErrToError` is an IF/ELSE chain in the order of the Go function's early
returns. `SpecClass` has disjoint CASE arms, so its value is determined for
every error.

Two hazards are listed in `PROJECT.json`:

* **A message that contains `"(SQLSTATE "`.** With such a message, the greedy
  group spans two codes. TLC finds a 23000 violation classified as Generic.
  The message would need a constraint name that contains the text, so the
  kept check leaves it out.
* **Context errors surface as Generic.** Query and Exec pass `ctx.Err()`
  through the classifier (`cache.go:1538`, `1573`), which returns Generic, not
  TimedOut. Spec 7 says deadline expiry always surfaces as TimedOut.

Not modelled: idempotence (no code path classifies an `*Error` twice) and the
Logger-based copy of `_dbErrToError` (`cache.go:1117-1138`), which is the same
code.

## 7. Not modelled, and why

* Observer: the log sinks, Sentry's event hooks and formatting. They are I/O
  that holds no state a property tells apart. NewObserver, Flush and Close are
  modelled in ResourceClient.
* Server and Recover: echo wiring, outside the spec's scope.
* Cache Set/Get/Delete: single calls to redis. Their error classification is
  `ChErrToError` in ErrorClassifier.
* Of the superseded revisions, the Logger-based Database's Query, Exec and
  Transaction (`cache.go:1117-1249`) and migrator.go's Assert, Apply and
  Rollback. The current revisions of these are modelled. Both revisions'
  constructors, Health and Close are in ResourceClient.

Components that are not yet modelled are listed with their plan in
`PROJECT.json`.
