--------------------------- MODULE ResourceClient ---------------------------
(***************************************************************************)
(* The lifecycle of one resource client: its constructor (Connect), Health *)
(* and Close, for the five constructors of the repository:                 *)
(*   "cache"            NewCache          src/cache.go:59-130              *)
(*   "database"         NewDatabase       src/cache.go:1378-1461           *)
(*   "legacy_database"  NewDatabase       src/cache.go:982-1079 (Logger)   *)
(*   "migrator"         NewMigrator       src/migrator.go:46-113           *)
(*   "sentry"           NewObserver       src/cache.go:290-344             *)
(*                                                                         *)
(* Each constructor runs util.Deadline(ctx, ExponentialRetry(attempts, ... *)
(* , fn)).  The closure fn assigns the variable "pool" it captured (the    *)
(* global Sentry hub for the Observer), and the constructor builds its     *)
(* struct from that variable once Deadline returned nil.  util.Deadline    *)
(* and util.ExponentialRetry are not under src/; they are modelled from    *)
(* spec 4.1 and 4.2: with a deadline, fn runs on its own goroutine and the *)
(* caller may return TimedOut while it goes on; the retry loop takes no    *)
(* ctx, sleeps between attempts and stops after "attempts" failures (every *)
(* error is retriable: the retriable lists are nil or empty by default).   *)
(*                                                                         *)
(* Clients are named by the attempt that created them.  Health bodies only *)
(* read, so a Health call is one step; a Close body is one step, except    *)
(* the Observer's, which nests Flush's own Deadline.                       *)
(***************************************************************************)
EXTENDS Integers

AllKinds == {"cache", "database", "legacy_database", "migrator", "sentry"}

CONSTANTS
    Kinds,       \* the constructors a run explores: a subset of AllKinds
    Attempts,    \* RetryConfig.Attempts
    Deadlines,   \* whether a call's ctx carries a deadline: subset of BOOLEAN
    MaxHealth    \* bound on the Health calls of a run

ASSUME ResourceAssumption ==
    /\ Kinds \subseteq AllKinds /\ Kinds # {}
    /\ Attempts \in Nat \ {0}
    /\ Deadlines \subseteq BOOLEAN /\ Deadlines # {}
    /\ MaxHealth \in Nat

\* The constructors that run pgxpool.ParseConfig before the Deadline.
ParseKinds == {"database", "legacy_database"}
Clients == 1..Attempts
Results == {"none", "nil", "generic", "unhealthy", "timedout"}
\* What made a call fail: a bad config, the network, the expired ctx, or a
\* step of Close.
Causes == {"none", "config", "dial", "deadline", "close", "flush", "logger"}
CPhases == {"idle", "connecting", "ready", "failed", "closing", "closed"}
GPhases == {"none", "attempt", "ping", "delay", "done"}
ClPhases == {"none", "body", "flush", "logger", "done"}

VARIABLES
    kind,         \* which constructor
    cfgOk,        \* the DSN parses (pgxpool.ParseConfig, sentry.Init)
    cpc,          \* the caller
    cdl,          \* the constructor's ctx has a deadline
    expired,      \* ... and it has passed
    gpc,          \* the Deadline body of the constructor
    attempt,      \* ExponentialRetry's attempt number
    gres, gcause, \* what the body returned, and why it failed
    pool,         \* the captured variable: a client, or 0 for nil
    clients,      \* each client created by an attempt
    stored,       \* the client in the returned struct, 0 for none
    hub,          \* sentry.Init has bound a client to the global hub
    clpc,         \* the Close body
    ccdl,         \* Close's ctx has a deadline
    cexpired,     \* ... and it has passed
    cres, ccause, \* what the Close body returned, and why it failed
    healthCalls,  \* Health calls made
    last          \* what the caller's last call returned

ConnectVars == <<gpc, attempt, gres, gcause, pool, clients, hub>>
CloseVars == <<clpc, ccdl, cexpired, cres, ccause>>
vars == <<kind, cfgOk, cpc, cdl, expired, stored, healthCalls, last,
          ConnectVars, CloseVars>>

Outcome(op, res, cause) == [op |-> op, res |-> res, cause |-> cause]

TypeOK ==
    /\ kind \in Kinds /\ cfgOk \in BOOLEAN
    /\ cpc \in CPhases /\ cdl \in BOOLEAN /\ expired \in BOOLEAN
    /\ gpc \in GPhases /\ attempt \in 0..Attempts
    /\ gres \in Results /\ gcause \in Causes
    /\ pool \in 0..Attempts /\ stored \in 0..Attempts
    /\ clients \in [Clients -> {"none", "open", "closed"}]
    /\ hub \in BOOLEAN
    /\ clpc \in ClPhases /\ ccdl \in BOOLEAN /\ cexpired \in BOOLEAN
    /\ cres \in Results /\ ccause \in Causes
    /\ healthCalls \in 0..MaxHealth
    /\ last \in [op : {"none", "connect", "health", "close"}, res : Results,
                 cause : Causes]

Init ==
    /\ kind \in Kinds /\ cfgOk \in BOOLEAN
    /\ cpc = "idle" /\ cdl = FALSE /\ expired = FALSE
    /\ gpc = "none" /\ attempt = 0 /\ gres = "none" /\ gcause = "none"
    /\ pool = 0 /\ clients = [i \in Clients |-> "none"] /\ stored = 0
    /\ hub = FALSE
    /\ clpc = "none" /\ ccdl = FALSE /\ cexpired = FALSE
    /\ cres = "none" /\ ccause = "none"
    /\ healthCalls = 0
    /\ last = Outcome("none", "none", "none")
-----------------------------------------------------------------------------
(***************************************************************************)
(* Connect.                                                                *)
(***************************************************************************)
\* NewDatabase: pgxpool.ParseConfig(dsn) fails before any dial.
ParseConfigFails ==
    /\ cpc = "idle" /\ kind \in ParseKinds /\ ~cfgOk
    /\ cpc' = "failed" /\ last' = Outcome("connect", "generic", "config")
    /\ UNCHANGED <<kind, cfgOk, cdl, expired, stored, healthCalls,
                   ConnectVars, CloseVars>>

\* util.Deadline(ctx, ExponentialRetry(...)): the first attempt starts.
Connect(dl) ==
    /\ cpc = "idle"
    /\ cpc' = "connecting" /\ cdl' = dl
    /\ gpc' = "attempt" /\ attempt' = 1
    /\ UNCHANGED <<kind, cfgOk, expired, stored, healthCalls, last, gres,
                   gcause, pool, clients, hub, CloseVars>>

\* The constructors build their pool configuration (abstracted) and
\* start Connect; the Observer does so only with a SentryConfig.
NewCache(dl) == kind = "cache" /\ Connect(dl)

NewDatabase(dl) == kind = "database" /\ cfgOk /\ Connect(dl)

NewLegacyDatabase(dl) == kind = "legacy_database" /\ cfgOk /\ Connect(dl)

NewMigrator(dl) == kind = "migrator" /\ Connect(dl)

NewObserver(dl) == kind = "sentry" /\ Connect(dl)

\* Mutant: the retry loop also retries after the Attempts-th failure.
FailedOffByOne(cause) ==
    /\ gcause' = cause
    /\ IF attempt <= Attempts THEN gpc' = "delay" /\ UNCHANGED gres
                              ELSE gpc' = "done" /\ gres' = "generic"

\* fn returned an error: ExponentialRetry sleeps and retries until the
\* Attempts-th failure, which it returns.
Failed(cause) ==
    /\ gcause' = cause
    /\ IF attempt < Attempts THEN gpc' = "delay" /\ UNCHANGED gres
                             ELSE gpc' = "done" /\ gres' = "generic"

Succeeded == gpc' = "done" /\ gres' = "nil" /\ UNCHANGED gcause

\* A call that takes the constructor's ctx fails once the ctx has expired.
CtxCallFails == Failed(IF expired THEN "deadline" ELSE "dial")

\* pool = redis.NewClient(poolConfig): a new client on every attempt.
CacheNewClient ==
    /\ gpc = "attempt" /\ kind = "cache"
    /\ clients' = [clients EXCEPT ![attempt] = "open"] /\ pool' = attempt
    /\ gpc' = "ping"
    /\ UNCHANGED <<attempt, gres, gcause, hub>>

\* pool, err = pgxpool.ConnectConfig(ctx, poolConfig): on error pgxpool
\* closes what it made and pool becomes nil.
DatabaseConnect ==
    /\ gpc = "attempt" /\ kind = "database"
    /\ \/ ~expired /\ clients' = [clients EXCEPT ![attempt] = "open"]
          /\ pool' = attempt /\ gpc' = "ping" /\ UNCHANGED <<gres, gcause>>
       \/ pool' = 0 /\ CtxCallFails /\ UNCHANGED clients
    /\ UNCHANGED <<attempt, hub>>

\* The Logger-based NewDatabase: ConnectConfig and no ping.
LegacyConnect ==
    /\ gpc = "attempt" /\ kind = "legacy_database"
    /\ \/ ~expired /\ clients' = [clients EXCEPT ![attempt] = "open"]
          /\ pool' = attempt /\ Succeeded
       \/ pool' = 0 /\ CtxCallFails /\ UNCHANGED clients
    /\ UNCHANGED <<attempt, hub>>

\* err = pool.Ping(ctx): a failure leaves the new client open.
Ping ==
    /\ gpc = "ping"
    /\ \/ ~expired /\ Succeeded
       \/ CtxCallFails
    /\ UNCHANGED <<attempt, pool, clients, hub>>

\* migrator, err = migrate.New(migrationsPath, dsn): no ctx reaches it.
MigrateNew ==
    /\ gpc = "attempt" /\ kind = "migrator"
    /\ \/ clients' = [clients EXCEPT ![attempt] = "open"] /\ pool' = attempt
          /\ Succeeded
       \/ pool' = 0 /\ Failed("dial") /\ UNCHANGED clients
    /\ UNCHANGED <<attempt, hub>>

\* sentry.Init binds a new client to the global hub; it fails only on a
\* DSN that does not parse, and then on every attempt.
SentryInit ==
    /\ gpc = "attempt" /\ kind = "sentry"
    /\ \/ cfgOk /\ hub' = TRUE /\ Succeeded
       \/ ~cfgOk /\ Failed("dial") /\ UNCHANGED hub
    /\ UNCHANGED <<attempt, pool, clients>>

\* ExponentialRetry sleeps (it has no ctx) and calls fn again.
Delay ==
    /\ gpc = "delay"
    /\ attempt' = attempt + 1 /\ gpc' = "attempt"
    /\ UNCHANGED <<gres, gcause, pool, clients, hub>>

\* The constructor's deadline passes; its ctx stays expired for the body.
Expire ==
    /\ cdl /\ ~expired /\ gpc # "none"
    /\ expired' = TRUE
    /\ UNCHANGED <<kind, cfgOk, cpc, cdl, stored, healthCalls, last,
                   ConnectVars, CloseVars>>

\* Deadline returns fn's error; the struct is built from pool on nil.
ConnectReturn ==
    /\ cpc = "connecting" /\ gpc = "done"
    /\ IF gres = "nil"
          THEN cpc' = "ready" /\ stored' = pool
               /\ last' = Outcome("connect", "nil", "none")
          ELSE cpc' = "failed" /\ UNCHANGED stored
               /\ last' = Outcome("connect", "generic", gcause)
    /\ UNCHANGED <<kind, cfgOk, cdl, expired, healthCalls, ConnectVars,
                   CloseVars>>

\* Deadline's select takes ctx.Done(): ErrXTimedOut, and fn goes on.
ConnectTimeout ==
    /\ cpc = "connecting" /\ cdl /\ expired
    /\ cpc' = "failed" /\ last' = Outcome("connect", "timedout", "deadline")
    /\ UNCHANGED <<kind, cfgOk, cdl, expired, stored, healthCalls,
                   ConnectVars, CloseVars>>
-----------------------------------------------------------------------------
(***************************************************************************)
(* Health: currentConns >= MinConns, a ping (and for the Logger-based     *)
(* Database a SELECT true and its scan), then ctx.Err(); any failure is    *)
(* Unhealthy (wrapped by the outer switch).  A closed pool fails the ping. *)
(* Under a deadline the select may return TimedOut instead.                *)
(***************************************************************************)
HealthResults(dl) ==
    {"unhealthy"} \cup (IF clients[stored] = "open" THEN {"nil"} ELSE {})
                  \cup (IF dl THEN {"timedout"} ELSE {})

HealthCall(dl) ==
    /\ cpc \in {"ready", "closed"} /\ healthCalls < MaxHealth
    /\ healthCalls' = healthCalls + 1
    /\ \E r \in HealthResults(dl) : last' = Outcome("health", r, "none")
    /\ UNCHANGED <<kind, cfgOk, cpc, cdl, expired, stored, ConnectVars,
                   CloseVars>>

CacheHealth(dl) == kind = "cache" /\ HealthCall(dl)

LegacyHealth(dl) == kind = "legacy_database" /\ HealthCall(dl)

DatabaseHealth(dl) == kind = "database" /\ HealthCall(dl)
-----------------------------------------------------------------------------
(***************************************************************************)
(* Close: util.Deadline around the body, except the migrator.go Close,    *)
(* which runs its body directly.                                          *)
(***************************************************************************)
StartClose(dl) ==
    /\ cpc = "ready"
    /\ cpc' = "closing"
    /\ ccdl' = (dl /\ kind # "migrator")
    /\ clpc' = IF kind = "sentry" THEN "flush" ELSE "body"
    /\ UNCHANGED <<kind, cfgOk, cdl, expired, stored, healthCalls, last,
                   ConnectVars, cexpired, cres, ccause>>

ClosePool == clients' = [clients EXCEPT ![stored] = "closed"]

\* err := self.pool.Close(): the error of closing the pool's connections.
CacheCloseBody ==
    /\ clpc = "body" /\ kind = "cache"
    /\ ClosePool /\ clpc' = "done"
    /\ \/ cres' = "nil" /\ UNCHANGED ccause
       \/ cres' = "generic" /\ ccause' = "close"
    /\ UNCHANGED <<ccdl, cexpired>>

\* self.pool.Close(): pgxpool closes once and returns nothing.
DatabaseCloseBody ==
    /\ clpc = "body" /\ kind = "database"
    /\ ClosePool /\ clpc' = "done" /\ cres' = "nil"
    /\ UNCHANGED <<ccdl, cexpired, ccause>>

\* The Logger-based Database.Close has the same body.
LegacyCloseBody ==
    /\ clpc = "body" /\ kind = "legacy_database"
    /\ ClosePool /\ clpc' = "done" /\ cres' = "nil"
    /\ UNCHANGED <<ccdl, cexpired, ccause>>

\* GracefulStop, <-self.done (closed by NewMigrator), migrator.Close(): an
\* "already closed" database error is dropped, a source error is Generic.
MigratorCloseBody ==
    /\ clpc = "body" /\ kind = "migrator"
    /\ ClosePool /\ clpc' = "done"
    /\ \/ cres' = "nil" /\ UNCHANGED ccause
       \/ cres' = "generic" /\ ccause' = "close"
    /\ UNCHANGED <<ccdl, cexpired>>

\* err := self.Flush(ctx): Flush runs its own util.Deadline on the same ctx
\* around Logger.Flush and sentry.Flush(time.Until(deadline)).  Once the
\* ctx has expired its select may return ErrObserverTimedOut; Close wraps
\* any Flush error as Generic and returns it.
ObserverFlush ==
    /\ clpc = "flush"
    /\ \/ clpc' = "logger" /\ UNCHANGED <<cres, ccause>>
       \/ clpc' = "done" /\ cres' = "generic" /\ ccause' = "flush"
       \/ ccdl /\ cexpired
          /\ clpc' = "done" /\ cres' = "generic" /\ ccause' = "deadline"
    /\ UNCHANGED <<ccdl, cexpired, clients>>

\* err = self.Logger.Close(ctx); Sentry itself has nothing to close.
ObserverLoggerClose ==
    /\ clpc = "logger"
    /\ clpc' = "done"
    /\ \/ cres' = "nil" /\ UNCHANGED ccause
       \/ cres' = "generic" /\ ccause' = "logger"
    /\ UNCHANGED <<ccdl, cexpired, clients>>

\* Close's deadline passes.
CloseExpire ==
    /\ ccdl /\ ~cexpired
    /\ cexpired' = TRUE
    /\ UNCHANGED <<kind, cfgOk, cpc, cdl, expired, stored, healthCalls, last,
                   ConnectVars, clpc, ccdl, cres, ccause>>

\* Close returns the body's error, or TimedOut when its select takes
\* ctx.Done().  ErrDeadlineExceeded().Is(...) does not match a Generic
\* that wraps a TimedOut, so that one is returned as Generic.
CloseReturn ==
    /\ cpc = "closing"
    /\ \/ clpc = "done" /\ last' = Outcome("close", cres, ccause)
       \/ ccdl /\ cexpired /\ last' = Outcome("close", "timedout", "deadline")
    /\ cpc' = "closed"
    /\ UNCHANGED <<kind, cfgOk, cdl, expired, stored, healthCalls,
                   ConnectVars, CloseVars>>
-----------------------------------------------------------------------------
ConnectStep ==
    \/ CacheNewClient \/ DatabaseConnect \/ LegacyConnect \/ Ping
    \/ MigrateNew \/ SentryInit \/ Delay

ConnectBody ==
    /\ ConnectStep
    /\ UNCHANGED <<kind, cfgOk, cpc, cdl, expired, stored, healthCalls, last,
                   CloseVars>>

CloseStep ==
    /\ \/ CacheCloseBody \/ DatabaseCloseBody \/ LegacyCloseBody
       \/ MigratorCloseBody
       \/ ObserverFlush \/ ObserverLoggerClose
    /\ UNCHANGED <<kind, cfgOk, cpc, cdl, expired, stored, healthCalls, last,
                   gpc, attempt, gres, gcause, pool, hub>>

\* The program is over: the caller is done with the client and no body
\* is still running.
Terminated ==
    /\ cpc \in {"failed", "closed"}
    /\ gpc \in {"none", "done"} /\ clpc \in {"none", "done"}
    /\ UNCHANGED vars

Next ==
    \/ ParseConfigFails
    \/ \E dl \in Deadlines :
          \/ NewCache(dl) \/ NewDatabase(dl) \/ NewLegacyDatabase(dl)
          \/ NewMigrator(dl) \/ NewObserver(dl)
    \/ ConnectBody \/ Expire \/ ConnectReturn \/ ConnectTimeout
    \/ \E dl \in Deadlines :
          CacheHealth(dl) \/ LegacyHealth(dl) \/ DatabaseHealth(dl)
    \/ \E dl \in Deadlines : StartClose(dl)
    \/ CloseStep \/ CloseExpire \/ CloseReturn
    \/ Terminated

\* Go runs every runnable goroutine, and a select with a ready case takes
\* one; the caller may stop using the client at any point.
Fairness ==
    /\ WF_vars(ConnectBody) /\ WF_vars(ConnectReturn)
    /\ WF_vars(CloseStep) /\ WF_vars(CloseReturn)

Spec == Init /\ [][Next]_vars /\ Fairness
-----------------------------------------------------------------------------
(***************************************************************************)
(* Properties.                                                             *)
(***************************************************************************)
\* Spec 3: the pool is created at Connect and destroyed at Close.  When no
\* deadline cut a call short and Close returned nil, no client any attempt
\* of the constructor created is still open.
ClientsReleasedAfterClose ==
    (cpc = "closed" /\ last.op = "close" /\ last.res = "nil" /\ ~cdl)
        => \A i \in Clients : clients[i] # "open"

\* Spec 4.1: a late result of an abandoned constructor is never promoted:
\* once NewObserver has failed, Sentry is not installed globally.
NoLatePromotion == cpc = "failed" => ~hub

\* Spec 4.2: the retry policy never starts another attempt once the
\* enclosing deadline has elapsed.
NoRetryAfterDeadline == [][attempt' > attempt => ~expired]_vars

\* Spec 7: deadline expiry always surfaces as TimedOut, never as Generic.
DeadlineSurfacesAsTimedOut == last.cause = "deadline" => last.res = "timedout"

=============================================================================
