------------------------ MODULE ResourceClientProofs ------------------------
(***************************************************************************)
(* Proofs about ResourceClient for every set of constructors, every number *)
(* of retry attempts, every choice of deadlines and every Health bound.   *)
(***************************************************************************)
EXTENDS ResourceClient, TLAPS

USE ResourceAssumption DEF ConnectVars, CloseVars, Outcome, Clients, Results, Causes,
                            CPhases, GPhases, ClPhases

\* TypeOK in three parts, small enough for the provers: the caller, the
\* constructor's body, and the Close body with the caller's record.
TypeCaller ==
    /\ kind \in Kinds /\ cfgOk \in BOOLEAN
    /\ cpc \in CPhases /\ cdl \in BOOLEAN /\ expired \in BOOLEAN
    /\ stored \in 0..Attempts /\ healthCalls \in 0..MaxHealth
TypeConnect ==
    /\ gpc \in GPhases /\ attempt \in 0..Attempts
    /\ gres \in Results /\ gcause \in Causes
    /\ pool \in 0..Attempts /\ hub \in BOOLEAN
    /\ clients \in [Clients -> {"none", "open", "closed"}]
TypeClose ==
    /\ clpc \in ClPhases /\ ccdl \in BOOLEAN /\ cexpired \in BOOLEAN
    /\ cres \in Results /\ ccause \in Causes
    /\ last \in [op : {"none", "connect", "health", "close"}, res : Results,
                 cause : Causes]

LEMMA TypeSplit == TypeOK <=> TypeCaller /\ TypeConnect /\ TypeClose
  BY Zenon DEF TypeOK, TypeCaller, TypeConnect, TypeClose

\* The retry loop sleeps only after a failure below the Attempts-th, so the
\* attempt counter that Delay advances stays within 0..Attempts.
RetryBound == gpc = "delay" => attempt < Attempts

\* The inductive invariant: the types and the bound on the retry counter.
IInv == TypeCaller /\ TypeConnect /\ TypeClose /\ RetryBound

\* Marking one client, named by any number, keeps clients a function of
\* Clients (an index outside Clients leaves it as it was).
LEMMA MarkClient ==
    ASSUME NEW f \in [Clients -> {"none", "open", "closed"}], NEW x,
           NEW v \in {"none", "open", "closed"}
    PROVE  [f EXCEPT ![x] = v] \in [Clients -> {"none", "open", "closed"}]
  OBVIOUS

LEMMA InitIInv == Init => IInv
<1> SUFFICES ASSUME Init PROVE IInv
  OBVIOUS
<1>1. TypeCaller
  <2>1. kind \in Kinds /\ cfgOk \in BOOLEAN /\ cpc \in CPhases
    BY DEF Init
  <2>2. cdl \in BOOLEAN /\ expired \in BOOLEAN
    BY DEF Init
  <2>3. stored \in 0..Attempts /\ healthCalls \in 0..MaxHealth
    BY DEF Init
  <2> QED
    BY <2>1, <2>2, <2>3 DEF TypeCaller
<1>2. TypeConnect
  <2>1. gpc \in GPhases /\ attempt \in 0..Attempts /\ pool \in 0..Attempts
    BY DEF Init
  <2>2. gres \in Results /\ gcause \in Causes /\ hub \in BOOLEAN
    BY DEF Init
  <2>3. clients \in [Clients -> {"none", "open", "closed"}]
    BY DEF Init
  <2> QED
    BY <2>1, <2>2, <2>3 DEF TypeConnect
<1>3. TypeClose
  <2>1. clpc \in ClPhases /\ ccdl \in BOOLEAN /\ cexpired \in BOOLEAN
    BY DEF Init
  <2>2. cres \in Results /\ ccause \in Causes
    BY DEF Init
  <2>3. last \in [op : {"none", "connect", "health", "close"}, res : Results,
                  cause : Causes]
    BY DEF Init
  <2> QED
    BY <2>1, <2>2, <2>3 DEF TypeClose
<1>4. RetryBound
  BY DEF Init, RetryBound
<1> QED
  BY <1>1, <1>2, <1>3, <1>4 DEF IInv

\* The steps of the constructor's Deadline body.
LEMMA ConnectBodyIInv == IInv /\ ConnectBody => IInv'
<1> SUFFICES ASSUME IInv, ConnectBody PROVE IInv'
  OBVIOUS
<1> USE DEF IInv, TypeCaller, TypeConnect, TypeClose, RetryBound, ConnectBody
<1>1. CASE CacheNewClient
  BY <1>1, MarkClient DEF CacheNewClient
<1>2. CASE DatabaseConnect
  BY <1>2 DEF DatabaseConnect, CtxCallFails, Failed
<1>3. CASE LegacyConnect
  BY <1>3 DEF LegacyConnect, CtxCallFails, Failed, Succeeded
<1>4. CASE Ping
  BY <1>4 DEF Ping, CtxCallFails, Failed, Succeeded
<1>5. CASE MigrateNew
  BY <1>5 DEF MigrateNew, Failed, Succeeded
<1>6. CASE SentryInit
  <2>1. CASE cfgOk /\ hub' = TRUE /\ Succeeded
    BY <1>6, <2>1 DEF SentryInit, Succeeded
  <2>2. CASE ~cfgOk /\ Failed("dial") /\ UNCHANGED hub
    BY <1>6, <2>2 DEF SentryInit, Failed
  <2> QED
    BY <1>6, <2>1, <2>2 DEF SentryInit
<1>7. CASE Delay
  <2>1. attempt' \in 1..Attempts
    BY <1>7 DEF Delay
  <2> QED
    BY <1>7, <2>1 DEF Delay
<1> QED
  BY <1>1, <1>2, <1>3, <1>4, <1>5, <1>6, <1>7 DEF ConnectStep

\* The steps of a Close body leave the connect state alone.
LEMMA CloseStepIInv == IInv /\ CloseStep => IInv'
<1> SUFFICES ASSUME IInv, CloseStep PROVE IInv'
  OBVIOUS
<1> USE MarkClient DEF IInv, TypeCaller, TypeConnect, TypeClose, RetryBound,
                      CloseStep, ClosePool
<1>1. CASE CacheCloseBody
  BY <1>1 DEF CacheCloseBody
<1>2. CASE DatabaseCloseBody
  BY <1>2 DEF DatabaseCloseBody
<1>3. CASE LegacyCloseBody
  BY <1>3 DEF LegacyCloseBody
<1>4. CASE MigratorCloseBody
  BY <1>4 DEF MigratorCloseBody
<1>5. CASE ObserverFlush
  BY <1>5 DEF ObserverFlush
<1>6. CASE ObserverLoggerClose
  BY <1>6 DEF ObserverLoggerClose
<1> QED
  BY <1>1, <1>2, <1>3, <1>4, <1>5, <1>6

LEMMA StepIInv == IInv /\ [Next]_vars => IInv'
<1> SUFFICES ASSUME IInv, [Next]_vars PROVE IInv'
  OBVIOUS
<1> USE DEF IInv, TypeCaller, TypeConnect, TypeClose, RetryBound
<1>1. CASE ParseConfigFails
  BY <1>1 DEF ParseConfigFails, Causes, Results
<1>2. ASSUME NEW dl \in Deadlines, Connect(dl) PROVE IInv'
  BY <1>2 DEF Connect, GPhases
<1>3. CASE ConnectBody
  BY <1>3, ConnectBodyIInv
<1>4. CASE Expire
  BY <1>4 DEF Expire
<1>5. CASE ConnectReturn
  BY <1>5 DEF ConnectReturn, Results
<1>6. CASE ConnectTimeout
  BY <1>6 DEF ConnectTimeout, Results, Causes
<1>7. ASSUME NEW dl \in Deadlines, HealthCall(dl) PROVE IInv'
  <2>1. PICK r \in HealthResults(dl) : last' = Outcome("health", r, "none")
    BY <1>7 DEF HealthCall
  <2>2. r \in Results
    BY DEF HealthResults, Results
  <2> QED
    BY <1>7, <2>1, <2>2 DEF HealthCall, Causes
<1>8. ASSUME NEW dl \in Deadlines, StartClose(dl) PROVE IInv'
  BY <1>8 DEF StartClose, ClPhases
<1>9. CASE CloseStep
  BY <1>9, CloseStepIInv
<1>10. CASE CloseExpire
  BY <1>10 DEF CloseExpire
<1>11. CASE CloseReturn
  BY <1>11 DEF CloseReturn, Results, Causes
<1>12. CASE Terminated \/ UNCHANGED vars
  BY <1>12 DEF Terminated, vars
<1> QED
  BY <1>1, <1>2, <1>3, <1>4, <1>5, <1>6, <1>7, <1>8, <1>9, <1>10, <1>11,
     <1>12
  DEF Next, NewCache, NewDatabase, NewLegacyDatabase, NewMigrator,
      NewObserver, CacheHealth, LegacyHealth, DatabaseHealth

\* Every state the client reaches has the types of TypeOK.
THEOREM TypeCorrect == Spec => []TypeOK
<1>1. Spec => []IInv
  BY InitIInv, StepIInv, PTL DEF Spec
<1> QED
  BY <1>1, TypeSplit, PTL DEF IInv

=============================================================================
