------------------------- MODULE TransactionAbstract -------------------------
(***************************************************************************)
(* What Database.Transaction promises its caller and the server, with the  *)
(* phases, the nesting, the statements and the pool hidden.  Each chain    *)
(* makes one call at a time; the call may open one transaction, commit it  *)
(* only while the call runs and its context is live, and returns once.     *)
(*   nil    only for a committed transaction and a live context;           *)
(*   panic  only after the transaction is closed;                          *)
(*   error  in any state, rolling back or not (a transaction left open is  *)
(*          leaked; one committed may still be reported failed).           *)
(* A committed or rolled back transaction never changes until the chain    *)
(* calls again.                                                            *)
(***************************************************************************)
CONSTANTS Chains

VARIABLES
    call,   \* "idle" or "running": a Transaction call is in progress
    tx,     \* "none", "open", "committed" or "rolledback"
    res,    \* what the last call returned
    live    \* the call's context is not done

avars == <<call, tx, res, live>>

\* pgx Tx.Rollback on the abstract state: only an open transaction moves.
Closed(s) == IF s = "open" THEN "rolledback" ELSE s

Init ==
    /\ call = [c \in Chains |-> "idle"]
    /\ tx = [c \in Chains |-> "none"]
    /\ res = [c \in Chains |-> "none"]
    /\ live = [c \in Chains |-> TRUE]

Start(c) ==
    /\ call[c] = "idle"
    /\ call' = [call EXCEPT ![c] = "running"]
    /\ tx' = [tx EXCEPT ![c] = "none"]
    /\ res' = [res EXCEPT ![c] = "none"]
    /\ live' = [live EXCEPT ![c] = TRUE]

Begin(c) ==
    /\ call[c] = "running" /\ tx[c] = "none"
    /\ tx' = [tx EXCEPT ![c] = "open"]
    /\ UNCHANGED <<call, res, live>>

Cancel(c) ==
    /\ call[c] = "running" /\ live[c]
    /\ live' = [live EXCEPT ![c] = FALSE]
    /\ UNCHANGED <<call, tx, res>>

Commit(c) ==
    /\ call[c] = "running" /\ tx[c] = "open" /\ live[c]
    /\ tx' = [tx EXCEPT ![c] = "committed"]
    /\ UNCHANGED <<call, res, live>>

Return(c, r) ==
    /\ call[c] = "running"
    /\ call' = [call EXCEPT ![c] = "idle"]
    /\ res' = [res EXCEPT ![c] = r]
    /\ \/ r = "nil" /\ tx[c] = "committed" /\ live[c] /\ UNCHANGED tx
       \/ r = "panic" /\ tx' = [tx EXCEPT ![c] = Closed(@)]
       \/ r = "error" /\ tx' \in {tx, [tx EXCEPT ![c] = Closed(@)]}
    /\ UNCHANGED live

Next ==
    \E c \in Chains :
        \/ Start(c) \/ Begin(c) \/ Cancel(c) \/ Commit(c)
        \/ \E r \in {"nil", "panic", "error"} : Return(c, r)

Spec == Init /\ [][Next]_avars
=============================================================================
