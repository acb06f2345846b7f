--------------------------- MODULE ErrorClassifier ---------------------------
(***************************************************************************)
(* _dbErrToError and _chErrToError (src/cache.go), the functions Query,    *)
(* Exec and the Cache operations pass every driver error through.          *)
(*                                                                         *)
(* The database classifier reads err.Error(): an error text is a sequence  *)
(* of tokens, where "(SQLSTATE " and ")" are tokens of their own, a        *)
(* SQLSTATE code is one token and "w" stands for any run of text without   *)
(* parentheses.  The regular expression _DATABASE_ERR_PGCODE (line 1308)  *)
(* is modelled by what Go's regexp does with it: the leftmost "(SQLSTATE " *)
(* that has a ")" after it starts the match, and the greedy group runs to  *)
(* the last ")" of the text.                                               *)
(***************************************************************************)
EXTENDS Naturals, Sequences, SequencesExt

\* The pgerrcode constants of the IntegrityViolation case: class 23.
IntegrityCodes ==
    {"23000", "23001", "23502", "23503", "23505", "23514", "23P01"}

\* Two codes of other classes: undefined_table, serialization_failure.
OtherCodes == {"42P01", "40001"}

\* pgx.ErrNoRows.Error(), "no rows in result set", as one token.
NoRowsText == "no_rows_in_result_set"

\* The text "(SQLSTATE " the regular expression starts with, as one token.
OpenToken == "(SQLSTATE"

\* Where the match starts: the leftmost "(SQLSTATE ", 0 when there is none.
SQLStateOpen(t) == SelectInSeq(t, LAMBDA x : x = OpenToken)

\* Where the greedy group ends: the last ")", 0 when there is none.
SQLStateClose(t) == SelectLastInSeq(t, LAMBDA x : x = ")")

\* _DATABASE_ERR_PGCODE.FindStringSubmatch(text): the captured group, or
\* the empty sequence when there is no match.
SQLStateCapture(t) ==
    IF SQLStateOpen(t) > 0 /\ SQLStateClose(t) > SQLStateOpen(t)
    THEN SubSeq(t, SQLStateOpen(t) + 1, SQLStateClose(t) - 1)
    ELSE <<>>

\* _dbErrToError: the kind of the *Error it returns ("nil" for nil), its
\* early returns in their order.  An error is a record: whether it is nil,
\* and the text Error() returns.  The group is compared as a string with
\* the codes: only a capture of exactly one code token equals one.
DbErrToError(err) ==
    IF err.isNil THEN "nil"
    ELSE IF SQLStateCapture(err.text) \in {<<c>> : c \in IntegrityCodes}
         THEN "IntegrityViolation"
    ELSE IF err.text = <<NoRowsText>> THEN "NotFound"
    ELSE "Generic"

\* _chErrToError: the cache.ErrCacheMiss sentinel is compared by identity.
ChErrToError(err) ==
    CASE err = "nil" -> "nil"
      [] err = "ErrCacheMiss" -> "NotFound"
      [] OTHER -> "Generic"
-----------------------------------------------------------------------------
(***************************************************************************)
(* The errors pgx hands to Query and Exec, as spec 4.4 classifies them.   *)
(* A *pgconn.PgError prints as "SEVERITY: Message (SQLSTATE Code)"; pgx   *)
(* may return it wrapped with a prefix ("w:").  A message may contain ")" *)
(* but is taken not to contain "(SQLSTATE ": see the hazard at line 1497. *)
(***************************************************************************)
\* PostgreSQL's class 23, integrity constraint violation, as its errcodes
\* table lists it: the reference the switch of line 1500 is checked against.
Class23 == {"23000", "23001", "23502", "23503", "23505", "23514", "23P01"}

Messages == SeqOf({"w", ")"}, 2)

PgErrorText(msg, code) == <<"ERROR:">> \o msg \o <<OpenToken, code, ")">>

RawErrors ==
    [kind : {"pg"}, msg : Messages, code : Class23 \cup OtherCodes,
     wrapped : BOOLEAN]
    \cup [kind : {"norows"}] \cup [kind : {"other"}, msg : Messages]
    \cup [kind : {"nil"}]

\* The Go error value of a raw error: nil, or a non-nil error and its text.
GoError(e) ==
    [isNil |-> e.kind = "nil",
     text |-> CASE e.kind = "pg" ->
                     (IF e.wrapped THEN <<"w:">> ELSE <<>>)
                        \o PgErrorText(e.msg, e.code)
               [] e.kind = "norows" -> <<NoRowsText>>
               [] e.kind = "other" -> e.msg
               [] e.kind = "nil" -> <<>>]

\* Spec 4.4's taxonomy of a raw error.
SpecClass(e) ==
    CASE e.kind = "pg" /\ e.code \in Class23 -> "IntegrityViolation"
      [] e.kind = "pg" /\ e.code \notin Class23 -> "Generic"
      [] e.kind = "norows" -> "NotFound"
      [] e.kind = "other" -> "Generic"
      [] e.kind = "nil" -> "nil"

\* Spec 4.4: _dbErrToError classifies every error pgx returns as the spec's
\* taxonomy does: a constraint violation of class 23 is IntegrityViolation
\* whatever its message and wrapping, ErrNoRows is NotFound, the rest is
\* Generic.  The greedy capture must still isolate the code when the
\* message contains parentheses.
ClassifierMatchesSpec ==
    \A e \in RawErrors : DbErrToError(GoError(e)) = SpecClass(e)

\* TLC evaluates this on every run of a module that extends this one
\* (MCDatabaseTransaction): a classifier that disagrees stops the run.
ASSUME ClassifierAssumption == ClassifierMatchesSpec
=============================================================================
