------------------------ MODULE ErrorClassifierProofs ------------------------
(***************************************************************************)
(* _dbErrToError classifies a PgError by the code its greedy regular       *)
(* expression captures.  ClassifierAssumption checks this on messages of   *)
(* at most two tokens; the theorem below proves it for messages of every   *)
(* length over any alphabet without "(SQLSTATE ".                          *)
(***************************************************************************)
EXTENDS ErrorClassifier, SequenceTheorems, TLAPS

\* The match starts at the first "(SQLSTATE ": the one before which there
\* is none.
LEMMA OpenAt ==
    ASSUME NEW t, NEW k \in 1..Len(t), t[k] = OpenToken,
           \A i \in 1..Len(t) : i < k => t[i] # OpenToken
    PROVE  SQLStateOpen(t) = k
<1> DEFINE I == {i \in 1..Len(t) : t[i] = OpenToken}
<1>1. k \in I /\ \A y \in I : k =< y
  BY DEF I
<1>2. \A m \in I : (\A y \in I : m =< y) => m = k
  BY <1>1 DEF I
<1>3. Min(I) = k
  BY <1>1, <1>2 DEF Min
<1> QED
  BY <1>1, <1>3 DEF SQLStateOpen, SelectInSeq, I, OpenToken

\* The greedy group ends at the last ")": the one after which there is none.
LEMMA CloseAt ==
    ASSUME NEW t, NEW k \in 1..Len(t), t[k] = ")",
           \A i \in (k + 1)..Len(t) : t[i] # ")"
    PROVE  SQLStateClose(t) = k
<1> DEFINE I == {i \in 1..Len(t) : t[i] = ")"}
<1>1. k \in I /\ \A y \in I : k >= y
  BY DEF I
<1>2. \A m \in I : (\A y \in I : m >= y) => m = k
  BY <1>1 DEF I
<1>3. Max(I) = k
  BY <1>1, <1>2 DEF Max
<1> QED
  BY <1>1, <1>3 DEF SQLStateClose, SelectLastInSeq, I

\* A text without "(SQLSTATE " has no match and captures nothing.
LEMMA NoCapture ==
    ASSUME NEW t, \A i \in 1..Len(t) : t[i] # OpenToken
    PROVE  SQLStateCapture(t) = <<>>
<1>1. SQLStateOpen(t) = 0
  BY DEF SQLStateOpen, SelectInSeq, OpenToken
<1> QED
  BY <1>1 DEF SQLStateCapture

\* The text of a PgError, wrapped or not, captures exactly its code: the
\* leftmost "(SQLSTATE " is the one pgconn appends, since the message has
\* none, and the last ")" closes it, whatever ")" the message holds.
LEMMA PgCapture ==
    ASSUME NEW Tok, OpenToken \notin Tok, NEW msg \in Seq(Tok),
           NEW code \in Class23 \cup OtherCodes,
           NEW pre \in {<<"w:">>, <<>>}
    PROVE  SQLStateCapture(pre \o PgErrorText(msg, code)) = <<code>>
<1> DEFINE P == pre \o <<"ERROR:">> \o msg
           t == pre \o PgErrorText(msg, code)
           n == Len(P)
           S == Tok \cup {"w:", "ERROR:", OpenToken, ")"} \cup Class23
                \cup OtherCodes
<1>1. P \in Seq(S) /\ \A i \in 1..n : P[i] # OpenToken
  <2>1. CASE pre = <<"w:">>
    BY <2>1 DEF P, n, S, OpenToken
  <2>2. CASE pre = <<>>
    BY <2>2 DEF P, n, S, OpenToken
  <2> QED
    BY <2>1, <2>2
<1>2. t = P \o <<OpenToken, code, ")">>
  BY DEF PgErrorText, t, P
<1>3. /\ t \in Seq(S) /\ Len(t) = n + 3
      /\ t[n + 1] = OpenToken /\ t[n + 2] = code /\ t[n + 3] = ")"
      /\ \A i \in 1..n : t[i] # OpenToken
  BY <1>1, <1>2 DEF n, S
<1>4. SQLStateOpen(t) = n + 1
  <2>1. /\ n + 1 \in 1..Len(t) /\ t[n + 1] = OpenToken
        /\ \A i \in 1..Len(t) : i < n + 1 => t[i] # OpenToken
    BY <1>3 DEF n
  <2> QED
    BY <2>1, OpenAt
<1>5. SQLStateClose(t) = n + 3
  <2>1. n + 3 \in 1..Len(t) /\ \A i \in (n + 3 + 1)..Len(t) : t[i] # ")"
    BY <1>3 DEF n
  <2> QED
    BY <1>3, <2>1, CloseAt
<1>6. SubSeq(t, n + 2, n + 2) = <<code>>
  <2>1. n \in Nat /\ t[n + 2] = code /\ n + 2 \in 1..Len(t)
    BY <1>3 DEF n
  <2>2. /\ SubSeq(t, n + 2, n + 2) \in Seq(S)
        /\ Len(SubSeq(t, n + 2, n + 2)) = 1
        /\ SubSeq(t, n + 2, n + 2)[1] = t[n + 2]
    <3>1. \A i \in (n + 2)..(n + 2) : t[i] \in S
      BY <1>3, <2>1
    <3> QED
      BY <2>1, <3>1, SubSeqProperties
  <2>3. <<code>> \in Seq(S) /\ Len(<<code>>) = 1 /\ <<code>>[1] = code
    BY DEF S
  <2>4. /\ Len(SubSeq(t, n + 2, n + 2)) = Len(<<code>>)
        /\ \A i \in 1..Len(SubSeq(t, n + 2, n + 2)) :
              SubSeq(t, n + 2, n + 2)[i] = <<code>>[i]
    BY <2>1, <2>2, <2>3
  <2> QED
    BY <2>2, <2>3, <2>4, SeqEqual, Zenon
<1> QED
  BY <1>4, <1>5, <1>6 DEF SQLStateCapture, t, n


\* The errors pgx may return, with messages of any length over an alphabet
\* Tok: a message contains no "(SQLSTATE " (see the hazard at line 1497),
\* and an error of another kind does not print as ErrNoRows.
Errors(Tok) ==
    [kind : {"pg"}, msg : Seq(Tok), code : Class23 \cup OtherCodes,
     wrapped : BOOLEAN]
    \cup [kind : {"norows"}]
    \cup [kind : {"other"}, msg : Seq(Tok) \ {<<NoRowsText>>}]
    \cup [kind : {"nil"}]

\* A PgError is an integrity violation exactly when its code is of class 23.
LEMMA PgClassified ==
    ASSUME NEW Tok, OpenToken \notin Tok,
           NEW e \in [kind : {"pg"}, msg : Seq(Tok),
                      code : Class23 \cup OtherCodes, wrapped : BOOLEAN]
    PROVE  DbErrToError(GoError(e)) = SpecClass(e)
<1> DEFINE pre == IF e.wrapped THEN <<"w:">> ELSE <<>>
           text == pre \o PgErrorText(e.msg, e.code)
<1>1. GoError(e) = [isNil |-> FALSE, text |-> text]
  BY DEF GoError, text, pre
<1>2. SQLStateCapture(text) = <<e.code>>
  <2>1. pre \in {<<"w:">>, <<>>}
    BY DEF pre
  <2> QED
    BY <2>1, PgCapture DEF text
<1>3. text # <<NoRowsText>>
  BY DEF text, PgErrorText, pre
<1>4. CASE e.code \in Class23
  <2>1. SQLStateCapture(text) \in {<<c>> : c \in IntegrityCodes}
    BY <1>2, <1>4 DEF IntegrityCodes, Class23
  <2> QED
    BY <1>1, <2>1, <1>4 DEF DbErrToError, SpecClass
<1>5. CASE e.code \notin Class23
  <2>1. SQLStateCapture(text) \notin {<<c>> : c \in IntegrityCodes}
    BY <1>2, <1>5 DEF IntegrityCodes, Class23
  <2> QED
    BY <1>1, <1>3, <2>1, <1>5 DEF DbErrToError, SpecClass
<1> QED
  BY <1>4, <1>5

\* ErrNoRows is NotFound; any other error without a code is Generic.
LEMMA PlainClassified ==
    ASSUME NEW Tok, OpenToken \notin Tok,
           NEW e \in [kind : {"norows"}]
                     \cup [kind : {"other"}, msg : Seq(Tok) \ {<<NoRowsText>>}]
    PROVE  DbErrToError(GoError(e)) = SpecClass(e)
<1>1. CASE e \in [kind : {"norows"}]
  <2>1. GoError(e) = [isNil |-> FALSE, text |-> <<NoRowsText>>]
    BY <1>1 DEF GoError
  <2>2. SQLStateCapture(<<NoRowsText>>) = <<>>
    <3>1. \A i \in 1..Len(<<NoRowsText>>) : <<NoRowsText>>[i] # OpenToken
      BY DEF NoRowsText, OpenToken
    <3> QED
      BY <3>1, NoCapture
  <2> QED
    BY <1>1, <2>1, <2>2 DEF DbErrToError, SpecClass
<1>2. CASE e \in [kind : {"other"}, msg : Seq(Tok) \ {<<NoRowsText>>}]
  <2>1. GoError(e) = [isNil |-> FALSE, text |-> e.msg]
    BY <1>2 DEF GoError
  <2>2. SQLStateCapture(e.msg) = <<>>
    <3>1. \A i \in 1..Len(e.msg) : e.msg[i] # OpenToken
      BY <1>2
    <3> QED
      BY <3>1, NoCapture
  <2>3. e.kind = "other" /\ e.msg # <<NoRowsText>>
    BY <1>2
  <2>4. <<>> \notin {<<c>> : c \in IntegrityCodes}
    OBVIOUS
  <2>5. SpecClass(e) = "Generic"
    BY <2>3 DEF SpecClass
  <2>6. GoError(e).isNil = FALSE /\ GoError(e).text = e.msg
    BY <2>1
  <2>7. DbErrToError(GoError(e)) = "Generic"
    BY <2>2, <2>3, <2>4, <2>6 DEF DbErrToError
  <2> QED
    BY <2>5, <2>7
<1> QED
  BY <1>1, <1>2

(***************************************************************************)
(* Spec 4.4, for messages of every length: _dbErrToError returns           *)
(* IntegrityViolation for a PgError of class 23, wrapped or not and        *)
(* whatever ")" its message holds, NotFound for ErrNoRows, Generic for     *)
(* every other error and nil for nil.                                      *)
(***************************************************************************)
THEOREM ClassifierCorrect ==
    ASSUME NEW Tok, OpenToken \notin Tok
    PROVE  \A e \in Errors(Tok) : DbErrToError(GoError(e)) = SpecClass(e)
<1> SUFFICES ASSUME NEW e \in Errors(Tok)
             PROVE  DbErrToError(GoError(e)) = SpecClass(e)
  OBVIOUS
<1>1. CASE e \in [kind : {"pg"}, msg : Seq(Tok),
                  code : Class23 \cup OtherCodes, wrapped : BOOLEAN]
  BY <1>1, PgClassified, Zenon
<1>2. CASE e \in [kind : {"norows"}]
             \cup [kind : {"other"}, msg : Seq(Tok) \ {<<NoRowsText>>}]
  BY <1>2, PlainClassified
<1>3. CASE e \in [kind : {"nil"}]
  BY <1>3 DEF GoError, DbErrToError, SpecClass
<1> QED
  BY <1>1, <1>2, <1>3 DEF Errors


\* The messages TLC enumerates are messages of the theorem over the
\* alphabet {"w", ")"}.
LEMMA MessagesCovered ==
    Messages \subseteq Seq({"w", ")"}) \ {<<NoRowsText>>}
<1> SUFFICES ASSUME NEW m \in 0..2, NEW s \in [1..m -> {"w", ")"}]
             PROVE  s \in Seq({"w", ")"}) /\ s # <<NoRowsText>>
  BY DEF Messages, SeqOf
<1>1. s \in Seq({"w", ")"})
  OBVIOUS
<1>2. s # <<NoRowsText>>
  BY DEF NoRowsText
<1> QED
  BY <1>1, <1>2

\* ClassifierAssumption, which TLC evaluates on every tx_outcomes run,
\* follows from ClassifierCorrect.
THEOREM ClassifierBounded == ClassifierMatchesSpec
<1>1. OpenToken \notin {"w", ")"}
  BY DEF OpenToken
<1>2. RawErrors \subseteq Errors({"w", ")"})
  BY MessagesCovered DEF RawErrors, Errors
<1> QED
  BY <1>1, <1>2, ClassifierCorrect DEF ClassifierMatchesSpec

=============================================================================
