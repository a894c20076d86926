------------------------- MODULE JSLintErrorsProofs -------------------------
(* Lemmas about warn, stop and crash, for every maxerr and every message:   *)
(* what one step of JSLint does to JSLINT.errors.                           *)
EXTENDS JSLintErrors, SequenceTheorems, TLAPS

\* Of the messages of a step those are raised that maxerr leaves room for.
LEMMA RaisedSome ==
  ASSUME NEW Keys, ReportTypeOK(Keys), NEW ms \in Seq(Keys)
  PROVE  /\ Raised(ms) \in Seq(Keys) /\ Raised(ms) \in Seq(Keys \cup Thrown)
         /\ Len(Raised(ms)) = IF warnings + Len(ms) > maxerr THEN maxerr - warnings ELSE Len(ms)
<1>1. /\ Raised(ms) \in Seq(Keys)
      /\ Len(Raised(ms)) = IF warnings + Len(ms) > maxerr THEN maxerr - warnings ELSE Len(ms)
  BY MaxErrAssumption DEF ReportTypeOK, Raised
<1>2. Raised(ms) \in Seq(Keys \cup Thrown)
  BY <1>1, SeqMonotonic
<1> QED BY <1>1, <1>2

\* What a throw appends, and nothing, are messages.
LEMMA QuitType ==
  ASSUME NEW Keys
  PROVE  /\ Quit \in Seq(Keys \cup Thrown) /\ Len(Quit) = 2
         /\ <<"TypeError", "null">> \in Seq(Keys \cup Thrown) /\ Len(<<"TypeError", "null">>) = 2
  BY DEF Quit, Thrown

\* What a step that warns appends to JSLINT.errors.
LEMMA WarnAppends ==
  ASSUME NEW Keys, ReportTypeOK(Keys), NEW ms \in Seq(Keys), NEW then, warn(ms, then)
  PROVE  /\ errors' \in Seq(Keys \cup Thrown)
         /\ Len(errors') = Len(errors) + Len(Raised(ms)) + (IF Throws(ms) THEN 2 ELSE 0)
<1>1. Raised(ms) \in Seq(Keys \cup Thrown) /\ errors \in Seq(Keys \cup Thrown)
  BY RaisedSome DEF ReportTypeOK
<1>2. Quit \in Seq(Keys \cup Thrown) /\ Len(Quit) = 2
  BY QuitType
<1>3. errors \o Raised(ms) \in Seq(Keys \cup Thrown) /\ Len(errors \o Raised(ms)) = Len(errors) + Len(Raised(ms))
  BY <1>1, ConcatProperties
<1>4. CASE Throws(ms)
  <2>1. errors' = (errors \o Raised(ms)) \o Quit
    BY <1>4 DEF warn
  <2>2. errors' \in Seq(Keys \cup Thrown) /\ Len(errors') = Len(errors \o Raised(ms)) + Len(Quit)
    BY <1>2, <1>3, <2>1, ConcatProperties
  <2> QED BY <1>2, <1>3, <1>4, <2>2
<1>5. CASE ~Throws(ms)
  <2>1. errors' = (errors \o Raised(ms)) \o <<>>
    BY <1>5 DEF warn
  <2>2. errors' = errors \o Raised(ms)
    BY <1>3, <2>1
  <2>3. Len(errors) \in Nat /\ Len(Raised(ms)) \in Nat
    BY <1>1, LenProperties
  <2> QED BY <1>3, <1>5, <2>2, <2>3
<1> QED BY <1>4, <1>5

\* A step that warns keeps the types.
LEMMA WarnTypes ==
  ASSUME NEW Keys, ReportTypeOK(Keys), NEW ms \in Seq(Keys), NEW then \in {"running", "ended"}, warn(ms, then)
  PROVE  ReportTypeOK(Keys)'
<1>1. Len(Raised(ms)) = IF warnings + Len(ms) > maxerr THEN maxerr - warnings ELSE Len(ms)
  BY RaisedSome
<1>2. errors' \in Seq(Keys \cup Thrown)
  BY WarnAppends
<1>3. warnings' \in 0 .. maxerr /\ maxerr' = maxerr
  BY <1>1, MaxErrAssumption DEF warn, ReportTypeOK
<1> QED BY <1>2, <1>3 DEF warn, ReportTypeOK

\* What a step that stops, by a message or by a TypeError, appends.
LEMMA StopAppends ==
  ASSUME NEW Keys, ReportTypeOK(Keys), NEW ms \in Seq(Keys), stop(ms) \/ crash
  PROVE  errors' \in Seq(Keys \cup Thrown) /\ Len(errors') >= 2
<1>1. /\ Raised(ms) \in Seq(Keys \cup Thrown) /\ errors \in Seq(Keys \cup Thrown)
      /\ Len(errors) \in Nat /\ Len(Raised(ms)) \in Nat
  BY RaisedSome, LenProperties DEF ReportTypeOK
<1>2. /\ Quit \in Seq(Keys \cup Thrown) /\ Len(Quit) = 2
      /\ <<"TypeError", "null">> \in Seq(Keys \cup Thrown) /\ Len(<<"TypeError", "null">>) = 2
  BY QuitType
<1>3. CASE stop(ms)
  <2>1. errors \o Raised(ms) \in Seq(Keys \cup Thrown) /\ Len(errors \o Raised(ms)) = Len(errors) + Len(Raised(ms))
    BY <1>1, ConcatProperties
  <2>2. errors' = (errors \o Raised(ms)) \o Quit
    BY <1>3 DEF stop
  <2>3. errors' \in Seq(Keys \cup Thrown) /\ Len(errors') = Len(errors \o Raised(ms)) + Len(Quit)
    BY <1>2, <2>1, <2>2, ConcatProperties
  <2> QED BY <1>1, <1>2, <2>1, <2>3
<1>4. CASE crash
  <2>1. errors' = errors \o <<"TypeError", "null">>
    BY <1>4 DEF crash
  <2>2. errors' \in Seq(Keys \cup Thrown) /\ Len(errors') = Len(errors) + Len(<<"TypeError", "null">>)
    BY <1>1, <1>2, <2>1, ConcatProperties
  <2> QED BY <1>1, <1>2, <2>2
<1> QED BY <1>3, <1>4

\* Such a step keeps the types too.
LEMMA StopTypes ==
  ASSUME NEW Keys, ReportTypeOK(Keys), NEW ms \in Seq(Keys), stop(ms) \/ crash
  PROVE  ReportTypeOK(Keys)'
<1>1. Len(Raised(ms)) = IF warnings + Len(ms) > maxerr THEN maxerr - warnings ELSE Len(ms)
  BY RaisedSome
<1>2. errors' \in Seq(Keys \cup Thrown)
  BY StopAppends
<1>3. warnings' \in 0 .. maxerr /\ maxerr' = maxerr
  BY <1>1, MaxErrAssumption DEF stop, crash, ReportTypeOK
<1> QED BY <1>2, <1>3 DEF stop, crash, ReportTypeOK

\* A step after which there are no errors has raised nothing.
LEMMA WarnSilent ==
  ASSUME NEW Keys, ReportTypeOK(Keys), NEW ms \in Seq(Keys), NEW then, warn(ms, then), errors' = <<>>
  PROVE  ms = <<>> /\ errors = <<>>
<1>1. /\ Raised(ms) \in Seq(Keys) /\ Len(Raised(ms)) \in Nat
      /\ Len(Raised(ms)) = IF warnings + Len(ms) > maxerr THEN maxerr - warnings ELSE Len(ms)
  BY RaisedSome, LenProperties
<1>2. errors \in Seq(Keys \cup Thrown) /\ Len(errors) \in Nat
  BY LenProperties DEF ReportTypeOK
<1>3. Len(errors') = 0
  OBVIOUS
<1>4. Len(errors) = 0 /\ Len(Raised(ms)) = 0 /\ ~Throws(ms)
  BY <1>1, <1>2, <1>3, WarnAppends
<1>5. Len(ms) = 0
  BY <1>1, <1>4, MaxErrAssumption DEF Throws, ReportTypeOK
<1> QED BY <1>2, <1>4, <1>5

\* A step that stops leaves an error.
LEMMA StopLoud ==
  ASSUME NEW Keys, ReportTypeOK(Keys), NEW ms \in Seq(Keys), stop(ms) \/ crash
  PROVE  errors' # <<>>
<1>1. Len(errors') >= 2
  BY StopAppends
<1> QED BY <1>1
=============================================================================
