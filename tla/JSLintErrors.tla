---------------------------- MODULE JSLintErrors ----------------------------
(* How JSLint reports: every part of it raises its complaints with warn and *)
(* stop, which put them into JSLINT.errors; the complaint that reaches       *)
(* maxerr, and every stop, throws, and the function JSLint catches what is   *)
(* thrown and closes the list with what was thrown and a null.               *)
EXTENDS Integers, Sequences
CONSTANT MaxErrs                \* bound: the values of option.maxerr, which is 50 in Bullring
ASSUME MaxErrAssumption == MaxErrs \subseteq Nat \ {0}

VARIABLES errors,               \* JSLINT.errors: the keys of the messages
          warnings,             \* how many of them warn counted
          status,               \* "running", "ended", or "stopped" by a throw
          maxerr                \* option.maxerr of this call

report == <<errors, warnings, status, maxerr>>

Quit == <<"quit", "null">>      \* the two elements the catch appends

ReportInit == errors = <<>> /\ warnings = 0 /\ status = "running" /\ maxerr \in MaxErrs

\* The messages of one step in their order: warn throws at the one that
\* reaches maxerr, so that those after it are never raised.
Raised(ms) == SubSeq(ms, 1, IF warnings + Len(ms) > maxerr THEN maxerr - warnings ELSE Len(ms))
Throws(ms) == ms # <<>> /\ warnings + Len(ms) >= maxerr

\* A step that raises ms and goes on, to `then' if it did not throw.
warn(ms, then) ==
  /\ warnings' = warnings + Len(Raised(ms))
  /\ errors' = errors \o Raised(ms) \o (IF Throws(ms) THEN Quit ELSE <<>>)
  /\ status' = IF Throws(ms) THEN "stopped" ELSE then
  /\ UNCHANGED maxerr

\* A step that raises ms, the last of them with stop.
stop(ms) ==
  /\ warnings' = warnings + Len(Raised(ms))
  /\ errors' = errors \o Raised(ms) \o Quit
  /\ status' = "stopped"
  /\ UNCHANGED maxerr

\* A TypeError of JSLint's own, which the catch reports as any other message.
crash == errors' = errors \o <<"TypeError", "null">> /\ status' = "stopped" /\ UNCHANGED <<warnings, maxerr>>

\* What JSLINT returns: no errors, of a source that was read to its end.
Verdict == status = "ended" /\ errors = <<>>

\* Keys: the messages of the part of JSLint that reports.
Thrown == {"quit", "null", "TypeError"}
ReportTypeOK(Keys) ==
  /\ errors \in Seq(Keys \cup Thrown) /\ maxerr \in MaxErrs
  /\ warnings \in 0 .. maxerr
  /\ status \in {"running", "ended", "stopped"}
=============================================================================
