----------------------------- MODULE ScriptCalls -----------------------------
(***************************************************************************)
(* The calls of Bullring as its user sees them (lib/bullring.rb), through  *)
(* the worker of the chosen runtime to the JavaScript context and back:    *)
(* which text is checked and run, what limits it, which error comes out.   *)
(* Everything between the proxy and the server is in the other modules;    *)
(* here a call that needs it may fail at any step (Lost).                  *)
(*                                                                         *)
(* A behaviour follows one script: the caller's string, checked and run    *)
(* again and again.  Of its characters only those matter that              *)
(* prepare_source escapes.                                                 *)
(***************************************************************************)
EXTENDS Integers, Sequences

CONSTANTS
  Names,     \* library names
  Characters,\* what texts are made of
  Sources,   \* texts of the script whose calls are followed
  KindOf,    \* what a text, or the library of a name, does when it is run
  Default,   \* the limit in the server's default options
  MaxNames,  \* bound: library_names of a call
  MaxLength  \* bound: length of a text that is checked

\* "nameError": its evaluation ends in a NameError of Ruby's, none of JavaScript's.
Kinds    == {"value", "throwsText", "throwsObject", "slow", "nameError"}
Runtimes == {"rhino", "racer", "other"}
Nobody   == "nobody"
Script   == "script"
NoLimit  == "no limit"

ASSUME CallsAssumption ==
  /\ Sources \subseteq Seq(Characters)
  /\ KindOf \in [Names \cup Sources -> Kinds] /\ Names \cap {Nobody, Script} = {}
  /\ Default # NoLimit
  /\ MaxNames \in Nat /\ MaxLength \in Nat

VARIABLES
  disabled, runtime,   \* Bullring.configuration
  worker,              \* the runtime of @worker, or "none"
  libraries, registry, \* names in the worker's @libraries; in the registry
  added,               \* names stored since the registry was replaced (no variable of the code)
  source, written,     \* the caller's string; as it was when the caller wrote it
  lint,                \* the JavaScript string literal passed to JSLINT
  names, at,           \* library_names of the call; how many are done
  calling,             \* inside worker.run
  limit,               \* context.timeout_limit
  outcome, blame       \* how the last call ended; whose error it is

config == <<disabled, runtime>>
text   == <<source, written>>
stored == <<libraries, registry, added>>
ends   == <<calling, outcome, blame>>
call   == <<names, at, limit, ends>>
vars   == <<config, worker, stored, text, lint, call>>

Init ==
  /\ disabled = FALSE /\ runtime = "rhino" /\ worker = "none"
  /\ libraries = {} /\ registry = {} /\ added = {}
  /\ source \in Sources /\ written = source
  /\ lint = <<>> /\ names = <<>> /\ at = 0 /\ calling = FALSE
  /\ limit = NoLimit
  /\ outcome = "none" /\ blame = Nobody

Throws(x) == KindOf[x] \in {"throwsText", "throwsObject"}

Return(result, whose) == calling' = FALSE /\ outcome' = result /\ blame' = whose

-----------------------------------------------------------------------------
(* Slips: steps of the code as a plausible mistake would have them.  Spec   *)
(* uses none of them.                                                       *)

WorkerAgain == runtime   \* @worker = for @worker ||=

EscapeQuoteOnly(c) ==   \* the backslash not escaped
  CASE c \in {"LF", "CR"} -> <<"BS", "n">> [] c = "DQ" -> <<"BS", "DQ">> [] OTHER -> <<c>>

SkipLibrary ==   \* its error not raised again
  /\ calling /\ at < Len(names) /\ at' = at + 1
  /\ UNCHANGED <<config, worker, stored, text, lint, names, limit, ends>>

-----------------------------------------------------------------------------
(* The facade and the workers.                                              *)

\* ESCAPE_MAP.  In Ruby's single quotes '\'' is a quote and '\n' is two characters.
Escape(c) == CASE c = "BS" -> <<"BS", "BS">>
               [] c \in {"LF", "CR"} -> <<"BS", "n">>
               [] c = "DQ" -> <<"BS", "DQ">>
               [] OTHER -> <<c>>

CrLf(s, i) == s[i] = "CR" /\ i < Len(s) /\ s[i + 1] = "LF"

prepare_source(s) ==
  LET esc[i \in 1 .. Len(s) + 2] ==
        IF i > Len(s) THEN <<>>
        ELSE IF CrLf(s, i) THEN <<"BS", "n">> \o esc[i + 2]
        ELSE Escape(s[i]) \o esc[i + 1]
  IN  esc[1]

\* What JavaScript reads in a string literal; "broken" where it ends early.  "LS"
\* is U+2028 or U+2029, which end a line of JavaScript and are in no ESCAPE_MAP.
Literal(t) ==
  LET read[i \in 1 .. Len(t) + 2] ==
        IF i > Len(t) THEN <<>>
        ELSE IF t[i] = "BS" /\ i < Len(t)
             THEN <<IF t[i + 1] = "n" THEN "LF" ELSE t[i + 1]>> \o read[i + 2]
        ELSE <<IF t[i] \in {"BS", "LF", "CR", "DQ", "LS"} THEN "broken" ELSE t[i]>> \o read[i + 1]
  IN  read[1]

Broken(t) == \E i \in 1 .. Len(Literal(t)) : Literal(t)[i] = "broken"

\* The worker a call uses: made for the first one, whatever is configured later.
Worker == IF worker = "none" THEN runtime ELSE worker

Usable == ~calling /\ ~disabled /\ Worker # "other"

configure(d, r) ==
  /\ ~calling /\ disabled' = d /\ runtime' = r
  /\ UNCHANGED <<worker, stored, text, lint, call>>

\* @libraries keeps it even when the registry cannot be reached.
add_library(n) ==
  /\ Usable /\ worker' = Worker
  /\ libraries' = libraries \cup {n}
  /\ \/ /\ registry' = IF Worker = "rhino" THEN registry \cup {n} ELSE registry
        /\ added' = added \cup {n} /\ Return("done", Nobody)
     \/ Worker = "rhino" /\ Return("StandardError", Nobody) /\ UNCHANGED <<registry, added>>
  /\ UNCHANGED <<config, text, lint, names, at, limit>>

\* prepare_source works on the string it is given: the caller's own with
\* :racer, a copy of it in the server with :rhino.  A literal that JavaScript
\* does not read is a SyntaxError of the call, before JSLINT is called.
check ==
  /\ Usable /\ worker' = Worker /\ Len(source) <= MaxLength
  /\ source' = IF Worker = "racer" THEN prepare_source(source) ELSE source
  /\ LET literal == prepare_source(source) IN
     \/ ~Broken(literal) /\ lint' = literal /\ Return("done", Nobody)
     \/ Broken(literal) /\ Return("JSError", Nobody) /\ UNCHANGED lint
     \/ Worker = "rhino" /\ Return("StandardError", Nobody) /\ UNCHANGED lint
  /\ UNCHANGED <<config, stored, written, names, at, limit>>

\* The limit it asks for is left out, since SetLimit overwrites it.
run(ns) ==
  /\ Usable /\ worker' = Worker
  /\ names' = ns /\ at' = 0 /\ limit' = NoLimit
  /\ calling' = TRUE /\ outcome' = "none" /\ blame' = Nobody
  /\ UNCHANGED <<config, stored, text, lint>>

\* run, check and add_library return at once.
CallDisabled ==
  /\ ~calling /\ disabled /\ Return("empty", Nobody)
  /\ UNCHANGED <<config, worker, stored, text, lint, names, at, limit>>

InvalidRuntime ==
  /\ ~calling /\ ~disabled /\ Worker = "other" /\ Return("IllegalArgument", Nobody)
  /\ UNCHANGED <<config, worker, stored, text, lint, names, at, limit>>

-----------------------------------------------------------------------------
(* A run in the server, or in the client with :racer.                       *)

Found(n) == n \in (IF worker = "rhino" THEN registry ELSE libraries)

\* A thrown object: the server's JSError is made from a string and so has no
\* hash to store the keys in, when the message has keys at all.
Thrown(k, whose) ==
  \/ k = "throwsText" /\ Return("JSError", whose)
  \/ /\ k = "throwsObject"
     /\ \/ Return("JSError", whose)
        \/ worker = "rhino" /\ Return("NoMethodError", whose)
  \/ k = "slow" /\ limit # NoLimit /\ Return("TooLong", whose)

\* context_wrapper has a rescue NameError that does not raise again: the
\* evaluation then gives nil, and the run goes on.
Ends(k) == k \in {"value", "nameError"} \/ (k = "slow" /\ limit = NoLimit)

\* The next of library_names is looked up and evaluated.
Library ==
  /\ calling /\ at < Len(names)
  /\ LET n == names[at + 1] IN
     \/ Found(n) /\ Ends(KindOf[n]) /\ at' = at + 1 /\ UNCHANGED ends
     \/ Found(n) /\ Thrown(KindOf[n], n) /\ UNCHANGED at
     \/ ~Found(n) /\ worker = "rhino" /\ Return("NameError", n) /\ UNCHANGED at
     \/ ~Found(n) /\ worker = "racer" /\ at' = at + 1 /\ UNCHANGED ends
     \/ ~Found(n) /\ worker = "racer" /\ Return("StandardError", n) /\ UNCHANGED at
  /\ UNCHANGED <<config, worker, stored, text, lint, names, limit>>

\* The default options have been written over those of the call, so that this is
\* the limit whatever the call asked for; :racer sets no limit.
SetLimit ==
  /\ calling /\ at = Len(names) /\ worker = "rhino" /\ limit = NoLimit
  /\ limit' = Default
  /\ UNCHANGED <<config, worker, stored, text, lint, names, at, ends>>

\* A text that was escaped in place does something else than it did.
Eval ==
  /\ calling /\ at = Len(names) /\ (worker = "rhino" => limit # NoLimit)
  /\ \E k \in (IF source = written THEN {KindOf[source]} ELSE Kinds) :
       Thrown(k, Script) \/ (Ends(k) /\ Return("value", Nobody))
  /\ UNCHANGED <<config, worker, stored, text, lint, names, at, limit>>

\* The registry or the server goes away: rescue_me lets the error through.
Lost ==
  /\ calling /\ worker = "rhino" /\ Return("StandardError", Nobody)
  /\ UNCHANGED <<config, worker, stored, text, lint, names, at, limit>>

\* A registry that replaces another is empty, and nobody stores @libraries in it.
RegistryReplaced ==
  /\ registry # {} /\ registry' = {} /\ added' = {}
  /\ UNCHANGED <<config, worker, libraries, text, lint, call>>

Calls == UNION {[1 .. k -> Names] : k \in 0 .. MaxNames}

Next == \/ \E d \in BOOLEAN, r \in Runtimes : configure(d, r)
        \/ \E n \in Names : add_library(n)
        \/ check \/ \E ns \in Calls : run(ns)
        \/ CallDisabled \/ InvalidRuntime \/ Library \/ SetLimit \/ Eval \/ Lost \/ RegistryReplaced

Spec == Init /\ [][Next]_vars

-----------------------------------------------------------------------------
(* Properties. *)

\* A run in a server ends with the first error there is, but for a NameError
\* of Ruby's, which context_wrapper swallows: there is a value only when no
\* library threw, an error of the script only when none before it did, and
\* the time limit is for the script, never for a library.
FirstErrorEndsRun ==
  worker = "rhino" =>
    /\ outcome = "value" \/ blame = Script => \A i \in 1 .. Len(names) : ~Throws(names[i])
    /\ blame \in Names => /\ outcome # "TooLong"
                          /\ \A i \in 1 .. at : ~Throws(names[i])

\* "Order is important (and relative to calls to add_library_script)"
\* (bullring.rb:19): a library whose add_library has returned is there for every
\* run after it, in the runtime the runs use, whatever is configured between
\* them, as long as the registry it went to is not replaced.
LibrariesLast == \A n \in added : Found(n)

\* The text with every line break a line feed.
Lines(s) ==
  LET line[i \in 1 .. Len(s) + 2] ==
        IF i > Len(s) THEN <<>>
        ELSE IF CrLf(s, i) THEN <<"LF">> \o line[i + 2]
        ELSE <<IF s[i] = "CR" THEN "LF" ELSE s[i]>> \o line[i + 1]
  IN  line[1]

\* What JSLINT is given to read is the caller's text, but for the kind of its
\* line breaks: a literal of prepare_source's is read as that text, or not at all
\* when the text has an "LS"; check is a JSError then, and nothing has been read.
LintSeesSource == [][lint' # lint => Literal(lint') = Lines(source)]_vars
=============================================================================
