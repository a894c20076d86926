# Bullring in TLA+

Bullring runs untrusted JavaScript for a Ruby program.  With its `:rhino`
runtime the scripts run in separate JRuby processes, which clients share through
a *server registry*: a Rinda tuple space in a process of its own.  All the
coordination between clients, servers and the registry is in
`src/lib/bullring/util/server_registry.rb`, in a dozen short methods that take and
write tuples.  Before a script is run it can be *checked*: `Bullring.check` gives it to
JSLint (`src/lib/bullring/js/jslint.js`), which reads it as JavaScript, looks up its names
and reports what it finds.  The project models, checks and proves both: the
coordination of processes, and the reading of programs.

## 1. The system

| Part | Source | State it keeps | Operations |
| --- | --- | --- | --- |
| Server pool | `util/server_registry.rb` | tuples `available`, `leased`, `server_generation`, `global_lock`, `registry_closed` | `lease_server!`, `release_server`, `register_server`, `expire_servers`, `close!`, the closing thread |
| Server proxy | `util/server_proxy.rb` | the client's registry object (tuple space, client id) | any call (`method_missing`), `refresh`, `discard`, `store_in_registry`, `connect!` |
| Rhino server | `workers/rhino_server.rb` | `@logger`, default options | boot and register, `run`, `check`, `kill`, the thread that watches the registry |
| Bring-up, client ids, ports | `util/server_registry.rb`, `util/network.rb` | tuples `next_client_id`, `next_server_port`, the registry's port | `ServerRegistry#initialize`, `next_server_port` |
| Library dictionary | `util/server_registry.rb` | tuples `data` | `[]=`, `[]`, under `with_lock` |
| Rhino worker | `workers/rhino_server_worker.rb`, `worker.rb` | `@libraries` | `run`, `check`, `add_library`, `rescue_me` |
| Racer worker | `workers/racer_worker.rb` | `@libraries` | the same, in-process |
| Facade | `bullring.rb` | configuration, the worker | `run`, `check`, `add_library`, `discard`, `refresh` |
| JSLint call | `workers/common.rb` | none | `prepare_source`, `jslint_call` |
| JSLint's report | `js/jslint.js` | `JSLINT.errors`, the count of warnings | `warn`, `stop`, the catch of the function `JSLint` |
| JSLint's lexer | `js/jslint.js` | the lines, the row that is left, the column, the last token | `lex.token`, `next_line`, `string`, `comment`, `regexp`, `number` |
| JSLint's parser | `js/jslint.js` | `token`, `next_token`, the operands, `funct`'s counters, `in_block` | `advance`, `expression`, a nud or led for each operator, a fud for each statement, `json_value` |
| JSLint's scopes | `js/jslint.js` | `funct`, `scope`, `predefined` | `add_label`, `do_function`, `block`, the nud of an identifier, `assignop`, jumps |
| DrubiedProcess | `util/drubied_process.rb` | the connection | an older proxy that no file of `lib` requires |

How they interact.  A client's `run` leases a server (takes its `available`
tuple, writes a `leased` one), calls the server process over DRb, and gives it
back (takes the `leased` tuple, writes an `available` one, or kills the server
when its generation has expired or the registry closes).  A server is spawned by
the client that finds too few of them, boots on its own and registers itself.  A
running script that names a library makes its server take the global lock.
`refresh` takes the global lock too, increments the generation and kills every
server of the old one, waiting for those that are leased.  `discard` writes
`registry_closed`; a thread of the registry process is notified, kills every
server and exits the process; servers that are left find out within five seconds.

What is hard.  Every tuple space call is a remote call, and anything may happen
between two of them: the counts, the generation and the closed flag are read
before they are used; the polling loops have no queue; three kinds of kill loops
compete with the callers for the same tuples; processes die with tuples in their
hands.  The tests of the repository only exercise the `:racer` runtime, which has
none of this.  JSLint runs alone, and what is hard in it is of another kind: a long
program over globals that are set, used and set back in functions hundreds of lines apart
(the token and the next one, loop counters, `in_block`, `scope`, `funct`), loops that each must notice
the end of the text for themselves, and a grammar that exists only as numbers and callbacks.
Every text of a caller is an input; two tests of the repository call `check`.

## 2. The modules

**`ServerRegistry`** is the pool over one life of the registry process, together
with the clients, servers and the closing thread that drive it.  Every actor has
a program counter; a label names the tuple space call (or DRb call) it is about
to make, and every such call is one action.  What the code does between two calls
is local and part of the action before it.  The correspondence:

| Code | Labels | Actions |
| --- | --- | --- |
| `lease_server!`, `num_servers` | generation, countAvailable, countLeased, checkOpen | `ReadGeneration`, `CountAvailable`, `CountLeased`, `CheckOpen` |
| `lease_server`, `_lease_server` | take, expired, alive, writeLeased | `Take`, `TakeExpires`, `FailUnlessOpen`, `CheckAlive`, `WriteLeased` |
| `method_missing` and the serving thread | setLogger, send, fetch, holding, library, eval, clearLogger | `SetLogger`, `Send`, `FetchLibrary`, `LibraryFetched`, `EvalLibrary`, `Eval`, `ClearLogger`, `ServerLost` |
| `release_server` | release, relGeneration, relOpen, kill | `Release`, `CheckGeneration`, `CheckClosed`, `Kill` |
| `register_server`, at a release and at a server's boot | regOpen, regGeneration, regWrite | `RegisterOpen`, `RegisterGeneration`, `RegisterWrite` |
| `expire_servers` | lock, takeGeneration, writeGeneration, *the kill loop*, unlock | `Refresh`, `TakeLock`, `TakeGeneration`, `WriteGeneration`, `Unlock` |
| `close!`, the closing thread | discarding; starting, waiting, *the kill loop* | `Discard`; `Listen`, `RegistryExit` |
| registry gone | any | `Offline`, `WatchRegistry` |
| processes that die | any | `ClientCrash`, `ServerCrash`, `DeadTake` |

`kill_available_servers` is a loop of `num_servers`, `_lease_server` and
`release_server`, so a refreshing client and the closing thread go through the
same labels as a call, with `op` telling them apart (the generation asked for, what
happens on an empty pool, what an exception does).  Variables: `available` and
`leased` are the sets of those tuples; `generation`/`generationIn` the
`server_generation` tuple and whether it is in the space; `lockIn`, `closed` the
presence of `global_lock` and `registry_closed`; `uri`, `leaseGen`, `seen`, `count`
the local variables of the methods; `logger` the `@logger` of each server; `left` the library names a run
still has to look up, at most `MaxLibraries` in all.  The closing thread asks for notifications some time after the registry
is open (`Listen`); a discard before that is not heard.

Two details of the code the model keeps on purpose: `tuple_present?` rescues every
error, so `registry_open?` is true of a registry that is gone; and an exception
of a script skips `server.logger = nil`.

Abstracted: a uri is never reused while anyone refers to it (`next_server_port`
only counts up); scripts, results and library texts are left out, a run is what it
does to the pool; a client is one thread of one process (threads of one process share
a client id, which the code does not protect either).

**`ServerLeasing`** is the promise: servers start and stop, each is granted to one
client at a time, is stopped only while nobody uses it, and the registry goes away
only when every client has given its server back.  `ServerRegistry` maps to it by
"the user of a server is the client inside a call on it" (`ImplementsLeasing`).

**`LibraryStore`** is the dictionary of libraries: `[]=` (called by `add_library` in
clients) and `[]` (called by `fetch_library` in servers), both inside `with_lock`.

| Code | Labels | Actions |
| --- | --- | --- |
| `add_library`, `store_in_registry`; `fetch_library` | idle | `AddLibrary`, `FetchLibrary` |
| `with_lock` | lock, unlock | `TakeLock`, `Unlock` |
| `[]=` | takeOld, writeNew | `TakeOld`, `WriteNew` |
| `[]` | read | `Read` |

It is a module of its own because the pool and the dictionary share nothing but the
lock: `ServerRegistry` has a script's lookup as a holder of the lock (`FetchLibrary`,
`LibraryFetched`) and `expire_servers` touches no library.  `Crash` stops a process at
any label; the take of a process that died waiting stays pending in the tuple space,
so `TakeLock` fires for it too.

**`LibraryDictionary`** is its promise: each store and each lookup takes effect at once,
between its call and its return.  A store takes effect with the take of the *old*
tuple (`Script` in `LibraryStore` already shows the new text then); that nobody can
see the difference, even when the writer dies there, is the point of the lock.

**`RegistryLifecycle`** is the life and death of the registry process around those calls:
the initialize method of `ServerRegistry`, in clients and in servers, and the parts of
`ServerProxy` that connect, reconnect, repeat and discard.

| Code | Labels | Actions |
| --- | --- | --- |
| `ServerRegistry#initialize` | check, wait, takeId, writeId | `Check`, `Bind` (the forked process), `Waited`, `GiveUp`, `TakeId`, `WriteId` |
| `method_missing`, `server_registry`, `connect!` | idle, lease, poll, send, eval, ensure | `Call`, `Lease`, `Poll`, `PollClosed`, `Send`, `Eval`, `Release`, `ReleaseLost` |
| exceptions | any | `Offline`, `ServerLost`, `Raise` (which clause they lead to) |
| `discard` | close, polling | `Discard`, `Close`, `Discarded` |
| `RhinoServer#initialize` | check .. writeId, register, serving | the same, `Register`, `Watch` |
| the registry process | `listener`, `up` | `Listen`, `RegistryExit`, `RegistryDies` |

A client object has only the registry's uri, so a call goes to the process that has the
port *now*; `life` counts those processes, and an id taken from one is used with the
next.  The pool is reduced to one step for a lease and one for a release, without
generations, which is what `ImplementsLeasing` justifies.  Two details: `Network.is_port_open?`
answers true when a connection takes more than a second, so a registry that lives may
look as if there was none (`Unavailable`, `Slow`); and the error message of the 20 second
wait uses a method that does not exist there, so it ends in a `NameError`, which is handled
like the `StandardError` that was meant.

**`ScriptCalls`** is what the user sees: the facade (`bullring.rb`), the worker of the
runtime, the JavaScript context and the errors on their way back.

| Code | Actions and operators |
| --- | --- |
| `Bullring.configure`, `worker`, `run`, `check`, `add_library` | `configure`, `Worker`, `run`, `check`, `add_library`, `CallDisabled`, `InvalidRuntime` |
| `RhinoServer#run`, `RacerWorker#run` | `Library` (once for each name), `SetLimit`, `Eval` |
| `context_wrapper`, `JSError`, `rescue_me` | `Thrown`, `Return`, `Lost` |
| `prepare_source`, `ESCAPE_MAP` | `prepare_source`, `Escape` |

A behaviour follows one string of the caller through any number of calls.  What a script or a library does
when it runs (a value, a thrown string, a thrown object, a `NameError` of Ruby's, slow) is a constant; its characters
matter for `prepare_source` alone.  `Thrown` is what becomes of an error in `context_wrapper`: a `NameError` is swallowed
(`rhino_server.rb:138`), the text has nil for its value and the run goes on; a library that is not found raises outside of it
and ends the run.  `limit` is the one the server has set, if any, and `added` has the libraries that were
added since the registry last came up.  Reading the literal of `prepare_source` (`Literal`) is reading it as
JavaScript does, where `\n`, `\r`, U+2028 and U+2029 (one character of the model) end it.  `rescue DRb::DRbConnError` in
`rescue_me` is never reached by a lost connection, which the two wrappers turn into other errors first.

### JSLint

JSLint is modelled under the options Bullring gives it (`workers/common.rb`, and the defaults): JavaScript or
JSON, `undef`, `unparam` and `vars` on, white space not looked at.  Its parts meet in one
module and are otherwise apart, as in the source: the parser asks the lexer for one token after
another and never hands anything back, and the scopes are reached from the statements.

**`JSLintErrors`** is the report (`warn`, `stop`, the catch): `errors`, how many warnings were counted,
and whether the call goes on.  A step gives the messages it raises, in their order, to `warn`; the one
that reaches `maxerr` throws, and those after it are never raised.  `crash` is a `TypeError` of JSLint's
own, which the catch reports as a message of the text.

**`JSLintLexer`** turns lines of characters into tokens.  A step is a call of `lex.token`, or, in a
comment, a string or a regular expression, one turn of its loop (`mode`).

| Code | Actions and operators |
| --- | --- |
| `next_line`, `it`, `match` and the expression `tx` | `next_line`, `it`, `match`, `Snippet`, `Number`, `Pairs` |
| `lex.token` | `token`: `EndOfRow`, `EndOfText`, `NoMatch`, `Word`, `number`, `Slash`, `LineComment`, `OpenComment`, `OpenString`, `Punctuator` |
| `string`, `comment` | `string`, `ContinueLine`, `EscapeLength`, `Cap`; `comment` |
| `regexp` | `RegexpChar`, `Repetition`, `Braces`, `RegexpEnd`, `OpenClass`, `klass`, `Unclosed` |

`pieces` records, for each token, where the text says it is and what of it was taken; the code has no such
list, it passes each token to `advance`.  The parser is one token ahead, so what it has in `token` when lex reads a slash
is the last piece, comments apart (`LastIs`).  `Ahead` is a flaw of the code that `PiecesTile` has to name (below).

**`JSLintParser`** is `advance`, `expression` and the operators; **`JSLintStatements`** the statements, blocks, the
function `JSLint` itself and JSON.  The JavaScript call stack is a variable: `stack` holds what is still to
be done, as instructions named after the functions of the code, `vals` the trees that have been read, `functs` the
counters of each function that is open.  A step does the instruction on top, which may put others there; most
read one token.  `Lbp` is the table of binding powers, and an operator is an action of its own only where
its nud or led is a function of its own in the source.  The text is chosen token by token as it is read
(`lex`), so that texts that begin alike are one behaviour.

**`JavaScriptGrammar`** is the reference the parser is compared with: the grammar of ECMAScript 5 for the
tokens of the model as derivation predicates, independent of how JSLint reads.  `Lenient` is the
grammar extended by what JSLint is known to take besides it (a reserved word as a name, a `continue` that leads to a
`switch`, a `try` that is no block, `a++.b`); anything else that is accepted would be an error.

**`JSLintScope`** is what JSLint knows of names: `kinds` (the table in each `funct`: becoming, unused, var, closure,
outer, ...), the chain `scope`, and `nest`, what is open and what its end must restore, which the code keeps in
local variables of `do_function`, `block` and others.  It is a module of its own because the parser never
reads a scope: only messages come out of them.

| Code | Actions and operators |
| --- | --- |
| `add_label`, `assume` | `add_label`: `LabelKind`, `LabelSays`, `Labelled`, `Writeable` |
| `block`, `catch`, labels | `block`, `catch`, `label`, `end_block` |
| `do_function`, `function_params` | `function_statement`, `function_expression`, `function_params`, `body`, `end_function` |
| `var` | `var`, `end_var` (`becoming` in between) |
| the nud of an identifier | `identifier`: `Site`, `Entered`, `Here`, `There` |
| `assignop`, `++` and `--`, `for (in)`, jumps | `assignop`, `plusplus`, `forin`, `jump` |

`declared` is not in the code: it records how the text itself introduces a name, for the properties that compare
with JavaScript.

The **`MC...`** modules give the model values and, for JSLint, the families of texts.  The proofs are in
**`ServerRegistryProofs`**, **`LibraryStoreProofs`**, **`RegistryLifecycleProofs`**, **`ScriptCallsProofs`**,
**`JSLintErrorsProofs`** (lemmas), **`JSLintLexerProofs`**, **`JSLintScopeProofs`** and **`JSLintNamesProofs`** (which
extends it).

Each module has variants of some definitions with one plausible mistake each (the section *Slips*, or
next to the definition); the specifications use none of them.  Each breaks the
property it is paired with in `PROJECT.json`, which shows the property is able to fail.

## 3. What is checked

| Run | Properties | What it shows |
| --- | --- | --- |
| `crash` | `ExclusiveServer`, `LockHeldOnce`, `EveryRefreshCounts` | A caller whose scripts fetch libraries, two refreshing clients and the servers all die at any moment, also with a take of the lock pending: no server is in two places, the global lock excludes and no refresh is lost. |
| `leasing` | `LeaseBelongsToCall`, `NoServerForgotten`, `ImplementsLeasing`, `RefreshEnds`, `DiscardEnds` | A caller that keeps the pool busy and a client that refreshes and discards, over servers that may die at any moment, with fairness, no library and no client that dies: leases belong to their calls, no server is lost from the pool, the pool implements the abstract ServerLeasing until the registry is gone; kill loops end, also when they meet a dead server, and a discard that the closing thread has heard of ends the registry process and every server, or the thread dies of a dead server. |
| `live_lease` | `LogsToItsUser`, `ImplementsLeasing`, `LeaseProgress`, `RunsEnd` | Two callers whose scripts fetch libraries and contend for the lock tuple, without refresh, discard or crash: each script logs to its own client, the pool grants a server to one of them at a time, some waiting call always gets one; and if libraries end, which nothing limits, every run ends, unless another caller takes the lock ahead of it again and again. |
| `library` | `OneScriptPerName`, `LibraryLock`, `ImplementsDictionary`, `LibraryProgress` | Two clients store scripts under one name while two running scripts look it up, one writer and one reader mortal: one script per name, exclusion, every store and lookup takes effect at once, and while nobody has died they get through with_lock. |
| `lifecycle` | `ScriptRunsOnce`, `NoLeaseLeft`, `IdTokenNotLost` | Two clients and a server through two registries, which they bring up, lose, close and reconnect to: no script runs twice although calls are retried, no lease outlives its call, no client id token is lost, and nobody is stuck. |
| `scripts` | `FirstErrorEndsRun`, `LibrariesLast`, `LintSeesSource` | One script of every text of up to two characters, checked and run in any order with three libraries, while the configuration changes and the registry is replaced: the first error that is not swallowed ends a run, a library once added is there for every later run, and what JSLINT reads is the text. |
| `lexer` | `PiecesTile`, `NoDivisionSwallowed`, `RegexpEndsAtItsSlash`, `EndsUnlessContinued` | Texts of one or two lines over the characters that matter to strings, comments, classes, repetitions, numbers and slashes: tokens and comments tile the text at the places they are said to be, but for lines into which a string is continued; no division after an operand that ends otherwise than in a brace, `return` or `case` is read as a regular expression; a regular expression ends where the language ends it; and the lexer ends but for one kind of string. |
| `parser` | `TypeOK`, `TreeIsJavaScript`, `AcceptsJavaScript`, `JSONExact`, `DisruptIsAbrupt`, `Ends` | Families of texts, each a beginning and every way it goes on over the tokens that matter there: what JSLint accepts the grammar derives, with the same tree, JSON is accepted exactly, what it calls disrupted never goes on, and it always comes to its end. |
| `scope` | `ScopeRestored`, `SitesOpen`, `OuterHasOwner`, `SameVariable`, `LabelsEnclose`, `AssignopHeard`, `ClosedIsFinal`, `OnceUsed` | One name in every nesting, up to three deep, of up to three functions, blocks, catch clauses, labelled loops and var statements, defined, used, assigned and jumped to in any order: scopes are restored, names resolve to open functions, to the variable JavaScript means, no assignment operator writes unheard to a name of the environment, and what JSLint says of a function is final when it has been read. |

Bounds.  Two clients suffice for every race in the code, which is always between
one actor and *the others*: a third caller only repeats the second one's steps, and the
kill loops of a refresh and of the closing thread come on top.  `Servers = {s1, s2}`
bounds the servers alive at once; a call that finds none unused starts none
(`CheckOpen`).  Two are enough to exceed `MAX_SERVERS_PER_GENERATION = 1`, the
code's value.  `MaxRefreshes` bounds the calls of refresh, which is the only
unbounded counter (the generation).  Servers are interchangeable, hence the symmetry
in the runs that check invariants only.  Deadlock is checked except where the system
may stop (a discard, a process that dies, maybe with the lock) and in the violation runs.

`crash` has a single caller and two refreshing clients, one of which is the caller: whoever crashes, the other
is left with what it had in its hands.  The dictionary's run has two writers, two lookups,
one name and two texts; `MaxStores` bounds the calls of `add_library`, and three of
them are enough for a store over a store while a lookup waits.

`lifecycle` has two registries on the port (`MaxLives`), which is one replacement: enough for a
call that spans both, and for ids and leases of the first to meet the second.  `MaxIds` bounds
the ids one registry hands out; six are enough for two clients and a server that connect again and
again, since whenever the last one is in the space a smaller one is too.  `MaxDiscards = 1`:
a second one closes what is closed.  One server makes two clients compete for it.  Clients are
symmetric there; only safety is checked, so no fairness is assumed.
`MaxLibraries` is the number of libraries a run looks up one after the other: two in `live_lease`, so that the loop over
`library_names` goes round, and one elsewhere.  `leasing` has one caller besides the two kill loops, and servers that die;
what two callers do to each other is in `live_lease`, and for any number of them in the theorems.
`scripts` has every text of up to two characters, which is enough for a `\r\n`, a backslash before a
quote and a line break between; `MaxLength` bounds the texts that are checked, which grow
with every check in place; a slow library, one that throws and one that ends in a `NameError` stand for the libraries,
two of them in any order and repetition (`MaxNames`) for `library_names`.

`lexer` has every text of up to four characters (regular expressions: five, braces of a quantifier: up to eight;
strings and comments: two lines) over the characters that one part of the lexer tells apart; classes of characters
that are treated alike have one member (`4` for the digits, `a` for the letters).  Four are
enough for a slash after every kind of token, an escape before a quote or a line break, a class with
an escaped bracket.  `MaxCharacter` only bounds the columns: no line of a text reaches it (`LexerAssumption`), so all
that it cuts short is the count of columns of a string whose loop never ends (`lexer_hangs`).  `parser` has families of texts: a beginning, which leads into one construct, and every
way to go on over the five to nine tokens that matter there, up to the length at which the construct can end and
one more statement follow (`More` makes all of them longer).  `MaxErrs = {1, 3}`: most texts stop at their first
complaint; those of `Repairs` are read on after it, to see what state a complaint leaves.  `scope` has one name, since no step
looks at two, three functions, so that a name can be two functions away, and three levels of nesting; four levels,
with four times the states, show nothing more, and the theorems have no bound.
`MaxErrs = {1}`: what is promised of names is promised until the first complaint.

Fairness.  `LiveSpec` asks that every process goes on with the operation it is in
(weak fairness of its steps): the operating system schedules it, a DRb call
returns, a script ends by itself or by its timeout.  Nothing makes a client start an
operation, and nothing makes a library end, which runs before the limit is set (`EvalLibrary` is not in `Step`).  `RunsEnd`
therefore has two conditions: that libraries end, and that the other callers do not take the lock for
ever, since a lookup that waits for the lock tuple has no place in a queue and TLC does find the run that is passed over again and again.  No strong fairness is assumed: the polling loop of `lease_server` has
no queue, so a single caller may lose every race, and `LeaseProgress` says that
*some* waiting caller is served.  `DiscardEnds` begins where the closing thread has heard, and a thread that meets a dead server
may die of it; both conditions are the code's.
`LibraryStore` has the same fairness; a process that dies takes no more steps, so
`LibraryProgress` promises nothing from then on, and it too is about *some* operation.
The lexer and the parser are one thread that runs until it returns, so their `LiveSpec` is
weak fairness of the next step; `Ends` and `EndsUnlessContinued` then say that no loop goes round for ever.

### Where the code does not do what it says

* `refresh_strands_waiter` violates `LeaseProgress` (util/server_registry.rb:128): lease_server polls for an available server without ever looking again whether one exists or has to be started, so a call that waits while a refresh makes the last server be killed polls forever; src/lib/bullring/util/server_registry.rb:112 says "First starts up a server if needed then blocks until it is available and returns it".
* `refresh_blocks_run` violates `RunsEnd` (util/server_registry.rb:149): expire_servers holds the global lock while it waits for leased servers to come back, and a script on such a server that names a library waits for the same lock in fetch_library, outside any timeout: the run never ends; src/README.md:11 says "Lets you limit how long the untrusted code can run".
* `lexer_hangs` violates `EndsAlways` (js/jslint.js:1347): After a backslash at the end of a line string() does not look at what next_line returns, so at the last line of the text it reads the same line again and again and never returns; src/lib/bullring/js/jslint.js:1724 says "token -- this is called by advance to get the next token.", and :569 has the message "Unclosed string." for such a string.

### Behaviours found that no run states

The models have the steps that lead to these; a property that such a step would break names it as an exception:

* A `NameError` of Ruby's in a script or a library is swallowed by `context_wrapper` (`rhino_server.rb:138`): the script after such a library runs
  without it, and a script that ends so has nil for its value.  `FirstErrorEndsRun` is about the other errors.
* A thrown object comes out as a `NoMethodError`, since the `JSError` the server makes from a string has no hash for its keys.
* The server's default options, a limit of 0.5 seconds among them, overwrite those of the call (`rhino_server.rb:83`): neither an option of
  the caller nor `execution_timeout_secs` has an effect, although there always is a limit (`README.md:11`) for the script.
* With `:racer`, `check` escapes the caller's own string in place (`common.rb:63`): the text that is run afterwards is not the one JSLint
  read (`check` changes `source` in `ScriptCalls`), although the README of the repository promises code that is pre-verified (`README.md:13`).
* `ESCAPE_MAP` leaves U+2028 and U+2029 alone (`common.rb:52`), which end a line of JavaScript and so the literal: the call of JSLINT is a
  `SyntaxError`, the check raises a `JSError` and nothing has been read.
* The limit is set after the libraries have run (`rhino_server.rb:92`), so nothing limits them: a library that loops keeps its
  server, and its caller, for ever.
* A lookup of a library may be passed over again and again by those of other runs: the lock tuple has no queue (`server_registry.rb:249`).
* A server that is released while a refresh is under way is registered with the *new*
  generation, because `register_server` reads it again (`server_registry.rb:162`); it is then kept although it is older.
* The count of servers is two reads, blind to servers that boot (`server_registry.rb:115`): two calls may start a server each where one was to be.
* A dead server among the available ones ends the closing thread with `ServerOffline` (`server_registry.rb:233`): the registry stays.
* Client ids start at 0 again in a new registry (`server_registry.rb:101`): an idle client keeps its old id, a new one gets
  the same, and each can release the other's lease.
* A `close!` that comes before the closing thread asks for notifications (`server_registry.rb:76`) is not seen; the registry stays, closed
  (`Listen` may come after `Discard`, and `DiscardEnds` promises nothing then).
* `discard` polls the port and may wait for the registry of another client (`server_proxy.rb:64`); a server whose registry was
  replaced on the same port does not notice (`rhino_server.rb:42`).
* `test!` writes a `[:temp]` tuple every five seconds per server that nobody takes (`server_registry.rb:197`).
* JSLint's lexer gives up the rest of a line after a blank and a character that begins no token.
* On a line into which a string is continued every token is reported one column too far: `next_line` sets `character` to 1, the first
  column, and the loop of `string` adds one before it has read anything (`jslint.js:1384`).  The comment at `jslint.js:51` says columns
  are relative to 0, the code counts from 1, and here it is neither.
* A slash after a closing brace always begins a regular expression (`jslint.js:1253`), also where the brace ends an object literal or a
  function expression: `a = {} / 4;` ends the check with "Unclosed regular expression.", and with a second slash in the line the text
  between them is never looked at.
* A property named `return` or `case` counts as the reserved word: in `a.return / 4` the slash begins a regular expression (`jslint.js:1254`).
* The complaints about a string that goes on over lines name its last line and the column of its first (`jslint.js:1248`).
* Only `assignop` (`jslint.js:2761`) looks whether a name is writeable.  `++` and `--` (`jslint.js:2820`, `3429`) and `for (n in ...)`
  (`jslint.js:4353`) do not: under Bullring's options, `plusplus` among them, `Math++;` passes without a complaint, and so does `for (Math in a) {}`
  after a use of the name, although the comment at `jslint.js:302` calls names that are not declared true read-only.  `AssignopHeard` is about
  assignment operators for this reason.
* A jump to a label whose statement is over is reported by a `TypeError` in place of "'{a}' is out of scope."
  (`jslint.js:4471`): the scope has nothing of that name any more.  A block that is a single `;` ends in a `TypeError` too (`jslint.js:3003`).
  Both are errors of the text either way.
* A name that is used before its definition is entered into the scope of its use: the definition makes it a
  `var`, but a function in between has it as `outer` of nobody (`OuterHasOwner` excludes exactly this), and it is never listed as unused.
* Block scopes that JavaScript has not: after a block in which a variable was declared, an inner function
  takes its name for the one outside (`SameVariable` excludes names declared in blocks).
* `disrupt` of a `switch` does not see a `break` inside an `if` of its last cases: what follows such a `switch` is called unreachable
  (`DisruptIsAbrupt` excludes it).

## 4. What is proved

The theorems are about `Spec` of a module, for every value of its constants; the assumptions are those the
module names.  Each component has an inductive invariant that is a conjunction of named parts, one lemma per
part or per action that says a step keeps it, and theorems that follow from it.

**`ServerRegistryProofs`**, for every set of clients and servers, every
`MAX_SERVERS_PER_GENERATION`, with or without crashes, refreshes and discards:
`TypeOK`, `ExclusiveServer`, `LeaseBelongsToCall`, `LockHeldOnce`, `LogsToItsUser`, `EveryRefreshCounts` and,
when no client dies, `NoServerForgotten`.  The only assumption is
`RegistryAssumption` (kinds of actors are disjoint, sets of processes finite, no process is the value that
stands for no server).

The invariant `IInv` is the conjunction of those properties with `Finite` (tuple
sets are finite, so that counts are numbers) and `Places`, which ties a label to
the locals: an actor has a server in `uri` exactly where the code has one in a
variable.  `ExclusiveServer` is not inductive alone.  `Release` takes a lease by
client id, so one needs that the lease is of the server in hand and that there is one
only (`LeaseBelongsToCall`); `TakeExpires` goes on to `release_server` without a
server, so one needs that the label `take` comes with none (`Places`); a spawned
server must be new to everybody (`Unused`).  Each conjunct has a lemma with one
step per action.  `Custody` adds to it that an actor between the end of a use and the
release still has its lease.  `EveryRefreshCounts` compares the generation with the refreshes that were called and
have not written it yet; a step changes both sides together or neither.

The same module proves the refinement `ImplementsLeasing`.  Three facts are needed beyond `IInv`: the
closing thread registers nothing and only works when the registry has closed (`Closing`), nobody uses a server once the
registry is gone (`Quiet`), and a server that `lease_server` found alive still is when the lease is written, unless servers
die (`FoundAlive`).  `StepKinds` then sorts the steps of the pool by what they do to servers and their users: nothing, a
grant, a return, a boot, an end, the exit.  `KindMaps` shows that each kind is a step of `ServerLeasing` or a stutter.

**`LibraryStoreProofs`**, for every set of writers, readers, names and texts, with
deaths: `TypeOK`, `LibraryLock`, `OneScriptPerName` and the refinement
`ImplementsDictionary`.  Its invariant adds `Replacing` (a writer about to write has
removed every tuple of its name, which makes `OneScriptPerName` inductive although one
take removes one tuple) and `Looking` (a lookup that finds nothing returns nil).
`ScriptSeen` turns the `CHOOSE`s of the refinement mapping into equations, `SeenKept` says
when the mapped dictionary stays as it is, and `StepMaps` has one step per action.

**`RegistryLifecycleProofs`**, for any number of clients, servers, registries, ids and discards: `ScriptRunsOnce`,
`NoLeaseLeft` and `IdTokenNotLost`.  The first is in `Places`: a call that has run its script is at `eval` or on its way
out, and the two rescue clauses only repeat one that is not.  `NoLeaseLeft` is the hard one.  Ids are not unique:
they start again with each registry while idle clients keep theirs, and `release_server` takes whichever lease bears its
id; so no invariant can say that a call has *its* lease.  What is invariant is that there is *some* one-to-one
assignment of leases to calls in progress with the same id (`Owned`, an existential over functions); a release that takes another's lease is
answered by handing the assignment on.  `Fresh` (a registry that is gone has taken its tuples with it) and `LeasedServes`
complete it.

**`ScriptCallsProofs`**, for any characters, any texts over them, any libraries and any number of calls:
`FirstErrorEndsRun`, `LibrariesLast` and `LintSeesSource`; the last by `LiteralIsText`, that the
literal `prepare_source` makes is one JavaScript reads as the text or not at all, for *every* text, and that it is read when the text
has no U+2028 or U+2029.  `prepare_source` and the reading of a
literal are recursive functions from the end of the text, or from a position, and an induction scheme with an operator as its parameter
is out of the prover's reach.  The proof goes around it: `Least`, from the well-foundedness of the numbers, gives `Downward`, that a set of
positions which has the end of a text, and each position of which it has the next two, has them all; `WalkExists`
shows that such recursive definitions define a function; and the literal is read piece by piece from the end (`ReadsPiece`,
`ReadsRest`).

**`JSLintScopeProofs`**, for any names, environments, numbers of functions and depth of nesting:
`TypeOK`, `ScopeRestored`, `SitesOpen`, `ClosedIsFinal` and `OnceUsed`.  The assumptions are `NamesAssumption` (an
environment says of some names whether they can be written to) and `MaxErrAssumption`.  Saving and
restoring `scope` and `funct` by hand is what can go wrong, and it is not local: that a block may cut the chain to
the length it had says nothing unless what is open around it is shorter still.  The invariant `Chain` looks at
*levels*: the global one, and one for each thing that is open, each with the length of the chain when it was opened (`Depths`)
and the function (`Owners`).  `Climbs` says that lengths never fall from a level to the next, and that levels of the same
length are of the same function (only a `var` opens no scope); `Known` says that the scopes of a level know variables of the
functions of the levels up to it only, which is what makes `SitesOpen` survive the end of a function; `Items`
ties the kind of what is open to its level.  Opening, entering a name, and closing keep `Chain` by one lemma each (`ChainGrows`, `ScopeStep`,
`ChainFalls`, on `KnownPush`, `KnownEntry`, `KnownPop`), and each action then has a short proof.  `ReferStep` says what the
long case analysis of a use may change: one entry, and kinds of open functions, to kinds in use; `ClosedIsFinal` and `OnceUsed` follow
from that and `IInv`.  `JSLintErrorsProofs` has the lemmas about `warn` and `stop`: types, and that a silent step raised nothing.

**`JSLintNamesProofs`** goes on from there to the properties that compare JSLint with JavaScript, under the same assumptions: `LabelsEnclose`,
`SameVariable`, `AssignopHeard` and `OuterHasOwner`.  They relate four structures the code keeps apart (the table of
kinds, the chain of scopes, what is open, and what the text has declared), so the invariant `NamesInv` has two parts.

* `Shape` holds always: functions that are open are numbered in the order of their nesting, and the depths of
  what is open rise with them (`Nested`); the entries of a name along the chain are of functions that rise with it (`Sited`), so that
  the last entry is that of the innermost function; a function knows the names the chain has of it (`Noted`); of a function
  that has not begun nothing is known (`Unread`); entries of the environment are as writeable as it says (`Predefined`).
* `Clean` holds until the first complaint, which is what the properties are promised for: a label in the
  chain is open (`Labels`); any other entry of a function is declared there, or that of an open catch clause (`Entries`); what a function
  declares in its body is in the chain while it is open, unless the name was used before (`Bodies`); the same of the variables of
  catch clauses (`Catches`); a name that is undefined in a function was used before its declaration, there or around it (`Undefs`); what a
  function has from outside does not resolve to a label (`Outers`).  The last is needed because JSLint says nothing more of a name that it
  has filed as outer: without it such a name could come to mean a label of a function around, unheard (`LabelHeard`).

Both are stated of any table, chain and nest, not of the variables, so that an action that both enters a name and opens a scope is
proved by two lemmas, one after the other: `OpenBlock...` and `OpenFunction...`, `Enter...`, `Body...`, `Close...` and `Refer...`, each for
`Shape` and `Clean`.  `SameVariable` then is that the innermost entry belongs to the innermost function that binds the name:
`EntryBinds` in one direction, `BinderEntry` in the other.

`OuterHasOwner` needs in addition that every function begins in an older one and that open functions are around those opened
in them (`Family`).  `Around` is a recursive function over the contexts; `ChainsExist` shows that it is defined, as the least set closed under
`context`, and `AroundStep` and `AroundStays` replace the recursion by an equation and a frame.  `Moves` lists what a step without complaint may do to closures, outer and global
names; every action makes only such moves, and such moves keep `OuterHasOwner` (`OwnersKept`).

**`JSLintLexerProofs`**, for texts of any number of lines, of any length and over any characters: `TypeOK`, `PiecesTile`,
`NoDivisionSwallowed` and `RegexpEndsAtItsSlash`.  What they leave out is written in them: `PiecesTile` is of columns less one on a line into which
a string is continued (`Ahead`), and `NoDivisionSwallowed` does not count a brace, `return` and `case` among the ends of operands; there the
code is wrong, as section 3 says.  The assumptions are `LexerAssumption` (a text has a line, and the bound of
the columns is beyond every line) and `MaxErrAssumption`.  The code keeps its place in the text four times over: in the line, in what is left of it, in the
column, and inside a token in an index that each loop counts for itself.  The invariant says how they agree:

* `Tiling`: each piece lies in the text after those before it (`AllPlaced`), the text up to the token that is being read has been dealt
  with (`UpTo`), and what is left of the line is what the line has from the column on (`AtRow`).  A string is the exception, as its
  loop does not cut the row but goes through it by an index.  That would be simple (`StringRow`), were it not for a
  backslash at the end of the *last* line, which sends the loop back to the beginning with a column that is no longer
  that of the index.  Such a string never ends: `InString` says so by a set of indices that the loop has passed and that it
  cannot leave.  Each ends at a character that is not the quote, so that the wrong column never becomes a piece.
* `LastToken`: `prereg` is what `PreReg` says of the last token, comments apart, and only a token after which there is
  no operand lets a regular expression begin (`DivisionsFree`); `NoDivisionSwallowed` follows.
* `AsRead`: while nothing was complained of, what `regexp` and its class have read so far leaves the automaton that says what the
  language takes for the end of a regular expression (`RegexpStates`) in the state the code is in, and it was never over before.

Every action moves the row and the column by a lemma of its own (`MatchPlace`, `BlanksSkip`, `TokenPlaced`, `FreshLine`,
`RegexpTiles`, `StringPasses`, ...), and `TilingTiles` goes from the order of the pieces to their disjoint columns.  `Snippet`,
`Run` and `RegexpStates` are a `CHOOSE` and a recursive function; that they denote what they
should (`StatesExist`) rests on `Least`, as above.

Type invariants of the modules with proofs are proved rather than run; that of the parser is run.

Only model-checked: the properties of the parser (`TypeOK`, `TreeIsJavaScript`, `AcceptsJavaScript`, `JSONExact`, `DisruptIsAbrupt`), which
compare with a grammar that is a set of recursive operators: the provers cannot be used in a module that reaches one.  Everything under
fairness (`RefreshEnds`, `DiscardEnds`, `LeaseProgress`, `RunsEnd`, `LibraryProgress`, `Ends`, `EndsUnlessContinued`) is beyond the
prover, and so is the absence of deadlock.

## 5. Not modelled, and why

* **Of JSLint**: the languages Bullring never turns on or that are languages of their own, CSS and HTML (tags, style
  sheets, attributes, ADsafe: a good part of the file); the directive comments (`/*jslint`, `/*global`, `/*properties`)
  and the options they change; the checks of white space and indentation, which Bullring's options switch off; the
  reports (`report`, `data`), which format what the model has as `kinds`.  In the lexer: `<!--`, `#`
  colours, entities, tabs and control characters, `\u` and `\v`, a `-` in a class, exponents and hexadecimal numbers.
  In the parser: getters and setters, `"use strict"`, names that are special because of what they say (`eval`, `arguments`,
  `hasOwnProperty`, names that end in an underscore).  Relations, `instanceof` and `<<` next to each other are read on one level
  by JSLint and are compared with the grammar one at a time.  In the scopes: the list of unused parameters, `undef` switched off, names of
  `Object.prototype`.  `jslint.min.js` is the same program, minified.
* **Ports**: `next_server_port` is the token of `next_client_id` again, followed by a probe of ports; a server that dies in between takes the token
  with it and blocks every later server, as `IdTokenNotLost` would for ids if processes could die there.
* **A client that dies with a lease** keeps the pool a server short for as long as the registry lives: the code has no answer
  to it, so there is nothing to promise; `NoServerForgotten` and `LeaseProgress` say so by their assumptions.
* **Threads of one client** share the registry object and its client id, which the code does not protect.
* **Liveness of bring-up**: the waits there have timeouts of their own, which end in an exception; time is not modelled.
* `DrubiedProcess` (no file of `lib` requires it), `js/bullring.js` (commented out), the dummy Rails application, shell scripts that
  only set up an environment, minifying of libraries, logging.
