--------------------------- MODULE ServerRegistry ---------------------------
(***************************************************************************)
(* The server pool of lib/bullring/util/server_registry.rb, over one life  *)
(* of the registry process, together with the callers that make it move:   *)
(* ServerProxy (a client leases a server, runs on it, releases it),        *)
(* RhinoServer (boots, registers, runs a script, is killed) and the        *)
(* closing thread of the registry process.                                 *)
(*                                                                         *)
(* All shared state is the Rinda tuple space.  Every remote tuple space    *)
(* call is one step; what happens between two of them is local.  pc[a]     *)
(* names the next call of actor a:                                         *)
(*   lease_server!   generation countAvailable countLeased checkOpen       *)
(*   _lease_server   take expired alive writeLeased                        *)
(*   ServerProxy     setLogger send clearLogger                            *)
(*   RhinoServer     fetch holding library eval  (the client's thread)     *)
(*   release_server  release relGeneration relOpen kill                    *)
(*   register_server regOpen regGeneration regWrite                        *)
(*   expire_servers  lock takeGeneration writeGeneration unlock            *)
(*   discard         discarding;  the closing thread: starting waiting     *)
(* A client at "offline" has seen ServerRegistryOffline: connect! and the  *)
(* registry's next life are not in this module.                            *)
(***************************************************************************)
EXTENDS Integers, FiniteSets

CONSTANTS
  Callers,         \* clients that call run or check
  LibraryCallers,  \* the callers whose scripts may name a library
  Refreshers,      \* clients that call refresh
  Discarders,      \* clients that call discard
  Mortal,          \* clients whose process may die at any moment
  Closer,          \* the closing thread of the registry process
  Servers,         \* uris a RhinoServer can get
  NoServer,        \* no uri
  ServersCrash,    \* TRUE when server processes may die on their own
  MAX_SERVERS_PER_GENERATION,
  MaxRefreshes,    \* bound: calls of refresh in a behaviour
  MaxLibraries     \* bound: the library_names of a run

Clients == Callers \cup Refreshers \cup Discarders
Users   == Clients \cup {Closer}
Actors  == Users \cup Servers

ASSUME RegistryAssumption ==
  /\ LibraryCallers \subseteq Callers /\ Mortal \subseteq Clients
  /\ Closer \notin Clients /\ Users \cap Servers = {} /\ NoServer \notin Actors
  /\ IsFiniteSet(Servers) /\ IsFiniteSet(Clients)
  /\ ServersCrash \in BOOLEAN
  /\ {MAX_SERVERS_PER_GENERATION, MaxRefreshes, MaxLibraries} \subseteq Nat

VARIABLES
  available,    \* tuples ['available', generation, uri]
  leased,       \* tuples ['leased', client, generation, uri]
  generation,   \* the last number written in a [:server_generation, n] tuple
  generationIn, \* that tuple is in the space
  lockIn,       \* the [:global_lock] tuple is in the space
  closed,       \* a [:registry_closed] tuple is in the space
  deadWaiter,   \* a take of [:global_lock] by a dead process is still pending
  up,           \* the registry process runs
  pc, op,       \* where each actor is, and in which operation
  seen,         \* generation last read with the intent to use it
  count,        \* first half of num_servers
  uri,          \* server an actor deals with
  leaseGen,     \* generation in the tuple that named it
  logger,       \* @logger of each server: the client it logs to
  left,         \* libraries a client's run has still to fetch after this one
  refreshes, crashed

pool   == <<available, leased>>
gens   == <<generation, generationIn>>
tuples == <<pool, gens, lockIn, closed>>
locals == <<op, seen, count, uri, leaseGen>>
beside == <<deadWaiter, up, logger, refreshes, crashed>>
world  == <<beside, left>>
vars   == <<tuples, pc, locals, world>>

AnyGeneration == -1   \* a nil in the generation field of a template
Matches(g, wanted) == wanted = AnyGeneration \/ g = wanted

-----------------------------------------------------------------------------
(* Vocabulary. *)

At(a, label)   == pc[a] = label /\ a \notin crashed
Goto(a, label) == pc' = [pc EXCEPT ![a] = label]
ServerUp(s)    == s \in Servers /\ pc[s] # "down"

\* What a client sends runs on its server.
InUse(c) == pc[c] \in {"setLogger", "send", "fetch", "holding", "library", "eval", "clearLogger"}

\* registry_open?: tuple_present? rescues every error, so a registry that is
\* gone counts as open.
RegistryOpen == ~up \/ ~closed

\* An actor lets go of its server; when its operation ends, so do its locals.
Rest == {"idle", "offline", "serving", "down"}
Drop(a, label) ==
  /\ uri' = [uri EXCEPT ![a] = NoServer]
  /\ leaseGen' = [leaseGen EXCEPT ![a] = 0]
  /\ op' = [op EXCEPT ![a] = IF label \in Rest THEN "none" ELSE @]
  /\ seen' = [seen EXCEPT ![a] = IF label \in Rest THEN 0 ELSE @]
  /\ UNCHANGED count
Leave(a, label) == Goto(a, label) /\ Drop(a, label)

FinishCall(u) == "idle"   \* a slip: kill_available_servers without its loop
Finish(u) == IF op[u] = "call" THEN "idle" ELSE "countAvailable"
Raise(a)  == CASE op[a] = "call" -> "idle"      [] op[a] = "refresh" -> "unlock"
               [] op[a] = "close" -> "died"     [] OTHER -> "down"

\* A uri nobody refers to: next_server_port never hands out a port twice.
Unused(s) ==
  /\ pc[s] = "down"
  /\ \A t \in available : t.uri # s
  /\ \A l \in leased : l.uri # s
  /\ \A a \in Actors : uri[a] # s

Init ==
  /\ available = {} /\ leased = {}
  /\ generation = 0 /\ refreshes = 0 /\ crashed = {}
  /\ generationIn = TRUE /\ lockIn = TRUE /\ up = TRUE
  /\ closed = FALSE /\ deadWaiter = FALSE
  /\ pc = [a \in Actors |-> IF a \in Clients THEN "idle"
                            ELSE IF a = Closer THEN "starting" ELSE "down"]
  /\ op = [a \in Actors |-> IF a = Closer THEN "close" ELSE "none"]
  /\ seen = [a \in Actors |-> IF a = Closer THEN AnyGeneration ELSE 0]
  /\ count = [a \in Actors |-> 0]
  /\ uri = [a \in Actors |-> NoServer]
  /\ leaseGen = [a \in Actors |-> 0]
  /\ logger = [s \in Servers |-> NoServer] /\ left = [c \in Clients |-> 0]

-----------------------------------------------------------------------------
(* Slips: steps of the code as a plausible mistake would have them.  Spec   *)
(* uses none of them; each breaks a property below when it stands in for    *)
(* the step it is named after.                                              *)

TakeReads(u) ==   \* read for take
  /\ At(u, "take") /\ up
  /\ \E t \in available :
       /\ uri' = [uri EXCEPT ![u] = t.uri] /\ leaseGen' = [leaseGen EXCEPT ![u] = t.generation]
  /\ Goto(u, "alive")
  /\ UNCHANGED <<tuples, op, seen, count, world>>

ReleaseReads(u) ==   \* read for take
  /\ At(u, "release") /\ up
  /\ IF \E l \in leased : l.client = u
     THEN Goto(u, "relGeneration") /\ UNCHANGED locals ELSE Leave(u, Finish(u))
  /\ UNCHANGED <<tuples, world>>

TakeLockReads(c) ==   \* read for take
  /\ At(c, "lock") /\ up /\ lockIn /\ Goto(c, "takeGeneration")
  /\ UNCHANGED <<tuples, locals, world>>

CheckGenerationOff(u) ==   \* <= for <
  /\ At(u, "relGeneration") /\ up /\ generationIn
  /\ Goto(u, IF leaseGen[u] <= generation THEN "kill" ELSE "relOpen")
  /\ UNCHANGED <<tuples, locals, world>>

WriteGenerationBack(c) ==   \* no + 1
  /\ At(c, "writeGeneration") /\ up /\ generationIn' = TRUE /\ Goto(c, "countAvailable")
  /\ UNCHANGED <<pool, generation, lockIn, closed, locals, world>>

LibraryFetchedKeepsLock(c) ==   \* no ensure
  /\ pc[c] = "holding" /\ ServerUp(uri[c]) /\ up /\ Goto(c, "library")
  /\ UNCHANGED <<tuples, locals, world>>

SetLoggerOnce(c) ==   \* ||= for =
  /\ At(c, "setLogger") /\ ServerUp(uri[c]) /\ Goto(c, "send")
  /\ logger' = [logger EXCEPT ![uri[c]] = IF @ = NoServer THEN c ELSE @]
  /\ UNCHANGED <<tuples, locals, deadWaiter, up, refreshes, crashed, left>>

ServerLostKeepsLease(c) ==   \* no ensure
  /\ c \notin crashed /\ InUse(c) /\ ~ServerUp(uri[c])
  /\ Leave(c, "idle") /\ UNCHANGED <<tuples, world>>

KillForgets(u) ==   \* forget without kill
  At(u, "kill") /\ Leave(u, Finish(u)) /\ UNCHANGED <<tuples, world>>

NumServersAvailable(u) == count[u]   \* the leased ones not counted

-----------------------------------------------------------------------------
(* lease_server!: count the servers of the current generation, start one   *)
(* when there are too few, then poll until one can be taken.               *)

Call(c) ==
  /\ c \in Callers /\ At(c, "idle")
  /\ Goto(c, "generation")
  /\ op' = [op EXCEPT ![c] = "call"]
  /\ UNCHANGED <<tuples, seen, count, uri, leaseGen, world>>

ReadGeneration(c) ==
  /\ At(c, "generation") /\ up /\ generationIn
  /\ seen' = [seen EXCEPT ![c] = generation]
  /\ Goto(c, "countAvailable")
  /\ UNCHANGED <<tuples, op, count, uri, leaseGen, world>>

CountAvailable(u) ==
  /\ At(u, "countAvailable") /\ up
  /\ count' = [count EXCEPT ![u] =
       Cardinality({t \in available : Matches(t.generation, seen[u])})]
  /\ Goto(u, "countLeased")
  /\ UNCHANGED <<tuples, op, seen, uri, leaseGen, world>>

NumServers(u) ==
  count[u] + Cardinality({l \in leased : Matches(l.generation, seen[u])})

CountLeased(u) ==
  /\ At(u, "countLeased") /\ up
  /\ count' = [count EXCEPT ![u] = 0]
  /\ \/ op[u] = "call" /\ NumServers(u) < MAX_SERVERS_PER_GENERATION
        /\ Goto(u, "checkOpen")
     \/ op[u] = "call" /\ NumServers(u) >= MAX_SERVERS_PER_GENERATION
        /\ Goto(u, "take")
     \/ op[u] # "call" /\ NumServers(u) # 0 /\ Goto(u, "take")
     \/ op[u] = "refresh" /\ NumServers(u) = 0 /\ Goto(u, "unlock")
  /\ UNCHANGED <<tuples, op, seen, uri, leaseGen, world>>

\* start_a_server, when registry_open? says so; the process boots on its own.
\* Bound: with all of Servers running or referred to, no more are started.
CheckOpen(c) ==
  /\ At(c, "checkOpen")
  /\ \/ /\ RegistryOpen
        /\ \E s \in Servers :
             /\ Unused(s)
             /\ pc' = [pc EXCEPT ![c] = "take", ![s] = "regOpen"]
             /\ uri' = [uri EXCEPT ![s] = s]
     \/ /\ ~RegistryOpen \/ \A s \in Servers : ~Unused(s)
        /\ Goto(c, "take") /\ UNCHANGED uri
  /\ UNCHANGED <<tuples, op, seen, count, leaseGen, world>>

Wanted(u) == IF op[u] = "call" THEN AnyGeneration ELSE seen[u]

Take(u) ==
  /\ At(u, "take") /\ up
  /\ \E t \in available :
       /\ Matches(t.generation, Wanted(u))
       /\ available' = available \ {t}
       /\ uri' = [uri EXCEPT ![u] = t.uri]
       /\ leaseGen' = [leaseGen EXCEPT ![u] = t.generation]
  /\ Goto(u, "alive")
  /\ UNCHANGED <<leased, gens, lockIn, closed, op, seen, count, world>>

\* RequestExpiredError: callers look whether the registry closed, the kill
\* loops (ignore_closed_registry) go on to release_server.
TakeExpires(u) ==
  /\ At(u, "take") /\ up
  /\ \A t \in available : ~Matches(t.generation, Wanted(u))
  /\ Goto(u, IF op[u] = "call" THEN "expired" ELSE "release")
  /\ UNCHANGED <<tuples, locals, world>>

FailUnlessOpen(c) ==
  /\ At(c, "expired")
  /\ IF RegistryOpen THEN Goto(c, "take") /\ UNCHANGED locals ELSE Leave(c, "idle")
  /\ UNCHANGED <<tuples, world>>

\* A dead server raises ServerOffline: lease_server! retries from the start,
\* expire_servers gives its lock back and fails, the closing thread dies.
CheckAlive(u) ==
  /\ At(u, "alive")
  /\ \/ ServerUp(uri[u]) /\ Goto(u, "writeLeased") /\ UNCHANGED locals
     \/ ~ServerUp(uri[u]) /\ Leave(u, IF op[u] = "call" THEN "generation" ELSE Raise(u))
  /\ UNCHANGED <<tuples, world>>

WriteLeased(u) ==
  /\ At(u, "writeLeased") /\ up
  /\ leased' = leased \cup
       {[client |-> u, generation |-> leaseGen[u], uri |-> uri[u]]}
  /\ Goto(u, IF op[u] = "call" THEN "setLogger" ELSE "release")
  /\ UNCHANGED <<available, gens, lockIn, closed, locals, world>>

-----------------------------------------------------------------------------
(* ServerProxy#method_missing on the leased server, and the server thread  *)
(* that serves the call.  A call on a dead server raises ServerOffline and *)
(* the ensure clause releases the lease.                                   *)

SetLogger(c) ==
  /\ At(c, "setLogger") /\ ServerUp(uri[c])
  /\ logger' = [logger EXCEPT ![uri[c]] = c]
  /\ Goto(c, "send")
  /\ UNCHANGED <<tuples, locals, deadWaiter, up, refreshes, crashed, left>>

Send(c) ==
  /\ At(c, "send") /\ ServerUp(uri[c])
  /\ \/ Goto(c, "eval") /\ UNCHANGED left
     \/ /\ c \in LibraryCallers /\ Goto(c, "fetch")
        /\ \E names \in 1 .. MaxLibraries : left' = [left EXCEPT ![c] = names - 1]
  /\ UNCHANGED <<tuples, locals, beside>>

\* fetch_library runs in the server, whether its client still lives or not.
FetchLibrary(c) ==
  /\ pc[c] = "fetch" /\ ServerUp(uri[c]) /\ up /\ lockIn
  /\ lockIn' = FALSE
  /\ Goto(c, "holding")
  /\ UNCHANGED <<pool, gens, closed, locals, world>>

\* The library is evaluated next, or is not there: a NameError ends the run.
LibraryFetched(c) ==
  /\ pc[c] = "holding" /\ ServerUp(uri[c]) /\ up
  /\ lockIn' = TRUE
  /\ \E next \in {"library", "release"} : Goto(c, next)
  /\ UNCHANGED <<pool, gens, closed, locals, world>>

\* context.eval of a library, before the limit is set: it may run forever. When it
\* has a value, or a NameError that context_wrapper keeps to itself, the next
\* library is fetched, or the script runs; any other error ends the run.
EvalLibrary(c) ==
  /\ pc[c] = "library" /\ ServerUp(uri[c])
  /\ \/ left[c] > 0 /\ Goto(c, "fetch") /\ left' = [left EXCEPT ![c] = @ - 1]
     \/ left[c] = 0 /\ Goto(c, "eval") /\ UNCHANGED left
     \/ Goto(c, "release") /\ left' = [left EXCEPT ![c] = 0]
  /\ UNCHANGED <<tuples, locals, beside>>

\* context.eval of the script ends, if only by timeout_limit; a JSError skips
\* logger = nil.
Eval(c) ==
  /\ pc[c] = "eval" /\ ServerUp(uri[c])
  /\ \E next \in {"clearLogger", "release"} : Goto(c, next)
  /\ UNCHANGED <<tuples, locals, world>>

ClearLogger(c) ==
  /\ At(c, "clearLogger") /\ ServerUp(uri[c])
  /\ logger' = [logger EXCEPT ![uri[c]] = NoServer]
  /\ Goto(c, "release")
  /\ UNCHANGED <<tuples, locals, deadWaiter, up, refreshes, crashed, left>>

ServerLost(c) ==
  /\ c \notin crashed /\ InUse(c) /\ ~ServerUp(uri[c])
  /\ Goto(c, "release")
  /\ UNCHANGED <<tuples, locals, world>>

-----------------------------------------------------------------------------
(* release_server and register_server.                                     *)

Release(u) ==
  /\ At(u, "release") /\ up
  /\ \/ \E l \in leased :
          /\ l.client = u
          /\ leased' = leased \ {l}
          /\ uri' = [uri EXCEPT ![u] = l.uri]
          /\ leaseGen' = [leaseGen EXCEPT ![u] = l.generation]
          /\ Goto(u, "relGeneration") /\ UNCHANGED <<op, seen, count>>
     \/ /\ \A l \in leased : l.client # u
        /\ Leave(u, Finish(u)) /\ UNCHANGED leased
  /\ UNCHANGED <<available, gens, lockIn, closed, world>>

CheckGeneration(u) ==
  /\ At(u, "relGeneration") /\ up /\ generationIn
  /\ Goto(u, IF leaseGen[u] < generation THEN "kill" ELSE "relOpen")
  /\ UNCHANGED <<tuples, locals, world>>

CheckClosed(u) ==
  /\ At(u, "relOpen")
  /\ Goto(u, IF RegistryOpen THEN "regOpen" ELSE "kill")
  /\ UNCHANGED <<tuples, locals, world>>

\* ServerRegistryClosed ends the call of a client and the boot of a server.
RegisterOpen(a) ==
  /\ At(a, "regOpen")
  /\ IF RegistryOpen THEN Goto(a, "regGeneration") /\ UNCHANGED locals ELSE Leave(a, Raise(a))
  /\ UNCHANGED <<tuples, world>>

RegisterGeneration(a) ==
  /\ At(a, "regGeneration") /\ up /\ generationIn
  /\ seen' = [seen EXCEPT ![a] = generation]
  /\ Goto(a, "regWrite")
  /\ UNCHANGED <<tuples, op, count, uri, leaseGen, world>>

RegisterWrite(a) ==
  /\ At(a, "regWrite") /\ up
  /\ available' = available \cup {[generation |-> seen[a], uri |-> uri[a]]}
  /\ Leave(a, IF a \in Servers THEN "serving" ELSE Finish(a))
  /\ UNCHANGED <<leased, gens, lockIn, closed, world>>

Kill(u) ==
  /\ At(u, "kill")
  /\ pc' = [pc EXCEPT ![u] = Finish(u), ![uri[u]] = "down"]
  /\ Drop(u, Finish(u))
  /\ UNCHANGED <<tuples, world>>

-----------------------------------------------------------------------------
(* expire_servers, under the global lock; its kill loop shares the steps   *)
(* of num_servers, _lease_server and release_server above.                 *)

Refresh(c) ==
  /\ c \in Refreshers /\ At(c, "idle") /\ refreshes < MaxRefreshes
  /\ refreshes' = refreshes + 1
  /\ op' = [op EXCEPT ![c] = "refresh"]
  /\ Goto(c, "lock")
  /\ UNCHANGED <<tuples, seen, count, uri, leaseGen, deadWaiter, up, logger, crashed, left>>

TakeLock(c) ==
  /\ At(c, "lock") /\ up /\ lockIn
  /\ lockIn' = FALSE
  /\ Goto(c, "takeGeneration")
  /\ UNCHANGED <<pool, gens, closed, locals, world>>

TakeGeneration(c) ==
  /\ At(c, "takeGeneration") /\ up /\ generationIn
  /\ generationIn' = FALSE
  /\ seen' = [seen EXCEPT ![c] = generation]
  /\ Goto(c, "writeGeneration")
  /\ UNCHANGED <<pool, generation, lockIn, closed, op, count, uri, leaseGen, world>>

WriteGeneration(c) ==
  /\ At(c, "writeGeneration") /\ up
  /\ generation' = seen[c] + 1 /\ generationIn' = TRUE
  /\ Goto(c, "countAvailable")
  /\ UNCHANGED <<pool, lockIn, closed, locals, world>>

Unlock(c) ==
  /\ At(c, "unlock") /\ up
  /\ lockIn' = TRUE
  /\ Leave(c, "idle")
  /\ UNCHANGED <<pool, gens, closed, world>>

-----------------------------------------------------------------------------
(* discard, and the end of the registry process.                           *)

\* The closing thread asks for notifications once the port is open: a close!
\* before that it never hears of.
Listen ==
  /\ At(Closer, "starting") /\ up
  /\ Goto(Closer, "waiting")
  /\ UNCHANGED <<tuples, locals, world>>

\* close! writes the tuple; the notification wakes the closing thread.
Discard(c) ==
  /\ c \in Discarders /\ At(c, "idle") /\ up
  /\ closed' = TRUE
  /\ pc' = [pc EXCEPT ![c] = "discarding",
                      ![Closer] = IF @ = "waiting" THEN "countAvailable" ELSE @]
  /\ UNCHANGED <<pool, gens, lockIn, locals, world>>

\* Thread.main.exit: the process and its tuples are gone.
RegistryExit ==
  /\ At(Closer, "countLeased") /\ up /\ NumServers(Closer) = 0
  /\ up' = FALSE
  /\ available' = {} /\ leased' = {}
  /\ Goto(Closer, "exited")
  /\ UNCHANGED <<gens, lockIn, closed, locals,
                 deadWaiter, logger, refreshes, crashed, left>>

\* ServerRegistryOffline out of any tuple space call but registry_open?; for
\* discard, the end of its wait.
NeedsRegistry == {"generation", "countAvailable", "countLeased", "take", "writeLeased",
  "fetch", "holding", "release", "relGeneration", "regGeneration", "regWrite",
  "lock", "takeGeneration", "writeGeneration", "unlock", "discarding"}

Offline(a) ==
  /\ ~up /\ a \notin crashed /\ pc[a] \in NeedsRegistry
  /\ Leave(a, IF a \in Servers THEN "down" ELSE "offline")
  /\ UNCHANGED <<tuples, world>>

\* The thread that calls test! every five seconds finds the registry gone.
WatchRegistry(s) ==
  /\ ~up /\ pc[s] = "serving"
  /\ Goto(s, "down")
  /\ UNCHANGED <<tuples, locals, world>>

-----------------------------------------------------------------------------
(* Processes die.  What a dead process had taken is not written back, and  *)
(* a take it had already called for stays pending in the registry.         *)

ClientCrash(c) ==
  /\ c \in Mortal \ crashed
  /\ crashed' = crashed \cup {c}
  /\ deadWaiter' \in {deadWaiter, deadWaiter \/ pc[c] = "lock"}
  /\ UNCHANGED <<tuples, pc, locals, up, logger, refreshes, left>>

ServerCrash(s) ==
  /\ ServersCrash /\ ServerUp(s)
  /\ Leave(s, "down")
  /\ deadWaiter' \in {deadWaiter, deadWaiter \/ \E c \in Clients : pc[c] = "fetch" /\ uri[c] = s}
  /\ UNCHANGED <<tuples, up, logger, refreshes, crashed, left>>

DeadTake ==
  /\ up /\ deadWaiter /\ lockIn
  /\ lockIn' = FALSE /\ deadWaiter' = FALSE
  /\ UNCHANGED <<pool, gens, closed, pc, locals,
                 up, logger, refreshes, crashed, left>>

-----------------------------------------------------------------------------

Lease(u) == \/ ReadGeneration(u) \/ CountAvailable(u) \/ CountLeased(u) \/ CheckOpen(u)
            \/ Take(u) \/ TakeExpires(u) \/ FailUnlessOpen(u) \/ CheckAlive(u) \/ WriteLeased(u)
Use(c)   == \/ SetLogger(c) \/ Send(c) \/ FetchLibrary(c) \/ LibraryFetched(c)
            \/ Eval(c) \/ ClearLogger(c) \/ ServerLost(c)
Return(u) == Release(u) \/ CheckGeneration(u) \/ CheckClosed(u) \/ Kill(u)
Register(a) == RegisterOpen(a) \/ RegisterGeneration(a) \/ RegisterWrite(a)
Expire(c) == TakeLock(c) \/ TakeGeneration(c) \/ WriteGeneration(c) \/ Unlock(c)

\* The steps of an operation under way, as opposed to the arrival of a new one,
\* and to the end of a library, which nothing limits.
Step(a) == \/ a \in Users /\ (Lease(a) \/ Return(a))
           \/ a \in Clients /\ (Use(a) \/ Expire(a))
           \/ a = Closer /\ (Listen \/ RegistryExit)
           \/ a \in Servers /\ WatchRegistry(a)
           \/ Register(a) \/ Offline(a)

Next == \/ \E a \in Actors : Step(a)
        \/ \E c \in Clients : Call(c) \/ Refresh(c) \/ Discard(c) \/ ClientCrash(c) \/ EvalLibrary(c)
        \/ \E s \in Servers : ServerCrash(s)
        \/ DeadTake

Spec == Init /\ [][Next]_vars

-----------------------------------------------------------------------------
(* Properties. *)

InHand(a)  == pc[a] \in {"alive", "writeLeased", "relGeneration", "relOpen",
                         "regOpen", "regGeneration", "regWrite", "kill"}
Engaged(a) == InHand(a) \/ InUse(a) \/ (pc[a] = "release" /\ uri[a] # NoServer)
InLock(c)  == \/ pc[c] = "holding"
              \/ op[c] = "refresh" /\ pc[c] # "lock"

ClientLabels == {"idle", "generation", "countAvailable", "countLeased", "checkOpen",
  "take", "expired", "alive", "writeLeased", "setLogger", "send", "fetch", "holding",
  "library", "eval", "clearLogger", "release", "relGeneration", "relOpen", "kill", "regOpen",
  "regGeneration", "regWrite", "lock", "takeGeneration", "writeGeneration", "unlock",
  "discarding", "offline"}
CloserLabels == {"starting", "waiting", "countAvailable", "countLeased", "take", "alive",
  "writeLeased", "release", "relGeneration", "relOpen", "kill", "regOpen",
  "regGeneration", "regWrite", "died", "exited"}
ServerLabels == {"down", "regOpen", "regGeneration", "regWrite", "serving"}

\* Every variable keeps its type, and an actor only reaches labels of the
\* code it runs: the closing thread never returns from its kill loop into a
\* client's code, a server only registers and serves.
TypeOK ==
  /\ available \in SUBSET [generation : Nat, uri : Servers]
  /\ leased \in SUBSET [client : Users, generation : Nat, uri : Servers]
  /\ generation \in Nat /\ refreshes \in Nat
  /\ {generationIn, lockIn, closed, deadWaiter, up} \subseteq BOOLEAN
  /\ pc \in [Actors -> ClientLabels \cup CloserLabels \cup ServerLabels]
  /\ \A c \in Clients : pc[c] \in ClientLabels /\ op[c] \in {"none", "call", "refresh"}
  /\ pc[Closer] \in CloserLabels /\ op[Closer] = "close"
  /\ \A s \in Servers : pc[s] \in ServerLabels /\ op[s] = "none"
  /\ op \in [Actors -> {"none", "call", "refresh", "close"}]
  /\ seen \in [Actors -> Nat \cup {AnyGeneration}] /\ count \in [Actors -> Nat]
  /\ uri \in [Actors -> Servers \cup {NoServer}] /\ leaseGen \in [Actors -> Nat]
  /\ logger \in [Servers -> Clients \cup {NoServer}] /\ left \in [Clients -> Nat]
  /\ crashed \subseteq Clients

\* A server is in one place only: with one caller, kill loop or booting
\* process, or in one available tuple.  The token discipline of
\* _lease_server, release_server and register_server gives it, across
\* refreshes, a closing registry and processes that die between two calls.
ExclusiveServer ==
  /\ \A a, b \in Actors : Engaged(a) /\ Engaged(b) /\ uri[a] = uri[b] => a = b
  /\ \A t \in available : \A a \in Actors : Engaged(a) => uri[a] # t.uri
  /\ \A t1, t2 \in available : t1.uri = t2.uri => t1 = t2

\* release_server takes back "the" lease of its client by client id alone:
\* there is never more than one, it is of the server the client just used,
\* and whoever uses a server, or is about to give it back, has a lease for it.
LeaseBelongsToCall ==
  /\ \A l \in leased : (InUse(l.client) \/ pc[l.client] = "release") /\ uri[l.client] = l.uri
  /\ \A l1, l2 \in leased : l1.client = l2.client => l1 = l2
  /\ up => \A u \in Users : Engaged(u) /\ ~InHand(u) => \E l \in leased : l.client = u

\* While the registry is open, a server process that runs is available to
\* somebody or in somebody's hands: release_server and expire_servers kill
\* what they forget.  (A client that dies does forget its server.)
NoServerForgotten ==
  up /\ ~closed =>
    \A s \in Servers : pc[s] = "serving" =>
      \/ \E t \in available : t.uri = s
      \/ \E u \in Users \ crashed : Engaged(u) /\ uri[u] = s

\* A script logs to the client that runs it, although @logger is shared state
\* of the server and a script that raises leaves it set (server_proxy.rb:43-45).
LogsToItsUser ==
  \A c \in Clients : InUse(c) /\ pc[c] # "setLogger" /\ ServerUp(uri[c]) => logger[uri[c]] = c

\* with_lock excludes: a library lookup and the body of expire_servers never
\* overlap, and nobody is inside while the lock tuple is in the space, also
\* when servers die under a lookup and clients while they wait or hold it.
LockHeldOnce ==
  up => /\ \A c, d \in Clients : InLock(c) /\ InLock(d) => c = d
        /\ lockIn => \A c \in Clients : ~InLock(c)

\* No increment of the generation is lost between the take and the write of
\* its tuple: it counts the refreshes that passed them.
EveryRefreshCounts ==
  up => generation = refreshes - Cardinality({c \in Clients : op[c] = "refresh"
                       /\ pc[c] \in {"lock", "takeGeneration", "writeGeneration"}})

\* The promise of server leasing, see ServerLeasing.tla.
UserOf(s) == IF \E c \in Clients : InUse(c) /\ uri[c] = s
             THEN CHOOSE c \in Clients : InUse(c) /\ uri[c] = s ELSE NoServer
Leasing == INSTANCE ServerLeasing WITH
             NoOne <- NoServer, ServersFail <- ServersCrash, open <- up,
             running <- {s \in Servers : ServerUp(s)},
             user <- [s \in Servers |-> UserOf(s)]

\* Whatever the tuples do, the clients see servers that are granted to one of
\* them at a time, stopped only when idle, and a registry that goes away only
\* when nobody runs anything.
ImplementsLeasing == Leasing!Spec

-----------------------------------------------------------------------------
(* Liveness: every process goes on with the operation it is in, and nothing *)
(* makes a client start one.  Weak fairness of a whole process is what an   *)
(* operating system gives; the polling loops are not assumed to be lucky.   *)

LiveSpec == Spec /\ \A a \in Actors : WF_vars(Step(a))

\* Some call gets a server whenever one waits: the pool as a whole never
\* polls in vain (lease_server's loop has no queue, so not each caller).
LeaseProgress == (\E c \in Callers : op[c] = "call" /\ pc[c] = "take")
                   ~> (\E c \in Callers : InUse(c))

\* What a call sends to a server ends, be it by timeout, error or loss: if the libraries
\* it runs end, which have no limit, and unless the lookups of other runs go by its
\* own for ever, as the lock tuple has no queue that would keep them from it.
RunsEnd ==
  \A c \in Callers :
    []<>(pc[c] # "library") /\ <>[](\A d \in Callers \ {c} : pc[d] # "holding") => (InUse(c) ~> ~InUse(c))

\* expire_servers gets through its kill loop while callers keep leasing,
\* releasing and starting servers around it.
RefreshEnds == \A c \in Refreshers : op[c] = "refresh" ~> op[c] = "none"

\* discard: once the closing thread has heard of close!, the registry process exits
\* and no server outlives it. Where servers may die on their own, the thread itself
\* may die in place of that, of the ServerOffline of one it had just taken, and
\* the registry stays, closed, for ever; so it does when close! comes before the
\* thread listens. No client may die, whose lease would be waited for.
DiscardEnds ==
  pc[Closer] \notin {"starting", "waiting"}
    ~> \/ ~up /\ \A s \in Servers : pc[s] = "down"
       \/ ServersCrash /\ pc[Closer] = "died"
=============================================================================
