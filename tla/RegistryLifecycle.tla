------------------------- MODULE RegistryLifecycle -------------------------
(***************************************************************************)
(* The life and death of the registry process around the calls of its      *)
(* clients: ServerProxy (util/server_proxy.rb) and the initialize method   *)
(* of ServerRegistry (util/server_registry.rb) in clients and in servers.  *)
(*                                                                         *)
(* A client object knows the registry by its uri only: it talks to the     *)
(* process that has the port now, also to one that has replaced the one it *)
(* got its client id from.  pc[a] names the next call:                     *)
(*   check wait takeId writeId     ServerRegistry#initialize               *)
(*   lease poll send eval ensure   ServerProxy#method_missing (a run)      *)
(*   close polling                 ServerProxy#discard                     *)
(*   register serving              RhinoServer#initialize                  *)
(* The pool is that of ServerRegistry without generations, its lease and   *)
(* release one step each (ServerRegistry implements ServerLeasing).        *)
(***************************************************************************)
EXTENDS Integers, FiniteSets

CONSTANTS
  Clients,    \* processes that use Bullring
  Servers,    \* uris of server processes; one is used again when it is free
  NoServer,   \* nil
  MAX_SERVERS_PER_GENERATION,
  MaxLives,   \* bound: registry processes that get the port
  MaxIds,     \* bound: client ids one of them hands out
  MaxDiscards,\* bound: calls of discard
  Slow        \* a connection may take more than a second

Actors == Clients \cup Servers

ASSUME LifecycleAssumption ==
  /\ Clients \cap Servers = {} /\ NoServer \notin Actors /\ IsFiniteSet(Servers)
  /\ MAX_SERVERS_PER_GENERATION \in Nat /\ MaxLives \in Nat /\ MaxIds \in Nat /\ MaxDiscards \in Nat /\ Slow \in BOOLEAN

VARIABLES
  up, life,          \* a registry has the port; how many have had it
  tokens,            \* the [:next_client_id, n] tuples: how many for each n
  available, leased, \* servers; [id, server]
  closed, listener,  \* [:registry_closed]; its thread: "late", "waiting", "closing"
  child,             \* clients with a forked process that has not bound the port
  pc,
  taken, id,         \* the id in hand in initialize; that of @server_registry
  server,            \* the local variable of method_missing
  retries, rescuing, \* num_retries; in its rescue clause
  op, ran,           \* run or discard; times this call's script was run
  discards           \* calls of discard so far

space  == <<tokens, available, leased, closed, listener>>
port   == <<up, life, child>>
locals == <<taken, id, server, retries, rescuing, op, ran>>
vars   == <<port, space, pc, locals, discards>>

NoId == -1
Ids  == 0 .. MaxIds
Goto(a, label) == pc' = [pc EXCEPT ![a] = label]
Set(f, a, v)   == [f EXCEPT ![a] = v]

\* registry_unavailable?: a connection that takes too long counts as none.
Unavailable == {~up, Slow \/ ~up}

\* The next_client_id tuple of a new registry.
FirstToken == [n \in Ids |-> IF n = 0 THEN 1 ELSE 0]

Init ==
  /\ up = FALSE /\ life = 0 /\ child = {} /\ discards = 0
  /\ tokens = FirstToken /\ available = {} /\ leased = {} /\ closed = FALSE /\ listener = "late"
  /\ pc = [a \in Actors |-> IF a \in Clients THEN "idle" ELSE "down"]
  /\ taken = [a \in Actors |-> NoId] /\ id = [a \in Actors |-> NoId]
  /\ server = [c \in Clients |-> NoServer]
  /\ retries = [c \in Clients |-> 0] /\ rescuing = [c \in Clients |-> FALSE]
  /\ op = [c \in Clients |-> "run"] /\ ran = [c \in Clients |-> 0]

\* A call is over, and with it its local variables.
Forget(c) == /\ server' = Set(server, c, NoServer) /\ retries' = Set(retries, c, 0)
             /\ op' = Set(op, c, "run") /\ ran' = Set(ran, c, 0)
End(c)    == Goto(c, "idle") /\ Forget(c)

\* Where an exception leads: ServerRegistryOffline in the body of
\* method_missing to its rescue clause, anything else to its ensure clause.
Raise(a, offline) ==
  LET discarding == a \in Clients /\ op[a] = "discard"
      label == IF a \in Servers THEN "down" ELSE IF discarding THEN "idle"
               ELSE IF offline /\ ~rescuing[a] THEN "check" ELSE "ensure"
  IN  /\ Goto(a, label)
      /\ rescuing' = IF a \in Clients THEN Set(rescuing, a, label = "check") ELSE rescuing
      /\ op' = IF discarding THEN Set(op, a, "run") ELSE op

-----------------------------------------------------------------------------
(* Slips: steps of the code as a plausible mistake would have them.  Spec   *)
(* uses none of them.                                                       *)

WriteIdNot(a) ==   \* the token not written back
  /\ pc[a] = "writeId" /\ up
  /\ id' = Set(id, a, taken[a]) /\ taken' = Set(taken, a, NoId)
  /\ Goto(a, IF a \in Servers THEN "register" ELSE IF op[a] = "discard" THEN "close" ELSE "lease")
  /\ UNCHANGED <<port, space, server, retries, rescuing, op, ran>>

ReleaseLostRetried(c) ==   \* the release in the body, not in ensure
  /\ pc[c] = "ensure" /\ ~up
  /\ IF server[c] = NoServer THEN End(c) /\ UNCHANGED rescuing
     ELSE Raise(c, TRUE) /\ UNCHANGED <<server, retries, ran>>
  /\ UNCHANGED <<port, space, taken, id>>

ReleaseNot(c) ==   \* if server.nil?
  /\ pc[c] = "ensure" /\ End(c) /\ UNCHANGED <<port, space, taken, id, rescuing>>

-----------------------------------------------------------------------------
(* ServerRegistry#initialize: start a registry when there is none, wait for *)
(* it, take a client id.                                                    *)

\* JRuby, which runs the servers, cannot fork: a server gives up here.
Check(a) ==
  /\ pc[a] = "check"
  /\ \E unavailable \in Unavailable :
       IF unavailable /\ a \in Servers THEN Goto(a, "down") /\ UNCHANGED child
       ELSE Goto(a, "wait") /\ child' = IF unavailable THEN child \cup {a} ELSE child
  /\ UNCHANGED <<up, life, space, locals>>

\* The forked process gets the port, or another has it and it ends.
Bind(c) ==
  /\ c \in child /\ child' = child \ {c}
  /\ IF ~up /\ life < MaxLives THEN up' = TRUE /\ life' = life + 1 ELSE UNCHANGED <<up, life>>
  /\ UNCHANGED <<space, pc, locals>>

Waited(a) ==
  /\ pc[a] = "wait" /\ up /\ Goto(a, "takeId")
  /\ UNCHANGED <<port, space, locals>>

\* After 20 seconds: a StandardError, or the NameError of its message.
GiveUp(a) ==
  /\ pc[a] = "wait" /\ TRUE \in Unavailable /\ Raise(a, FALSE)
  /\ UNCHANGED <<port, space, taken, id, server, retries, ran>>

TakeId(a) ==
  /\ pc[a] = "takeId" /\ up
  /\ \E n \in Ids \ {MaxIds} :
       /\ tokens[n] > 0
       /\ tokens' = Set(tokens, n, tokens[n] - 1) /\ taken' = Set(taken, a, n)
  /\ Goto(a, "writeId")
  /\ UNCHANGED <<port, available, leased, closed, listener, id, server, retries, rescuing, op, ran>>

\* In the rescue clause the caller gives up at the third failure.
WriteId(a) ==
  /\ pc[a] = "writeId" /\ up
  /\ tokens' = Set(tokens, taken[a] + 1, tokens[taken[a] + 1] + 1)
  /\ id' = Set(id, a, taken[a]) /\ taken' = Set(taken, a, NoId)
  /\ IF a \in Clients /\ rescuing[a]
     THEN /\ retries' = Set(retries, a, retries[a] + 1)
          /\ rescuing' = Set(rescuing, a, FALSE)
          /\ Goto(a, IF retries[a] + 1 < 3 THEN "lease" ELSE "ensure")
     ELSE /\ Goto(a, IF a \in Servers THEN "register" ELSE IF op[a] = "discard" THEN "close" ELSE "lease")
          /\ UNCHANGED <<retries, rescuing>>
  /\ UNCHANGED <<port, available, leased, closed, listener, server, op, ran>>

-----------------------------------------------------------------------------
(* ServerProxy#method_missing, for a run.                                   *)

Begin(c, what, label) ==
  /\ pc[c] = "idle" /\ op' = Set(op, c, what)
  /\ Goto(c, IF id[c] = NoId THEN "check" ELSE label)
  /\ UNCHANGED <<port, space, taken, id, server, retries, rescuing, ran>>

Call(c) == Begin(c, "run", "lease")

\* lease_server!: start a server if there are too few.
Lease(c) ==
  /\ pc[c] = "lease" /\ up
  /\ IF closed \/ Cardinality(available) + Cardinality(leased) >= MAX_SERVERS_PER_GENERATION
     THEN Goto(c, "poll")
     ELSE \/ \E s \in Servers : pc[s] = "down" /\ pc' = [pc EXCEPT ![c] = "poll", ![s] = "check"]
          \/ (\A s \in Servers : pc[s] # "down") /\ Goto(c, "poll")
  /\ UNCHANGED <<port, space, locals>>

Poll(c) ==
  /\ pc[c] = "poll" /\ up
  /\ \E s \in available :
       /\ available' = available \ {s}
       /\ IF pc[s] = "serving"
          THEN /\ leased' = leased \cup {[id |-> id[c], server |-> s]}
               /\ server' = Set(server, c, s) /\ Goto(c, "send")
          ELSE Goto(c, "lease") /\ UNCHANGED <<leased, server>>
  /\ UNCHANGED <<port, tokens, closed, listener, taken, id, retries, rescuing, op, ran>>

\* ServerRegistryClosed.
PollClosed(c) ==
  /\ pc[c] = "poll" /\ up /\ available = {} /\ closed
  /\ Raise(c, FALSE)
  /\ UNCHANGED <<port, space, taken, id, server, retries, ran>>

\* The script's libraries come from the registry before it runs; the server
\* passes the exception on when the registry is gone.
Send(c) ==
  /\ pc[c] = "send" /\ pc[server[c]] = "serving"
  /\ \/ Goto(c, "eval") /\ ran' = Set(ran, c, ran[c] + 1) /\ UNCHANGED <<rescuing, op>>
     \/ ~up /\ Raise(c, TRUE) /\ UNCHANGED ran
  /\ UNCHANGED <<port, space, taken, id, server, retries>>

Eval(c) ==
  /\ pc[c] = "eval" /\ Goto(c, "ensure")
  /\ UNCHANGED <<port, space, locals>>

\* ServerOffline.
ServerLost(c) ==
  /\ pc[c] \in {"send", "eval"} /\ pc[server[c]] # "serving" /\ Raise(c, FALSE)
  /\ UNCHANGED <<port, space, taken, id, server, retries, ran>>

\* release_server takes a lease of this client's id.  A server it has not
\* leased itself has no DRb object here, and is forgotten rather than killed.
Release(c) ==
  /\ pc[c] = "ensure" /\ up
  /\ LET mine == {l \in leased : server[c] # NoServer /\ l.id = id[c]} IN
     \/ mine = {} /\ End(c) /\ UNCHANGED space
     \/ \E l \in mine :
          /\ leased' = leased \ {l}
          /\ Forget(c)
          /\ IF closed
             THEN /\ UNCHANGED available
                  /\ \/ pc' = [pc EXCEPT ![c] = "idle", ![l.server] = "down"]
                     \/ l.server # server[c] /\ Goto(c, "idle")
             ELSE available' = available \cup {l.server} /\ Goto(c, "idle")
          /\ UNCHANGED <<tokens, closed, listener>>
  /\ UNCHANGED <<port, taken, id, rescuing>>

ReleaseLost(c) ==
  /\ pc[c] = "ensure" /\ ~up /\ End(c)
  /\ UNCHANGED <<port, space, taken, id, rescuing>>

\* ServerRegistryOffline from any other call of the registry.
Offline(a) ==
  /\ pc[a] \in {"takeId", "writeId", "lease", "poll", "close", "register"} /\ ~up
  /\ Raise(a, TRUE) /\ taken' = Set(taken, a, NoId)
  /\ UNCHANGED <<port, space, id, server, retries, ran>>

-----------------------------------------------------------------------------
(* Servers, and the end of a registry.                                      *)

Register(s) ==
  /\ pc[s] = "register" /\ up
  /\ IF closed THEN Goto(s, "down") /\ UNCHANGED available
     ELSE Goto(s, "serving") /\ available' = available \cup {s}
  /\ UNCHANGED <<port, tokens, leased, closed, listener, locals>>

\* Every five seconds a server looks whether there is a registry.
Watch(s) ==
  /\ pc[s] = "serving" /\ ~up /\ Goto(s, "down")
  /\ UNCHANGED <<port, space, locals>>

Discard(c) ==
  /\ discards < MaxDiscards /\ discards' = discards + 1
  /\ Begin(c, "discard", "close")

Close(c) ==
  /\ pc[c] = "close" /\ up
  /\ closed' = TRUE /\ listener' = IF listener = "late" THEN "late" ELSE "closing"
  /\ Goto(c, "polling")
  /\ UNCHANGED <<port, tokens, available, leased, locals>>

Discarded(c) ==
  /\ pc[c] = "polling" /\ TRUE \in Unavailable
  /\ id' = Set(id, c, NoId) /\ End(c)
  /\ UNCHANGED <<port, space, taken, rescuing>>

\* The closing thread asks to be notified after the port has opened.
Listen ==
  /\ up /\ listener = "late" /\ listener' = "waiting"
  /\ UNCHANGED <<port, tokens, available, leased, closed, pc, locals>>

Gone(dead) ==
  /\ up /\ up' = FALSE
  /\ tokens' = FirstToken /\ available' = {} /\ leased' = {} /\ closed' = FALSE /\ listener' = "late"
  /\ pc' = [a \in Actors |-> IF a \in dead THEN "down" ELSE pc[a]]
  /\ UNCHANGED <<life, child, locals>>

\* It kills the servers, the leased ones as they come back, and exits.
RegistryExit == listener = "closing" /\ leased = {} /\ Gone(available)

RegistryDies == Gone({})

Step(a) ==
  \/ Check(a) \/ Waited(a) \/ GiveUp(a) \/ TakeId(a) \/ WriteId(a) \/ Offline(a)
  \/ a \in Clients /\ \/ Bind(a) \/ Lease(a) \/ Poll(a) \/ PollClosed(a) \/ Send(a) \/ Eval(a)
                      \/ ServerLost(a) \/ Release(a) \/ ReleaseLost(a) \/ Close(a) \/ Discarded(a)
  \/ a \in Servers /\ (Register(a) \/ Watch(a))

Next == \/ /\ \/ \E a \in Actors : Step(a)
              \/ \E c \in Clients : Call(c)
              \/ Listen \/ RegistryExit \/ RegistryDies
           /\ UNCHANGED discards
        \/ \E c \in Clients : Discard(c)

Spec == Init /\ [][Next]_vars

-----------------------------------------------------------------------------
(* Properties. *)

Using == {"send", "eval"}

\* method_missing runs the whole call again when the registry goes away in the
\* middle of it, but never a script that has already run.
ScriptRunsOnce == \A c \in Clients : ran[c] <= 1

\* No lease outlives its call, through lost registries, retries and failed
\* reconnects: num_servers would count it for as long as the registry lives.
NoLeaseLeft ==
  \A l \in leased : \E c \in Clients : id[c] = l.id /\ pc[c] \in Using \cup {"ensure"}

\* Nobody waits for a client id in vain: while the registry lives its token is
\* in the space, or in the hands of somebody who writes it back.
IdTokenNotLost ==
  up => (\E n \in Ids : tokens[n] > 0) \/ \E a \in Actors : pc[a] = "writeId"
=============================================================================
