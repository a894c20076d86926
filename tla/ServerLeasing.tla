---------------------------- MODULE ServerLeasing ----------------------------
(***************************************************************************)
(* What the pool of lib/bullring/util/server_registry.rb promises to the   *)
(* clients of ServerProxy#method_missing, without tuples, generations or   *)
(* locks: servers come and go, a server that runs is granted to one client *)
(* at a time, is stopped only while idle, and the registry goes away only  *)
(* when every client has given its server back.                            *)
(***************************************************************************)
CONSTANTS
  Clients, Servers,
  NoOne,        \* not a client
  ServersFail   \* TRUE when a server may die under its user

VARIABLES
  running,  \* servers whose process runs
  user,     \* user[s]: the client server s is granted to, or NoOne
  open      \* the registry is there

vars == <<running, user, open>>

Init == running = {} /\ user = [s \in Servers |-> NoOne] /\ open = TRUE

\* start_a_server
Start(s) ==
  /\ s \notin running /\ user[s] = NoOne
  /\ running' = running \cup {s}
  /\ UNCHANGED <<user, open>>

\* lease_server! returns; the server was alive when last asked.
Grant(s, c) ==
  /\ open /\ user[s] = NoOne /\ (s \in running \/ ServersFail)
  /\ \A r \in Servers : user[r] # c
  /\ user' = [user EXCEPT ![s] = c]
  /\ UNCHANGED <<running, open>>

\* release_server
GiveBack(s) ==
  /\ user[s] # NoOne
  /\ user' = [user EXCEPT ![s] = NoOne]
  /\ UNCHANGED <<running, open>>

\* A server is killed, or ends with its registry.
Stop(s) ==
  /\ s \in running /\ user[s] = NoOne
  /\ running' = running \ {s}
  /\ UNCHANGED <<user, open>>

Fail(s) ==
  /\ ServersFail /\ s \in running
  /\ running' = running \ {s}
  /\ UNCHANGED <<user, open>>

\* The registry process exits.
Close ==
  /\ open /\ \A s \in Servers : user[s] = NoOne
  /\ open' = FALSE
  /\ UNCHANGED <<running, user>>

Next == \/ \E s \in Servers : Start(s) \/ GiveBack(s) \/ Stop(s) \/ Fail(s)
        \/ \E s \in Servers, c \in Clients : Grant(s, c)
        \/ Close

Spec == Init /\ [][Next]_vars
=============================================================================
