---------------------- MODULE RegistryLifecycleProofs ----------------------
(***************************************************************************)
(* Theorems about RegistryLifecycle, for any number of clients and servers *)
(* and any number of registries that die and are started again.            *)
(***************************************************************************)
EXTENDS RegistryLifecycle, TLAPS

(* The inductive invariant.  A registry that is gone has left nothing behind, *)
(* so that the next one starts with the first token and no lease.             *)
ClientLabels == {"idle", "check", "wait", "takeId", "writeId", "lease", "poll", "send", "eval",
                 "ensure", "close", "polling"}
ServerLabels == {"down", "check", "wait", "takeId", "writeId", "register", "serving"}

LabelsOf(a) == IF a \in Clients THEN ClientLabels ELSE ServerLabels

Labelled ==
  pc \in [Actors -> ClientLabels \cup ServerLabels] /\ \A a \in Actors : pc[a] \in LabelsOf(a)

Typed ==
  /\ up \in BOOLEAN /\ life \in Nat /\ child \subseteq Clients /\ discards \in Nat
  /\ tokens \in [Ids -> Nat] /\ available \subseteq Servers
  /\ leased \subseteq [id : Ids \cup {NoId}, server : Servers]
  /\ closed \in BOOLEAN /\ listener \in {"late", "waiting", "closing"}
  /\ taken \in [Actors -> Ids \cup {NoId}] /\ id \in [Actors -> Ids \cup {NoId}]
  /\ server \in [Clients -> Servers \cup {NoServer}]
  /\ retries \in [Clients -> Nat] /\ rescuing \in [Clients -> BOOLEAN]
  /\ op \in [Clients -> {"run", "discard"}] /\ ran \in [Clients -> Nat]

TypeOK == Typed /\ Labelled

\* What a label implies: an id in hand can be followed by another, a call
\* that has got past its client id is a run, a server is in a variable where
\* it is used, and a script that has run is on its way out.
Places ==
  /\ \A a \in Actors : pc[a] = "writeId" => taken[a] \in 0 .. MaxIds - 1
  /\ \A c \in Clients : /\ pc[c] \in {"lease", "poll", "send", "eval", "ensure"} => op[c] = "run"
                        /\ rescuing[c] => pc[c] \in {"check", "wait", "takeId", "writeId"} /\ op[c] = "run"
                        /\ pc[c] \in Using => server[c] \in Servers
                        /\ ran[c] = 0 \/ (ran[c] = 1 /\ pc[c] \in {"eval", "ensure"})

Fresh == ~up => tokens = FirstToken /\ leased = {}

\* A leased server is there, until the registry closes and it is killed.
LeasedServes ==
  \A l \in leased : pc[l.server] = "serving" \/ (closed /\ pc[l.server] = "down")

\* Client ids are not unique, a client may keep the one of a registry long
\* gone, and release_server takes any lease of its id: a lease is not tied to the
\* call that took it.  But there is an owner for each, who will release one.
Holds(c)  == pc[c] \in Using \cup {"ensure"} /\ server[c] \in Servers
Owners(h) ==
  /\ h \in [leased -> Clients]
  /\ \A l \in leased : Holds(h[l]) /\ id[h[l]] = l.id
  /\ \A l, m \in leased : h[l] = h[m] => l = m
Owned     == \E h \in [leased -> Clients] : Owners(h)

IInv == TypeOK /\ Places /\ Fresh /\ LeasedServes /\ Owned /\ IdTokenNotLost

\* Types.  A step that goes somewhere goes to a label of its actor,
LEMMA GotoLabel ==
  ASSUME Labelled, NEW a \in Actors, NEW l \in LabelsOf(a), Goto(a, l)
  PROVE  Labelled'
<1>1. l \in ClientLabels \cup ServerLabels
  BY DEF LabelsOf
<1> HIDE DEF LabelsOf, ClientLabels, ServerLabels
<1> QED BY <1>1 DEF Labelled, Goto

\* and so does an exception.
LEMMA RaiseType ==
  ASSUME Labelled, rescuing \in [Clients -> BOOLEAN], op \in [Clients -> {"run", "discard"}],
         NEW a \in Actors, NEW offline, Raise(a, offline)
  PROVE  Labelled' /\ rescuing' \in [Clients -> BOOLEAN] /\ op' \in [Clients -> {"run", "discard"}]
<1>1. Labelled'
  <2>1. PICK l : Goto(a, l) /\ l \in {"down", "idle", "check", "ensure"} /\ (l = "down" <=> a \in Servers)
    BY DEF Raise
  <2>2. l \in LabelsOf(a)
    BY <2>1, LifecycleAssumption DEF LifecycleAssumption, LabelsOf, ClientLabels, ServerLabels, Actors
  <2> QED BY <2>1, <2>2, GotoLabel
<1> QED BY <1>1 DEF Raise, Set

\* Some steps take a server with them.
LEMMA GotoBoth ==
  ASSUME Labelled, NEW c \in Clients, NEW l \in ClientLabels, NEW s \in Servers, NEW m \in ServerLabels,
         pc' = [pc EXCEPT ![c] = l, ![s] = m]
  PROVE  Labelled'
<1> USE LifecycleAssumption DEF LifecycleAssumption
<1>1. c \in Actors /\ s \in Actors /\ c # s /\ s \notin Clients
  BY DEF Actors
<1>2. LabelsOf(c) = ClientLabels /\ LabelsOf(s) = ServerLabels
  BY <1>1 DEF LabelsOf
<1>3. l \in ClientLabels \cup ServerLabels /\ m \in ClientLabels \cup ServerLabels
  OBVIOUS
<1> HIDE DEF LabelsOf, ClientLabels, ServerLabels
<1>4. pc' \in [Actors -> ClientLabels \cup ServerLabels]
  BY <1>3 DEF Labelled
<1>5. pc'[c] = l /\ pc'[s] = m /\ \A a \in Actors \ {c, s} : pc'[a] = pc[a]
  BY <1>1 DEF Labelled
<1> QED BY <1>2, <1>4, <1>5 DEF Labelled

\* A token is written back within the ids there are.
LEMMA TypeStep ==
  ASSUME TypeOK, Places, [Next]_vars
  PROVE  TypeOK'
<1> USE LifecycleAssumption DEF LifecycleAssumption, Set, Ids, NoId, space, port, locals, Typed, TypeOK
<1>l. /\ \A c \in Clients : LabelsOf(c) = ClientLabels /\ c \in Actors
      /\ \A s \in Servers : LabelsOf(s) = ServerLabels /\ s \in Actors
  BY DEF LabelsOf, Actors
<1>m. {"check", "wait", "takeId", "writeId"} \subseteq ClientLabels \cap ServerLabels
  BY DEF ClientLabels, ServerLabels
<1>n. \A a \in Actors : {"check", "wait", "takeId", "writeId"} \subseteq LabelsOf(a)
  BY <1>m DEF LabelsOf
<1>1. ASSUME NEW a \in Actors, Check(a), UNCHANGED discards PROVE TypeOK'
  <2>1. Goto(a, "wait") \/ (a \in Servers /\ Goto(a, "down"))
    BY <1>1 DEF Check
  <2>2. Labelled'
    BY <1>l, <1>n, <2>1, GotoLabel DEF ServerLabels
  <2>3. child' \subseteq Clients
    BY <1>1 DEF Check, Actors
  <2> QED BY <1>1, <2>2, <2>3 DEF Check
<1>2. ASSUME NEW a \in Actors, Waited(a), UNCHANGED discards PROVE TypeOK'
  <2>1. Goto(a, "takeId")
    BY <1>2 DEF Waited
  <2>2. Labelled'
    BY <1>n, <2>1, GotoLabel
  <2> QED BY <1>2, <2>2 DEF Waited
<1>3. ASSUME NEW a \in Actors, GiveUp(a), UNCHANGED discards PROVE TypeOK'
  <2>1. Raise(a, FALSE) /\ a \in Actors
    BY <1>3 DEF GiveUp, Actors
  <2>2. Labelled' /\ rescuing' \in [Clients -> BOOLEAN] /\ op' \in [Clients -> {"run", "discard"}]
    BY <2>1, RaiseType
  <2> QED BY <1>3, <2>2 DEF GiveUp
<1>4. ASSUME NEW a \in Actors, TakeId(a), UNCHANGED discards PROVE TypeOK'
  <2>1. Goto(a, "writeId")
    BY <1>4 DEF TakeId
  <2>2. Labelled'
    BY <1>n, <2>1, GotoLabel
  <2> QED BY <1>4, <2>2 DEF TakeId
<1>5. ASSUME NEW a \in Actors, WriteId(a), UNCHANGED discards PROVE TypeOK'
  <2>1. \/ \E l \in {"lease", "ensure", "close"} : a \in Clients /\ Goto(a, l)
        \/ a \in Servers /\ Goto(a, "register")
    BY <1>5 DEF WriteId, Actors
  <2>2. Labelled'
    BY <1>l, <2>1, GotoLabel DEF ClientLabels, ServerLabels
  <2>3. taken[a] \in 0 .. MaxIds - 1 /\ taken[a] + 1 \in Ids
    BY ONLY <1>5, a \in Actors, LifecycleAssumption, TypeOK, Places, SMTT(20) DEF WriteId, Places
  <2>4. tokens' \in [Ids -> Nat] /\ id' \in [Actors -> Ids \cup {NoId}] /\ taken' \in [Actors -> Ids \cup {NoId}]
    BY <1>5, <2>3, SMTT(20) DEF WriteId
  <2>5. retries' \in [Clients -> Nat] /\ rescuing' \in [Clients -> BOOLEAN]
    <3>1. CASE a \in Clients /\ rescuing[a]
      <4>1. retries[a] + 1 \in Nat /\ retries' = [retries EXCEPT ![a] = retries[a] + 1] /\ rescuing' = [rescuing EXCEPT ![a] = FALSE]
        BY <1>5, <3>1 DEF WriteId
      <4> QED BY <4>1
    <3>2. CASE ~(a \in Clients /\ rescuing[a])
      BY <1>5, <3>2 DEF WriteId
    <3> QED BY <3>1, <3>2
  <2> QED BY <1>5, <2>2, <2>4, <2>5 DEF WriteId
<1>6. ASSUME NEW a \in Actors, Offline(a), UNCHANGED discards PROVE TypeOK'
  <2>1. Raise(a, TRUE) /\ a \in Actors
    BY <1>6 DEF Offline, Actors
  <2>2. Labelled' /\ rescuing' \in [Clients -> BOOLEAN] /\ op' \in [Clients -> {"run", "discard"}]
    BY <2>1, RaiseType
  <2> QED BY <1>6, <2>2 DEF Offline
<1>7. ASSUME NEW c \in Clients, Bind(c), UNCHANGED discards PROVE TypeOK'
  <2>1. Labelled'
    BY <1>7 DEF Bind, Labelled
  <2>2. up' \in BOOLEAN
    <3>1. up' = TRUE \/ up' = up
      BY <1>7 DEF Bind
    <3>2. up \in BOOLEAN
      OBVIOUS
    <3> QED BY ONLY <3>1, <3>2, Zenon
  <2>3. life' \in Nat
    BY <1>7 DEF Bind
  <2>4. child' \subseteq Clients
    BY <1>7 DEF Bind
  <2>5. UNCHANGED <<space, locals, discards>>
    BY <1>7 DEF Bind
  <2> QED BY <2>1, <2>2, <2>3, <2>4, <2>5
<1>8. ASSUME NEW c \in Clients, Lease(c), UNCHANGED discards PROVE TypeOK'
  <2>1. Goto(c, "poll") \/ \E s \in Servers : pc' = [pc EXCEPT ![c] = "poll", ![s] = "check"]
    BY <1>8 DEF Lease, Goto
  <2>2. "poll" \in ClientLabels
    BY DEF ClientLabels
  <2>3. Labelled'
    BY <1>l, <1>m, <2>1, <2>2, GotoLabel, GotoBoth
  <2> QED BY <1>8, <2>3 DEF Lease
<1>9. ASSUME NEW c \in Clients, Poll(c), UNCHANGED discards PROVE TypeOK'
  <2>1. Goto(c, "send") \/ Goto(c, "lease")
    BY <1>9 DEF Poll
  <2>2. Labelled'
    BY <1>l, <2>1, GotoLabel DEF ClientLabels
  <2>3. PICK s \in available : /\ available' = available \ {s}
                              /\ leased' \in {leased, leased \cup {[id |-> id[c], server |-> s]}}
                              /\ server' \in {server, [server EXCEPT ![c] = s]}
    BY <1>9 DEF Poll
  <2>4. [id |-> id[c], server |-> s] \in [id : Ids \cup {NoId}, server : Servers]
    BY <1>l
  <2> QED BY <1>9, <2>2, <2>3, <2>4 DEF Poll
<1>10. ASSUME NEW c \in Clients, PollClosed(c), UNCHANGED discards PROVE TypeOK'
  <2>1. Raise(c, FALSE) /\ c \in Actors
    BY <1>10 DEF PollClosed, Actors
  <2>2. Labelled' /\ rescuing' \in [Clients -> BOOLEAN] /\ op' \in [Clients -> {"run", "discard"}]
    BY <2>1, RaiseType
  <2> QED BY <1>10, <2>2 DEF PollClosed
<1>11. ASSUME NEW c \in Clients, Send(c), UNCHANGED discards PROVE TypeOK'
  <2>1. CASE Raise(c, TRUE) /\ UNCHANGED ran
    <3>1. Labelled' /\ rescuing' \in [Clients -> BOOLEAN] /\ op' \in [Clients -> {"run", "discard"}]
      BY <1>l, <2>1, RaiseType
    <3> QED BY <1>11, <2>1, <3>1 DEF Send
  <2>2. CASE Goto(c, "eval") /\ ran' = Set(ran, c, ran[c] + 1) /\ UNCHANGED <<rescuing, op>>
    <3>1. Labelled'
      BY <1>l, <2>2, GotoLabel DEF ClientLabels
    <3> QED BY <1>11, <2>2, <3>1 DEF Send
  <2> QED BY <1>11, <2>1, <2>2 DEF Send
<1>12. ASSUME NEW c \in Clients, Eval(c), UNCHANGED discards PROVE TypeOK'
  <2>1. Goto(c, "ensure")
    BY <1>12 DEF Eval
  <2>2. Labelled'
    BY <1>l, <2>1, GotoLabel DEF ClientLabels
  <2> QED BY <1>12, <2>2 DEF Eval
<1>13. ASSUME NEW c \in Clients, ServerLost(c), UNCHANGED discards PROVE TypeOK'
  <2>1. Raise(c, FALSE) /\ c \in Actors
    BY <1>13 DEF ServerLost, Actors
  <2>2. Labelled' /\ rescuing' \in [Clients -> BOOLEAN] /\ op' \in [Clients -> {"run", "discard"}]
    BY <2>1, RaiseType
  <2> QED BY <1>13, <2>2 DEF ServerLost
<1>14. ASSUME NEW c \in Clients, Release(c), UNCHANGED discards PROVE TypeOK'
  <2>1. \/ Goto(c, "idle")
        \/ \E l \in leased : pc' = [pc EXCEPT ![c] = "idle", ![l.server] = "down"]
    BY <1>14 DEF Release, End, Goto
  <2>2. "idle" \in ClientLabels /\ "down" \in ServerLabels
    BY DEF ClientLabels, ServerLabels
  <2>3. \A l \in leased : l.server \in Servers
    OBVIOUS
  <2>4. Labelled'
    BY <1>l, <2>1, <2>2, <2>3, GotoLabel, GotoBoth
  <2>5. leased' \subseteq leased /\ available' \subseteq Servers
    BY <1>14, <2>3 DEF Release
  <2>6. Forget(c) /\ UNCHANGED <<port, tokens, closed, listener, taken, id, rescuing>>
    BY <1>14 DEF Release, End
  <2> QED BY <1>14, <2>4, <2>5, <2>6 DEF Forget
<1>15. ASSUME NEW c \in Clients, ReleaseLost(c), UNCHANGED discards PROVE TypeOK'
  <2>1. Goto(c, "idle")
    BY <1>15 DEF ReleaseLost, End
  <2>2. Labelled'
    BY <1>l, <2>1, GotoLabel DEF ClientLabels
  <2> QED BY <1>15, <2>2 DEF ReleaseLost, End, Forget
<1>16. ASSUME NEW c \in Clients, Close(c), UNCHANGED discards PROVE TypeOK'
  <2>1. Goto(c, "polling")
    BY <1>16 DEF Close
  <2>2. Labelled'
    BY <1>l, <2>1, GotoLabel DEF ClientLabels
  <2> QED BY <1>16, <2>2 DEF Close
<1>17. ASSUME NEW c \in Clients, Discarded(c), UNCHANGED discards PROVE TypeOK'
  <2>1. Goto(c, "idle")
    BY <1>17 DEF Discarded, End
  <2>2. Labelled'
    BY <1>l, <2>1, GotoLabel DEF ClientLabels
  <2> QED BY <1>17, <2>2 DEF Discarded, End, Forget
<1>18. ASSUME NEW c \in Clients, Call(c), UNCHANGED discards PROVE TypeOK'
  <2>1. Goto(c, "check") \/ Goto(c, "lease")
    BY <1>18 DEF Call, Begin
  <2>2. Labelled'
    BY <1>l, <2>1, GotoLabel DEF ClientLabels
  <2> QED BY <1>18, <2>2 DEF Call, Begin
<1>19. ASSUME NEW c \in Clients, Discard(c) PROVE TypeOK'
  <2>1. Goto(c, "check") \/ Goto(c, "close")
    BY <1>19 DEF Discard, Begin
  <2>2. Labelled'
    BY <1>l, <2>1, GotoLabel DEF ClientLabels
  <2> QED BY <1>19, <2>2 DEF Discard, Begin
<1>20. ASSUME NEW s \in Servers, Register(s), UNCHANGED discards PROVE TypeOK'
  <2>1. Goto(s, "down") \/ Goto(s, "serving")
    BY <1>20 DEF Register
  <2>2. Labelled'
    BY <1>l, <2>1, GotoLabel DEF ServerLabels
  <2> QED BY <1>20, <2>2 DEF Register
<1>21. ASSUME NEW s \in Servers, Watch(s), UNCHANGED discards PROVE TypeOK'
  <2>1. Goto(s, "down") \/ Goto(s, "serving")
    BY <1>21 DEF Watch
  <2>2. Labelled'
    BY <1>l, <2>1, GotoLabel DEF ServerLabels
  <2> QED BY <1>21, <2>2 DEF Watch
<1>22. ASSUME Listen, UNCHANGED discards PROVE TypeOK'
  <2>1. Labelled'
    BY <1>22 DEF Listen, Labelled
  <2> QED BY <1>22, <2>1 DEF Listen
<1>23. ASSUME NEW dead \in SUBSET Servers, Gone(dead), UNCHANGED discards PROVE TypeOK'
  <2>1. Labelled'
    <3>1. "down" \in ServerLabels
      BY DEF ServerLabels
    <3> QED BY <1>23, <1>l, <3>1 DEF Gone, Labelled
  <2> QED BY <1>23, <2>1 DEF Gone, FirstToken
<1>24. ASSUME RegistryExit \/ RegistryDies, UNCHANGED discards PROVE TypeOK'
  BY <1>23, <1>24 DEF RegistryExit, RegistryDies
<1>25. ASSUME UNCHANGED vars PROVE TypeOK'
  BY <1>25 DEF vars, Labelled
<1> QED
  BY <1>1, <1>2, <1>3, <1>4, <1>5, <1>6, <1>7, <1>8, <1>9, <1>10, <1>11, <1>12, <1>13,
     <1>14, <1>15, <1>16, <1>17, <1>18, <1>19, <1>20, <1>21, <1>22, <1>23, <1>24, <1>25 DEF Next, Step

\* What labels imply stays true.
LEMMA PlacesStep ==
  ASSUME TypeOK, Places, [Next]_vars
  PROVE  Places'
<1> USE LifecycleAssumption DEF LifecycleAssumption, Set, Goto, Using, space, port, locals, Typed, Labelled, TypeOK, Places, Actors
<1>1. ASSUME NEW a \in Actors, Check(a) PROVE Places'
  BY <1>1 DEF Check
<1>2. ASSUME NEW a \in Actors, Waited(a) PROVE Places'
  BY <1>2 DEF Waited
<1>3. ASSUME NEW a \in Actors, GiveUp(a) PROVE Places'
  <2>1. CASE a \in Clients
    BY <1>3, <2>1 DEF GiveUp, Raise
  <2>2. CASE a \in Servers
    BY <1>3, <2>2 DEF GiveUp, Raise
  <2> QED BY <2>1, <2>2
<1>4. ASSUME NEW a \in Actors, TakeId(a) PROVE Places'
  <2>1. PICK n \in Ids \ {MaxIds} : taken' = Set(taken, a, n)
    BY <1>4 DEF TakeId
  <2>2. n \in 0 .. MaxIds - 1
    BY DEF Ids
  <2> QED BY <1>4, <2>1, <2>2 DEF TakeId
<1>5. ASSUME NEW a \in Actors, WriteId(a) PROVE Places'
  <2>1. /\ pc' = [pc EXCEPT ![a] = pc'[a]] /\ pc'[a] \in {"lease", "ensure", "close", "register"}
        /\ a \in Clients /\ pc'[a] \in {"lease", "ensure"} => op[a] = "run"
    <3>1. CASE a \in Clients /\ rescuing[a]
      BY <1>5, <3>1 DEF WriteId
    <3>2. CASE ~(a \in Clients /\ rescuing[a])
      BY <1>5, <3>2 DEF WriteId
    <3> QED BY <3>1, <3>2
  <2> QED BY <1>5, <2>1 DEF WriteId
<1>6. ASSUME NEW a \in Actors, Offline(a) PROVE Places'
  <2>1. CASE a \in Servers
    BY <1>6, <2>1 DEF Offline, Raise
  <2>2. CASE a \in Clients
    BY <1>6, <2>2 DEF Offline, Raise
  <2> QED BY <2>1, <2>2
<1>7. ASSUME NEW c \in Clients, Bind(c) PROVE Places'
  BY <1>7 DEF Bind
<1>8. ASSUME NEW c \in Clients, Lease(c) PROVE Places'
  BY <1>8 DEF Lease
<1>9. ASSUME NEW c \in Clients, Poll(c) PROVE Places'
  BY <1>9 DEF Poll
<1>10. ASSUME NEW c \in Clients, PollClosed(c) PROVE Places'
  BY <1>10 DEF PollClosed, Raise
<1>11. ASSUME NEW c \in Clients, Send(c) PROVE Places'
  BY <1>11 DEF Send, Raise
<1>12. ASSUME NEW c \in Clients, Eval(c) PROVE Places'
  BY <1>12 DEF Eval
<1>13. ASSUME NEW c \in Clients, ServerLost(c) PROVE Places'
  BY <1>13 DEF ServerLost, Raise
<1>14. ASSUME NEW c \in Clients, Release(c) PROVE Places'
  BY <1>14 DEF Release, End, Forget
<1>15. ASSUME NEW c \in Clients, ReleaseLost(c) PROVE Places'
  BY <1>15 DEF ReleaseLost, End, Forget
<1>16. ASSUME NEW c \in Clients, Close(c) PROVE Places'
  BY <1>16 DEF Close
<1>17. ASSUME NEW c \in Clients, Discarded(c) PROVE Places'
  BY <1>17 DEF Discarded, End, Forget
<1>18. ASSUME NEW c \in Clients, Call(c) PROVE Places'
  BY <1>18 DEF Call, Begin
<1>19. ASSUME NEW c \in Clients, Discard(c) PROVE Places'
  BY <1>19 DEF Discard, Begin
<1>20. ASSUME NEW s \in Servers, Register(s) PROVE Places'
  BY <1>20 DEF Register
<1>21. ASSUME NEW s \in Servers, Watch(s) PROVE Places'
  BY <1>21 DEF Watch
<1>22. ASSUME Listen PROVE Places'
  BY <1>22 DEF Listen
<1>23. ASSUME RegistryExit PROVE Places'
  BY <1>23 DEF RegistryExit, Gone
<1>24. ASSUME RegistryDies PROVE Places'
  BY <1>24 DEF RegistryDies, Gone
<1>25. ASSUME UNCHANGED vars PROVE Places'
  BY <1>25 DEF vars
<1> QED
  BY <1>1, <1>2, <1>3, <1>4, <1>5, <1>6, <1>7, <1>8, <1>9, <1>10, <1>11, <1>12, <1>13,
     <1>14, <1>15, <1>16, <1>17, <1>18, <1>19, <1>20, <1>21, <1>22, <1>23, <1>24, <1>25 DEF Next, Step

\* A registry that goes away takes its tuples along.
LEMMA FreshStep ==
  ASSUME Fresh, [Next]_vars
  PROVE  Fresh'
<1> USE DEF space, port, locals, Fresh
<1>1. ASSUME NEW a \in Actors, Check(a) PROVE Fresh'
  BY <1>1 DEF Check
<1>2. ASSUME NEW a \in Actors, Waited(a) PROVE Fresh'
  BY <1>2 DEF Waited
<1>3. ASSUME NEW a \in Actors, GiveUp(a) PROVE Fresh'
  BY <1>3 DEF GiveUp, Raise
<1>4. ASSUME NEW a \in Actors, TakeId(a) PROVE Fresh'
  BY <1>4 DEF TakeId
<1>5. ASSUME NEW a \in Actors, WriteId(a) PROVE Fresh'
  BY <1>5 DEF WriteId
<1>6. ASSUME NEW a \in Actors, Offline(a) PROVE Fresh'
  BY <1>6 DEF Offline, Raise
<1>7. ASSUME NEW c \in Clients, Bind(c) PROVE Fresh'
  BY <1>7 DEF Bind
<1>8. ASSUME NEW c \in Clients, Lease(c) PROVE Fresh'
  BY <1>8 DEF Lease
<1>9. ASSUME NEW c \in Clients, Poll(c) PROVE Fresh'
  BY <1>9 DEF Poll
<1>10. ASSUME NEW c \in Clients, PollClosed(c) PROVE Fresh'
  BY <1>10 DEF PollClosed, Raise
<1>11. ASSUME NEW c \in Clients, Send(c) PROVE Fresh'
  BY <1>11 DEF Send, Raise
<1>12. ASSUME NEW c \in Clients, Eval(c) PROVE Fresh'
  BY <1>12 DEF Eval
<1>13. ASSUME NEW c \in Clients, ServerLost(c) PROVE Fresh'
  BY <1>13 DEF ServerLost, Raise
<1>14. ASSUME NEW c \in Clients, Release(c) PROVE Fresh'
  BY <1>14 DEF Release, End, Forget
<1>15. ASSUME NEW c \in Clients, ReleaseLost(c) PROVE Fresh'
  BY <1>15 DEF ReleaseLost, End, Forget
<1>16. ASSUME NEW c \in Clients, Close(c) PROVE Fresh'
  BY <1>16 DEF Close
<1>17. ASSUME NEW c \in Clients, Discarded(c) PROVE Fresh'
  BY <1>17 DEF Discarded, End, Forget
<1>18. ASSUME NEW c \in Clients, Call(c) PROVE Fresh'
  BY <1>18 DEF Call, Begin
<1>19. ASSUME NEW c \in Clients, Discard(c) PROVE Fresh'
  BY <1>19 DEF Discard, Begin
<1>20. ASSUME NEW s \in Servers, Register(s) PROVE Fresh'
  BY <1>20 DEF Register
<1>21. ASSUME NEW s \in Servers, Watch(s) PROVE Fresh'
  BY <1>21 DEF Watch
<1>22. ASSUME Listen PROVE Fresh'
  BY <1>22 DEF Listen
<1>23. ASSUME RegistryExit PROVE Fresh'
  BY <1>23 DEF RegistryExit, Gone
<1>24. ASSUME RegistryDies PROVE Fresh'
  BY <1>24 DEF RegistryDies, Gone
<1>25. ASSUME UNCHANGED vars PROVE Fresh'
  BY <1>25 DEF vars
<1> QED
  BY <1>1, <1>2, <1>3, <1>4, <1>5, <1>6, <1>7, <1>8, <1>9, <1>10, <1>11, <1>12, <1>13,
     <1>14, <1>15, <1>16, <1>17, <1>18, <1>19, <1>20, <1>21, <1>22, <1>23, <1>24, <1>25 DEF Next, Step

\* A leased server serves: it leaves its lease first, but for one that is killed
\* by a registry that is closing and starts no other.
LEMMA ServesStep ==
  ASSUME TypeOK, Fresh, LeasedServes, [Next]_vars
  PROVE  LeasedServes'
<1> USE LifecycleAssumption DEF LifecycleAssumption, Set, Goto, space, port, locals, Typed, Labelled,
        TypeOK, Fresh, Actors, LeasedServes
<1>1. ASSUME NEW a \in Actors, Check(a) PROVE LeasedServes'
  BY <1>1 DEF Check
<1>2. ASSUME NEW a \in Actors, Waited(a) PROVE LeasedServes'
  BY <1>2 DEF Waited
<1>3. ASSUME NEW a \in Actors, GiveUp(a) PROVE LeasedServes'
  BY <1>3 DEF GiveUp, Raise
<1>4. ASSUME NEW a \in Actors, TakeId(a) PROVE LeasedServes'
  BY <1>4 DEF TakeId
<1>5. ASSUME NEW a \in Actors, WriteId(a) PROVE LeasedServes'
  BY <1>5 DEF WriteId
<1>6. ASSUME NEW a \in Actors, Offline(a) PROVE LeasedServes'
  BY <1>6 DEF Offline, Raise
<1>7. ASSUME NEW c \in Clients, Bind(c) PROVE LeasedServes'
  BY <1>7 DEF Bind
<1>8. ASSUME NEW c \in Clients, Lease(c) PROVE LeasedServes'
  BY <1>8 DEF Lease
<1>9. ASSUME NEW c \in Clients, Poll(c) PROVE LeasedServes'
  BY <1>9 DEF Poll
<1>10. ASSUME NEW c \in Clients, PollClosed(c) PROVE LeasedServes'
  BY <1>10 DEF PollClosed, Raise
<1>11. ASSUME NEW c \in Clients, Send(c) PROVE LeasedServes'
  BY <1>11 DEF Send, Raise
<1>12. ASSUME NEW c \in Clients, Eval(c) PROVE LeasedServes'
  BY <1>12 DEF Eval
<1>13. ASSUME NEW c \in Clients, ServerLost(c) PROVE LeasedServes'
  BY <1>13 DEF ServerLost, Raise
<1>14. ASSUME NEW c \in Clients, Release(c) PROVE LeasedServes'
  BY <1>14 DEF Release, End, Forget
<1>15. ASSUME NEW c \in Clients, ReleaseLost(c) PROVE LeasedServes'
  BY <1>15 DEF ReleaseLost, End, Forget
<1>16. ASSUME NEW c \in Clients, Close(c) PROVE LeasedServes'
  BY <1>16 DEF Close
<1>17. ASSUME NEW c \in Clients, Discarded(c) PROVE LeasedServes'
  BY <1>17 DEF Discarded, End, Forget
<1>18. ASSUME NEW c \in Clients, Call(c) PROVE LeasedServes'
  BY <1>18 DEF Call, Begin
<1>19. ASSUME NEW c \in Clients, Discard(c) PROVE LeasedServes'
  BY <1>19 DEF Discard, Begin
<1>20. ASSUME NEW s \in Servers, Register(s) PROVE LeasedServes'
  BY <1>20 DEF Register
<1>21. ASSUME NEW s \in Servers, Watch(s) PROVE LeasedServes'
  BY <1>21 DEF Watch
<1>22. ASSUME Listen PROVE LeasedServes'
  BY <1>22 DEF Listen
<1>23. ASSUME RegistryExit PROVE LeasedServes'
  BY <1>23 DEF RegistryExit, Gone
<1>24. ASSUME RegistryDies PROVE LeasedServes'
  BY <1>24 DEF RegistryDies, Gone
<1>25. ASSUME UNCHANGED vars PROVE LeasedServes'
  BY <1>25 DEF vars
<1> QED
  BY <1>1, <1>2, <1>3, <1>4, <1>5, <1>6, <1>7, <1>8, <1>9, <1>10, <1>11, <1>12, <1>13,
     <1>14, <1>15, <1>16, <1>17, <1>18, <1>19, <1>20, <1>21, <1>22, <1>23, <1>24, <1>25 DEF Next, Step

\* The token of client ids is taken by one who writes it back.
LEMMA TokenStep ==
  ASSUME TypeOK, Places, Fresh, LeasedServes, IdTokenNotLost, [Next]_vars
  PROVE  IdTokenNotLost'
<1> USE LifecycleAssumption DEF LifecycleAssumption, Set, Goto, Ids, space, port, locals, Typed, Labelled,
        TypeOK, Places, Fresh, LeasedServes, Actors, IdTokenNotLost, FirstToken
<1>1. ASSUME NEW a \in Actors, Check(a) PROVE IdTokenNotLost'
  BY <1>1 DEF Check
<1>2. ASSUME NEW a \in Actors, Waited(a) PROVE IdTokenNotLost'
  BY <1>2 DEF Waited
<1>3. ASSUME NEW a \in Actors, GiveUp(a) PROVE IdTokenNotLost'
  BY <1>3 DEF GiveUp, Raise
<1>4. ASSUME NEW a \in Actors, TakeId(a) PROVE IdTokenNotLost'
  BY <1>4 DEF TakeId
<1>5. ASSUME NEW a \in Actors, WriteId(a) PROVE IdTokenNotLost'
  BY <1>5 DEF WriteId
<1>6. ASSUME NEW a \in Actors, Offline(a) PROVE IdTokenNotLost'
  BY <1>6 DEF Offline, Raise
<1>7. ASSUME NEW c \in Clients, Bind(c) PROVE IdTokenNotLost'
  BY <1>7 DEF Bind
<1>8. ASSUME NEW c \in Clients, Lease(c) PROVE IdTokenNotLost'
  BY <1>8 DEF Lease
<1>9. ASSUME NEW c \in Clients, Poll(c) PROVE IdTokenNotLost'
  BY <1>9 DEF Poll
<1>10. ASSUME NEW c \in Clients, PollClosed(c) PROVE IdTokenNotLost'
  BY <1>10 DEF PollClosed, Raise
<1>11. ASSUME NEW c \in Clients, Send(c) PROVE IdTokenNotLost'
  BY <1>11 DEF Send, Raise
<1>12. ASSUME NEW c \in Clients, Eval(c) PROVE IdTokenNotLost'
  BY <1>12 DEF Eval
<1>13. ASSUME NEW c \in Clients, ServerLost(c) PROVE IdTokenNotLost'
  BY <1>13 DEF ServerLost, Raise
<1>14. ASSUME NEW c \in Clients, Release(c) PROVE IdTokenNotLost'
  BY <1>14 DEF Release, End, Forget
<1>15. ASSUME NEW c \in Clients, ReleaseLost(c) PROVE IdTokenNotLost'
  BY <1>15 DEF ReleaseLost, End, Forget
<1>16. ASSUME NEW c \in Clients, Close(c) PROVE IdTokenNotLost'
  BY <1>16 DEF Close
<1>17. ASSUME NEW c \in Clients, Discarded(c) PROVE IdTokenNotLost'
  BY <1>17 DEF Discarded, End, Forget
<1>18. ASSUME NEW c \in Clients, Call(c) PROVE IdTokenNotLost'
  BY <1>18 DEF Call, Begin
<1>19. ASSUME NEW c \in Clients, Discard(c) PROVE IdTokenNotLost'
  BY <1>19 DEF Discard, Begin
<1>20. ASSUME NEW s \in Servers, Register(s) PROVE IdTokenNotLost'
  BY <1>20 DEF Register
<1>21. ASSUME NEW s \in Servers, Watch(s) PROVE IdTokenNotLost'
  BY <1>21 DEF Watch
<1>22. ASSUME Listen PROVE IdTokenNotLost'
  BY <1>22 DEF Listen
<1>23. ASSUME RegistryExit PROVE IdTokenNotLost'
  BY <1>23 DEF RegistryExit, Gone
<1>24. ASSUME RegistryDies PROVE IdTokenNotLost'
  BY <1>24 DEF RegistryDies, Gone
<1>25. ASSUME UNCHANGED vars PROVE IdTokenNotLost'
  BY <1>25 DEF vars
<1> QED
  BY <1>1, <1>2, <1>3, <1>4, <1>5, <1>6, <1>7, <1>8, <1>9, <1>10, <1>11, <1>12, <1>13,
     <1>14, <1>15, <1>16, <1>17, <1>18, <1>19, <1>20, <1>21, <1>22, <1>23, <1>24, <1>25 DEF Next, Step

\* Leases keep their owners while these keep what they hold.
LEMMA OwnersKept ==
  ASSUME NEW h, Owners(h), leased' = leased,
         \A c \in Clients : (\E l \in leased : h[l] = c) => Holds(c)' /\ id'[c] = id[c]
  PROVE  Owned'
<1>1. h \in [leased -> Clients]
  BY DEF Owners
<1>2. \A l \in leased : h[l] \in Clients /\ Holds(h[l])' /\ id'[h[l]] = l.id
  BY <1>1 DEF Owners
<1>3. Owners(h)'
  BY <1>1, <1>2 DEF Owners
<1> QED BY <1>1, <1>3 DEF Owned

\* A client that releases a lease other than its own leaves its own to the
\* owner of the one it took: both are of the same id.
LEMMA OwnersSwap ==
  ASSUME NEW h, Owners(h), NEW c \in Clients, NEW l \in leased, l.id = id[c], leased' = leased \ {l},
         \A d \in Clients \ {c} : Holds(d) => Holds(d)' /\ id'[d] = id[d]
  PROVE  Owned'
<1>g. PICK g : g = [m \in leased \ {l} |-> IF h[m] = c THEN h[l] ELSE h[m]]
  OBVIOUS
<1>1. h \in [leased -> Clients] /\ \A m, k \in leased : h[m] = h[k] => m = k
  BY DEF Owners
<1>2. g \in [leased' -> Clients] /\ \A m \in leased' : g[m] = IF h[m] = c THEN h[l] ELSE h[m]
  BY <1>1, <1>g
<1>3. ASSUME NEW m \in leased' PROVE Holds(g[m])' /\ id'[g[m]] = m.id
  <2>1. m \in leased /\ m # l
    OBVIOUS
  <2>2. CASE h[m] = c
    <3>1. g[m] = h[l] /\ h[l] # c /\ id[h[l]] = l.id /\ id[c] = m.id /\ Holds(h[l])
      BY <1>1, <1>2, <2>1, <2>2 DEF Owners
    <3> QED BY <1>1, <3>1
  <2>3. CASE h[m] # c
    <3>1. g[m] = h[m] /\ id[h[m]] = m.id /\ Holds(h[m])
      BY <1>2, <2>1, <2>3 DEF Owners
    <3> QED BY <1>1, <2>1, <2>3, <3>1
  <2> QED BY <2>2, <2>3
<1>4. \A m, k \in leased' : g[m] = g[k] => m = k
  BY <1>1, <1>2
<1>5. Owners(g)'
  BY <1>2, <1>3, <1>4 DEF Owners
<1> QED BY <1>2, <1>5 DEF Owned

LEMMA OwnersNone ==
  ASSUME leased' = {}
  PROVE  Owned'
<1> DEFINE g == [l \in {} |-> CHOOSE c \in Clients : TRUE]
<1>1. g \in [leased' -> Clients]
  OBVIOUS
<1>2. Owners(g)'
  BY <1>1 DEF Owners
<1> QED BY <1>1, <1>2 DEF Owned

\* A lease always has an owner.
LEMMA OwnedStep ==
  ASSUME TypeOK, Places, Fresh, LeasedServes, Owned, [Next]_vars
  PROVE  Owned'
<1> USE LifecycleAssumption DEF LifecycleAssumption, Set, Goto, space, port, locals, Typed, Labelled,
        TypeOK, Places, Actors, Using, Holds
<1>h. PICK h : Owners(h)
  BY DEF Owned
<1>1. ASSUME NEW a \in Actors, Check(a) PROVE Owned'
  <2>1. leased' = leased /\ \A d \in Clients : Holds(d) => Holds(d)' /\ id'[d] = id[d]
    BY <1>1 DEF Check
  <2> QED BY <1>h, <2>1, OwnersKept DEF Owners
<1>2. ASSUME NEW a \in Actors, Waited(a) PROVE Owned'
  <2>1. leased' = leased /\ \A d \in Clients : Holds(d) => Holds(d)' /\ id'[d] = id[d]
    BY <1>2 DEF Waited
  <2> QED BY <1>h, <2>1, OwnersKept DEF Owners
<1>3. ASSUME NEW a \in Actors, GiveUp(a) PROVE Owned'
  <2>1. leased' = leased /\ \A d \in Clients : Holds(d) => Holds(d)' /\ id'[d] = id[d]
    BY <1>3 DEF GiveUp, Raise
  <2> QED BY <1>h, <2>1, OwnersKept DEF Owners
<1>4. ASSUME NEW a \in Actors, TakeId(a) PROVE Owned'
  <2>1. leased' = leased /\ \A d \in Clients : Holds(d) => Holds(d)' /\ id'[d] = id[d]
    BY <1>4 DEF TakeId
  <2> QED BY <1>h, <2>1, OwnersKept DEF Owners
<1>5. ASSUME NEW a \in Actors, WriteId(a) PROVE Owned'
  <2>1. leased' = leased /\ \A d \in Clients : Holds(d) => Holds(d)' /\ id'[d] = id[d]
    BY <1>5 DEF WriteId
  <2> QED BY <1>h, <2>1, OwnersKept DEF Owners
<1>6. ASSUME NEW a \in Actors, Offline(a) PROVE Owned'
  <2>1. leased' = leased /\ \A d \in Clients : Holds(d) => Holds(d)' /\ id'[d] = id[d]
    BY <1>6 DEF Offline, Raise
  <2> QED BY <1>h, <2>1, OwnersKept DEF Owners
<1>7. ASSUME NEW c \in Clients, Bind(c) PROVE Owned'
  <2>1. leased' = leased /\ \A d \in Clients : Holds(d) => Holds(d)' /\ id'[d] = id[d]
    BY <1>7 DEF Bind
  <2> QED BY <1>h, <2>1, OwnersKept DEF Owners
<1>8. ASSUME NEW c \in Clients, Lease(c) PROVE Owned'
  <2>1. leased' = leased /\ \A d \in Clients : Holds(d) => Holds(d)' /\ id'[d] = id[d]
    BY <1>8 DEF Lease
  <2> QED BY <1>h, <2>1, OwnersKept DEF Owners
<1>9. ASSUME NEW c \in Clients, Poll(c) PROVE Owned'
  <2>1. pc[c] = "poll" /\ UNCHANGED id /\ ~Holds(c)
    BY <1>9 DEF Poll
  <2>2. \A d \in Clients : Holds(d) => Holds(d)'
    BY <1>9 DEF Poll
  <2>3. CASE leased' = leased
    BY <1>h, <2>1, <2>2, <2>3, OwnersKept DEF Owners
  <2>4. CASE leased' # leased
    <3>1. PICK s \in available : leased' = leased \cup {[id |-> id[c], server |-> s]} /\ Holds(c)'
      BY <1>9, <2>4 DEF Poll
    <3>n. PICK n : n = [id |-> id[c], server |-> s]
      OBVIOUS
    <3>g. PICK g : g = [m \in leased \cup {n} |-> IF m \in leased THEN h[m] ELSE c]
      OBVIOUS
    <3>2. g \in [leased' -> Clients] /\ \A m \in leased' : g[m] = IF m \in leased THEN h[m] ELSE c
      BY <1>h, <3>1, <3>n, <3>g DEF Owners
    <3>3. \A m \in leased' : m \in leased \/ (m = n /\ m.id = id[c])
      BY <3>1, <3>n
    <3>4. \A m \in leased : h[m] # c
      BY <1>h, <2>1 DEF Owners
    <3> HIDE DEF Holds
    <3>5. \A m \in leased' : Holds(g[m])' /\ id'[g[m]] = m.id
      BY <1>h, <2>1, <2>2, <3>1, <3>2, <3>3 DEF Owners
    <3>6. \A m, k \in leased' : g[m] = g[k] => m = k
      BY <1>h, <3>2, <3>3, <3>4 DEF Owners
    <3>7. Owners(g)'
      BY <3>2, <3>5, <3>6 DEF Owners
    <3> QED BY <3>2, <3>7 DEF Owned
  <2> QED BY <2>3, <2>4
<1>10. ASSUME NEW c \in Clients, PollClosed(c) PROVE Owned'
  <2>1. leased' = leased /\ \A d \in Clients : Holds(d) => Holds(d)' /\ id'[d] = id[d]
    BY <1>10 DEF PollClosed, Raise
  <2> QED BY <1>h, <2>1, OwnersKept DEF Owners
<1>11. ASSUME NEW c \in Clients, Send(c) PROVE Owned'
  <2>1. CASE leased = {}
    <3>1. leased' = {}
      BY <1>11, <2>1 DEF Send
    <3> QED BY <3>1, OwnersNone
  <2>2. CASE leased # {}
    <3>1. leased' = leased /\ \A d \in Clients : Holds(d) => Holds(d)' /\ id'[d] = id[d]
      BY <1>11, <2>2 DEF Send, Fresh
    <3> QED BY <1>h, <3>1, OwnersKept DEF Owners
  <2> QED BY <2>1, <2>2
<1>12. ASSUME NEW c \in Clients, Eval(c) PROVE Owned'
  <2>1. leased' = leased /\ \A d \in Clients : Holds(d) => Holds(d)' /\ id'[d] = id[d]
    BY <1>12 DEF Eval
  <2> QED BY <1>h, <2>1, OwnersKept DEF Owners
<1>13. ASSUME NEW c \in Clients, ServerLost(c) PROVE Owned'
  <2>1. leased' = leased /\ \A d \in Clients : Holds(d) => Holds(d)' /\ id'[d] = id[d]
    BY <1>13 DEF ServerLost, Raise
  <2> QED BY <1>h, <2>1, OwnersKept DEF Owners
<1>14. ASSUME NEW c \in Clients, Release(c) PROVE Owned'
  <2>1. UNCHANGED id /\ \A d \in Clients \ {c} : Holds(d) => Holds(d)'
    BY <1>14 DEF Release, End, Forget
  <2>2. CASE leased' = leased /\ \A l \in leased : ~(server[c] # NoServer /\ l.id = id[c])
    <3>1. \A l \in leased : h[l] # c
      BY <1>h, <2>2 DEF Owners
    <3> QED BY <1>h, <2>1, <2>2, <3>1, OwnersKept DEF Owners
  <2>3. CASE \E l \in leased : l.id = id[c] /\ leased' = leased \ {l}
    <3> HIDE DEF Holds
    <3> QED BY <1>h, <2>1, <2>3, OwnersSwap
  <2> QED BY <1>14, <2>2, <2>3 DEF Release
<1>15. ASSUME NEW c \in Clients, ReleaseLost(c) PROVE Owned'
  <2>1. leased' = {}
    BY <1>15 DEF ReleaseLost, Fresh
  <2> QED BY <2>1, OwnersNone
<1>16. ASSUME NEW c \in Clients, Close(c) PROVE Owned'
  <2>1. leased' = leased /\ \A d \in Clients : Holds(d) => Holds(d)' /\ id'[d] = id[d]
    BY <1>16 DEF Close
  <2> QED BY <1>h, <2>1, OwnersKept DEF Owners
<1>17. ASSUME NEW c \in Clients, Discarded(c) PROVE Owned'
  <2>1. leased' = leased /\ \A d \in Clients : Holds(d) => Holds(d)' /\ id'[d] = id[d]
    BY <1>17 DEF Discarded, End, Forget
  <2> QED BY <1>h, <2>1, OwnersKept DEF Owners
<1>18. ASSUME NEW c \in Clients, Call(c) PROVE Owned'
  <2>1. leased' = leased /\ \A d \in Clients : Holds(d) => Holds(d)' /\ id'[d] = id[d]
    BY <1>18 DEF Call, Begin
  <2> QED BY <1>h, <2>1, OwnersKept DEF Owners
<1>19. ASSUME NEW c \in Clients, Discard(c) PROVE Owned'
  <2>1. leased' = leased /\ \A d \in Clients : Holds(d) => Holds(d)' /\ id'[d] = id[d]
    BY <1>19 DEF Discard, Begin
  <2> QED BY <1>h, <2>1, OwnersKept DEF Owners
<1>20. ASSUME NEW s \in Servers, Register(s) PROVE Owned'
  <2>1. leased' = leased /\ \A d \in Clients : Holds(d) => Holds(d)' /\ id'[d] = id[d]
    BY <1>20 DEF Register
  <2> QED BY <1>h, <2>1, OwnersKept DEF Owners
<1>21. ASSUME NEW s \in Servers, Watch(s) PROVE Owned'
  <2>1. leased' = leased /\ \A d \in Clients : Holds(d) => Holds(d)' /\ id'[d] = id[d]
    BY <1>21 DEF Watch
  <2> QED BY <1>h, <2>1, OwnersKept DEF Owners
<1>22. ASSUME Listen PROVE Owned'
  <2>1. leased' = leased /\ \A d \in Clients : Holds(d) => Holds(d)' /\ id'[d] = id[d]
    BY <1>22 DEF Listen
  <2> QED BY <1>h, <2>1, OwnersKept DEF Owners
<1>23. ASSUME RegistryExit PROVE Owned'
  BY <1>23, OwnersNone DEF RegistryExit, Gone
<1>24. ASSUME RegistryDies PROVE Owned'
  BY <1>24, OwnersNone DEF RegistryDies, Gone
<1>25. ASSUME UNCHANGED vars PROVE Owned'
  <2>1. leased' = leased /\ \A d \in Clients : Holds(d) => Holds(d)' /\ id'[d] = id[d]
    BY <1>25 DEF vars
  <2> QED BY <1>h, <2>1, OwnersKept DEF Owners
<1> QED
  BY <1>1, <1>2, <1>3, <1>4, <1>5, <1>6, <1>7, <1>8, <1>9, <1>10, <1>11, <1>12, <1>13,
     <1>14, <1>15, <1>16, <1>17, <1>18, <1>19, <1>20, <1>21, <1>22, <1>23, <1>24, <1>25 DEF Next, Step

-----------------------------------------------------------------------------
\* The inductive invariant holds in every reachable state.
THEOREM Invariance == Spec => []IInv
<1>1. Init => IInv
  <2> SUFFICES ASSUME Init PROVE IInv
    OBVIOUS
  <2> USE LifecycleAssumption DEF LifecycleAssumption, Init
  <2>1. Labelled
    BY DEF Labelled, LabelsOf, ClientLabels, ServerLabels, Actors
  <2>2. Typed
    BY DEF Typed, FirstToken, Ids, NoId
  <2>3. Places /\ Fresh /\ LeasedServes /\ IdTokenNotLost
    BY DEF Places, Fresh, LeasedServes, IdTokenNotLost, Actors, Using
  <2>4. Owned
    <3>1. PICK h : h = [l \in {} |-> CHOOSE c \in Clients : TRUE]
      OBVIOUS
    <3>2. h \in [leased -> Clients] /\ leased = {}
      BY <3>1
    <3> QED BY <3>2 DEF Owned, Owners
  <2> QED BY <2>1, <2>2, <2>3, <2>4 DEF IInv, TypeOK
<1>2. IInv /\ [Next]_vars => IInv'
  BY TypeStep, PlacesStep, FreshStep, ServesStep, OwnedStep, TokenStep DEF IInv
<1> QED BY <1>1, <1>2, PTL DEF Spec

\* No script runs twice, however often its call loses the registry.
THEOREM RunsOnce == Spec => []ScriptRunsOnce
<1>1. IInv => ScriptRunsOnce
  BY DEF IInv, Places, ScriptRunsOnce
<1> QED BY <1>1, Invariance, PTL

\* A lease ends with its call, or with that of the client whose lease this call
\* released.
THEOREM LeasesEnd == Spec => []NoLeaseLeft
<1>1. IInv => NoLeaseLeft
  <2> SUFFICES ASSUME IInv, NEW l \in leased
               PROVE  \E c \in Clients : id[c] = l.id /\ pc[c] \in Using \cup {"ensure"}
    BY DEF NoLeaseLeft
  <2>1. PICK h \in [leased -> Clients] : Owners(h)
    BY DEF IInv, Owned
  <2> QED BY <2>1 DEF Owners, Holds
<1> QED BY <1>1, Invariance, PTL

\* While a registry lives, its client ids do not run dry.
THEOREM TokenKept == Spec => []IdTokenNotLost
<1>1. IInv => IdTokenNotLost
  BY DEF IInv
<1> QED BY <1>1, Invariance, PTL
====
