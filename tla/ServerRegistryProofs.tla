------------------------ MODULE ServerRegistryProofs ------------------------
(***************************************************************************)
(* Theorems about ServerRegistry, for any number of clients and servers    *)
(* and any interleaving, with or without crashes.                          *)
(***************************************************************************)
EXTENDS ServerRegistry, FiniteSetTheorems, TLAPS

(* The inductive invariant: the safety properties, and what they need of the *)
(* locals.  Finite makes the counts of num_servers numbers.  Places says     *)
(* what a label implies: an actor has a server exactly where the code has    *)
(* one in a variable, a server never holds another, a generation is a        *)
(* number where it is written, a client is in the operation its label        *)
(* belongs to, and only the exit of the closing thread takes the registry    *)
(* away.                                                                     *)
Finite == IsFiniteSet(available) /\ IsFiniteSet(leased)

Places ==
  /\ \A a \in Actors : IF InHand(a) \/ InUse(a) THEN uri[a] \in Servers
                       ELSE pc[a] # "release" => uri[a] = NoServer
  /\ \A s \in Servers : uri[s] \in {s, NoServer}
  /\ \A a \in Actors : a # Closer \/ pc[a] = "regWrite" => seen[a] \in Nat
  /\ \A c \in Clients : /\ op[c] = "none" => pc[c] \in {"idle", "offline", "discarding"}
                        /\ InUse(c) => op[c] = "call"
                        /\ pc[c] = "unlock" => op[c] = "refresh"
  /\ ~up => pc[Closer] = "exited" /\ leased = {}

IInv == TypeOK /\ Finite /\ Places /\ ExclusiveServer /\ LeaseBelongsToCall
        /\ LockHeldOnce /\ LogsToItsUser

\* The sets of tuples stay finite: a step adds or takes one tuple.
LEMMA FiniteStep ==
  ASSUME Finite, [Next]_vars
  PROVE  Finite'
<1> USE DEF Finite, tuples, pool
<1>1. ASSUME NEW u \in Users, Take(u) PROVE Finite'
  BY <1>1, FS_RemoveElement DEF Take
<1>2. ASSUME NEW u \in Users, WriteLeased(u) PROVE Finite'
  BY <1>2, FS_AddElement DEF WriteLeased
<1>3. ASSUME NEW u \in Users, Release(u) PROVE Finite'
  BY <1>3, FS_RemoveElement DEF Release
<1>4. ASSUME NEW a \in Actors, RegisterWrite(a) PROVE Finite'
  BY <1>4, FS_AddElement DEF RegisterWrite
<1>5. CASE RegistryExit
  BY <1>5, FS_EmptySet DEF RegistryExit
<1>6. CASE UNCHANGED pool
  BY <1>6
<1>7. ASSUME NEW u \in Users, Lease(u) PROVE Finite'
  BY <1>1, <1>2, <1>6, <1>7 DEF Lease, ReadGeneration, CountAvailable, CountLeased,
     CheckOpen, TakeExpires, FailUnlessOpen, CheckAlive
<1>8. ASSUME NEW u \in Users, Return(u) PROVE Finite'
  BY <1>3, <1>6, <1>8 DEF Return, CheckGeneration, CheckClosed, Kill
<1>9. ASSUME NEW c \in Clients, Use(c) \/ EvalLibrary(c) \/ Expire(c) PROVE Finite'
  BY <1>6, <1>9 DEF Use, Expire, SetLogger, Send, FetchLibrary, LibraryFetched, EvalLibrary, Eval,
     ClearLogger, ServerLost, TakeLock, TakeGeneration, WriteGeneration, Unlock
<1>10. ASSUME NEW a \in Actors, Register(a) \/ Offline(a) PROVE Finite'
  BY <1>4, <1>6, <1>10 DEF Register, RegisterOpen, RegisterGeneration, Offline
<1>11. ASSUME NEW c \in Clients, Call(c) \/ Refresh(c) \/ Discard(c) \/ ClientCrash(c)
       PROVE  Finite'
  BY <1>6, <1>11 DEF Call, Refresh, Discard, ClientCrash
<1>12. ASSUME NEW s \in Servers, WatchRegistry(s) \/ ServerCrash(s) PROVE Finite'
  BY <1>6, <1>12 DEF WatchRegistry, ServerCrash
<1>13. CASE Listen \/ DeadTake \/ UNCHANGED vars
  BY <1>6, <1>13 DEF Listen, DeadTake, vars
<1> QED
  BY <1>5, <1>7, <1>8, <1>9, <1>10, <1>11, <1>12, <1>13 DEF Next, Step

\* Types.  Counts need finite sets, labels the operation an actor is in.
LEMMA TypeStep ==
  ASSUME TypeOK, Finite, Places, [Next]_vars
  PROVE  TypeOK'
<1> USE RegistryAssumption DEF RegistryAssumption, Actors, Users, Goto, At, Leave, Drop, Rest,
     tuples, pool, gens, locals, world, beside, AnyGeneration, InHand, InUse,
     ClientLabels, CloserLabels, ServerLabels, TypeOK, Places
<1>1. ASSUME NEW u \in Users, ReadGeneration(u) PROVE TypeOK'
  BY <1>1 DEF ReadGeneration
<1>2. ASSUME NEW u \in Users, CountAvailable(u) PROVE TypeOK'
  BY <1>2, FS_Subset, FS_CardinalityType DEF CountAvailable, Finite
<1>3. ASSUME NEW u \in Users, CountLeased(u) PROVE TypeOK'
  BY <1>3 DEF CountLeased
<1>4. ASSUME NEW u \in Users, CheckOpen(u) PROVE TypeOK'
  BY <1>4 DEF CheckOpen, Unused
<1>5. ASSUME NEW u \in Users, Take(u) PROVE TypeOK'
  BY <1>5 DEF Take
<1>6. ASSUME NEW u \in Users, TakeExpires(u) PROVE TypeOK'
  BY <1>6 DEF TakeExpires
<1>7. ASSUME NEW u \in Users, FailUnlessOpen(u) PROVE TypeOK'
  BY <1>7 DEF FailUnlessOpen
<1>8. ASSUME NEW u \in Users, CheckAlive(u) PROVE TypeOK'
  BY <1>8 DEF CheckAlive, Raise
<1>9. ASSUME NEW u \in Users, WriteLeased(u) PROVE TypeOK'
  BY <1>9 DEF WriteLeased
<1>10. ASSUME NEW u \in Users, Release(u) PROVE TypeOK'
  BY <1>10 DEF Release, Finish
<1>11. ASSUME NEW u \in Users, CheckGeneration(u) PROVE TypeOK'
  BY <1>11 DEF CheckGeneration
<1>12. ASSUME NEW u \in Users, CheckClosed(u) PROVE TypeOK'
  BY <1>12 DEF CheckClosed
<1>13. ASSUME NEW u \in Users, Kill(u) PROVE TypeOK'
  BY <1>13 DEF Kill, Finish
<1>14. ASSUME NEW c \in Clients, SetLogger(c) PROVE TypeOK'
  BY <1>14 DEF SetLogger
<1>15. ASSUME NEW c \in Clients, Send(c) PROVE TypeOK'
  BY <1>15 DEF Send
<1>16. ASSUME NEW c \in Clients, FetchLibrary(c) PROVE TypeOK'
  BY <1>16 DEF FetchLibrary
<1>17. ASSUME NEW c \in Clients, LibraryFetched(c) PROVE TypeOK'
  BY <1>17 DEF LibraryFetched
<1>18. ASSUME NEW c \in Clients, Eval(c) PROVE TypeOK'
  BY <1>18 DEF Eval
<1>18l. ASSUME NEW c \in Clients, EvalLibrary(c) PROVE TypeOK'
  BY <1>18l DEF EvalLibrary
<1>19. ASSUME NEW c \in Clients, ClearLogger(c) PROVE TypeOK'
  BY <1>19 DEF ClearLogger
<1>20. ASSUME NEW c \in Clients, ServerLost(c) PROVE TypeOK'
  BY <1>20 DEF ServerLost
<1>21. ASSUME NEW c \in Clients, TakeLock(c) PROVE TypeOK'
  BY <1>21 DEF TakeLock
<1>22. ASSUME NEW c \in Clients, TakeGeneration(c) PROVE TypeOK'
  BY <1>22 DEF TakeGeneration
<1>23. ASSUME NEW c \in Clients, WriteGeneration(c) PROVE TypeOK'
  BY <1>23 DEF WriteGeneration
<1>24. ASSUME NEW c \in Clients, Unlock(c) PROVE TypeOK'
  BY <1>24 DEF Unlock
<1>25. ASSUME NEW c \in Clients, Call(c) PROVE TypeOK'
  BY <1>25 DEF Call
<1>26. ASSUME NEW c \in Clients, Refresh(c) PROVE TypeOK'
  BY <1>26 DEF Refresh
<1>27. ASSUME NEW c \in Clients, Discard(c) PROVE TypeOK'
  BY <1>27 DEF Discard
<1>28. ASSUME NEW c \in Clients, ClientCrash(c) PROVE TypeOK'
  <2>1. deadWaiter' \in BOOLEAN
    BY <1>28, Zenon DEF ClientCrash
  <2> QED BY <1>28, <2>1 DEF ClientCrash
<1>29. ASSUME NEW a \in Actors, RegisterOpen(a) PROVE TypeOK'
  BY <1>29 DEF RegisterOpen, Raise
<1>30. ASSUME NEW a \in Actors, RegisterGeneration(a) PROVE TypeOK'
  BY <1>30 DEF RegisterGeneration
<1>31. ASSUME NEW a \in Actors, RegisterWrite(a) PROVE TypeOK'
  BY <1>31 DEF RegisterWrite, Finish
<1>32. ASSUME NEW a \in Actors, Offline(a) PROVE TypeOK'
  BY <1>32 DEF Offline, NeedsRegistry
<1>33. ASSUME NEW s \in Servers, WatchRegistry(s) PROVE TypeOK'
  BY <1>33 DEF WatchRegistry
<1>34. ASSUME NEW s \in Servers, ServerCrash(s) PROVE TypeOK'
  <2>1. deadWaiter' \in BOOLEAN
    BY <1>34, Zenon DEF ServerCrash
  <2> QED BY <1>34, <2>1 DEF ServerCrash
<1>35. ASSUME RegistryExit PROVE TypeOK'
  BY <1>35 DEF RegistryExit
<1>35l. ASSUME Listen PROVE TypeOK'
  BY <1>35l DEF Listen
<1>36. ASSUME DeadTake PROVE TypeOK'
  BY <1>36 DEF DeadTake
<1>37. ASSUME UNCHANGED vars PROVE TypeOK'
  BY <1>37 DEF vars
<1> QED
  BY <1>1, <1>2, <1>3, <1>4, <1>5, <1>6, <1>7, <1>8, <1>9, <1>10, <1>11,
     <1>12, <1>13, <1>14, <1>15, <1>16, <1>17, <1>18, <1>19, <1>20, <1>21,
     <1>22, <1>23, <1>24, <1>25, <1>26, <1>27, <1>28, <1>29, <1>30, <1>31,
     <1>32, <1>33, <1>34, <1>35, <1>36, <1>37, <1>18l, <1>35l DEF Next, Step, Lease, Use,
     Return, Register, Expire

\* Places.  That Kill ends no server which is itself booting, with a uri in
\* hand, is ExclusiveServer.
LEMMA PlacesStep ==
  ASSUME TypeOK, Places, ExclusiveServer, [Next]_vars
  PROVE  Places'
<1> USE RegistryAssumption DEF RegistryAssumption, Actors, Users, Goto, At, Leave, Drop, Rest,
     tuples, pool, gens, locals, world, beside, AnyGeneration, InHand, InUse,
     ClientLabels, CloserLabels, ServerLabels, TypeOK, Places
<1>1. ASSUME NEW u \in Users, ReadGeneration(u) PROVE Places'
  BY <1>1 DEF ReadGeneration
<1>2. ASSUME NEW u \in Users, CountAvailable(u) PROVE Places'
  BY <1>2 DEF CountAvailable
<1>3. ASSUME NEW u \in Users, CountLeased(u) PROVE Places'
  BY <1>3 DEF CountLeased
<1>4. ASSUME NEW u \in Users, CheckOpen(u) PROVE Places'
  BY <1>4 DEF CheckOpen, Unused
<1>5. ASSUME NEW u \in Users, Take(u) PROVE Places'
  BY <1>5 DEF Take
<1>6. ASSUME NEW u \in Users, TakeExpires(u) PROVE Places'
  BY <1>6 DEF TakeExpires
<1>7. ASSUME NEW u \in Users, FailUnlessOpen(u) PROVE Places'
  BY <1>7 DEF FailUnlessOpen
<1>8. ASSUME NEW u \in Users, CheckAlive(u) PROVE Places'
  BY <1>8 DEF CheckAlive, Raise
<1>9. ASSUME NEW u \in Users, WriteLeased(u) PROVE Places'
  BY <1>9 DEF WriteLeased
<1>10. ASSUME NEW u \in Users, Release(u) PROVE Places'
  BY <1>10 DEF Release, Finish
<1>11. ASSUME NEW u \in Users, CheckGeneration(u) PROVE Places'
  BY <1>11 DEF CheckGeneration
<1>12. ASSUME NEW u \in Users, CheckClosed(u) PROVE Places'
  BY <1>12 DEF CheckClosed
<1>13. ASSUME NEW u \in Users, Kill(u) PROVE Places'
  BY <1>13 DEF Kill, Finish, ExclusiveServer, Engaged
<1>14. ASSUME NEW c \in Clients, SetLogger(c) PROVE Places'
  BY <1>14 DEF SetLogger
<1>15. ASSUME NEW c \in Clients, Send(c) PROVE Places'
  BY <1>15 DEF Send
<1>16. ASSUME NEW c \in Clients, FetchLibrary(c) PROVE Places'
  BY <1>16 DEF FetchLibrary
<1>17. ASSUME NEW c \in Clients, LibraryFetched(c) PROVE Places'
  BY <1>17 DEF LibraryFetched
<1>18. ASSUME NEW c \in Clients, Eval(c) PROVE Places'
  BY <1>18 DEF Eval
<1>18l. ASSUME NEW c \in Clients, EvalLibrary(c) PROVE Places'
  BY <1>18l DEF EvalLibrary
<1>19. ASSUME NEW c \in Clients, ClearLogger(c) PROVE Places'
  BY <1>19 DEF ClearLogger
<1>20. ASSUME NEW c \in Clients, ServerLost(c) PROVE Places'
  BY <1>20 DEF ServerLost
<1>21. ASSUME NEW c \in Clients, TakeLock(c) PROVE Places'
  BY <1>21 DEF TakeLock
<1>22. ASSUME NEW c \in Clients, TakeGeneration(c) PROVE Places'
  BY <1>22 DEF TakeGeneration
<1>23. ASSUME NEW c \in Clients, WriteGeneration(c) PROVE Places'
  BY <1>23 DEF WriteGeneration
<1>24. ASSUME NEW c \in Clients, Unlock(c) PROVE Places'
  BY <1>24 DEF Unlock
<1>25. ASSUME NEW c \in Clients, Call(c) PROVE Places'
  BY <1>25 DEF Call
<1>26. ASSUME NEW c \in Clients, Refresh(c) PROVE Places'
  BY <1>26 DEF Refresh
<1>27. ASSUME NEW c \in Clients, Discard(c) PROVE Places'
  BY <1>27 DEF Discard
<1>28. ASSUME NEW c \in Clients, ClientCrash(c) PROVE Places'
  BY <1>28 DEF ClientCrash
<1>29. ASSUME NEW a \in Actors, RegisterOpen(a) PROVE Places'
  BY <1>29 DEF RegisterOpen, Raise
<1>30. ASSUME NEW a \in Actors, RegisterGeneration(a) PROVE Places'
  BY <1>30 DEF RegisterGeneration
<1>31. ASSUME NEW a \in Actors, RegisterWrite(a) PROVE Places'
  BY <1>31 DEF RegisterWrite, Finish
<1>32. ASSUME NEW a \in Actors, Offline(a) PROVE Places'
  BY <1>32 DEF Offline, NeedsRegistry
<1>33. ASSUME NEW s \in Servers, WatchRegistry(s) PROVE Places'
  BY <1>33 DEF WatchRegistry
<1>34. ASSUME NEW s \in Servers, ServerCrash(s) PROVE Places'
  BY <1>34 DEF ServerCrash
<1>35. ASSUME RegistryExit PROVE Places'
  BY <1>35 DEF RegistryExit
<1>35l. ASSUME Listen PROVE Places'
  BY <1>35l DEF Listen
<1>36. ASSUME DeadTake PROVE Places'
  BY <1>36 DEF DeadTake
<1>37. ASSUME UNCHANGED vars PROVE Places'
  BY <1>37 DEF vars
<1> QED
  BY <1>1, <1>2, <1>3, <1>4, <1>5, <1>6, <1>7, <1>8, <1>9, <1>10, <1>11,
     <1>12, <1>13, <1>14, <1>15, <1>16, <1>17, <1>18, <1>19, <1>20, <1>21,
     <1>22, <1>23, <1>24, <1>25, <1>26, <1>27, <1>28, <1>29, <1>30, <1>31,
     <1>32, <1>33, <1>34, <1>35, <1>36, <1>37, <1>18l, <1>35l DEF Next, Step, Lease, Use,
     Return, Register, Expire

\* Exclusion.  A server changes hands by a take or a write of its tuple; that
\* release_server takes the lease of the server it has in hand is
\* LeaseBelongsToCall.
LEMMA ExclusiveStep ==
  ASSUME TypeOK, Places, ExclusiveServer, LeaseBelongsToCall, [Next]_vars
  PROVE  ExclusiveServer'
<1> USE RegistryAssumption DEF RegistryAssumption, Actors, Users, Goto, At, Leave, Drop, Rest,
     tuples, pool, gens, locals, world, beside, AnyGeneration, InHand, InUse,
     ClientLabels, CloserLabels, ServerLabels, TypeOK, Places,
     ExclusiveServer, Engaged, LeaseBelongsToCall
<1>1. ASSUME NEW u \in Users, ReadGeneration(u) PROVE ExclusiveServer'
  BY <1>1 DEF ReadGeneration
<1>2. ASSUME NEW u \in Users, CountAvailable(u) PROVE ExclusiveServer'
  BY <1>2 DEF CountAvailable
<1>3. ASSUME NEW u \in Users, CountLeased(u) PROVE ExclusiveServer'
  BY <1>3 DEF CountLeased
<1>4. ASSUME NEW u \in Users, CheckOpen(u) PROVE ExclusiveServer'
  BY <1>4, SMTT(30) DEF CheckOpen, Unused
<1>5. ASSUME NEW u \in Users, Take(u) PROVE ExclusiveServer'
  BY <1>5 DEF Take
<1>6. ASSUME NEW u \in Users, TakeExpires(u) PROVE ExclusiveServer'
  BY <1>6 DEF TakeExpires
<1>7. ASSUME NEW u \in Users, FailUnlessOpen(u) PROVE ExclusiveServer'
  BY <1>7 DEF FailUnlessOpen
<1>8. ASSUME NEW u \in Users, CheckAlive(u) PROVE ExclusiveServer'
  BY <1>8 DEF CheckAlive, Raise
<1>9. ASSUME NEW u \in Users, WriteLeased(u) PROVE ExclusiveServer'
  BY <1>9 DEF WriteLeased
<1>10. ASSUME NEW u \in Users, Release(u) PROVE ExclusiveServer'
  BY <1>10 DEF Release, Finish
<1>11. ASSUME NEW u \in Users, CheckGeneration(u) PROVE ExclusiveServer'
  BY <1>11 DEF CheckGeneration
<1>12. ASSUME NEW u \in Users, CheckClosed(u) PROVE ExclusiveServer'
  BY <1>12 DEF CheckClosed
<1>13. ASSUME NEW u \in Users, Kill(u) PROVE ExclusiveServer'
  BY <1>13 DEF Kill, Finish
<1>14. ASSUME NEW c \in Clients, SetLogger(c) PROVE ExclusiveServer'
  BY <1>14 DEF SetLogger
<1>15. ASSUME NEW c \in Clients, Send(c) PROVE ExclusiveServer'
  BY <1>15 DEF Send
<1>16. ASSUME NEW c \in Clients, FetchLibrary(c) PROVE ExclusiveServer'
  BY <1>16 DEF FetchLibrary
<1>17. ASSUME NEW c \in Clients, LibraryFetched(c) PROVE ExclusiveServer'
  BY <1>17 DEF LibraryFetched
<1>18. ASSUME NEW c \in Clients, Eval(c) PROVE ExclusiveServer'
  BY <1>18 DEF Eval
<1>18l. ASSUME NEW c \in Clients, EvalLibrary(c) PROVE ExclusiveServer'
  BY <1>18l DEF EvalLibrary
<1>19. ASSUME NEW c \in Clients, ClearLogger(c) PROVE ExclusiveServer'
  BY <1>19 DEF ClearLogger
<1>20. ASSUME NEW c \in Clients, ServerLost(c) PROVE ExclusiveServer'
  BY <1>20 DEF ServerLost
<1>21. ASSUME NEW c \in Clients, TakeLock(c) PROVE ExclusiveServer'
  BY <1>21 DEF TakeLock
<1>22. ASSUME NEW c \in Clients, TakeGeneration(c) PROVE ExclusiveServer'
  BY <1>22 DEF TakeGeneration
<1>23. ASSUME NEW c \in Clients, WriteGeneration(c) PROVE ExclusiveServer'
  BY <1>23 DEF WriteGeneration
<1>24. ASSUME NEW c \in Clients, Unlock(c) PROVE ExclusiveServer'
  BY <1>24 DEF Unlock
<1>25. ASSUME NEW c \in Clients, Call(c) PROVE ExclusiveServer'
  BY <1>25 DEF Call
<1>26. ASSUME NEW c \in Clients, Refresh(c) PROVE ExclusiveServer'
  BY <1>26 DEF Refresh
<1>27. ASSUME NEW c \in Clients, Discard(c) PROVE ExclusiveServer'
  BY <1>27 DEF Discard
<1>28. ASSUME NEW c \in Clients, ClientCrash(c) PROVE ExclusiveServer'
  BY <1>28 DEF ClientCrash
<1>29. ASSUME NEW a \in Actors, RegisterOpen(a) PROVE ExclusiveServer'
  BY <1>29 DEF RegisterOpen, Raise
<1>30. ASSUME NEW a \in Actors, RegisterGeneration(a) PROVE ExclusiveServer'
  BY <1>30 DEF RegisterGeneration
<1>31. ASSUME NEW a \in Actors, RegisterWrite(a) PROVE ExclusiveServer'
  BY <1>31 DEF RegisterWrite, Finish
<1>32. ASSUME NEW a \in Actors, Offline(a) PROVE ExclusiveServer'
  BY <1>32 DEF Offline, NeedsRegistry
<1>33. ASSUME NEW s \in Servers, WatchRegistry(s) PROVE ExclusiveServer'
  BY <1>33 DEF WatchRegistry
<1>34. ASSUME NEW s \in Servers, ServerCrash(s) PROVE ExclusiveServer'
  BY <1>34 DEF ServerCrash
<1>35. ASSUME RegistryExit PROVE ExclusiveServer'
  BY <1>35 DEF RegistryExit
<1>35l. ASSUME Listen PROVE ExclusiveServer'
  BY <1>35l DEF Listen
<1>36. ASSUME DeadTake PROVE ExclusiveServer'
  BY <1>36 DEF DeadTake
<1>37. ASSUME UNCHANGED vars PROVE ExclusiveServer'
  BY <1>37 DEF vars
<1> QED
  BY <1>1, <1>2, <1>3, <1>4, <1>5, <1>6, <1>7, <1>8, <1>9, <1>10, <1>11,
     <1>12, <1>13, <1>14, <1>15, <1>16, <1>17, <1>18, <1>19, <1>20, <1>21,
     <1>22, <1>23, <1>24, <1>25, <1>26, <1>27, <1>28, <1>29, <1>30, <1>31,
     <1>32, <1>33, <1>34, <1>35, <1>36, <1>37, <1>18l, <1>35l DEF Next, Step, Lease, Use,
     Return, Register, Expire

\* Leases are written where a client has none, and taken one at a time.
LEMMA LeaseStep ==
  ASSUME TypeOK, Places, ExclusiveServer, LeaseBelongsToCall, [Next]_vars
  PROVE  LeaseBelongsToCall'
<1> USE RegistryAssumption DEF RegistryAssumption, Actors, Users, Goto, At, Leave, Drop, Rest,
     tuples, pool, gens, locals, world, beside, AnyGeneration, InHand, InUse,
     ClientLabels, CloserLabels, ServerLabels, TypeOK, Places,
     LeaseBelongsToCall, Engaged
<1>1. ASSUME NEW u \in Users, ReadGeneration(u) PROVE LeaseBelongsToCall'
  BY <1>1 DEF ReadGeneration
<1>2. ASSUME NEW u \in Users, CountAvailable(u) PROVE LeaseBelongsToCall'
  BY <1>2 DEF CountAvailable
<1>3. ASSUME NEW u \in Users, CountLeased(u) PROVE LeaseBelongsToCall'
  BY <1>3 DEF CountLeased
<1>4. ASSUME NEW u \in Users, CheckOpen(u) PROVE LeaseBelongsToCall'
  BY <1>4 DEF CheckOpen, Unused
<1>5. ASSUME NEW u \in Users, Take(u) PROVE LeaseBelongsToCall'
  BY <1>5 DEF Take
<1>6. ASSUME NEW u \in Users, TakeExpires(u) PROVE LeaseBelongsToCall'
  BY <1>6 DEF TakeExpires
<1>7. ASSUME NEW u \in Users, FailUnlessOpen(u) PROVE LeaseBelongsToCall'
  BY <1>7 DEF FailUnlessOpen
<1>8. ASSUME NEW u \in Users, CheckAlive(u) PROVE LeaseBelongsToCall'
  BY <1>8 DEF CheckAlive, Raise
<1>9. ASSUME NEW u \in Users, WriteLeased(u) PROVE LeaseBelongsToCall'
  <2> DEFINE new == [client |-> u, generation |-> leaseGen[u], uri |-> uri[u]]
  <2>1. leased' = leased \cup {new} /\ uri' = uri /\ up' = up /\ pc[u] = "writeLeased"
    BY <1>9 DEF WriteLeased
  <2>2. pc' = [pc EXCEPT ![u] = IF op[u] = "call" THEN "setLogger" ELSE "release"]
    BY <1>9 DEF WriteLeased
  <2>3. \A l \in leased : l.client # u
    BY <2>1
  <2>4. new.client = u /\ new.uri = uri[u] /\ new.client \in Actors
    OBVIOUS
  <2> HIDE DEF new
  <2>5. \A l \in leased' : (InUse(l.client)' \/ pc'[l.client] = "release") /\ uri'[l.client] = l.uri
    BY <2>1, <2>2, <2>3, <2>4
  <2>6. \A l1, l2 \in leased' : l1.client = l2.client => l1 = l2
    BY <2>1, <2>3, <2>4
  <2>7. \A v \in Users : Engaged(v)' /\ ~InHand(v)' => \E l \in leased' : l.client = v
    BY <2>1, <2>2, <2>4, <1>9 DEF WriteLeased
  <2> QED BY <2>5, <2>6, <2>7
<1>10. ASSUME NEW u \in Users, Release(u) PROVE LeaseBelongsToCall'
  BY <1>10 DEF Release, Finish
<1>11. ASSUME NEW u \in Users, CheckGeneration(u) PROVE LeaseBelongsToCall'
  BY <1>11 DEF CheckGeneration
<1>12. ASSUME NEW u \in Users, CheckClosed(u) PROVE LeaseBelongsToCall'
  BY <1>12 DEF CheckClosed
<1>13. ASSUME NEW u \in Users, Kill(u) PROVE LeaseBelongsToCall'
  BY <1>13 DEF Kill, Finish
<1>14. ASSUME NEW c \in Clients, SetLogger(c) PROVE LeaseBelongsToCall'
  BY <1>14 DEF SetLogger
<1>15. ASSUME NEW c \in Clients, Send(c) PROVE LeaseBelongsToCall'
  BY <1>15 DEF Send
<1>16. ASSUME NEW c \in Clients, FetchLibrary(c) PROVE LeaseBelongsToCall'
  BY <1>16 DEF FetchLibrary
<1>17. ASSUME NEW c \in Clients, LibraryFetched(c) PROVE LeaseBelongsToCall'
  BY <1>17 DEF LibraryFetched
<1>18. ASSUME NEW c \in Clients, Eval(c) PROVE LeaseBelongsToCall'
  BY <1>18 DEF Eval
<1>18l. ASSUME NEW c \in Clients, EvalLibrary(c) PROVE LeaseBelongsToCall'
  BY <1>18l DEF EvalLibrary
<1>19. ASSUME NEW c \in Clients, ClearLogger(c) PROVE LeaseBelongsToCall'
  BY <1>19 DEF ClearLogger
<1>20. ASSUME NEW c \in Clients, ServerLost(c) PROVE LeaseBelongsToCall'
  BY <1>20 DEF ServerLost
<1>21. ASSUME NEW c \in Clients, TakeLock(c) PROVE LeaseBelongsToCall'
  BY <1>21 DEF TakeLock
<1>22. ASSUME NEW c \in Clients, TakeGeneration(c) PROVE LeaseBelongsToCall'
  BY <1>22 DEF TakeGeneration
<1>23. ASSUME NEW c \in Clients, WriteGeneration(c) PROVE LeaseBelongsToCall'
  BY <1>23 DEF WriteGeneration
<1>24. ASSUME NEW c \in Clients, Unlock(c) PROVE LeaseBelongsToCall'
  BY <1>24 DEF Unlock
<1>25. ASSUME NEW c \in Clients, Call(c) PROVE LeaseBelongsToCall'
  BY <1>25 DEF Call
<1>26. ASSUME NEW c \in Clients, Refresh(c) PROVE LeaseBelongsToCall'
  BY <1>26 DEF Refresh
<1>27. ASSUME NEW c \in Clients, Discard(c) PROVE LeaseBelongsToCall'
  BY <1>27 DEF Discard
<1>28. ASSUME NEW c \in Clients, ClientCrash(c) PROVE LeaseBelongsToCall'
  BY <1>28 DEF ClientCrash
<1>29. ASSUME NEW a \in Actors, RegisterOpen(a) PROVE LeaseBelongsToCall'
  BY <1>29 DEF RegisterOpen, Raise
<1>30. ASSUME NEW a \in Actors, RegisterGeneration(a) PROVE LeaseBelongsToCall'
  BY <1>30 DEF RegisterGeneration
<1>31. ASSUME NEW a \in Actors, RegisterWrite(a) PROVE LeaseBelongsToCall'
  BY <1>31 DEF RegisterWrite, Finish
<1>32. ASSUME NEW a \in Actors, Offline(a) PROVE LeaseBelongsToCall'
  BY <1>32 DEF Offline, NeedsRegistry
<1>33. ASSUME NEW s \in Servers, WatchRegistry(s) PROVE LeaseBelongsToCall'
  BY <1>33 DEF WatchRegistry
<1>34. ASSUME NEW s \in Servers, ServerCrash(s) PROVE LeaseBelongsToCall'
  BY <1>34 DEF ServerCrash
<1>35. ASSUME RegistryExit PROVE LeaseBelongsToCall'
  BY <1>35 DEF RegistryExit
<1>35l. ASSUME Listen PROVE LeaseBelongsToCall'
  BY <1>35l DEF Listen
<1>36. ASSUME DeadTake PROVE LeaseBelongsToCall'
  BY <1>36 DEF DeadTake
<1>37. ASSUME UNCHANGED vars PROVE LeaseBelongsToCall'
  BY <1>37 DEF vars
<1> QED
  BY <1>1, <1>2, <1>3, <1>4, <1>5, <1>6, <1>7, <1>8, <1>9, <1>10, <1>11,
     <1>12, <1>13, <1>14, <1>15, <1>16, <1>17, <1>18, <1>19, <1>20, <1>21,
     <1>22, <1>23, <1>24, <1>25, <1>26, <1>27, <1>28, <1>29, <1>30, <1>31,
     <1>32, <1>33, <1>34, <1>35, <1>36, <1>37, <1>18l, <1>35l DEF Next, Step, Lease, Use,
     Return, Register, Expire

\* The lock.  Whoever writes the tuple is the one inside.
LEMMA LockStep ==
  ASSUME TypeOK, Places, LockHeldOnce, [Next]_vars
  PROVE  LockHeldOnce'
<1> USE RegistryAssumption DEF RegistryAssumption, Actors, Users, Goto, At, Leave, Drop, Rest,
     tuples, pool, gens, locals, world, beside, AnyGeneration, InHand, InUse,
     ClientLabels, CloserLabels, ServerLabels, TypeOK, Places,
     LockHeldOnce, InLock
<1>1. ASSUME NEW u \in Users, ReadGeneration(u) PROVE LockHeldOnce'
  BY <1>1 DEF ReadGeneration
<1>2. ASSUME NEW u \in Users, CountAvailable(u) PROVE LockHeldOnce'
  BY <1>2 DEF CountAvailable
<1>3. ASSUME NEW u \in Users, CountLeased(u) PROVE LockHeldOnce'
  BY <1>3 DEF CountLeased
<1>4. ASSUME NEW u \in Users, CheckOpen(u) PROVE LockHeldOnce'
  BY <1>4 DEF CheckOpen, Unused
<1>5. ASSUME NEW u \in Users, Take(u) PROVE LockHeldOnce'
  BY <1>5 DEF Take
<1>6. ASSUME NEW u \in Users, TakeExpires(u) PROVE LockHeldOnce'
  BY <1>6 DEF TakeExpires
<1>7. ASSUME NEW u \in Users, FailUnlessOpen(u) PROVE LockHeldOnce'
  BY <1>7 DEF FailUnlessOpen
<1>8. ASSUME NEW u \in Users, CheckAlive(u) PROVE LockHeldOnce'
  BY <1>8 DEF CheckAlive, Raise
<1>9. ASSUME NEW u \in Users, WriteLeased(u) PROVE LockHeldOnce'
  BY <1>9 DEF WriteLeased
<1>10. ASSUME NEW u \in Users, Release(u) PROVE LockHeldOnce'
  BY <1>10 DEF Release, Finish
<1>11. ASSUME NEW u \in Users, CheckGeneration(u) PROVE LockHeldOnce'
  BY <1>11 DEF CheckGeneration
<1>12. ASSUME NEW u \in Users, CheckClosed(u) PROVE LockHeldOnce'
  BY <1>12 DEF CheckClosed
<1>13. ASSUME NEW u \in Users, Kill(u) PROVE LockHeldOnce'
  BY <1>13 DEF Kill, Finish
<1>14. ASSUME NEW c \in Clients, SetLogger(c) PROVE LockHeldOnce'
  BY <1>14 DEF SetLogger
<1>15. ASSUME NEW c \in Clients, Send(c) PROVE LockHeldOnce'
  BY <1>15 DEF Send
<1>16. ASSUME NEW c \in Clients, FetchLibrary(c) PROVE LockHeldOnce'
  BY <1>16 DEF FetchLibrary
<1>17. ASSUME NEW c \in Clients, LibraryFetched(c) PROVE LockHeldOnce'
  BY <1>17 DEF LibraryFetched
<1>18. ASSUME NEW c \in Clients, Eval(c) PROVE LockHeldOnce'
  BY <1>18 DEF Eval
<1>18l. ASSUME NEW c \in Clients, EvalLibrary(c) PROVE LockHeldOnce'
  BY <1>18l DEF EvalLibrary
<1>19. ASSUME NEW c \in Clients, ClearLogger(c) PROVE LockHeldOnce'
  BY <1>19 DEF ClearLogger
<1>20. ASSUME NEW c \in Clients, ServerLost(c) PROVE LockHeldOnce'
  BY <1>20 DEF ServerLost
<1>21. ASSUME NEW c \in Clients, TakeLock(c) PROVE LockHeldOnce'
  BY <1>21 DEF TakeLock
<1>22. ASSUME NEW c \in Clients, TakeGeneration(c) PROVE LockHeldOnce'
  BY <1>22 DEF TakeGeneration
<1>23. ASSUME NEW c \in Clients, WriteGeneration(c) PROVE LockHeldOnce'
  BY <1>23 DEF WriteGeneration
<1>24. ASSUME NEW c \in Clients, Unlock(c) PROVE LockHeldOnce'
  BY <1>24 DEF Unlock
<1>25. ASSUME NEW c \in Clients, Call(c) PROVE LockHeldOnce'
  BY <1>25 DEF Call
<1>26. ASSUME NEW c \in Clients, Refresh(c) PROVE LockHeldOnce'
  BY <1>26 DEF Refresh
<1>27. ASSUME NEW c \in Clients, Discard(c) PROVE LockHeldOnce'
  BY <1>27 DEF Discard
<1>28. ASSUME NEW c \in Clients, ClientCrash(c) PROVE LockHeldOnce'
  BY <1>28 DEF ClientCrash
<1>29. ASSUME NEW a \in Actors, RegisterOpen(a) PROVE LockHeldOnce'
  BY <1>29 DEF RegisterOpen, Raise
<1>30. ASSUME NEW a \in Actors, RegisterGeneration(a) PROVE LockHeldOnce'
  BY <1>30 DEF RegisterGeneration
<1>31. ASSUME NEW a \in Actors, RegisterWrite(a) PROVE LockHeldOnce'
  BY <1>31 DEF RegisterWrite, Finish
<1>32. ASSUME NEW a \in Actors, Offline(a) PROVE LockHeldOnce'
  BY <1>32 DEF Offline, NeedsRegistry
<1>33. ASSUME NEW s \in Servers, WatchRegistry(s) PROVE LockHeldOnce'
  BY <1>33 DEF WatchRegistry
<1>34. ASSUME NEW s \in Servers, ServerCrash(s) PROVE LockHeldOnce'
  BY <1>34 DEF ServerCrash
<1>35. ASSUME RegistryExit PROVE LockHeldOnce'
  BY <1>35 DEF RegistryExit
<1>35l. ASSUME Listen PROVE LockHeldOnce'
  BY <1>35l DEF Listen
<1>36. ASSUME DeadTake PROVE LockHeldOnce'
  BY <1>36 DEF DeadTake
<1>37. ASSUME UNCHANGED vars PROVE LockHeldOnce'
  BY <1>37 DEF vars
<1> QED
  BY <1>1, <1>2, <1>3, <1>4, <1>5, <1>6, <1>7, <1>8, <1>9, <1>10, <1>11,
     <1>12, <1>13, <1>14, <1>15, <1>16, <1>17, <1>18, <1>19, <1>20, <1>21,
     <1>22, <1>23, <1>24, <1>25, <1>26, <1>27, <1>28, <1>29, <1>30, <1>31,
     <1>32, <1>33, <1>34, <1>35, <1>36, <1>37, <1>18l, <1>35l DEF Next, Step, Lease, Use,
     Return, Register, Expire

\* Logger.  Only the exclusive user of a server sets its logger.
LEMMA LogStep ==
  ASSUME TypeOK, Places, ExclusiveServer, LogsToItsUser, [Next]_vars
  PROVE  LogsToItsUser'
<1> USE RegistryAssumption DEF RegistryAssumption, Actors, Users, Goto, At, Leave, Drop, Rest,
     tuples, pool, gens, locals, world, beside, AnyGeneration, InHand, InUse,
     ClientLabels, CloserLabels, ServerLabels, TypeOK, Places,
     ExclusiveServer, Engaged, LogsToItsUser, ServerUp
<1>1. ASSUME NEW u \in Users, ReadGeneration(u) PROVE LogsToItsUser'
  BY <1>1 DEF ReadGeneration
<1>2. ASSUME NEW u \in Users, CountAvailable(u) PROVE LogsToItsUser'
  BY <1>2 DEF CountAvailable
<1>3. ASSUME NEW u \in Users, CountLeased(u) PROVE LogsToItsUser'
  BY <1>3 DEF CountLeased
<1>4. ASSUME NEW u \in Users, CheckOpen(u) PROVE LogsToItsUser'
  BY <1>4 DEF CheckOpen, Unused
<1>5. ASSUME NEW u \in Users, Take(u) PROVE LogsToItsUser'
  BY <1>5 DEF Take
<1>6. ASSUME NEW u \in Users, TakeExpires(u) PROVE LogsToItsUser'
  BY <1>6 DEF TakeExpires
<1>7. ASSUME NEW u \in Users, FailUnlessOpen(u) PROVE LogsToItsUser'
  BY <1>7 DEF FailUnlessOpen
<1>8. ASSUME NEW u \in Users, CheckAlive(u) PROVE LogsToItsUser'
  BY <1>8 DEF CheckAlive, Raise
<1>9. ASSUME NEW u \in Users, WriteLeased(u) PROVE LogsToItsUser'
  BY <1>9 DEF WriteLeased
<1>10. ASSUME NEW u \in Users, Release(u) PROVE LogsToItsUser'
  BY <1>10 DEF Release, Finish
<1>11. ASSUME NEW u \in Users, CheckGeneration(u) PROVE LogsToItsUser'
  BY <1>11 DEF CheckGeneration
<1>12. ASSUME NEW u \in Users, CheckClosed(u) PROVE LogsToItsUser'
  BY <1>12 DEF CheckClosed
<1>13. ASSUME NEW u \in Users, Kill(u) PROVE LogsToItsUser'
  BY <1>13 DEF Kill, Finish
<1>14. ASSUME NEW c \in Clients, SetLogger(c) PROVE LogsToItsUser'
  BY <1>14 DEF SetLogger
<1>15. ASSUME NEW c \in Clients, Send(c) PROVE LogsToItsUser'
  BY <1>15 DEF Send
<1>16. ASSUME NEW c \in Clients, FetchLibrary(c) PROVE LogsToItsUser'
  BY <1>16 DEF FetchLibrary
<1>17. ASSUME NEW c \in Clients, LibraryFetched(c) PROVE LogsToItsUser'
  BY <1>17 DEF LibraryFetched
<1>18. ASSUME NEW c \in Clients, Eval(c) PROVE LogsToItsUser'
  BY <1>18 DEF Eval
<1>18l. ASSUME NEW c \in Clients, EvalLibrary(c) PROVE LogsToItsUser'
  BY <1>18l DEF EvalLibrary
<1>19. ASSUME NEW c \in Clients, ClearLogger(c) PROVE LogsToItsUser'
  BY <1>19 DEF ClearLogger
<1>20. ASSUME NEW c \in Clients, ServerLost(c) PROVE LogsToItsUser'
  BY <1>20 DEF ServerLost
<1>21. ASSUME NEW c \in Clients, TakeLock(c) PROVE LogsToItsUser'
  BY <1>21 DEF TakeLock
<1>22. ASSUME NEW c \in Clients, TakeGeneration(c) PROVE LogsToItsUser'
  BY <1>22 DEF TakeGeneration
<1>23. ASSUME NEW c \in Clients, WriteGeneration(c) PROVE LogsToItsUser'
  BY <1>23 DEF WriteGeneration
<1>24. ASSUME NEW c \in Clients, Unlock(c) PROVE LogsToItsUser'
  BY <1>24 DEF Unlock
<1>25. ASSUME NEW c \in Clients, Call(c) PROVE LogsToItsUser'
  BY <1>25 DEF Call
<1>26. ASSUME NEW c \in Clients, Refresh(c) PROVE LogsToItsUser'
  BY <1>26 DEF Refresh
<1>27. ASSUME NEW c \in Clients, Discard(c) PROVE LogsToItsUser'
  BY <1>27 DEF Discard
<1>28. ASSUME NEW c \in Clients, ClientCrash(c) PROVE LogsToItsUser'
  BY <1>28 DEF ClientCrash
<1>29. ASSUME NEW a \in Actors, RegisterOpen(a) PROVE LogsToItsUser'
  BY <1>29 DEF RegisterOpen, Raise
<1>30. ASSUME NEW a \in Actors, RegisterGeneration(a) PROVE LogsToItsUser'
  BY <1>30 DEF RegisterGeneration
<1>31. ASSUME NEW a \in Actors, RegisterWrite(a) PROVE LogsToItsUser'
  BY <1>31 DEF RegisterWrite, Finish
<1>32. ASSUME NEW a \in Actors, Offline(a) PROVE LogsToItsUser'
  BY <1>32 DEF Offline, NeedsRegistry
<1>33. ASSUME NEW s \in Servers, WatchRegistry(s) PROVE LogsToItsUser'
  BY <1>33 DEF WatchRegistry
<1>34. ASSUME NEW s \in Servers, ServerCrash(s) PROVE LogsToItsUser'
  BY <1>34 DEF ServerCrash
<1>35. ASSUME RegistryExit PROVE LogsToItsUser'
  BY <1>35 DEF RegistryExit
<1>35l. ASSUME Listen PROVE LogsToItsUser'
  BY <1>35l DEF Listen
<1>36. ASSUME DeadTake PROVE LogsToItsUser'
  BY <1>36 DEF DeadTake
<1>37. ASSUME UNCHANGED vars PROVE LogsToItsUser'
  BY <1>37 DEF vars
<1> QED
  BY <1>1, <1>2, <1>3, <1>4, <1>5, <1>6, <1>7, <1>8, <1>9, <1>10, <1>11,
     <1>12, <1>13, <1>14, <1>15, <1>16, <1>17, <1>18, <1>19, <1>20, <1>21,
     <1>22, <1>23, <1>24, <1>25, <1>26, <1>27, <1>28, <1>29, <1>30, <1>31,
     <1>32, <1>33, <1>34, <1>35, <1>36, <1>37, <1>18l, <1>35l DEF Next, Step, Lease, Use,
     Return, Register, Expire

\* A step that takes no tuple and leaves every server in hand where it is
\* forgets nothing.
LEMMA Kept ==
  ASSUME crashed = {}, crashed' = {}, NoServerForgotten, up' => up, closed => closed',
         \A s \in Servers : pc'[s] = "serving" => pc[s] = "serving",
         available \subseteq available',
         \A u \in Users : Engaged(u) => Engaged(u)' /\ uri'[u] = uri[u]
  PROVE  (crashed = {} /\ NoServerForgotten)'
BY DEF NoServerForgotten

\* Custody, when no client dies.
LEMMA ForgetStep ==
  ASSUME Mortal = {}, crashed = {}, TypeOK, Places,
         ExclusiveServer, LeaseBelongsToCall, NoServerForgotten, [Next]_vars
  PROVE  (crashed = {} /\ NoServerForgotten)'
<1> USE RegistryAssumption DEF RegistryAssumption, Actors, Users, Goto, At, Leave, Drop, Rest,
     tuples, pool, gens, locals, world, beside, AnyGeneration, InHand, InUse,
     ClientLabels, CloserLabels, ServerLabels, TypeOK, Places,
     ExclusiveServer, Engaged, LeaseBelongsToCall, NoServerForgotten, ServerUp, RegistryOpen
<1>1. ASSUME NEW u \in Users, ReadGeneration(u) PROVE (crashed = {} /\ NoServerForgotten)'
  BY <1>1 DEF ReadGeneration
<1>2. ASSUME NEW u \in Users, CountAvailable(u) PROVE (crashed = {} /\ NoServerForgotten)'
  BY <1>2 DEF CountAvailable
<1>3. ASSUME NEW u \in Users, CountLeased(u) PROVE (crashed = {} /\ NoServerForgotten)'
  BY <1>3 DEF CountLeased
<1>4. ASSUME NEW u \in Users, CheckOpen(u) PROVE (crashed = {} /\ NoServerForgotten)'
  <2>1. available' = available /\ up' = up /\ closed' = closed /\ crashed' = crashed
    BY <1>4 DEF CheckOpen
  <2>2. \A s \in Servers : pc'[s] = "serving" => pc[s] = "serving"
    BY <1>4 DEF CheckOpen
  <2>3. \A v \in Users : Engaged(v) => Engaged(v)' /\ uri'[v] = uri[v]
    BY <1>4 DEF CheckOpen
  <2> HIDE DEF NoServerForgotten, Engaged
  <2> QED BY <2>1, <2>2, <2>3, Kept
<1>5. ASSUME NEW u \in Users, Take(u) PROVE (crashed = {} /\ NoServerForgotten)'
  BY <1>5 DEF Take
<1>6. ASSUME NEW u \in Users, TakeExpires(u) PROVE (crashed = {} /\ NoServerForgotten)'
  BY <1>6 DEF TakeExpires
<1>7. ASSUME NEW u \in Users, FailUnlessOpen(u) PROVE (crashed = {} /\ NoServerForgotten)'
  BY <1>7 DEF FailUnlessOpen
<1>8. ASSUME NEW u \in Users, CheckAlive(u) PROVE (crashed = {} /\ NoServerForgotten)'
  <2>1. CASE ServerUp(uri[u])
    <3>1. available' = available /\ up' = up /\ closed' = closed /\ crashed' = crashed
      BY <1>8 DEF CheckAlive
    <3>2. \A s \in Servers : pc'[s] = "serving" => pc[s] = "serving"
      BY <1>8, <2>1 DEF CheckAlive
    <3>3. \A v \in Users : Engaged(v) => Engaged(v)' /\ uri'[v] = uri[v]
      BY <1>8, <2>1 DEF CheckAlive
    <3> HIDE DEF NoServerForgotten, Engaged
    <3> QED BY <3>1, <3>2, <3>3, Kept
  <2>2. CASE ~ServerUp(uri[u])
    <3>1. available' = available /\ up' = up /\ closed' = closed /\ crashed' = crashed
      BY <1>8 DEF CheckAlive
    <3>2. \A s \in Servers : pc'[s] = pc[s] /\ (pc[s] = "serving" => s # uri[u])
      BY <1>8, <2>2 DEF CheckAlive
    <3>3. \A v \in Users \ {u} : (Engaged(v) <=> Engaged(v)') /\ uri'[v] = uri[v]
      BY <1>8 DEF CheckAlive
    <3> HIDE DEF Engaged
    <3> QED BY <3>1, <3>2, <3>3
  <2> QED BY <2>1, <2>2
<1>9. ASSUME NEW u \in Users, WriteLeased(u) PROVE (crashed = {} /\ NoServerForgotten)'
  BY <1>9 DEF WriteLeased
<1>10. ASSUME NEW u \in Users, Release(u) PROVE (crashed = {} /\ NoServerForgotten)'
  <2>1. available' = available /\ up' = up /\ closed' = closed /\ crashed' = crashed
    BY <1>10 DEF Release
  <2>2. \A s \in Servers : pc'[s] = "serving" => pc[s] = "serving"
    BY <1>10 DEF Release
  <2>3. CASE \E l \in leased : l.client = u
    <3>1. pc' = [pc EXCEPT ![u] = "relGeneration"] /\ uri'[u] = uri[u]
      BY <1>10, <2>3 DEF Release
    <3>2. \A v \in Users : Engaged(v) => Engaged(v)' /\ uri'[v] = uri[v]
      BY <3>1, <1>10 DEF Release
    <3> HIDE DEF NoServerForgotten, Engaged
    <3> QED BY <2>1, <2>2, <3>2, Kept
  <2>4. CASE \A l \in leased : l.client # u
    <3>1. uri[u] = NoServer
      BY <1>10, <2>4 DEF Release
    <3>2. \A v \in Users : Engaged(v) => Engaged(v)' /\ uri'[v] = uri[v]
      BY <3>1, <2>4, <1>10 DEF Release
    <3> HIDE DEF NoServerForgotten, Engaged
    <3> QED BY <2>1, <2>2, <3>2, Kept
  <2> QED BY <2>3, <2>4
<1>11. ASSUME NEW u \in Users, CheckGeneration(u) PROVE (crashed = {} /\ NoServerForgotten)'
  BY <1>11 DEF CheckGeneration
<1>12. ASSUME NEW u \in Users, CheckClosed(u) PROVE (crashed = {} /\ NoServerForgotten)'
  BY <1>12 DEF CheckClosed
<1>13. ASSUME NEW u \in Users, Kill(u) PROVE (crashed = {} /\ NoServerForgotten)'
  BY <1>13 DEF Kill, Finish
<1>14. ASSUME NEW c \in Clients, SetLogger(c) PROVE (crashed = {} /\ NoServerForgotten)'
  BY <1>14 DEF SetLogger
<1>15. ASSUME NEW c \in Clients, Send(c) PROVE (crashed = {} /\ NoServerForgotten)'
  BY <1>15 DEF Send
<1>16. ASSUME NEW c \in Clients, FetchLibrary(c) PROVE (crashed = {} /\ NoServerForgotten)'
  BY <1>16 DEF FetchLibrary
<1>17. ASSUME NEW c \in Clients, LibraryFetched(c) PROVE (crashed = {} /\ NoServerForgotten)'
  BY <1>17 DEF LibraryFetched
<1>18. ASSUME NEW c \in Clients, Eval(c) PROVE (crashed = {} /\ NoServerForgotten)'
  BY <1>18 DEF Eval
<1>18l. ASSUME NEW c \in Clients, EvalLibrary(c) PROVE (crashed = {} /\ NoServerForgotten)'
  BY <1>18l DEF EvalLibrary
<1>19. ASSUME NEW c \in Clients, ClearLogger(c) PROVE (crashed = {} /\ NoServerForgotten)'
  BY <1>19 DEF ClearLogger
<1>20. ASSUME NEW c \in Clients, ServerLost(c) PROVE (crashed = {} /\ NoServerForgotten)'
  BY <1>20 DEF ServerLost
<1>21. ASSUME NEW c \in Clients, TakeLock(c) PROVE (crashed = {} /\ NoServerForgotten)'
  BY <1>21 DEF TakeLock
<1>22. ASSUME NEW c \in Clients, TakeGeneration(c) PROVE (crashed = {} /\ NoServerForgotten)'
  BY <1>22 DEF TakeGeneration
<1>23. ASSUME NEW c \in Clients, WriteGeneration(c) PROVE (crashed = {} /\ NoServerForgotten)'
  BY <1>23 DEF WriteGeneration
<1>24. ASSUME NEW c \in Clients, Unlock(c) PROVE (crashed = {} /\ NoServerForgotten)'
  BY <1>24 DEF Unlock
<1>25. ASSUME NEW c \in Clients, Call(c) PROVE (crashed = {} /\ NoServerForgotten)'
  BY <1>25 DEF Call
<1>26. ASSUME NEW c \in Clients, Refresh(c) PROVE (crashed = {} /\ NoServerForgotten)'
  BY <1>26 DEF Refresh
<1>27. ASSUME NEW c \in Clients, Discard(c) PROVE (crashed = {} /\ NoServerForgotten)'
  BY <1>27 DEF Discard
<1>28. ASSUME NEW c \in Clients, ClientCrash(c) PROVE (crashed = {} /\ NoServerForgotten)'
  BY <1>28 DEF ClientCrash
<1>29. ASSUME NEW a \in Actors, RegisterOpen(a) PROVE (crashed = {} /\ NoServerForgotten)'
  BY <1>29 DEF RegisterOpen, Raise
<1>30. ASSUME NEW a \in Actors, RegisterGeneration(a) PROVE (crashed = {} /\ NoServerForgotten)'
  BY <1>30 DEF RegisterGeneration
<1>31. ASSUME NEW a \in Actors, RegisterWrite(a) PROVE (crashed = {} /\ NoServerForgotten)'
  <2>1. /\ up' = up /\ closed' = closed /\ crashed' = crashed
        /\ available' = available \cup {[generation |-> seen[a], uri |-> uri[a]]}
    BY <1>31 DEF RegisterWrite
  <2>2. /\ available \subseteq available'
        /\ \E t \in available' : t.uri = uri[a]
    <3> DEFINE new == [generation |-> seen[a], uri |-> uri[a]]
    <3>1. new \in available' /\ available \subseteq available'
      BY <2>1
    <3>2. new.uri = uri[a]
      OBVIOUS
    <3> HIDE DEF new
    <3> QED BY <3>1, <3>2
  <2>3. \A s \in Servers : pc'[s] = "serving" => pc[s] = "serving" \/ (s = a /\ uri[s] = s)
    BY <1>31 DEF RegisterWrite, Finish
  <2>4. \A v \in Users \ {a} : (Engaged(v) => Engaged(v)') /\ uri'[v] = uri[v]
    BY <1>31 DEF RegisterWrite, Finish
  <2> HIDE DEF Engaged
  <2> QED BY <2>1, <2>2, <2>3, <2>4
<1>32. ASSUME NEW a \in Actors, Offline(a) PROVE (crashed = {} /\ NoServerForgotten)'
  BY <1>32 DEF Offline, NeedsRegistry
<1>33. ASSUME NEW s \in Servers, WatchRegistry(s) PROVE (crashed = {} /\ NoServerForgotten)'
  BY <1>33 DEF WatchRegistry
<1>34. ASSUME NEW s \in Servers, ServerCrash(s) PROVE (crashed = {} /\ NoServerForgotten)'
  BY <1>34 DEF ServerCrash
<1>35. ASSUME RegistryExit PROVE (crashed = {} /\ NoServerForgotten)'
  BY <1>35 DEF RegistryExit
<1>35l. ASSUME Listen PROVE (crashed = {} /\ NoServerForgotten)'
  BY <1>35l DEF Listen
<1>36. ASSUME DeadTake PROVE (crashed = {} /\ NoServerForgotten)'
  BY <1>36 DEF DeadTake
<1>37. ASSUME UNCHANGED vars PROVE (crashed = {} /\ NoServerForgotten)'
  BY <1>37 DEF vars
<1> QED
  BY <1>1, <1>2, <1>3, <1>4, <1>5, <1>6, <1>7, <1>8, <1>9, <1>10, <1>11,
     <1>12, <1>13, <1>14, <1>15, <1>16, <1>17, <1>18, <1>19, <1>20, <1>21,
     <1>22, <1>23, <1>24, <1>25, <1>26, <1>27, <1>28, <1>29, <1>30, <1>31,
     <1>32, <1>33, <1>34, <1>35, <1>36, <1>37, <1>18l, <1>35l DEF Next, Step, Lease, Use,
     Return, Register, Expire

\* The inductive invariant holds in every reachable state.
THEOREM Invariance == Spec => []IInv
<1>1. Init => IInv
  <2> SUFFICES ASSUME Init PROVE IInv
    OBVIOUS
  <2> USE RegistryAssumption DEF RegistryAssumption, Init, Actors, Users, InHand, InUse, AnyGeneration
  <2>1. TypeOK
    BY DEF TypeOK, ClientLabels, CloserLabels, ServerLabels
  <2>2. Places
    BY DEF Places
  <2>3. ExclusiveServer /\ LeaseBelongsToCall /\ LockHeldOnce /\ LogsToItsUser
    BY DEF ExclusiveServer, Engaged, LeaseBelongsToCall, LockHeldOnce, InLock, LogsToItsUser
  <2>4. Finite
    BY FS_EmptySet DEF Finite
  <2> QED BY <2>1, <2>2, <2>3, <2>4 DEF IInv
<1>2. IInv /\ [Next]_vars => IInv'
  <2> SUFFICES ASSUME IInv, [Next]_vars PROVE IInv'
    OBVIOUS
  <2>1. TypeOK /\ Finite /\ Places /\ ExclusiveServer /\ LeaseBelongsToCall
         /\ LockHeldOnce /\ LogsToItsUser
    BY DEF IInv
  <2>2. TypeOK' /\ Finite' /\ Places'
    BY <2>1, TypeStep, FiniteStep, PlacesStep
  <2>3. ExclusiveServer' /\ LeaseBelongsToCall' /\ LockHeldOnce' /\ LogsToItsUser'
    BY <2>1, ExclusiveStep, LeaseStep, LockStep, LogStep
  <2> QED BY <2>2, <2>3 DEF IInv
<1> QED BY <1>1, <1>2, PTL DEF Spec

\* Every variable keeps its type and every actor stays in the code it runs.
THEOREM TypeCorrect == Spec => []TypeOK
<1>1. IInv => TypeOK
  BY DEF IInv
<1> QED BY <1>1, Invariance, PTL

\* No server is ever in two hands, in two tuples, or in a hand and a tuple.
THEOREM Exclusion == Spec => []ExclusiveServer
<1>1. IInv => ExclusiveServer
  BY DEF IInv
<1> QED BY <1>1, Invariance, PTL

\* A client id names one lease, of the server its holder just used.
THEOREM LeaseOwnership == Spec => []LeaseBelongsToCall
<1>1. IInv => LeaseBelongsToCall
  BY DEF IInv
<1> QED BY <1>1, Invariance, PTL

\* with_lock excludes library lookups and refreshes from one another.
THEOREM MutualExclusion == Spec => []LockHeldOnce
<1>1. IInv => LockHeldOnce
  BY DEF IInv
<1> QED BY <1>1, Invariance, PTL

\* A running script logs to the client that runs it.
THEOREM LogOwnership == Spec => []LogsToItsUser
<1>1. IInv => LogsToItsUser
  BY DEF IInv
<1> QED BY <1>1, Invariance, PTL

\* If no client dies, no server is forgotten while the registry is open, even
\* if servers die.
THEOREM Custody == ASSUME Mortal = {} PROVE Spec => []NoServerForgotten
<1> DEFINE Safe == crashed = {} /\ NoServerForgotten
<1>1. Init => Safe
  BY RegistryAssumption DEF Init, NoServerForgotten, Actors, RegistryAssumption
<1>2. IInv /\ Safe /\ [Next]_vars => Safe'
  <2> SUFFICES ASSUME IInv, Safe, [Next]_vars PROVE Safe'
    OBVIOUS
  <2>1. TypeOK /\ Places /\ ExclusiveServer /\ LeaseBelongsToCall
    BY DEF IInv
  <2> QED BY <2>1, ForgetStep
<1> QED BY <1>1, <1>2, Invariance, PTL DEF Spec

-----------------------------------------------------------------------------
(* Generations.  Those who have called refresh and not yet written the number, *)
(* and what the one of them that has taken it holds.                           *)
Passing  == {"lock", "takeGeneration", "writeGeneration"}
Waiters  == {c \in Clients : op[c] = "refresh" /\ pc[c] \in Passing}

Counting ==
  /\ \A c \in Clients : pc[c] \in Passing => op[c] = "refresh"
  /\ up => \A c \in Clients : pc[c] = "writeGeneration" => seen[c] = generation

\* The number is taken and written under the lock, so nobody writes it in between.
LEMMA CountingStep ==
  ASSUME TypeOK, Places, LockHeldOnce, Counting, [Next]_vars
  PROVE  Counting'
<1> USE RegistryAssumption DEF RegistryAssumption, Actors, Users, Goto, At, Leave, Drop, Rest,
     tuples, pool, gens, locals, world, beside, AnyGeneration, InHand, InUse,
     ClientLabels, CloserLabels, ServerLabels, TypeOK, Places,
     Counting, Passing, LockHeldOnce, InLock
<1>1. ASSUME NEW u \in Users, ReadGeneration(u) PROVE Counting'
  BY <1>1 DEF ReadGeneration
<1>2. ASSUME NEW u \in Users, CountAvailable(u) PROVE Counting'
  BY <1>2 DEF CountAvailable
<1>3. ASSUME NEW u \in Users, CountLeased(u) PROVE Counting'
  BY <1>3 DEF CountLeased
<1>4. ASSUME NEW u \in Users, CheckOpen(u) PROVE Counting'
  BY <1>4 DEF CheckOpen, Unused
<1>5. ASSUME NEW u \in Users, Take(u) PROVE Counting'
  BY <1>5 DEF Take
<1>6. ASSUME NEW u \in Users, TakeExpires(u) PROVE Counting'
  BY <1>6 DEF TakeExpires
<1>7. ASSUME NEW u \in Users, FailUnlessOpen(u) PROVE Counting'
  BY <1>7 DEF FailUnlessOpen
<1>8. ASSUME NEW u \in Users, CheckAlive(u) PROVE Counting'
  BY <1>8 DEF CheckAlive, Raise
<1>9. ASSUME NEW u \in Users, WriteLeased(u) PROVE Counting'
  BY <1>9 DEF WriteLeased
<1>10. ASSUME NEW u \in Users, Release(u) PROVE Counting'
  BY <1>10 DEF Release, Finish
<1>11. ASSUME NEW u \in Users, CheckGeneration(u) PROVE Counting'
  BY <1>11 DEF CheckGeneration
<1>12. ASSUME NEW u \in Users, CheckClosed(u) PROVE Counting'
  BY <1>12 DEF CheckClosed
<1>13. ASSUME NEW u \in Users, Kill(u) PROVE Counting'
  BY <1>13 DEF Kill, Finish
<1>14. ASSUME NEW c \in Clients, SetLogger(c) PROVE Counting'
  BY <1>14 DEF SetLogger
<1>15. ASSUME NEW c \in Clients, Send(c) PROVE Counting'
  BY <1>15 DEF Send
<1>16. ASSUME NEW c \in Clients, FetchLibrary(c) PROVE Counting'
  BY <1>16 DEF FetchLibrary
<1>17. ASSUME NEW c \in Clients, LibraryFetched(c) PROVE Counting'
  BY <1>17 DEF LibraryFetched
<1>18. ASSUME NEW c \in Clients, Eval(c) PROVE Counting'
  BY <1>18 DEF Eval
<1>18l. ASSUME NEW c \in Clients, EvalLibrary(c) PROVE Counting'
  BY <1>18l DEF EvalLibrary
<1>19. ASSUME NEW c \in Clients, ClearLogger(c) PROVE Counting'
  BY <1>19 DEF ClearLogger
<1>20. ASSUME NEW c \in Clients, ServerLost(c) PROVE Counting'
  BY <1>20 DEF ServerLost
<1>21. ASSUME NEW c \in Clients, TakeLock(c) PROVE Counting'
  BY <1>21 DEF TakeLock
<1>22. ASSUME NEW c \in Clients, TakeGeneration(c) PROVE Counting'
  BY <1>22 DEF TakeGeneration
<1>23. ASSUME NEW c \in Clients, WriteGeneration(c) PROVE Counting'
  BY <1>23 DEF WriteGeneration
<1>24. ASSUME NEW c \in Clients, Unlock(c) PROVE Counting'
  BY <1>24 DEF Unlock
<1>25. ASSUME NEW c \in Clients, Call(c) PROVE Counting'
  BY <1>25 DEF Call
<1>26. ASSUME NEW c \in Clients, Refresh(c) PROVE Counting'
  BY <1>26 DEF Refresh
<1>27. ASSUME NEW c \in Clients, Discard(c) PROVE Counting'
  BY <1>27 DEF Discard
<1>28. ASSUME NEW c \in Clients, ClientCrash(c) PROVE Counting'
  BY <1>28 DEF ClientCrash
<1>29. ASSUME NEW a \in Actors, RegisterOpen(a) PROVE Counting'
  BY <1>29 DEF RegisterOpen, Raise
<1>30. ASSUME NEW a \in Actors, RegisterGeneration(a) PROVE Counting'
  BY <1>30 DEF RegisterGeneration
<1>31. ASSUME NEW a \in Actors, RegisterWrite(a) PROVE Counting'
  BY <1>31 DEF RegisterWrite, Finish
<1>32. ASSUME NEW a \in Actors, Offline(a) PROVE Counting'
  BY <1>32 DEF Offline, NeedsRegistry
<1>33. ASSUME NEW s \in Servers, WatchRegistry(s) PROVE Counting'
  BY <1>33 DEF WatchRegistry
<1>34. ASSUME NEW s \in Servers, ServerCrash(s) PROVE Counting'
  BY <1>34 DEF ServerCrash
<1>35. ASSUME RegistryExit PROVE Counting'
  BY <1>35 DEF RegistryExit
<1>35l. ASSUME Listen PROVE Counting'
  BY <1>35l DEF Listen
<1>36. ASSUME DeadTake PROVE Counting'
  BY <1>36 DEF DeadTake
<1>37. ASSUME UNCHANGED vars PROVE Counting'
  BY <1>37 DEF vars
<1> QED
  BY <1>1, <1>2, <1>3, <1>4, <1>5, <1>6, <1>7, <1>8, <1>9, <1>10, <1>11, <1>12, <1>13,
     <1>14, <1>15, <1>16, <1>17, <1>18, <1>19, <1>20, <1>21, <1>22, <1>23, <1>24, <1>25,
     <1>26, <1>27, <1>28, <1>29, <1>30, <1>31, <1>32, <1>33, <1>34, <1>35, <1>36, <1>37, <1>18l, <1>35l DEF Next, Step, Lease, Use,
     Return, Register, Expire

\* A step comes to be counted, is counted, or neither.
Counted ==
  \/ UNCHANGED <<generation, refreshes, Waiters>>
  \/ up' = FALSE
  \/ UNCHANGED generation /\ refreshes' = refreshes + 1 /\ \E c \in Clients \ Waiters : Waiters' = Waiters \cup {c}
  \/ UNCHANGED refreshes /\ generation' = generation + 1 /\ \E c \in Waiters : Waiters' = Waiters \ {c}

\* A client waits to be counted from its call of refresh to its write.
LEMMA CountedStep ==
  ASSUME TypeOK, Places, Counting, [Next]_vars
  PROVE  Counted
<1> USE RegistryAssumption DEF RegistryAssumption, Actors, Users, Goto, At, Leave, Drop, Rest,
     tuples, pool, gens, locals, world, beside, AnyGeneration, InHand, InUse,
     ClientLabels, CloserLabels, ServerLabels, TypeOK, Places,
     Counting, Passing, Waiters
<1>1. ASSUME NEW u \in Users, ReadGeneration(u) PROVE Counted
  BY <1>1 DEF Counted, ReadGeneration
<1>2. ASSUME NEW u \in Users, CountAvailable(u) PROVE Counted
  BY <1>2 DEF Counted, CountAvailable
<1>3. ASSUME NEW u \in Users, CountLeased(u) PROVE Counted
  BY <1>3 DEF Counted, CountLeased
<1>4. ASSUME NEW u \in Users, CheckOpen(u) PROVE Counted
  BY <1>4 DEF Counted, CheckOpen, Unused
<1>5. ASSUME NEW u \in Users, Take(u) PROVE Counted
  BY <1>5 DEF Counted, Take
<1>6. ASSUME NEW u \in Users, TakeExpires(u) PROVE Counted
  BY <1>6 DEF Counted, TakeExpires
<1>7. ASSUME NEW u \in Users, FailUnlessOpen(u) PROVE Counted
  BY <1>7 DEF Counted, FailUnlessOpen
<1>8. ASSUME NEW u \in Users, CheckAlive(u) PROVE Counted
  BY <1>8 DEF Counted, CheckAlive, Raise
<1>9. ASSUME NEW u \in Users, WriteLeased(u) PROVE Counted
  BY <1>9 DEF Counted, WriteLeased
<1>10. ASSUME NEW u \in Users, Release(u) PROVE Counted
  BY <1>10 DEF Counted, Release, Finish
<1>11. ASSUME NEW u \in Users, CheckGeneration(u) PROVE Counted
  BY <1>11 DEF Counted, CheckGeneration
<1>12. ASSUME NEW u \in Users, CheckClosed(u) PROVE Counted
  BY <1>12 DEF Counted, CheckClosed
<1>13. ASSUME NEW u \in Users, Kill(u) PROVE Counted
  BY <1>13 DEF Counted, Kill, Finish
<1>14. ASSUME NEW c \in Clients, SetLogger(c) PROVE Counted
  BY <1>14 DEF Counted, SetLogger
<1>15. ASSUME NEW c \in Clients, Send(c) PROVE Counted
  BY <1>15 DEF Counted, Send
<1>16. ASSUME NEW c \in Clients, FetchLibrary(c) PROVE Counted
  BY <1>16 DEF Counted, FetchLibrary
<1>17. ASSUME NEW c \in Clients, LibraryFetched(c) PROVE Counted
  BY <1>17 DEF Counted, LibraryFetched
<1>18. ASSUME NEW c \in Clients, Eval(c) PROVE Counted
  BY <1>18 DEF Counted, Eval
<1>18l. ASSUME NEW c \in Clients, EvalLibrary(c) PROVE Counted
  BY <1>18l DEF Counted, EvalLibrary
<1>19. ASSUME NEW c \in Clients, ClearLogger(c) PROVE Counted
  BY <1>19 DEF Counted, ClearLogger
<1>20. ASSUME NEW c \in Clients, ServerLost(c) PROVE Counted
  BY <1>20 DEF Counted, ServerLost
<1>21. ASSUME NEW c \in Clients, TakeLock(c) PROVE Counted
  BY <1>21 DEF Counted, TakeLock
<1>22. ASSUME NEW c \in Clients, TakeGeneration(c) PROVE Counted
  BY <1>22 DEF Counted, TakeGeneration
<1>23. ASSUME NEW c \in Clients, WriteGeneration(c) PROVE Counted
  <2>1. UNCHANGED refreshes /\ generation' = generation + 1
    BY <1>23 DEF WriteGeneration
  <2>2. c \in Waiters /\ Waiters' = Waiters \ {c}
    BY <1>23 DEF WriteGeneration
  <2> QED BY <2>1, <2>2 DEF Counted
<1>24. ASSUME NEW c \in Clients, Unlock(c) PROVE Counted
  BY <1>24 DEF Counted, Unlock
<1>25. ASSUME NEW c \in Clients, Call(c) PROVE Counted
  BY <1>25 DEF Counted, Call
<1>26. ASSUME NEW c \in Clients, Refresh(c) PROVE Counted
  <2>1. UNCHANGED generation /\ refreshes' = refreshes + 1
    BY <1>26 DEF Refresh
  <2>2. c \notin Waiters /\ Waiters' = Waiters \cup {c}
    BY <1>26 DEF Refresh
  <2> QED BY <2>1, <2>2 DEF Counted
<1>27. ASSUME NEW c \in Clients, Discard(c) PROVE Counted
  BY <1>27 DEF Counted, Discard
<1>28. ASSUME NEW c \in Clients, ClientCrash(c) PROVE Counted
  BY <1>28 DEF Counted, ClientCrash
<1>29. ASSUME NEW a \in Actors, RegisterOpen(a) PROVE Counted
  BY <1>29 DEF Counted, RegisterOpen, Raise
<1>30. ASSUME NEW a \in Actors, RegisterGeneration(a) PROVE Counted
  BY <1>30 DEF Counted, RegisterGeneration
<1>31. ASSUME NEW a \in Actors, RegisterWrite(a) PROVE Counted
  BY <1>31 DEF Counted, RegisterWrite, Finish
<1>32. ASSUME NEW a \in Actors, Offline(a) PROVE Counted
  BY <1>32 DEF Counted, Offline, NeedsRegistry
<1>33. ASSUME NEW s \in Servers, WatchRegistry(s) PROVE Counted
  BY <1>33 DEF Counted, WatchRegistry
<1>34. ASSUME NEW s \in Servers, ServerCrash(s) PROVE Counted
  BY <1>34 DEF Counted, ServerCrash
<1>35. ASSUME RegistryExit PROVE Counted
  BY <1>35 DEF Counted, RegistryExit
<1>35l. ASSUME Listen PROVE Counted
  BY <1>35l DEF Counted, Listen
<1>36. ASSUME DeadTake PROVE Counted
  BY <1>36 DEF Counted, DeadTake
<1>37. ASSUME UNCHANGED vars PROVE Counted
  BY <1>37 DEF Counted, vars
<1> QED
  BY <1>1, <1>2, <1>3, <1>4, <1>5, <1>6, <1>7, <1>8, <1>9, <1>10, <1>11, <1>12, <1>13,
     <1>14, <1>15, <1>16, <1>17, <1>18, <1>19, <1>20, <1>21, <1>22, <1>23, <1>24, <1>25,
     <1>26, <1>27, <1>28, <1>29, <1>30, <1>31, <1>32, <1>33, <1>34, <1>35, <1>36, <1>37, <1>18l, <1>35l DEF Next, Step, Lease, Use,
     Return, Register, Expire

\* One life: what follows the registry's exit is in RegistryLifecycle.
LEMMA NeverUpAgain ==
  ASSUME [Next]_vars
  PROVE  up' => up
<1> USE DEF vars, tuples, pool, gens, locals, world, beside
<1>1. ASSUME NEW u \in Users, Lease(u) \/ Return(u) PROVE up' = up
  <2>1. CASE Lease(u)
    BY <2>1 DEF Lease, ReadGeneration, CountAvailable, CountLeased, CheckOpen, Take, TakeExpires,
       FailUnlessOpen, CheckAlive, WriteLeased
  <2>2. CASE Return(u)
    BY <2>2 DEF Return, Release, CheckGeneration, CheckClosed, Kill
  <2> QED BY <1>1, <2>1, <2>2
<1>2. ASSUME NEW c \in Clients, Use(c) \/ Expire(c) PROVE up' = up
  <2>1. CASE Use(c)
    BY <2>1 DEF Use, SetLogger, Send, FetchLibrary, LibraryFetched, Eval, ClearLogger, ServerLost
  <2>2. CASE Expire(c)
    BY <2>2 DEF Expire, TakeLock, TakeGeneration, WriteGeneration, Unlock
  <2> QED BY <1>2, <2>1, <2>2
<1>3. ASSUME NEW a \in Actors, Register(a) \/ Offline(a) PROVE up' = up
  BY <1>3 DEF Register, RegisterOpen, RegisterGeneration, RegisterWrite, Offline
<1>4. ASSUME NEW c \in Clients, Call(c) \/ Refresh(c) \/ Discard(c) \/ ClientCrash(c) \/ EvalLibrary(c)
      PROVE  up' = up
  BY <1>4 DEF Call, Refresh, Discard, ClientCrash, EvalLibrary
<1>5. ASSUME NEW s \in Servers, WatchRegistry(s) \/ ServerCrash(s) PROVE up' = up
  BY <1>5 DEF WatchRegistry, ServerCrash
<1>6. ASSUME Listen \/ DeadTake PROVE up' = up
  BY <1>6 DEF Listen, DeadTake
<1>7. ASSUME RegistryExit PROVE up' => up
  BY <1>7 DEF RegistryExit
<1>8. ASSUME UNCHANGED vars PROVE up' = up
  BY <1>8
<1> QED
  BY <1>1, <1>2, <1>3, <1>4, <1>5, <1>6, <1>7, <1>8 DEF Next, Step

\* No refresh is lost, and none is counted twice, however many there are and
\* whoever dies in the middle of one.
THEOREM RefreshesCounted == Spec => []EveryRefreshCounts
<1> DEFINE Sum == EveryRefreshCounts /\ Counting
<1>0. EveryRefreshCounts <=> (up => generation = refreshes - Cardinality(Waiters))
  BY DEF EveryRefreshCounts, Waiters, Passing
<1>1. Init => Sum
  <2> SUFFICES ASSUME Init PROVE Sum
    OBVIOUS
  <2>1. Counting /\ Waiters = {}
    BY RegistryAssumption DEF RegistryAssumption, Init, Counting, Waiters, Passing, Actors, Users
  <2>2. generation = refreshes - Cardinality(Waiters)
    BY <2>1, FS_EmptySet DEF Init
  <2> QED BY <1>0, <2>1, <2>2
<1>2. IInv /\ IInv' /\ Sum /\ [Next]_vars => Sum'
  <2> SUFFICES ASSUME IInv, IInv', Sum, [Next]_vars PROVE Sum'
    OBVIOUS
  <2>1. TypeOK /\ TypeOK' /\ Places /\ LockHeldOnce /\ Counting
    BY DEF IInv
  <2>2. Counting' /\ Counted
    BY <2>1, CountingStep, CountedStep
  <2>3. IsFiniteSet(Waiters) /\ Cardinality(Waiters) \in Nat
    <3>1. Waiters \subseteq Clients
      BY DEF Waiters
    <3> QED BY <3>1, RegistryAssumption, FS_Subset, FS_CardinalityType DEF RegistryAssumption
  <2>4. up' => up
    BY <2>1, NeverUpAgain
  <2>5. SUFFICES ASSUME up' PROVE generation' = refreshes' - Cardinality(Waiters')
    BY <2>2 DEF EveryRefreshCounts, Waiters, Passing
  <2>6. generation = refreshes - Cardinality(Waiters) /\ generation \in Nat /\ refreshes \in Nat
    BY <1>0, <2>1, <2>4, <2>5 DEF TypeOK
  <2>7. ASSUME NEW c \in Clients \ Waiters, Waiters' = Waiters \cup {c}
        PROVE  Cardinality(Waiters') = Cardinality(Waiters) + 1
    BY <2>3, <2>7, FS_AddElement
  <2>8. ASSUME NEW c \in Waiters, Waiters' = Waiters \ {c}
        PROVE  Cardinality(Waiters') = Cardinality(Waiters) - 1
    BY <2>3, <2>8, FS_RemoveElement
  <2>9. CASE UNCHANGED <<generation, refreshes, Waiters>>
    BY <2>6, <2>9
  <2>10. CASE UNCHANGED generation /\ refreshes' = refreshes + 1 /\ \E c \in Clients \ Waiters : Waiters' = Waiters \cup {c}
    <3>1. Cardinality(Waiters') = Cardinality(Waiters) + 1
      BY <2>7, <2>10
    <3> QED BY <2>3, <2>6, <2>10, <3>1
  <2>11. CASE UNCHANGED refreshes /\ generation' = generation + 1 /\ \E c \in Waiters : Waiters' = Waiters \ {c}
    <3>1. Cardinality(Waiters') = Cardinality(Waiters) - 1
      BY <2>8, <2>11
    <3> QED BY <2>3, <2>6, <2>11, <3>1
  <2> QED BY <2>2, <2>5, <2>9, <2>10, <2>11 DEF Counted
<1> QED BY <1>1, <1>2, Invariance, PTL DEF Spec

(***************************************************************************)
(* ServerRegistry implements ServerLeasing, for any number of clients and  *)
(* servers, with or without crashes.                                       *)
(***************************************************************************)

(* What the implementation needs beyond IInv.  The closing thread looks for   *)
(* leases of every generation and registers no server, as the registry is     *)
(* closed by then; so nobody uses a server when it takes the registry away.   *)
(* And a server found alive stays so until it is leased, unless it dies.      *)
Closing ==
  /\ seen[Closer] = AnyGeneration
  /\ pc[Closer] \notin {"regOpen", "regGeneration", "regWrite"}
  /\ pc[Closer] \notin {"starting", "waiting"} => closed

Quiet == ~up => \A c \in Clients : ~InUse(c)

FoundAlive ==
  up => \A c \in Clients : pc[c] = "writeLeased" => ServerUp(uri[c]) \/ ServersCrash

LInv == IInv /\ Closing /\ Quiet /\ FoundAlive

\* The closing thread: what it releases it kills.
LEMMA ClosingStep ==
  ASSUME TypeOK, Places, Closing, [Next]_vars
  PROVE  Closing'
<1> USE RegistryAssumption DEF RegistryAssumption, Actors, Users, Goto, At, Leave, Drop, Rest,
     tuples, pool, gens, locals, world, beside, AnyGeneration, InHand, InUse,
     ClientLabels, CloserLabels, ServerLabels, TypeOK, Places, RegistryOpen, Closing
<1>1. ASSUME NEW u \in Users, ReadGeneration(u) PROVE Closing'
  BY <1>1 DEF ReadGeneration
<1>2. ASSUME NEW u \in Users, CountAvailable(u) PROVE Closing'
  BY <1>2 DEF CountAvailable
<1>3. ASSUME NEW u \in Users, CountLeased(u) PROVE Closing'
  BY <1>3 DEF CountLeased
<1>4. ASSUME NEW u \in Users, CheckOpen(u) PROVE Closing'
  BY <1>4 DEF CheckOpen, Unused
<1>5. ASSUME NEW u \in Users, Take(u) PROVE Closing'
  BY <1>5 DEF Take
<1>6. ASSUME NEW u \in Users, TakeExpires(u) PROVE Closing'
  BY <1>6 DEF TakeExpires
<1>7. ASSUME NEW u \in Users, FailUnlessOpen(u) PROVE Closing'
  BY <1>7 DEF FailUnlessOpen
<1>8. ASSUME NEW u \in Users, CheckAlive(u) PROVE Closing'
  BY <1>8 DEF CheckAlive, Raise
<1>9. ASSUME NEW u \in Users, WriteLeased(u) PROVE Closing'
  BY <1>9 DEF WriteLeased
<1>10. ASSUME NEW u \in Users, Release(u) PROVE Closing'
  BY <1>10 DEF Release, Finish
<1>11. ASSUME NEW u \in Users, CheckGeneration(u) PROVE Closing'
  BY <1>11 DEF CheckGeneration
<1>12. ASSUME NEW u \in Users, CheckClosed(u) PROVE Closing'
  BY <1>12 DEF CheckClosed
<1>13. ASSUME NEW u \in Users, Kill(u) PROVE Closing'
  BY <1>13 DEF Kill, Finish
<1>14. ASSUME NEW c \in Clients, SetLogger(c) PROVE Closing'
  BY <1>14 DEF SetLogger
<1>15. ASSUME NEW c \in Clients, Send(c) PROVE Closing'
  BY <1>15 DEF Send
<1>16. ASSUME NEW c \in Clients, FetchLibrary(c) PROVE Closing'
  BY <1>16 DEF FetchLibrary
<1>17. ASSUME NEW c \in Clients, LibraryFetched(c) PROVE Closing'
  BY <1>17 DEF LibraryFetched
<1>18. ASSUME NEW c \in Clients, Eval(c) PROVE Closing'
  BY <1>18 DEF Eval
<1>18l. ASSUME NEW c \in Clients, EvalLibrary(c) PROVE Closing'
  BY <1>18l DEF EvalLibrary
<1>19. ASSUME NEW c \in Clients, ClearLogger(c) PROVE Closing'
  BY <1>19 DEF ClearLogger
<1>20. ASSUME NEW c \in Clients, ServerLost(c) PROVE Closing'
  BY <1>20 DEF ServerLost
<1>21. ASSUME NEW c \in Clients, TakeLock(c) PROVE Closing'
  BY <1>21 DEF TakeLock
<1>22. ASSUME NEW c \in Clients, TakeGeneration(c) PROVE Closing'
  BY <1>22 DEF TakeGeneration
<1>23. ASSUME NEW c \in Clients, WriteGeneration(c) PROVE Closing'
  BY <1>23 DEF WriteGeneration
<1>24. ASSUME NEW c \in Clients, Unlock(c) PROVE Closing'
  BY <1>24 DEF Unlock
<1>25. ASSUME NEW c \in Clients, Call(c) PROVE Closing'
  BY <1>25 DEF Call
<1>26. ASSUME NEW c \in Clients, Refresh(c) PROVE Closing'
  BY <1>26 DEF Refresh
<1>27. ASSUME NEW c \in Clients, Discard(c) PROVE Closing'
  BY <1>27 DEF Discard
<1>28. ASSUME NEW c \in Clients, ClientCrash(c) PROVE Closing'
  BY <1>28 DEF ClientCrash
<1>29. ASSUME NEW a \in Actors, RegisterOpen(a) PROVE Closing'
  BY <1>29 DEF RegisterOpen, Raise
<1>30. ASSUME NEW a \in Actors, RegisterGeneration(a) PROVE Closing'
  BY <1>30 DEF RegisterGeneration
<1>31. ASSUME NEW a \in Actors, RegisterWrite(a) PROVE Closing'
  BY <1>31 DEF RegisterWrite, Finish
<1>32. ASSUME NEW a \in Actors, Offline(a) PROVE Closing'
  BY <1>32 DEF Offline, NeedsRegistry
<1>33. ASSUME NEW s \in Servers, WatchRegistry(s) PROVE Closing'
  BY <1>33 DEF WatchRegistry
<1>34. ASSUME NEW s \in Servers, ServerCrash(s) PROVE Closing'
  BY <1>34 DEF ServerCrash
<1>35. ASSUME RegistryExit PROVE Closing'
  BY <1>35 DEF RegistryExit
<1>35l. ASSUME Listen PROVE Closing'
  BY <1>35l DEF Listen
<1>36. ASSUME DeadTake PROVE Closing'
  BY <1>36 DEF DeadTake
<1>37. ASSUME UNCHANGED vars PROVE Closing'
  BY <1>37 DEF vars
<1> QED
  BY <1>1, <1>2, <1>3, <1>4, <1>5, <1>6, <1>7, <1>8, <1>9, <1>10, <1>11, <1>12, <1>13,
     <1>14, <1>15, <1>16, <1>17, <1>18, <1>19, <1>20, <1>21, <1>22, <1>23, <1>24, <1>25,
     <1>26, <1>27, <1>28, <1>29, <1>30, <1>31, <1>32, <1>33, <1>34, <1>35, <1>36, <1>37, <1>18l, <1>35l DEF Next, Step, Lease, Use,
     Return, Register, Expire

\* With num_servers at zero nobody has a lease, and so nobody uses a server.
LEMMA QuietStep ==
  ASSUME TypeOK, Finite, Places, LeaseBelongsToCall, Closing, Quiet, [Next]_vars
  PROVE  Quiet'
<1> USE RegistryAssumption DEF RegistryAssumption, Actors, Users, Goto, At, Leave, Drop, Rest,
     tuples, pool, gens, locals, world, beside, AnyGeneration, InHand, InUse,
     ClientLabels, CloserLabels, ServerLabels, TypeOK, Places, RegistryOpen, Quiet
<1>1. ASSUME NEW u \in Users, ReadGeneration(u) PROVE Quiet'
  BY <1>1 DEF ReadGeneration
<1>2. ASSUME NEW u \in Users, CountAvailable(u) PROVE Quiet'
  BY <1>2 DEF CountAvailable
<1>3. ASSUME NEW u \in Users, CountLeased(u) PROVE Quiet'
  BY <1>3 DEF CountLeased
<1>4. ASSUME NEW u \in Users, CheckOpen(u) PROVE Quiet'
  BY <1>4 DEF CheckOpen, Unused
<1>5. ASSUME NEW u \in Users, Take(u) PROVE Quiet'
  BY <1>5 DEF Take
<1>6. ASSUME NEW u \in Users, TakeExpires(u) PROVE Quiet'
  BY <1>6 DEF TakeExpires
<1>7. ASSUME NEW u \in Users, FailUnlessOpen(u) PROVE Quiet'
  BY <1>7 DEF FailUnlessOpen
<1>8. ASSUME NEW u \in Users, CheckAlive(u) PROVE Quiet'
  BY <1>8 DEF CheckAlive, Raise
<1>9. ASSUME NEW u \in Users, WriteLeased(u) PROVE Quiet'
  BY <1>9 DEF WriteLeased
<1>10. ASSUME NEW u \in Users, Release(u) PROVE Quiet'
  BY <1>10 DEF Release, Finish
<1>11. ASSUME NEW u \in Users, CheckGeneration(u) PROVE Quiet'
  BY <1>11 DEF CheckGeneration
<1>12. ASSUME NEW u \in Users, CheckClosed(u) PROVE Quiet'
  BY <1>12 DEF CheckClosed
<1>13. ASSUME NEW u \in Users, Kill(u) PROVE Quiet'
  BY <1>13 DEF Kill, Finish
<1>14. ASSUME NEW c \in Clients, SetLogger(c) PROVE Quiet'
  BY <1>14 DEF SetLogger
<1>15. ASSUME NEW c \in Clients, Send(c) PROVE Quiet'
  BY <1>15 DEF Send
<1>16. ASSUME NEW c \in Clients, FetchLibrary(c) PROVE Quiet'
  BY <1>16 DEF FetchLibrary
<1>17. ASSUME NEW c \in Clients, LibraryFetched(c) PROVE Quiet'
  BY <1>17 DEF LibraryFetched
<1>18. ASSUME NEW c \in Clients, Eval(c) PROVE Quiet'
  BY <1>18 DEF Eval
<1>18l. ASSUME NEW c \in Clients, EvalLibrary(c) PROVE Quiet'
  BY <1>18l DEF EvalLibrary
<1>19. ASSUME NEW c \in Clients, ClearLogger(c) PROVE Quiet'
  BY <1>19 DEF ClearLogger
<1>20. ASSUME NEW c \in Clients, ServerLost(c) PROVE Quiet'
  BY <1>20 DEF ServerLost
<1>21. ASSUME NEW c \in Clients, TakeLock(c) PROVE Quiet'
  BY <1>21 DEF TakeLock
<1>22. ASSUME NEW c \in Clients, TakeGeneration(c) PROVE Quiet'
  BY <1>22 DEF TakeGeneration
<1>23. ASSUME NEW c \in Clients, WriteGeneration(c) PROVE Quiet'
  BY <1>23 DEF WriteGeneration
<1>24. ASSUME NEW c \in Clients, Unlock(c) PROVE Quiet'
  BY <1>24 DEF Unlock
<1>25. ASSUME NEW c \in Clients, Call(c) PROVE Quiet'
  BY <1>25 DEF Call
<1>26. ASSUME NEW c \in Clients, Refresh(c) PROVE Quiet'
  BY <1>26 DEF Refresh
<1>27. ASSUME NEW c \in Clients, Discard(c) PROVE Quiet'
  BY <1>27 DEF Discard
<1>28. ASSUME NEW c \in Clients, ClientCrash(c) PROVE Quiet'
  BY <1>28 DEF ClientCrash
<1>29. ASSUME NEW a \in Actors, RegisterOpen(a) PROVE Quiet'
  BY <1>29 DEF RegisterOpen, Raise
<1>30. ASSUME NEW a \in Actors, RegisterGeneration(a) PROVE Quiet'
  BY <1>30 DEF RegisterGeneration
<1>31. ASSUME NEW a \in Actors, RegisterWrite(a) PROVE Quiet'
  BY <1>31 DEF RegisterWrite, Finish
<1>32. ASSUME NEW a \in Actors, Offline(a) PROVE Quiet'
  BY <1>32 DEF Offline, NeedsRegistry
<1>33. ASSUME NEW s \in Servers, WatchRegistry(s) PROVE Quiet'
  BY <1>33 DEF WatchRegistry
<1>34. ASSUME NEW s \in Servers, ServerCrash(s) PROVE Quiet'
  BY <1>34 DEF ServerCrash
<1>35. ASSUME RegistryExit PROVE Quiet'
  <2>1. NumServers(Closer) = 0 /\ up /\ pc' = [pc EXCEPT ![Closer] = "exited"]
    BY <1>35 DEF RegistryExit
  <2>2. leased = {}
    <3>1. {l \in leased : Matches(l.generation, seen[Closer])} = leased
      BY DEF Closing, Matches
    <3>2. count[Closer] \in Nat /\ Cardinality(leased) \in Nat /\ count[Closer] + Cardinality(leased) = 0
      BY <2>1, <3>1, FS_CardinalityType DEF NumServers, Finite
    <3>3. Cardinality(leased) = 0
      BY <3>2
    <3> QED BY <3>3, FS_EmptySet DEF Finite
  <2>3. \A c \in Clients : ~InUse(c)
    BY <2>1, <2>2 DEF LeaseBelongsToCall, Engaged
  <2> QED BY <2>1, <2>3
<1>35l. ASSUME Listen PROVE Quiet'
  BY <1>35l DEF Listen
<1>36. ASSUME DeadTake PROVE Quiet'
  BY <1>36 DEF DeadTake
<1>37. ASSUME UNCHANGED vars PROVE Quiet'
  BY <1>37 DEF vars
<1> QED
  BY <1>1, <1>2, <1>3, <1>4, <1>5, <1>6, <1>7, <1>8, <1>9, <1>10, <1>11, <1>12, <1>13,
     <1>14, <1>15, <1>16, <1>17, <1>18, <1>19, <1>20, <1>21, <1>22, <1>23, <1>24, <1>25,
     <1>26, <1>27, <1>28, <1>29, <1>30, <1>31, <1>32, <1>33, <1>34, <1>35, <1>36, <1>37, <1>18l, <1>35l DEF Next, Step, Lease, Use,
     Return, Register, Expire

\* A server that was found alive is exclusive to who found it.
LEMMA AliveStep ==
  ASSUME TypeOK, Places, ExclusiveServer, FoundAlive, [Next]_vars
  PROVE  FoundAlive'
<1> USE RegistryAssumption DEF RegistryAssumption, Actors, Users, Goto, At, Leave, Drop, Rest,
     tuples, pool, gens, locals, world, beside, AnyGeneration, InHand, InUse,
     ClientLabels, CloserLabels, ServerLabels, TypeOK, Places, RegistryOpen,
     ExclusiveServer, Engaged, FoundAlive, ServerUp
<1>1. ASSUME NEW u \in Users, ReadGeneration(u) PROVE FoundAlive'
  BY <1>1 DEF ReadGeneration
<1>2. ASSUME NEW u \in Users, CountAvailable(u) PROVE FoundAlive'
  BY <1>2 DEF CountAvailable
<1>3. ASSUME NEW u \in Users, CountLeased(u) PROVE FoundAlive'
  BY <1>3 DEF CountLeased
<1>4. ASSUME NEW u \in Users, CheckOpen(u) PROVE FoundAlive'
  BY <1>4 DEF CheckOpen, Unused
<1>5. ASSUME NEW u \in Users, Take(u) PROVE FoundAlive'
  BY <1>5 DEF Take
<1>6. ASSUME NEW u \in Users, TakeExpires(u) PROVE FoundAlive'
  BY <1>6 DEF TakeExpires
<1>7. ASSUME NEW u \in Users, FailUnlessOpen(u) PROVE FoundAlive'
  BY <1>7 DEF FailUnlessOpen
<1>8. ASSUME NEW u \in Users, CheckAlive(u) PROVE FoundAlive'
  BY <1>8 DEF CheckAlive, Raise
<1>9. ASSUME NEW u \in Users, WriteLeased(u) PROVE FoundAlive'
  BY <1>9 DEF WriteLeased
<1>10. ASSUME NEW u \in Users, Release(u) PROVE FoundAlive'
  BY <1>10 DEF Release, Finish
<1>11. ASSUME NEW u \in Users, CheckGeneration(u) PROVE FoundAlive'
  BY <1>11 DEF CheckGeneration
<1>12. ASSUME NEW u \in Users, CheckClosed(u) PROVE FoundAlive'
  BY <1>12 DEF CheckClosed
<1>13. ASSUME NEW u \in Users, Kill(u) PROVE FoundAlive'
  BY <1>13 DEF Kill, Finish
<1>14. ASSUME NEW c \in Clients, SetLogger(c) PROVE FoundAlive'
  BY <1>14 DEF SetLogger
<1>15. ASSUME NEW c \in Clients, Send(c) PROVE FoundAlive'
  BY <1>15 DEF Send
<1>16. ASSUME NEW c \in Clients, FetchLibrary(c) PROVE FoundAlive'
  BY <1>16 DEF FetchLibrary
<1>17. ASSUME NEW c \in Clients, LibraryFetched(c) PROVE FoundAlive'
  BY <1>17 DEF LibraryFetched
<1>18. ASSUME NEW c \in Clients, Eval(c) PROVE FoundAlive'
  BY <1>18 DEF Eval
<1>18l. ASSUME NEW c \in Clients, EvalLibrary(c) PROVE FoundAlive'
  BY <1>18l DEF EvalLibrary
<1>19. ASSUME NEW c \in Clients, ClearLogger(c) PROVE FoundAlive'
  BY <1>19 DEF ClearLogger
<1>20. ASSUME NEW c \in Clients, ServerLost(c) PROVE FoundAlive'
  BY <1>20 DEF ServerLost
<1>21. ASSUME NEW c \in Clients, TakeLock(c) PROVE FoundAlive'
  BY <1>21 DEF TakeLock
<1>22. ASSUME NEW c \in Clients, TakeGeneration(c) PROVE FoundAlive'
  BY <1>22 DEF TakeGeneration
<1>23. ASSUME NEW c \in Clients, WriteGeneration(c) PROVE FoundAlive'
  BY <1>23 DEF WriteGeneration
<1>24. ASSUME NEW c \in Clients, Unlock(c) PROVE FoundAlive'
  BY <1>24 DEF Unlock
<1>25. ASSUME NEW c \in Clients, Call(c) PROVE FoundAlive'
  BY <1>25 DEF Call
<1>26. ASSUME NEW c \in Clients, Refresh(c) PROVE FoundAlive'
  BY <1>26 DEF Refresh
<1>27. ASSUME NEW c \in Clients, Discard(c) PROVE FoundAlive'
  BY <1>27 DEF Discard
<1>28. ASSUME NEW c \in Clients, ClientCrash(c) PROVE FoundAlive'
  BY <1>28 DEF ClientCrash
<1>29. ASSUME NEW a \in Actors, RegisterOpen(a) PROVE FoundAlive'
  BY <1>29 DEF RegisterOpen, Raise
<1>30. ASSUME NEW a \in Actors, RegisterGeneration(a) PROVE FoundAlive'
  BY <1>30 DEF RegisterGeneration
<1>31. ASSUME NEW a \in Actors, RegisterWrite(a) PROVE FoundAlive'
  BY <1>31 DEF RegisterWrite, Finish
<1>32. ASSUME NEW a \in Actors, Offline(a) PROVE FoundAlive'
  BY <1>32 DEF Offline, NeedsRegistry
<1>33. ASSUME NEW s \in Servers, WatchRegistry(s) PROVE FoundAlive'
  BY <1>33 DEF WatchRegistry
<1>34. ASSUME NEW s \in Servers, ServerCrash(s) PROVE FoundAlive'
  BY <1>34 DEF ServerCrash
<1>35. ASSUME RegistryExit PROVE FoundAlive'
  BY <1>35 DEF RegistryExit
<1>35l. ASSUME Listen PROVE FoundAlive'
  BY <1>35l DEF Listen
<1>36. ASSUME DeadTake PROVE FoundAlive'
  BY <1>36 DEF DeadTake
<1>37. ASSUME UNCHANGED vars PROVE FoundAlive'
  BY <1>37 DEF vars
<1> QED
  BY <1>1, <1>2, <1>3, <1>4, <1>5, <1>6, <1>7, <1>8, <1>9, <1>10, <1>11, <1>12, <1>13,
     <1>14, <1>15, <1>16, <1>17, <1>18, <1>19, <1>20, <1>21, <1>22, <1>23, <1>24, <1>25,
     <1>26, <1>27, <1>28, <1>29, <1>30, <1>31, <1>32, <1>33, <1>34, <1>35, <1>36, <1>37, <1>18l, <1>35l DEF Next, Step, Lease, Use,
     Return, Register, Expire

-----------------------------------------------------------------------------
(* The refinement.  What a step does to the servers that run and to those     *)
(* that are in use, whatever it does to the tuples.                           *)
UseKept(c)  == (InUse(c)' <=> InUse(c)) /\ (InUse(c) => uri'[c] = uri[c])
SameUse     == \A c \in Clients : UseKept(c)
UpKept(s)   == pc'[s] = "down" <=> pc[s] = "down"
SameUp      == \A s \in Servers : UpKept(s)

Nothing     == up' = up /\ SameUse /\ SameUp
Grants(c)   == /\ up /\ up' = up /\ SameUp /\ \A d \in Clients \ {c} : UseKept(d)
               /\ pc[c] = "writeLeased" /\ InUse(c)' /\ uri'[c] = uri[c]
Frees(c)    == /\ up' = up /\ SameUp /\ \A d \in Clients \ {c} : UseKept(d)
               /\ InUse(c) /\ ~InUse(c)'
Boots(s)    == /\ up' = up /\ SameUse /\ \A r \in Servers \ {s} : UpKept(r)
               /\ pc[s] = "down" /\ pc'[s] # "down" /\ \A a \in Actors : uri[a] # s
Ends(s)     == /\ up' = up /\ SameUse /\ \A r \in Servers \ {s} : UpKept(r)
               /\ pc[s] # "down" /\ pc'[s] = "down"
               /\ ServersCrash \/ \A c \in Clients : InUse(c) => uri[c] # s
Exits       == up /\ up' = FALSE /\ SameUp /\ SameUse /\ \A c \in Clients : ~InUse(c)

Kind == \/ Nothing \/ Exits
        \/ \E c \in Clients : Grants(c) \/ Frees(c)
        \/ \E s \in Servers : Boots(s) \/ Ends(s)

\* Every step is of one of these kinds.
LEMMA StepKinds ==
  ASSUME TypeOK, Places, ExclusiveServer, Quiet, Quiet', [Next]_vars
  PROVE  Kind
<1> USE RegistryAssumption DEF RegistryAssumption, Actors, Users, Goto, At, Leave, Drop, Rest,
     tuples, pool, gens, locals, world, beside, AnyGeneration, InHand, InUse,
     ClientLabels, CloserLabels, ServerLabels, TypeOK, Places, ServerUp, SameUse, SameUp, UseKept, UpKept
<1>1. ASSUME NEW u \in Users, ReadGeneration(u) PROVE Kind
  <2>1. Nothing
    BY <1>1 DEF ReadGeneration, Nothing
  <2> QED BY <2>1 DEF Kind
<1>2. ASSUME NEW u \in Users, CountAvailable(u) PROVE Kind
  <2>1. Nothing
    BY <1>2 DEF CountAvailable, Nothing
  <2> QED BY <2>1 DEF Kind
<1>3. ASSUME NEW u \in Users, CountLeased(u) PROVE Kind
  <2>1. Nothing
    BY <1>3 DEF CountLeased, Nothing
  <2> QED BY <2>1 DEF Kind
<1>4. ASSUME NEW u \in Users, CheckOpen(u) PROVE Kind
  <2>1. CASE \E s \in Servers : Unused(s) /\ pc' = [pc EXCEPT ![u] = "take", ![s] = "regOpen"] /\ uri' = [uri EXCEPT ![s] = s]
    <3>1. PICK s \in Servers : Unused(s) /\ pc' = [pc EXCEPT ![u] = "take", ![s] = "regOpen"] /\ uri' = [uri EXCEPT ![s] = s]
      BY <2>1
    <3>2. Boots(s)
      BY <1>4, <3>1 DEF CheckOpen, Unused, Boots
    <3> QED BY <3>2 DEF Kind
  <2>2. CASE Goto(u, "take") /\ UNCHANGED uri
    <3>1. Nothing
      BY <1>4, <2>2 DEF CheckOpen, Nothing
    <3> QED BY <3>1 DEF Kind
  <2> QED BY <1>4, <2>1, <2>2 DEF CheckOpen
<1>5. ASSUME NEW u \in Users, Take(u) PROVE Kind
  <2>1. Nothing
    BY <1>5 DEF Take, Nothing
  <2> QED BY <2>1 DEF Kind
<1>6. ASSUME NEW u \in Users, TakeExpires(u) PROVE Kind
  <2>1. Nothing
    BY <1>6 DEF TakeExpires, Nothing
  <2> QED BY <2>1 DEF Kind
<1>7. ASSUME NEW u \in Users, FailUnlessOpen(u) PROVE Kind
  <2>1. Nothing
    BY <1>7 DEF FailUnlessOpen, Nothing
  <2> QED BY <2>1 DEF Kind
<1>8. ASSUME NEW u \in Users, CheckAlive(u) PROVE Kind
  <2>1. Nothing
    BY <1>8 DEF CheckAlive, Raise, Nothing
  <2> QED BY <2>1 DEF Kind
<1>9. ASSUME NEW u \in Users, WriteLeased(u) PROVE Kind
  <2>1. CASE op[u] = "call"
    <3>1. u \in Clients /\ Grants(u)
      BY <1>9, <2>1 DEF WriteLeased, Grants
    <3> QED BY <3>1 DEF Kind
  <2>2. CASE op[u] # "call"
    <3>1. Nothing
      BY <1>9, <2>2 DEF WriteLeased, Nothing
    <3> QED BY <3>1 DEF Kind
  <2> QED BY <2>1, <2>2
<1>10. ASSUME NEW u \in Users, Release(u) PROVE Kind
  <2>1. Nothing
    BY <1>10 DEF Release, Finish, Nothing
  <2> QED BY <2>1 DEF Kind
<1>11. ASSUME NEW u \in Users, CheckGeneration(u) PROVE Kind
  <2>1. Nothing
    BY <1>11 DEF CheckGeneration, Nothing
  <2> QED BY <2>1 DEF Kind
<1>12. ASSUME NEW u \in Users, CheckClosed(u) PROVE Kind
  <2>1. Nothing
    BY <1>12 DEF CheckClosed, Nothing
  <2> QED BY <2>1 DEF Kind
<1>13. ASSUME NEW u \in Users, Kill(u) PROVE Kind
  <2>1. uri[u] \in Servers /\ \A c \in Clients : InUse(c) => uri[c] # uri[u]
    BY <1>13 DEF Kill, ExclusiveServer, Engaged
  <2>2. CASE pc[uri[u]] = "down"
    <3>1. Nothing
      BY <1>13, <2>1, <2>2 DEF Kill, Finish, Nothing
    <3> QED BY <3>1 DEF Kind
  <2>3. CASE pc[uri[u]] # "down"
    <3>1. PICK s \in Servers : s = uri[u]
      BY <2>1
    <3>2. /\ up' = up /\ uri' = [uri EXCEPT ![u] = NoServer] /\ u # s /\ pc[u] = "kill"
          /\ \E l \in {"idle", "countAvailable"} : pc' = [pc EXCEPT ![u] = l, ![s] = "down"]
      BY <1>13, <3>1 DEF Kill, Finish
    <3>3. Ends(s)
      BY <2>1, <2>3, <3>1, <3>2 DEF Ends
    <3> QED BY <3>3 DEF Kind
  <2> QED BY <2>2, <2>3
<1>14. ASSUME NEW c \in Clients, SetLogger(c) PROVE Kind
  <2>1. Nothing
    BY <1>14 DEF SetLogger, Nothing
  <2> QED BY <2>1 DEF Kind
<1>15. ASSUME NEW c \in Clients, Send(c) PROVE Kind
  <2>1. Nothing
    BY <1>15 DEF Send, Nothing
  <2> QED BY <2>1 DEF Kind
<1>16. ASSUME NEW c \in Clients, FetchLibrary(c) PROVE Kind
  <2>1. Nothing
    BY <1>16 DEF FetchLibrary, Nothing
  <2> QED BY <2>1 DEF Kind
<1>17. ASSUME NEW c \in Clients, LibraryFetched(c) PROVE Kind
  <2>1. CASE Goto(c, "library")
    <3>1. Nothing
      BY <1>17, <2>1 DEF LibraryFetched, Nothing
    <3> QED BY <3>1 DEF Kind
  <2>2. CASE Goto(c, "release")
    <3>1. Frees(c)
      BY <1>17, <2>2 DEF LibraryFetched, Frees
    <3> QED BY <3>1 DEF Kind
  <2> QED BY <1>17, <2>1, <2>2 DEF LibraryFetched
<1>18. ASSUME NEW c \in Clients, Eval(c) PROVE Kind
  <2>1. CASE Goto(c, "clearLogger")
    <3>1. Nothing
      BY <1>18, <2>1 DEF Eval, Nothing
    <3> QED BY <3>1 DEF Kind
  <2>2. CASE Goto(c, "release")
    <3>1. Frees(c)
      BY <1>18, <2>2 DEF Eval, Frees
    <3> QED BY <3>1 DEF Kind
  <2> QED BY <1>18, <2>1, <2>2 DEF Eval
<1>18l. ASSUME NEW c \in Clients, EvalLibrary(c) PROVE Kind
  <2>1. CASE Goto(c, "fetch") \/ Goto(c, "eval")
    <3>1. Nothing
      BY <1>18l, <2>1 DEF EvalLibrary, Nothing
    <3> QED BY <3>1 DEF Kind
  <2>2. CASE Goto(c, "release")
    <3>1. Frees(c)
      BY <1>18l, <2>2 DEF EvalLibrary, Frees
    <3> QED BY <3>1 DEF Kind
  <2> QED BY <1>18l, <2>1, <2>2 DEF EvalLibrary
<1>19. ASSUME NEW c \in Clients, ClearLogger(c) PROVE Kind
  <2>1. Frees(c)
    BY <1>19 DEF ClearLogger, Frees
  <2> QED BY <2>1 DEF Kind
<1>20. ASSUME NEW c \in Clients, ServerLost(c) PROVE Kind
  <2>1. Frees(c)
    BY <1>20 DEF ServerLost, Frees
  <2> QED BY <2>1 DEF Kind
<1>21. ASSUME NEW c \in Clients, TakeLock(c) PROVE Kind
  <2>1. Nothing
    BY <1>21 DEF TakeLock, Nothing
  <2> QED BY <2>1 DEF Kind
<1>22. ASSUME NEW c \in Clients, TakeGeneration(c) PROVE Kind
  <2>1. Nothing
    BY <1>22 DEF TakeGeneration, Nothing
  <2> QED BY <2>1 DEF Kind
<1>23. ASSUME NEW c \in Clients, WriteGeneration(c) PROVE Kind
  <2>1. Nothing
    BY <1>23 DEF WriteGeneration, Nothing
  <2> QED BY <2>1 DEF Kind
<1>24. ASSUME NEW c \in Clients, Unlock(c) PROVE Kind
  <2>1. Nothing
    BY <1>24 DEF Unlock, Nothing
  <2> QED BY <2>1 DEF Kind
<1>25. ASSUME NEW c \in Clients, Call(c) PROVE Kind
  <2>1. Nothing
    BY <1>25 DEF Call, Nothing
  <2> QED BY <2>1 DEF Kind
<1>26. ASSUME NEW c \in Clients, Refresh(c) PROVE Kind
  <2>1. Nothing
    BY <1>26 DEF Refresh, Nothing
  <2> QED BY <2>1 DEF Kind
<1>27. ASSUME NEW c \in Clients, Discard(c) PROVE Kind
  <2>1. Nothing
    BY <1>27 DEF Discard, Nothing
  <2> QED BY <2>1 DEF Kind
<1>28. ASSUME NEW c \in Clients, ClientCrash(c) PROVE Kind
  <2>1. Nothing
    BY <1>28 DEF ClientCrash, Nothing
  <2> QED BY <2>1 DEF Kind
<1>29. ASSUME NEW a \in Actors, RegisterOpen(a) PROVE Kind
  <2>1. CASE a \in Users \/ RegistryOpen
    <3>1. Nothing
      BY <1>29, <2>1 DEF RegisterOpen, Raise, Nothing
    <3> QED BY <3>1 DEF Kind
  <2>2. CASE a \in Servers /\ ~RegistryOpen
    <3>1. \A c \in Clients : InUse(c) => uri[c] # a
      BY <1>29, <2>2 DEF RegisterOpen, ExclusiveServer, Engaged
    <3>2. Ends(a)
      BY <1>29, <2>2, <3>1 DEF RegisterOpen, Raise, Ends
    <3> QED BY <2>2, <3>2 DEF Kind
  <2> QED BY <2>1, <2>2
<1>30. ASSUME NEW a \in Actors, RegisterGeneration(a) PROVE Kind
  <2>1. Nothing
    BY <1>30 DEF RegisterGeneration, Nothing
  <2> QED BY <2>1 DEF Kind
<1>31. ASSUME NEW a \in Actors, RegisterWrite(a) PROVE Kind
  <2>1. Nothing
    BY <1>31 DEF RegisterWrite, Finish, Nothing
  <2> QED BY <2>1 DEF Kind
<1>32. ASSUME NEW a \in Actors, Offline(a) PROVE Kind
  <2>1. CASE a \in Users
    <3>1. Nothing
      BY <1>32, <2>1 DEF Offline, NeedsRegistry, Nothing, Quiet
    <3> QED BY <3>1 DEF Kind
  <2>2. CASE a \in Servers
    <3>1. Ends(a)
      BY <1>32, <2>2 DEF Offline, NeedsRegistry, Ends, Quiet
    <3> QED BY <2>2, <3>1 DEF Kind
  <2> QED BY <2>1, <2>2
<1>33. ASSUME NEW s \in Servers, WatchRegistry(s) PROVE Kind
  <2>1. Ends(s)
    BY <1>33 DEF WatchRegistry, Ends, Quiet
  <2> QED BY <2>1 DEF Kind
<1>34. ASSUME NEW s \in Servers, ServerCrash(s) PROVE Kind
  <2>1. Ends(s)
    BY <1>34 DEF ServerCrash, Ends
  <2> QED BY <2>1 DEF Kind
<1>35. ASSUME RegistryExit PROVE Kind
  <2>1. \A c \in Clients : ~InUse(c)
    BY <1>35 DEF RegistryExit, Quiet
  <2>2. Exits
    BY <1>35, <2>1 DEF RegistryExit, Exits
  <2> QED BY <2>2 DEF Kind
<1>35l. ASSUME Listen PROVE Kind
  <2>1. Nothing
    BY <1>35l DEF Listen, Nothing
  <2> QED BY <2>1 DEF Kind
<1>36. ASSUME DeadTake PROVE Kind
  <2>1. Nothing
    BY <1>36 DEF DeadTake, Nothing
  <2> QED BY <2>1 DEF Kind
<1>37. ASSUME UNCHANGED vars PROVE Kind
  <2>1. Nothing
    BY <1>37 DEF vars, Nothing
  <2> QED BY <2>1 DEF Kind
<1> QED
  BY <1>1, <1>2, <1>3, <1>4, <1>5, <1>6, <1>7, <1>8, <1>9, <1>10, <1>11, <1>12, <1>13,
     <1>14, <1>15, <1>16, <1>17, <1>18, <1>19, <1>20, <1>21, <1>22, <1>23, <1>24, <1>25,
     <1>26, <1>27, <1>28, <1>29, <1>30, <1>31, <1>32, <1>33, <1>34, <1>35, <1>36, <1>37, <1>18l, <1>35l DEF Next, Step, Lease, Use,
     Return, Register, Expire

\* The user of a server is the client that uses it, if there is one.
Granted ==
  \A s \in Servers : /\ \A c \in Clients : InUse(c) /\ uri[c] = s => UserOf(s) = c
                     /\ (\A c \in Clients : InUse(c) => uri[c] # s) => UserOf(s) = NoServer

LEMMA OneUser ==
  ASSUME ExclusiveServer
  PROVE  Granted
<1> SUFFICES ASSUME NEW s \in Servers, NEW c \in Clients, InUse(c), uri[c] = s
             PROVE  UserOf(s) = c
  BY DEF Granted, UserOf
<1>1. \A d \in Clients : InUse(d) /\ uri[d] = s => d = c
  BY DEF ExclusiveServer, Engaged, Actors, Users
<1> QED BY <1>1 DEF UserOf

\* Each kind of step is a step of ServerLeasing, or none.
LEMMA KindMaps ==
  ASSUME TypeOK, Places, ExclusiveServer, FoundAlive, Granted, Granted', TypeOK', Places', Kind
  PROVE  [Leasing!Next]_(Leasing!vars)
<1> DEFINE running == {s \in Servers : ServerUp(s)}
           user == [s \in Servers |-> UserOf(s)]
<1> USE RegistryAssumption DEF RegistryAssumption
<1>u. \A c \in Clients : (InUse(c) => uri[c] \in Servers) /\ (InUse(c)' => uri'[c] \in Servers)
  BY DEF Places, Actors, Users
<1>n. \A c \in Clients : c # NoServer
  BY DEF Actors, Users
<1>r. ASSUME SameUp PROVE running' = running
  BY <1>r DEF SameUp, UpKept, ServerUp
<1>s. ASSUME SameUse PROVE user' = user
  <2>1. ASSUME NEW s \in Servers PROVE UserOf(s)' = UserOf(s)
    <3>1. CASE \E c \in Clients : InUse(c) /\ uri[c] = s
      BY <1>s, <3>1 DEF SameUse, UseKept, Granted
    <3>2. CASE \A c \in Clients : InUse(c) => uri[c] # s
      BY <1>s, <3>2 DEF SameUse, UseKept, Granted
    <3> QED BY <3>1, <3>2
  <2> QED BY <2>1
<1>1. ASSUME Nothing PROVE UNCHANGED Leasing!vars
  BY <1>1, <1>r, <1>s DEF Nothing, Leasing!vars
<1>2. ASSUME Exits PROVE Leasing!Close
  <2>1. \A s \in Servers : UserOf(s) = NoServer
    BY <1>2 DEF Exits, Granted
  <2> QED BY <1>2, <1>r, <1>s, <2>1 DEF Exits, Leasing!Close
<1>3. ASSUME NEW c \in Clients, Grants(c) PROVE Leasing!Grant(uri[c], c)
  <2>1. ~InUse(c) /\ InUse(c)' /\ uri'[c] = uri[c] /\ uri[c] \in Servers
    BY <1>3, <1>u DEF Grants, InUse
  <2>2. uri[c] \in running \/ ServersCrash
    BY <1>3, <2>1 DEF Grants, FoundAlive
  <2>3. \A d \in Clients : InUse(d) => uri[d] # uri[c]
    BY <1>3, <2>1 DEF Grants, ExclusiveServer, Engaged, InHand, Actors, Users
  <2>4. \A s \in Servers : UserOf(s) # c
    BY <1>n, <2>1 DEF Granted, UserOf
  <2>5. ASSUME NEW s \in Servers PROVE UserOf(s)' = IF s = uri[c] THEN c ELSE UserOf(s)
    <3>1. CASE s = uri[c]
      BY <2>1, <3>1 DEF Granted
    <3>2. CASE s # uri[c]
      <4>1. CASE \E d \in Clients : InUse(d) /\ uri[d] = s
        BY <1>3, <2>1, <3>2, <4>1 DEF Grants, UseKept, Granted
      <4>2. CASE \A d \in Clients : InUse(d) => uri[d] # s
        BY <1>3, <2>1, <3>2, <4>2 DEF Grants, UseKept, Granted
      <4> QED BY <3>2, <4>1, <4>2
    <3> QED BY <3>1, <3>2
  <2>6. user' = [user EXCEPT ![uri[c]] = c]
    BY <2>1, <2>5
  <2>7. UserOf(uri[c]) = NoServer
    BY <2>1, <2>3 DEF Granted
  <2> QED BY <1>3, <1>r, <2>1, <2>2, <2>4, <2>6, <2>7 DEF Grants, Leasing!Grant
<1>4. ASSUME NEW c \in Clients, Frees(c) PROVE Leasing!GiveBack(uri[c])
  <2>1. InUse(c) /\ ~InUse(c)' /\ uri[c] \in Servers
    BY <1>4, <1>u DEF Frees
  <2>2. \A d \in Clients : InUse(d) /\ uri[d] = uri[c] => d = c
    BY <2>1 DEF ExclusiveServer, Engaged, Actors, Users
  <2>3. ASSUME NEW s \in Servers PROVE UserOf(s)' = IF s = uri[c] THEN NoServer ELSE UserOf(s)
    <3>1. CASE s = uri[c]
      BY <1>4, <2>1, <2>2, <3>1 DEF Frees, UseKept, Granted
    <3>2. CASE s # uri[c]
      <4>1. CASE \E d \in Clients : InUse(d) /\ uri[d] = s
        BY <1>4, <2>1, <3>2, <4>1 DEF Frees, UseKept, Granted
      <4>2. CASE \A d \in Clients : InUse(d) => uri[d] # s
        BY <1>4, <2>1, <3>2, <4>2 DEF Frees, UseKept, Granted
      <4> QED BY <3>2, <4>1, <4>2
    <3> QED BY <3>1, <3>2
  <2>4. user' = [user EXCEPT ![uri[c]] = NoServer]
    BY <2>1, <2>3
  <2>5. UserOf(uri[c]) # NoServer
    BY <1>n, <2>1 DEF Granted
  <2> QED BY <1>4, <1>r, <2>1, <2>4, <2>5 DEF Frees, Leasing!GiveBack
<1>5. ASSUME NEW s \in Servers, Boots(s) PROVE Leasing!Start(s)
  <2>1. s \notin running /\ running' = running \cup {s}
    BY <1>5 DEF Boots, UpKept, ServerUp
  <2>2. UserOf(s) = NoServer
    BY <1>5 DEF Boots, Granted, Actors, Users
  <2> QED BY <1>5, <1>s, <2>1, <2>2 DEF Boots, Leasing!Start
<1>6. ASSUME NEW s \in Servers, Ends(s) PROVE Leasing!Stop(s) \/ Leasing!Fail(s)
  <2>1. s \in running /\ running' = running \ {s}
    BY <1>6 DEF Ends, UpKept, ServerUp
  <2>2. ServersCrash \/ UserOf(s) = NoServer
    BY <1>6 DEF Ends, Granted
  <2> QED BY <1>6, <1>s, <2>1, <2>2 DEF Ends, Leasing!Stop, Leasing!Fail
<1>7. \A c \in Clients : Grants(c) \/ Frees(c) => uri[c] \in Servers
  BY <1>u DEF Grants, Frees, InUse
<1> QED BY <1>1, <1>2, <1>3, <1>4, <1>5, <1>6, <1>7 DEF Kind, Leasing!Next

\* The inductive invariant of the pool, together with what the closing thread has
\* done by the time it takes the registry away and with what lease_server has found
\* out of the server it leases.
THEOREM LeasingInvariance == Spec => []LInv
<1>1. Init => Closing /\ Quiet /\ FoundAlive
  BY RegistryAssumption DEF RegistryAssumption, Init, Closing, Quiet, FoundAlive, InUse, Actors, Users
<1>2. LInv /\ [Next]_vars => (Closing /\ Quiet /\ FoundAlive)'
  BY ClosingStep, QuietStep, AliveStep DEF LInv, IInv
<1>3. LInv <=> IInv /\ Closing /\ Quiet /\ FoundAlive
  BY DEF LInv
<1> QED BY <1>1, <1>2, <1>3, Invariance, PTL DEF Spec

\* To its clients the pool is one that grants a server to one of them at a time,
\* stops it only while idle, and goes away only when nobody runs anything.
THEOREM Implements == Spec => ImplementsLeasing
<1>1. Init => Leasing!Init
  <2> SUFFICES ASSUME Init PROVE Leasing!Init
    OBVIOUS
  <2>1. \A s \in Servers : ~ServerUp(s) /\ UserOf(s) = NoServer
    BY RegistryAssumption DEF RegistryAssumption, Init, ServerUp, UserOf, InUse, Actors, Users
  <2> QED BY <2>1 DEF Init, Leasing!Init
<1>2. LInv => Granted
  BY OneUser DEF LInv, IInv
<1>3. LInv' => Granted'
  BY <1>2, PTL
<1>4. LInv /\ LInv' /\ [Next]_vars => [Leasing!Next]_(Leasing!vars)
  <2> SUFFICES ASSUME LInv, LInv', [Next]_vars PROVE [Leasing!Next]_(Leasing!vars)
    OBVIOUS
  <2>1. /\ TypeOK /\ Places /\ ExclusiveServer /\ FoundAlive /\ Granted /\ Quiet
        /\ TypeOK' /\ Places' /\ Granted' /\ Quiet'
    BY <1>2, <1>3 DEF LInv, IInv
  <2>2. Kind
    BY <2>1, StepKinds
  <2> QED BY <2>1, <2>2, KindMaps
<1> QED BY <1>1, <1>4, LeasingInvariance, PTL DEF Spec, ImplementsLeasing, Leasing!Spec
====
