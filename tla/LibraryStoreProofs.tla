------------------------- MODULE LibraryStoreProofs -------------------------
(***************************************************************************)
(* Theorems about LibraryStore, for any number of writers, readers, names  *)
(* and scripts, with processes that die at any moment.                     *)
(***************************************************************************)
EXTENDS LibraryStore, TLAPS

(* The inductive invariant.  A name is without tuple while its new one is to *)
(* be written.                                                               *)
Replacing == \A w \in Writers : pc[w] = "writeNew" => Of(name[w]) = {}

\* A lookup has nothing until it has read.
Looking == \A r \in Readers : pc[r] \in {"lock", "read"} => script[r] = NoScript

IInv == TypeOK /\ LibraryLock /\ OneScriptPerName /\ Replacing /\ Looking

\* The inductive invariant holds in every reachable state.
THEOREM Invariance == Spec => []IInv
<1> USE LibraryAssumption DEF LibraryAssumption, Processes, IInv, TypeOK, LibraryLock, Inside,
     OneScriptPerName, Replacing, Looking, Of
<1>1. Init => IInv
  BY DEF Init
<1>2. IInv /\ [Next]_vars => IInv'
  <2> SUFFICES ASSUME IInv, [Next]_vars PROVE IInv'
    OBVIOUS
  <2> USE DEF At, Goto, locals
  <2>1. ASSUME NEW w \in Writers, NEW n \in Names, NEW s \in Scripts, AddLibrary(w, n, s)
        PROVE  IInv'
    BY <2>1 DEF AddLibrary
  <2>2. ASSUME NEW r \in Readers, NEW n \in Names, FetchLibrary(r, n)
        PROVE  IInv'
    BY <2>2 DEF FetchLibrary
  <2>3. ASSUME NEW p \in Processes, TakeLock(p) PROVE IInv'
    <3>1. /\ pc[p] = "lock" /\ lockIn /\ lockIn' = FALSE
          /\ UNCHANGED <<data, name, script, stores, crashed>>
          /\ pc \in [Processes -> {"idle", "lock", "takeOld", "writeNew", "read", "unlock"}]
      BY <2>3 DEF TakeLock
    <3>2. \A q \in Processes : ~Inside(q)
      BY <3>1
    <3>3. CASE p \in Writers
      <4>1. pc' = [pc EXCEPT ![p] = "takeOld"]
        BY <2>3, <3>3 DEF TakeLock
      <4>2. TypeOK'
        BY <3>1, <3>3, <4>1
      <4>3. LibraryLock'
        BY <3>1, <3>2, <3>3, <4>1
      <4>4. OneScriptPerName' /\ Replacing' /\ Looking'
        BY <3>1, <3>3, <4>1
      <4> QED BY <4>2, <4>3, <4>4
    <3>4. CASE p \notin Writers
      <4>1. pc' = [pc EXCEPT ![p] = "read"]
        BY <2>3, <3>4 DEF TakeLock
      <4> QED BY <3>1, <3>2, <3>4, <4>1
    <3> QED BY <3>3, <3>4
  <2>4. ASSUME NEW p \in Processes, TakeOld(p) PROVE IInv'
    BY <2>4 DEF TakeOld
  <2>5. ASSUME NEW p \in Processes, WriteNew(p) PROVE IInv'
    <3> DEFINE new == [name |-> name[p], script |-> script[p]]
    <3>1. /\ data' = data \cup {new} /\ pc' = [pc EXCEPT ![p] = "unlock"]
          /\ p \in Writers /\ pc[p] = "writeNew" /\ UNCHANGED <<lockIn, name, script, stores, crashed>>
      BY <2>5 DEF WriteNew
    <3>2. new \in [name : Names, script : Scripts] /\ new.name = name[p]
      BY <3>1
    <3>3. \A d \in data : d.name # name[p]
      BY <3>1
    <3> HIDE DEF new
    <3>4. TypeOK'
      BY <3>1, <3>2
    <3>5. LibraryLock'
      BY <3>1
    <3>6. OneScriptPerName'
      BY <3>1, <3>2, <3>3
    <3>7. Replacing' /\ Looking'
      BY <3>1
    <3> QED BY <3>4, <3>5, <3>6, <3>7
  <2>6. ASSUME NEW p \in Processes, Read(p) PROVE IInv'
    BY <2>6 DEF Read
  <2>7. ASSUME NEW p \in Processes, Unlock(p) PROVE IInv'
    BY <2>7 DEF Unlock
  <2>8. ASSUME NEW p \in Processes, Crash(p) PROVE IInv'
    BY <2>8 DEF Crash
  <2>9. ASSUME UNCHANGED vars PROVE IInv'
    BY <2>9 DEF vars
  <2> QED
    BY <2>1, <2>2, <2>3, <2>4, <2>5, <2>6, <2>7, <2>8, <2>9 DEF Next, Step
<1> QED BY <1>1, <1>2, PTL DEF Spec

\* Types, and each process in its own operation.
THEOREM TypeCorrect == Spec => []TypeOK
<1>1. IInv => TypeOK
  BY DEF IInv
<1> QED BY <1>1, Invariance, PTL

\* with_lock excludes, whoever dies.
THEOREM Exclusion == Spec => []LibraryLock
<1>1. IInv => LibraryLock
  BY DEF IInv
<1> QED BY <1>1, Invariance, PTL

\* A name never has two scripts.
THEOREM OneScript == Spec => []OneScriptPerName
<1>1. IInv => OneScriptPerName
  BY DEF IInv
<1> QED BY <1>1, Invariance, PTL

-----------------------------------------------------------------------------
(* The refinement.                                                          *)

\* What users see under a name: the script about to be written, else the one
\* that is there, else none.
Pending(n) == \E w \in Writers : pc[w] = "writeNew" /\ name[w] = n
Seen ==
  \A n : /\ \A w \in Writers : pc[w] = "writeNew" /\ name[w] = n => Script(n) = script[w]
         /\ ~Pending(n) /\ Of(n) = {} => Script(n) = NoScript
         /\ ~Pending(n) => \A d \in Of(n) : Script(n) = d.script

LEMMA ScriptSeen == IInv => Seen
<1> SUFFICES ASSUME IInv, NEW n
    PROVE  /\ \A w \in Writers : pc[w] = "writeNew" /\ name[w] = n => Script(n) = script[w]
           /\ ~Pending(n) /\ Of(n) = {} => Script(n) = NoScript
           /\ ~Pending(n) => \A d \in Of(n) : Script(n) = d.script
  BY DEF Seen
<1>1. ASSUME NEW w \in Writers, pc[w] = "writeNew", name[w] = n
      PROVE  Script(n) = script[w]
  <2>1. \A v \in Writers : pc[v] = "writeNew" => v = w
    BY <1>1 DEF IInv, LibraryLock, Inside, Processes
  <2>2. (CHOOSE v \in Writers : pc[v] = "writeNew" /\ name[v] = n) = w
    BY <1>1, <2>1
  <2> QED BY <1>1, <2>2 DEF Script
<1>2. ASSUME ~Pending(n), NEW d \in Of(n)
      PROVE  Script(n) = d.script
  <2>1. \A e \in Of(n) : e = d
    BY DEF IInv, OneScriptPerName, Of
  <2>2. (CHOOSE e \in Of(n) : TRUE) = d
    BY <2>1
  <2> QED BY <1>2, <2>2 DEF Script, Pending
<1>3. ASSUME ~Pending(n), Of(n) = {}
      PROVE  Script(n) = NoScript
  BY <1>3 DEF Script, Pending
<1> QED BY <1>1, <1>2, <1>3

\* What is seen changes only with the writes under way and the tuples.
LEMMA SeenKept ==
  ASSUME Seen, Seen', NEW n, Of(n)' = Of(n),
         \A w \in Writers :
           /\ pc'[w] = "writeNew" /\ name'[w] = n <=> pc[w] = "writeNew" /\ name[w] = n
           /\ pc[w] = "writeNew" => script'[w] = script[w]
  PROVE  Script(n)' = Script(n)
<1>1. /\ \A w \in Writers : pc[w] = "writeNew" /\ name[w] = n => Script(n) = script[w]
      /\ ~Pending(n) /\ Of(n) = {} => Script(n) = NoScript
      /\ ~Pending(n) => \A d \in Of(n) : Script(n) = d.script
  BY DEF Seen
<1>2. /\ \A w \in Writers : pc'[w] = "writeNew" /\ name'[w] = n => Script(n)' = script'[w]
      /\ ~Pending(n)' /\ Of(n)' = {} => Script(n)' = NoScript
      /\ ~Pending(n)' => \A d \in Of(n)' : Script(n)' = d.script
  BY DEF Seen
<1>3. Pending(n)' <=> Pending(n)
  BY DEF Pending
<1>4. CASE Pending(n)
  <2>1. PICK w \in Writers : pc[w] = "writeNew" /\ name[w] = n
    BY <1>4 DEF Pending
  <2> QED BY <1>1, <1>2, <2>1
<1>5. CASE ~Pending(n) /\ Of(n) = {}
  BY <1>1, <1>2, <1>3, <1>5
<1>6. CASE ~Pending(n) /\ Of(n) # {}
  BY <1>1, <1>2, <1>3, <1>6
<1> QED BY <1>4, <1>5, <1>6

\* One step of LibraryStore is one step of the dictionary, or none.
LEMMA StepMaps ==
  ASSUME IInv, Seen, IInv', Seen', [Next]_vars
  PROVE  [Dictionary!Next]_(Dictionary!vars)
<1> DEFINE M == Names \cup {NoName}
           dict == [n \in M |-> Script(n)]
           stages == [p \in Processes |-> Stage(p)]
<1> USE LibraryAssumption DEF LibraryAssumption, Processes, Goto, At, locals
<1>0. TypeOK /\ TypeOK' /\ LibraryLock /\ OneScriptPerName /\ Replacing /\ Looking
  BY DEF IInv
<1>k. ASSUME NEW n \in M, Of(n)' = Of(n),
             \A w \in Writers :
               /\ pc'[w] = "writeNew" /\ name'[w] = n <=> pc[w] = "writeNew" /\ name[w] = n
               /\ pc[w] = "writeNew" => script'[w] = script[w]
      PROVE  dict'[n] = dict[n]
  BY <1>k, SeenKept
<1>d. dict' = [n \in M |-> dict'[n]] /\ dict = [n \in M |-> dict[n]]
  OBVIOUS
<1>e. ASSUME data' = data,
             \A w \in Writers : pc[w] = "writeNew" \/ pc'[w] = "writeNew" =>
               pc'[w] = pc[w] /\ name'[w] = name[w] /\ script'[w] = script[w]
      PROVE  dict' = dict
  <2>1. ASSUME NEW n \in M PROVE dict'[n] = dict[n]
    BY <1>k, <1>e DEF Of
  <2> QED BY <2>1, <1>d
<1>s. ASSUME NEW p \in Processes, NEW l, NEW v, pc' = [pc EXCEPT ![p] = l],
             \/ l = "idle" /\ v = "idle"
             \/ l \in {"writeNew", "unlock"} /\ v = "done"
             \/ l \in {"lock", "takeOld", "read"} /\ v = "called"
      PROVE  stages' = [stages EXCEPT ![p] = v]
  <2>1. ASSUME NEW q \in Processes
        PROVE  Stage(q)' = IF q = p THEN v ELSE Stage(q)
    BY <1>0, <1>s DEF Stage, TypeOK
  <2> QED BY <2>1
<1>t. \A p \in Processes : stages[p] = Stage(p)
  OBVIOUS
<1>u. stages = [p \in Processes |-> stages[p]]
  OBVIOUS
<1> DEFINE DNext == [Dictionary!Next]_(Dictionary!vars)
<1>1. ASSUME NEW w \in Writers, NEW n \in Names, NEW s \in Scripts, AddLibrary(w, n, s)
      PROVE  DNext
  <2>1. pc' = [pc EXCEPT ![w] = "lock"] /\ pc[w] = "idle" /\ data' = data
        /\ name' = [name EXCEPT ![w] = n] /\ script' = [script EXCEPT ![w] = s]
    BY <1>1 DEF AddLibrary
  <2>2. dict' = dict
    BY <1>0, <1>e, <2>1 DEF TypeOK
  <2>3. stages' = [stages EXCEPT ![w] = "called"] /\ stages[w] = "idle"
    BY <1>s, <1>t, <2>1 DEF Stage
  <2>4. Dictionary!Call(w, n, s)
    BY <2>1, <2>2, <2>3 DEF Dictionary!Call
  <2> QED BY <2>4 DEF Dictionary!Next
<1>2. ASSUME NEW r \in Readers, NEW n \in Names, FetchLibrary(r, n)
      PROVE  DNext
  <2>1. pc' = [pc EXCEPT ![r] = "lock"] /\ pc[r] = "idle" /\ data' = data
        /\ name' = [name EXCEPT ![r] = n] /\ script' = [script EXCEPT ![r] = NoScript]
    BY <1>2 DEF FetchLibrary
  <2>2. dict' = dict
    BY <1>0, <1>e, <2>1 DEF TypeOK
  <2>3. stages' = [stages EXCEPT ![r] = "called"] /\ stages[r] = "idle"
    BY <1>s, <1>t, <2>1 DEF Stage
  <2>4. Dictionary!Call(r, n, NoScript)
    BY <2>1, <2>2, <2>3 DEF Dictionary!Call
  <2> QED BY <2>4 DEF Dictionary!Next
<1>3. ASSUME NEW p \in Processes, TakeLock(p)
      PROVE  DNext
  <2>1. pc[p] = "lock" /\ UNCHANGED <<data, name, script>>
        /\ (pc' = [pc EXCEPT ![p] = "takeOld"] \/ pc' = [pc EXCEPT ![p] = "read"])
    BY <1>3 DEF TakeLock
  <2>2. dict' = dict
    BY <1>0, <1>e, <2>1 DEF TypeOK
  <2>3. stages' = [stages EXCEPT ![p] = "called"] /\ stages[p] = "called"
    BY <1>s, <1>t, <2>1 DEF Stage
  <2>4. stages' = stages
    BY <2>3, <1>u
  <2> QED BY <2>1, <2>2, <2>4 DEF Dictionary!vars
<1>4. ASSUME NEW w \in Processes, TakeOld(w)
      PROVE  DNext
  <2>1. pc' = [pc EXCEPT ![w] = "writeNew"] /\ pc[w] = "takeOld" /\ UNCHANGED <<name, script>>
        /\ w \in Writers /\ name[w] \in M
    BY <1>0, <1>4 DEF TakeOld, TypeOK
  <2>2. \A v \in Writers : pc[v] # "writeNew" /\ (pc'[v] = "writeNew" <=> v = w)
    BY <1>0, <2>1 DEF TypeOK, LibraryLock, Inside
  <2>3. ASSUME NEW n \in M, n # name[w] PROVE dict'[n] = dict[n]
    <3>1. Of(n)' = Of(n)
      BY <1>4, <2>3 DEF TakeOld, Of
    <3> QED BY <1>k, <2>1, <2>2, <2>3, <3>1
  <2>4. dict'[name[w]] = script[w]
    BY <2>1, <2>2 DEF Seen
  <2>5. dict' = [dict EXCEPT ![name[w]] = script[w]]
    BY <1>d, <2>1, <2>3, <2>4
  <2>6. stages' = [stages EXCEPT ![w] = "done"] /\ stages[w] = "called"
    BY <1>s, <1>t, <2>1 DEF Stage
  <2>7. Dictionary!Store(w)
    BY <2>1, <2>5, <2>6 DEF Dictionary!Store
  <2> QED BY <2>7 DEF Dictionary!Next
<1>5. ASSUME NEW w \in Processes, WriteNew(w)
      PROVE  DNext
  <2> DEFINE new == [name |-> name[w], script |-> script[w]]
  <2>1. pc' = [pc EXCEPT ![w] = "unlock"] /\ pc[w] = "writeNew" /\ UNCHANGED <<name, script>>
        /\ w \in Writers /\ data' = data \cup {new}
    BY <1>0, <1>5 DEF WriteNew, TypeOK
  <2>2. \A v \in Writers : pc'[v] # "writeNew" /\ (pc[v] = "writeNew" <=> v = w)
    BY <1>0, <2>1 DEF TypeOK, LibraryLock, Inside
  <2>3. ASSUME NEW n \in M, n # name[w] PROVE dict'[n] = dict[n]
    <3>1. Of(n)' = Of(n)
      BY <2>1, <2>3 DEF Of
    <3> QED BY <1>k, <2>1, <2>2, <2>3, <3>1
  <2>4. ASSUME NEW n \in M, n = name[w] PROVE dict'[n] = dict[n]
    <3>1. new \in Of(n)' /\ ~Pending(n)'
      BY <2>1, <2>2, <2>4 DEF Of, Pending
    <3>2. Script(n)' = new.script
      BY <3>1 DEF Seen
    <3>3. Script(n) = script[w]
      BY <2>1, <2>4 DEF Seen
    <3> QED BY <3>2, <3>3
  <2>5. dict' = dict
    BY <1>d, <2>3, <2>4
  <2>6. stages' = [stages EXCEPT ![w] = "done"] /\ stages[w] = "done"
    BY <1>s, <1>t, <2>1 DEF Stage
  <2>7. stages' = stages
    BY <2>6, <1>u
  <2> QED BY <2>1, <2>5, <2>7 DEF Dictionary!vars
<1>6. ASSUME NEW r \in Processes, Read(r)
      PROVE  DNext
  <2>1. pc' = [pc EXCEPT ![r] = "unlock"] /\ pc[r] = "read" /\ UNCHANGED <<data, name>>
        /\ r \in Readers /\ name[r] \in M
    BY <1>0, <1>6 DEF Read, TypeOK
  <2>2. \A v \in Writers : pc[v] # "writeNew"
    BY <1>0, <2>1 DEF TypeOK, LibraryLock, Inside
  <2>3. ~Pending(name[r])
    BY <2>2 DEF Pending
  <2>4. script' = [script EXCEPT ![r] = dict[name[r]]]
    <3>1. CASE Of(name[r]) = {}
      <4>1. Script(name[r]) = NoScript
        BY <2>3, <3>1 DEF Seen
      <4>2. script' = script /\ script[r] = NoScript
        BY <1>0, <1>6, <2>1, <3>1 DEF Read, Looking
      <4> QED BY <1>0, <2>1, <4>1, <4>2 DEF TypeOK
    <3>2. CASE Of(name[r]) # {}
      <4>1. PICK d \in Of(name[r]) : script' = [script EXCEPT ![r] = d.script]
        BY <1>6, <3>2 DEF Read
      <4>2. Script(name[r]) = d.script
        BY <2>3 DEF Seen
      <4> QED BY <2>1, <4>1, <4>2
    <3> QED BY <3>1, <3>2
  <2>5. dict' = dict
    <3>1. \A v \in Writers : pc'[v] # "writeNew"
      BY <1>0, <2>1, <2>2 DEF TypeOK
    <3> QED BY <1>e, <2>1, <2>2, <3>1
  <2>6. stages' = [stages EXCEPT ![r] = "done"] /\ stages[r] = "called"
    BY <1>s, <1>t, <2>1 DEF Stage
  <2>7. Dictionary!Lookup(r)
    BY <2>1, <2>4, <2>5, <2>6 DEF Dictionary!Lookup
  <2> QED BY <2>7 DEF Dictionary!Next
<1>7. ASSUME NEW p \in Processes, Unlock(p)
      PROVE  DNext
  <2>1. pc' = [pc EXCEPT ![p] = "idle"] /\ pc[p] = "unlock" /\ UNCHANGED <<data, name, script>>
    BY <1>7 DEF Unlock
  <2>2. dict' = dict
    BY <1>0, <1>e, <2>1 DEF TypeOK
  <2>3. stages' = [stages EXCEPT ![p] = "idle"] /\ stages[p] = "done"
    BY <1>s, <1>t, <2>1 DEF Stage
  <2>4. Dictionary!Return(p)
    BY <2>1, <2>2, <2>3 DEF Dictionary!Return
  <2> QED BY <2>4 DEF Dictionary!Next
<1>8. ASSUME UNCHANGED <<data, pc, name, script>>
      PROVE  DNext
  <2>1. dict' = dict
    BY <1>e, <1>8
  <2>2. stages' = stages
    BY <1>8 DEF Stage
  <2> QED BY <1>8, <2>1, <2>2 DEF Dictionary!vars
<1>9. ASSUME NEW p \in Processes, Crash(p)
      PROVE  DNext
  BY <1>8, <1>9 DEF Crash
<1>10. ASSUME UNCHANGED vars
       PROVE  DNext
  BY <1>8, <1>10 DEF vars
<1> QED
  BY <1>1, <1>2, <1>3, <1>4, <1>5, <1>6, <1>7, <1>9, <1>10 DEF Next, Step

\* Stores and lookups are those of a dictionary in which each happens at once,
\* whoever dies.
THEOREM Implements == Spec => ImplementsDictionary
<1>1. Init => Dictionary!Init
  BY LibraryAssumption DEF LibraryAssumption, Processes, Init, Dictionary!Init, Script, Stage, Of
<1>2. IInv => Seen
  BY ScriptSeen
<1>3. IInv' => Seen'
  BY <1>2, PTL
<1>4. IInv /\ IInv' /\ [Next]_vars => [Dictionary!Next]_(Dictionary!vars)
  BY <1>2, <1>3, StepMaps
<1> QED
  BY <1>1, <1>4, Invariance, PTL DEF Spec, ImplementsDictionary, Dictionary!Spec
=============================================================================
