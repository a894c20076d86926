---------------------------- MODULE LibraryStore ----------------------------
(***************************************************************************)
(* The library dictionary of the registry: ServerRegistry#[]= and #[]      *)
(* (lib/bullring/util/server_registry.rb), called by add_library in        *)
(* clients and by the scripts that servers run.  As in ServerRegistry      *)
(* every tuple space call is a step; pc[p] names the next one:             *)
(*   lock, then takeOld writeNew (a store) or read (a lookup), then unlock *)
(* The other user of the global lock, expire_servers, touches no library.  *)
(***************************************************************************)
EXTENDS Naturals

CONSTANTS
  Writers,    \* clients that call add_library
  Readers,    \* server threads that run scripts with library_names
  Names,      \* library names
  Scripts,    \* their texts
  NoScript,   \* nil
  NoName,     \* no name: what an idle process works on
  Mortal,     \* processes that may die at any moment
  MaxStores   \* bound: calls of add_library in a behaviour

Processes == Writers \cup Readers

ASSUME LibraryAssumption ==
  /\ Writers \cap Readers = {} /\ Mortal \subseteq Processes
  /\ NoScript \notin Scripts /\ NoName \notin Names /\ MaxStores \in Nat

VARIABLES
  data,     \* tuples ['data', 'library', name, script]
  lockIn,   \* the [:global_lock] tuple is in the space
  pc, name, script,
  stores, crashed

locals == <<name, script>>
vars   == <<data, lockIn, pc, locals, stores, crashed>>

At(p, label)   == pc[p] = label /\ p \notin crashed
Goto(p, label) == pc' = [pc EXCEPT ![p] = label]
Of(n)          == {d \in data : d.name = n}

Init ==
  /\ data = {} /\ lockIn = TRUE /\ stores = 0 /\ crashed = {}
  /\ pc = [p \in Processes |-> "idle"]
  /\ name = [p \in Processes |-> NoName]
  /\ script = [p \in Processes |-> NoScript]

-----------------------------------------------------------------------------
(* Slips, see ServerRegistry.                                              *)

TakeOldReads(w) ==   \* read for take
  /\ At(w, "takeOld") /\ Goto(w, "writeNew")
  /\ UNCHANGED <<data, lockIn, locals, stores, crashed>>

LockNothing(p) ==   \* read for take
  /\ pc[p] = "lock" /\ lockIn
  /\ Goto(p, IF p \in Writers THEN "takeOld" ELSE "read")
  /\ UNCHANGED <<data, lockIn, locals, stores, crashed>>

UnlockNothing(p) ==   \* no ensure
  /\ At(p, "unlock") /\ Goto(p, "idle")
  /\ UNCHANGED <<data, lockIn, locals, stores, crashed>>

ReadNil(r) ==   \* the value dropped
  /\ At(r, "read") /\ Goto(r, "unlock")
  /\ UNCHANGED <<data, lockIn, locals, stores, crashed>>

-----------------------------------------------------------------------------
(* The operations.                                                         *)

AddLibrary(w, n, s) ==
  /\ At(w, "idle") /\ stores < MaxStores
  /\ stores' = stores + 1
  /\ name' = [name EXCEPT ![w] = n] /\ script' = [script EXCEPT ![w] = s]
  /\ Goto(w, "lock")
  /\ UNCHANGED <<data, lockIn, crashed>>

\* fetch_library, once for each of the script's library_names.
FetchLibrary(r, n) ==
  /\ At(r, "idle")
  /\ name' = [name EXCEPT ![r] = n] /\ script' = [script EXCEPT ![r] = NoScript]
  /\ Goto(r, "lock")
  /\ UNCHANGED <<data, lockIn, stores, crashed>>

\* Also for a process that died while it waited: its take is still pending.
TakeLock(p) ==
  /\ pc[p] = "lock" /\ lockIn
  /\ lockIn' = FALSE
  /\ Goto(p, IF p \in Writers THEN "takeOld" ELSE "read")
  /\ UNCHANGED <<data, locals, stores, crashed>>

\* One tuple of the name goes; when there is none the error is rescued.
TakeOld(w) ==
  /\ At(w, "takeOld")
  /\ IF Of(name[w]) = {} THEN UNCHANGED data
     ELSE \E d \in Of(name[w]) : data' = data \ {d}
  /\ Goto(w, "writeNew")
  /\ UNCHANGED <<lockIn, locals, stores, crashed>>

WriteNew(w) ==
  /\ At(w, "writeNew")
  /\ data' = data \cup {[name |-> name[w], script |-> script[w]]}
  /\ Goto(w, "unlock")
  /\ UNCHANGED <<lockIn, locals, stores, crashed>>

Read(r) ==
  /\ At(r, "read")
  /\ IF Of(name[r]) = {} THEN UNCHANGED script
     ELSE \E d \in Of(name[r]) : script' = [script EXCEPT ![r] = d.script]
  /\ Goto(r, "unlock")
  /\ UNCHANGED <<data, lockIn, name, stores, crashed>>

Unlock(p) ==
  /\ At(p, "unlock")
  /\ lockIn' = TRUE
  /\ Goto(p, "idle")
  /\ UNCHANGED <<data, locals, stores, crashed>>

\* What a dead process had taken is not written back.
Crash(p) ==
  /\ p \in Mortal \ crashed
  /\ crashed' = crashed \cup {p}
  /\ UNCHANGED <<data, lockIn, pc, locals, stores>>

Step(p) == TakeLock(p) \/ TakeOld(p) \/ WriteNew(p) \/ Read(p) \/ Unlock(p)

Next == \/ \E w \in Writers, n \in Names, s \in Scripts : AddLibrary(w, n, s)
        \/ \E r \in Readers, n \in Names : FetchLibrary(r, n)
        \/ \E p \in Processes : Step(p) \/ Crash(p)

Spec == Init /\ [][Next]_vars

\* Every process goes on with its operation; nothing makes one start.
LiveSpec == Spec /\ \A p \in Processes : WF_vars(Step(p))

-----------------------------------------------------------------------------
(* Properties. *)

Inside(p) == pc[p] \in {"takeOld", "writeNew", "read", "unlock"}

\* Types; a store never runs the steps of a lookup, nor the other way round;
\* what a writer is about to write is a script.
TypeOK ==
  /\ data \subseteq [name : Names, script : Scripts]
  /\ lockIn \in BOOLEAN /\ stores \in Nat /\ crashed \subseteq Mortal
  /\ pc \in [Processes -> {"idle", "lock", "takeOld", "writeNew", "read", "unlock"}]
  /\ name \in [Processes -> Names \cup {NoName}]
  /\ script \in [Processes -> Scripts \cup {NoScript}]
  /\ \A p \in Processes : pc[p] # "idle" =>
       /\ name[p] \in Names
       /\ p \in Writers => pc[p] # "read" /\ script[p] \in Scripts
       /\ p \in Readers => pc[p] \notin {"takeOld", "writeNew"}

\* with_lock excludes: at most one process is between the take and the write
\* of the lock tuple, and none while the tuple is in the space.
LibraryLock ==
  /\ \A p, q \in Processes : Inside(p) /\ Inside(q) => p = q
  /\ lockIn => \A p \in Processes : ~Inside(p)

\* A name has one script, although []= removes the old tuple and writes the
\* new one in two calls, and removes only one.
OneScriptPerName == \A d, e \in data : d.name = e.name => d = e

\* The dictionary as its users see it: a store takes effect with the take of
\* the old tuple, since nobody can look before the new one is there.
Script(n) ==
  IF \E w \in Writers : pc[w] = "writeNew" /\ name[w] = n
  THEN script[CHOOSE w \in Writers : pc[w] = "writeNew" /\ name[w] = n]
  ELSE IF Of(n) = {} THEN NoScript ELSE (CHOOSE d \in Of(n) : TRUE).script
Stage(p) == CASE pc[p] = "idle" -> "idle" [] pc[p] \in {"writeNew", "unlock"} -> "done"
              [] OTHER -> "called"
Dictionary == INSTANCE LibraryDictionary WITH
                Names <- Names \cup {NoName},
                dictionary <- [n \in Names \cup {NoName} |-> Script(n)],
                stage <- [p \in Processes |-> Stage(p)]

\* Stores and lookups behave as if each happened at once between its call and
\* its return, also when processes die in the middle of one: a script that is
\* run after add_library returned gets that library or a newer one.
ImplementsDictionary == Dictionary!Spec

\* Operations under way get through with_lock, or somebody has died: the lock
\* comes back whenever it was taken, whatever raised inside.
LibraryProgress ==
  (\E p \in Processes : pc[p] # "idle") ~> crashed # {} \/ \E p \in Processes : pc[p] = "unlock"
=============================================================================
