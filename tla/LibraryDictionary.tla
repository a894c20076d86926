-------------------------- MODULE LibraryDictionary --------------------------
(***************************************************************************)
(* What add_library and a script's library_names promise one another: a    *)
(* dictionary in which each store and each lookup takes effect at once, at *)
(* some moment between its call and its return.                            *)
(***************************************************************************)
CONSTANTS
  Writers, Readers,  \* processes that store, threads that look up
  Names, Scripts,
  NoScript           \* what a lookup of an unknown name gives

VARIABLES
  dictionary,  \* [Names -> Scripts \cup {NoScript}]
  stage,       \* of each process: idle, called, done
  name,        \* what it stores or looks up
  script       \* what it stores, or what its lookup gave

vars == <<dictionary, stage, name, script>>

Init ==
  /\ dictionary = [n \in Names |-> NoScript]
  /\ stage = [p \in Writers \cup Readers |-> "idle"]
  /\ name \in [Writers \cup Readers -> Names]
  /\ script = [p \in Writers \cup Readers |-> NoScript]

Call(p, n, s) ==
  /\ stage[p] = "idle"
  /\ stage' = [stage EXCEPT ![p] = "called"]
  /\ name' = [name EXCEPT ![p] = n]
  /\ script' = [script EXCEPT ![p] = s]
  /\ UNCHANGED dictionary

Store(p) ==
  /\ p \in Writers /\ stage[p] = "called"
  /\ dictionary' = [dictionary EXCEPT ![name[p]] = script[p]]
  /\ stage' = [stage EXCEPT ![p] = "done"]
  /\ UNCHANGED <<name, script>>

Lookup(p) ==
  /\ p \in Readers /\ stage[p] = "called"
  /\ script' = [script EXCEPT ![p] = dictionary[name[p]]]
  /\ stage' = [stage EXCEPT ![p] = "done"]
  /\ UNCHANGED <<dictionary, name>>

Return(p) ==
  /\ stage[p] = "done"
  /\ stage' = [stage EXCEPT ![p] = "idle"]
  /\ UNCHANGED <<dictionary, name, script>>

Next == \/ \E p \in Writers, n \in Names, s \in Scripts : Call(p, n, s)
        \/ \E p \in Readers, n \in Names : Call(p, n, NoScript)
        \/ \E p \in Writers \cup Readers : Store(p) \/ Lookup(p) \/ Return(p)

Spec == Init /\ [][Next]_vars
=============================================================================
