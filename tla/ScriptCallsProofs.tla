-------------------------- MODULE ScriptCallsProofs --------------------------
(***************************************************************************)
(* Theorems about ScriptCalls, for any libraries, any text and any number  *)
(* of calls.                                                               *)
(***************************************************************************)
EXTENDS ScriptCalls, WellFoundedInduction, SequenceTheorems, TLAPS

(* The inductive invariant.  A worker once made stays, and what was stored   *)
(* stays where it looks; what a run in a server has done so far is behind it *)
(* without an error that ends it, and its limit is set only when the          *)
(* libraries are done.                                                        *)
TypeOK ==
  /\ disabled \in BOOLEAN /\ runtime \in Runtimes /\ worker \in {"none", "rhino", "racer"}
  /\ written \in Sources
  /\ names \in Seq(Names) /\ at \in 0 .. Len(names)
  /\ calling \in BOOLEAN /\ limit \in {Default, NoLimit}
  /\ libraries \subseteq Names /\ registry \subseteq Names /\ added \subseteq Names
  /\ blame \in Names \cup {Nobody, Script}

Progress ==
  /\ calling => outcome = "none" /\ blame = Nobody /\ worker # "none"
  /\ worker = "none" => outcome # "value" /\ blame = Nobody
  /\ worker = "rhino" /\ calling => /\ \A i \in 1 .. at : ~Throws(names[i])
                                    /\ limit # NoLimit => at = Len(names)

Stored ==
  /\ worker = "none" => added = {}
  /\ LibrariesLast

IInv == TypeOK /\ Progress /\ FirstErrorEndsRun /\ Stored

\* library_names is a sequence of names.
LEMMA CallsAreSequences == Calls \subseteq Seq(Names)
<1> SUFFICES ASSUME NEW k \in 0 .. MaxNames, NEW ns \in [1 .. k -> Names] PROVE ns \in Seq(Names)
  BY DEF Calls
<1> QED BY CallsAssumption, IsASeq DEF CallsAssumption

\* One step of every action keeps the invariant: the worker does not change, an
\* error ends the run that has it, and what a run has behind it grows by a
\* library that did not throw.
LEMMA StepKeeps ==
  ASSUME IInv, [Next]_vars
  PROVE  IInv'
<1> USE CallsAssumption DEF CallsAssumption, config, text, stored, ends, call, TypeOK, Progress, IInv,
        FirstErrorEndsRun, Stored, LibrariesLast, Found, Return, Runtimes, Kinds, Throws, Nobody, Script,
        Usable, Worker
<1>1. ASSUME NEW d \in BOOLEAN, NEW r \in Runtimes, configure(d, r) PROVE IInv'
  BY <1>1 DEF configure
<1>2. ASSUME NEW n \in Names, add_library(n) PROVE IInv'
  BY <1>2 DEF add_library
<1>3. ASSUME check PROVE IInv'
  BY <1>3 DEF check
<1>4. ASSUME NEW ns \in Calls, run(ns) PROVE IInv'
  <2>1. ns \in Seq(Names) /\ 0 \in 0 .. Len(ns)
    BY CallsAreSequences, LenProperties
  <2>2. /\ names' = ns /\ at' = 0 /\ limit' = NoLimit /\ calling' = TRUE
        /\ outcome' = "none" /\ blame' = Nobody /\ worker' = Worker
        /\ UNCHANGED <<disabled, runtime, source, written, libraries, registry, added>>
    BY <1>4 DEF run
  <2>3. TypeOK' /\ worker' \in {"rhino", "racer"} /\ Stored'
    BY <1>4, <2>1, <2>2 DEF run
  <2>4. Progress' /\ FirstErrorEndsRun'
    BY <2>2, <2>3
  <2> QED BY <2>3, <2>4
<1>5. ASSUME CallDisabled \/ InvalidRuntime PROVE IInv'
  BY <1>5 DEF CallDisabled, InvalidRuntime
<1>6. ASSUME Library PROVE IInv'
  <2>1. names[at + 1] \in Names /\ at + 1 \in 1 .. Len(names)
    BY <1>6, ElementOfSeq, LenProperties DEF Library
  <2> DEFINE n == names[at + 1]
  <2>2. CASE Ends(KindOf[n]) /\ Found(n) /\ at' = at + 1 /\ UNCHANGED ends
    BY <1>6, <2>1, <2>2 DEF Library, Ends
  <2>3. CASE Found(n) /\ Thrown(KindOf[n], n) /\ UNCHANGED at
    <3>1. outcome' # "value" /\ blame' = n /\ calling' = FALSE
      BY <2>3 DEF Thrown
    <3>2. worker = "rhino" => outcome' # "TooLong"
      <4> SUFFICES ASSUME worker = "rhino", outcome' = "TooLong" PROVE FALSE
        OBVIOUS
      <4>1. limit # NoLimit /\ calling
        BY <1>6, <2>3 DEF Thrown, Library
      <4> QED BY <4>1, <1>6 DEF Library
    <3>3. TypeOK' /\ Progress' /\ Stored'
      BY <1>6, <2>1, <2>3, <3>1 DEF Library
    <3>4. FirstErrorEndsRun'
      BY <1>6, <2>1, <2>3, <3>1, <3>2 DEF Library
    <3> QED BY <3>3, <3>4
  <2>4. CASE ~Found(n) /\ worker = "rhino" /\ Return("NameError", n) /\ UNCHANGED at
    <3>1. TypeOK' /\ Progress' /\ Stored'
      BY <1>6, <2>1, <2>4 DEF Library
    <3>2. FirstErrorEndsRun'
      BY <1>6, <2>1, <2>4 DEF Library
    <3> QED BY <3>1, <3>2
  <2>5. CASE worker = "racer"
    <3>1. worker' = worker /\ at' \in {at, at + 1} /\ (outcome' = outcome \/ outcome' # "value")
      BY <1>6, <2>5 DEF Library, Thrown
    <3>2. (UNCHANGED <<calling, blame>> /\ outcome' = outcome) \/ (calling' = FALSE /\ blame' = n)
      BY <1>6, <2>5 DEF Library, Thrown
    <3>3. UNCHANGED <<config, text, names, limit, stored>>
      BY <1>6 DEF Library
    <3>4. worker' = "racer" /\ blame' \in Names \cup {Nobody, Script} /\ calling' \in BOOLEAN
      BY <2>1, <2>5, <3>1, <3>2
    <3>5. at' \in 0 .. Len(names)
      BY <1>6, <2>1, <3>1 DEF Library
    <3>6. TypeOK'
      BY <3>3, <3>4, <3>5
    <3>7. Progress'
      BY <3>1, <3>2, <3>4
    <3>8. Stored'
      BY <2>5, <3>3, <3>4
    <3> QED BY <3>4, <3>6, <3>7, <3>8
  <2> QED BY <1>6, <2>2, <2>3, <2>4, <2>5 DEF Library
<1>7. ASSUME SetLimit PROVE IInv'
  BY <1>7 DEF SetLimit
<1>8. ASSUME Eval PROVE IInv'
  <2>1. PICK k \in Kinds : Thrown(k, Script) \/ (Ends(k) /\ Return("value", Nobody))
    BY <1>8 DEF Eval
  <2> QED BY <1>8, <2>1 DEF Eval, Thrown
<1>9. ASSUME Lost PROVE IInv'
  BY <1>9 DEF Lost
<1>10. ASSUME RegistryReplaced \/ UNCHANGED vars PROVE IInv'
  BY <1>10 DEF RegistryReplaced, vars
<1> QED
  BY <1>1, <1>2, <1>3, <1>4, <1>5, <1>6, <1>7, <1>8, <1>9, <1>10 DEF Next

\* The inductive invariant holds in every reachable state.
THEOREM Invariance == Spec => []IInv
<1>1. Init => IInv
  <2>1. <<>> \in Seq(Names) /\ Len(<<>>) = 0
    BY EmptySeq
  <2> SUFFICES ASSUME Init PROVE IInv
    OBVIOUS
  <2>2. TypeOK
    <3>1. at \in 0 .. Len(names) /\ names \in Seq(Names)
      BY <2>1 DEF Init
    <3> QED BY <3>1, CallsAssumption DEF CallsAssumption, Init, TypeOK, Runtimes
  <2>3. Progress /\ Stored
    BY DEF Init, Progress, Stored, LibrariesLast
  <2>4. FirstErrorEndsRun
    BY CallsAssumption DEF CallsAssumption, Init, FirstErrorEndsRun, Nobody, Script
  <2> QED BY <2>2, <2>3, <2>4 DEF IInv
<1>2. IInv /\ [Next]_vars => IInv'
  BY StepKeeps
<1> QED BY <1>1, <1>2, PTL DEF Spec

\* A run in a server ends with its first error, for any number of libraries.
THEOREM FirstError == Spec => []FirstErrorEndsRun
<1>1. IInv => FirstErrorEndsRun
  BY DEF IInv
<1> QED BY <1>1, Invariance, PTL

\* A library that was added is there for every later run, through any number of
\* calls and changes of the configuration.
THEOREM LibrariesStay == Spec => []LibrariesLast
<1>1. IInv => LibrariesLast
  BY DEF IInv, Stored
<1> QED BY <1>1, Invariance, PTL

-----------------------------------------------------------------------------
(* What prepare_source does to any text.  The three functions that walk a     *)
(* text are unfolded at an index; they look two places ahead at most.         *)

Escaping(s) ==
  LET esc[i \in 1 .. Len(s) + 2] ==
        IF i > Len(s) THEN <<>>
        ELSE IF CrLf(s, i) THEN <<"BS", "n">> \o esc[i + 2]
        ELSE Escape(s[i]) \o esc[i + 1]
  IN  esc

Reading(t) ==
  LET read[i \in 1 .. Len(t) + 2] ==
        IF i > Len(t) THEN <<>>
        ELSE IF t[i] = "BS" /\ i < Len(t)
             THEN <<IF t[i + 1] = "n" THEN "LF" ELSE t[i + 1]>> \o read[i + 2]
        ELSE <<IF t[i] \in {"BS", "LF", "CR", "DQ", "LS"} THEN "broken" ELSE t[i]>> \o read[i + 1]
  IN  read

Lining(s) ==
  LET line[i \in 1 .. Len(s) + 2] ==
        IF i > Len(s) THEN <<>>
        ELSE IF CrLf(s, i) THEN <<"LF">> \o line[i + 2]
        ELSE <<IF s[i] = "CR" THEN "LF" ELSE s[i]>> \o line[i + 1]
  IN  line

\* A set of numbers has a least one.
LEMMA Least ==
  ASSUME NEW B \in SUBSET Nat, B # {}
  PROVE  \E m \in B : \A j \in B : m <= j
<1> DEFINE R == OpToRel(<, Nat)
<1>1. IsWellFoundedOn(R, Nat)
  BY NatLessThanWellFounded
<1>2. \A x, y \in Nat : y < x => <<y, x>> \in R
  BY DEF OpToRel
<1> HIDE DEF R
<1>3. PICK m \in B : \A y \in B : ~(<<y, m>> \in R)
  BY <1>1, WFMin
<1>4. \A j \in B : j \in Nat /\ m \in Nat /\ ~(j < m)
  BY <1>2, <1>3
<1>5. \A j \in B : m <= j
  BY <1>4
<1> QED BY <1>5

\* Induction from the end of a text: what holds at its end, and wherever it
\* holds at the next two places, holds everywhere.
LEMMA Downward ==
  ASSUME NEW n \in Nat, NEW K, n + 1 \in K, n + 2 \in K,
         \A k \in 1 .. n : k + 1 \in K /\ k + 2 \in K => k \in K
  PROVE  \A k \in 1 .. n + 2 : k \in K
<1> SUFFICES ASSUME NEW k \in 1 .. n + 2, k \notin K PROVE FALSE
  OBVIOUS
<1> DEFINE B == {j \in Nat : j <= n + 1 /\ n + 2 - j \notin K}
<1>1. n + 2 - k \in Nat /\ n + 2 - k <= n + 1 /\ n + 2 - (n + 2 - k) = k
  OBVIOUS
<1>2. n + 2 - k \in B /\ B \in SUBSET Nat
  BY <1>1
<1>3. PICK m \in B : \A j \in B : m <= j
  BY <1>2, Least
<1>4. m \in Nat /\ m <= n + 1 /\ n + 2 - m \notin K
  BY <1>3
<1>5. \A j \in Nat : j < m => n + 2 - j \in K
  BY <1>3, <1>4
<1> HIDE DEF B
<1>6. m # 0 /\ m # 1
  BY <1>4
<1>7. n + 2 - (m - 1) \in K /\ n + 2 - (m - 2) \in K
  BY <1>4, <1>5, <1>6
<1>8. n + 2 - m \in 1 .. n /\ (n + 2 - m) + 1 \in K /\ (n + 2 - m) + 2 \in K
  <2>1. (n + 2 - m) + 1 = n + 2 - (m - 1) /\ (n + 2 - m) + 2 = n + 2 - (m - 2)
    BY <1>4
  <2> QED BY <1>4, <1>6, <1>7, <2>1
<1> QED BY <1>4, <1>8

\* f is what walks a text from place k on: piece A[i] at i, then on at J[i].
Walks(f, k, n, A, J) ==
  \A i \in k .. n + 2 : f[i] = IF i > n THEN <<>> ELSE A[i] \o f[J[i]]
Walk(f, n, A, J) == [i \in 1 .. n + 2 |-> IF i > n THEN <<>> ELSE A[i] \o f[J[i]]]
Ahead(J, n) == \A i \in 1 .. n : J[i] \in {i + 1, i + 2}

\* There is a function that walks a text, whatever its pieces.
LEMMA WalkExists ==
  ASSUME NEW n \in Nat, NEW A, NEW J, Ahead(J, n)
  PROVE  \E f : f = Walk(f, n, A, J)
<1> DEFINE K == {k \in 1 .. n + 2 : \E f : Walks(f, k, n, A, J)}
<1>1. ASSUME NEW k \in {n + 1, n + 2} PROVE k \in K
  <2> DEFINE f == [i \in 1 .. n + 2 |-> <<>>]
  <2>1. Walks(f, k, n, A, J)
    BY DEF Walks
  <2> HIDE DEF f
  <2> QED BY <2>1
<1>2. ASSUME NEW k \in 1 .. n, k + 1 \in K PROVE k \in K
  <2>1. PICK f : Walks(f, k + 1, n, A, J)
    BY <1>2
  <2> DEFINE first == A[k] \o f[J[k]]
             g == [i \in 1 .. n + 2 |-> IF i = k THEN first ELSE f[i]]
  <2> HIDE DEF first
  <2>2. \A i \in k + 1 .. n + 2 : g[i] = f[i]
    OBVIOUS
  <2>3. g[k] = first
    OBVIOUS
  <2> HIDE DEF g
  <2>4. ASSUME NEW i \in k .. n + 2 PROVE g[i] = IF i > n THEN <<>> ELSE A[i] \o g[J[i]]
    <3>1. CASE i > n
      <4>1. f[i] = <<>> /\ g[i] = f[i]
        BY <2>1, <2>2, <3>1 DEF Walks
      <4> QED BY <3>1, <4>1
    <3>2. CASE i \in k .. n
      <4>1. J[i] \in k + 1 .. n + 2
        BY <3>2 DEF Ahead
      <4>2. g[J[i]] = f[J[i]]
        BY <2>2, <4>1
      <4>6. ~(i > n) /\ (i # k => i \in k + 1 .. n + 2)
        BY <3>2
      <4>3. i # k => f[i] = A[i] \o f[J[i]] /\ g[i] = f[i]
        BY <2>1, <2>2, <4>6 DEF Walks
      <4>4. i = k => g[i] = A[i] \o f[J[i]]
        BY <2>3 DEF first
      <4>5. g[i] = A[i] \o g[J[i]]
        BY <4>2, <4>3, <4>4
      <4> QED BY <4>6, <4>5
    <3> QED BY <3>1, <3>2
  <2>5. Walks(g, k, n, A, J)
    BY <2>4 DEF Walks
  <2> QED BY <2>5
<1>3. 1 \in K
  <2> HIDE DEF K
  <2>1. \A k \in 1 .. n + 2 : k \in K
    BY <1>1, <1>2, Downward
  <2> QED BY <2>1
<1>4. PICK f : Walks(f, 1, n, A, J)
  BY <1>3
<1> DEFINE g == [i \in 1 .. n + 2 |-> f[i]]
<1>5. \A i \in 1 .. n + 2 : g[i] = IF i > n THEN <<>> ELSE A[i] \o g[J[i]]
  <2>1. \A i \in 1 .. n + 2 : g[i] = f[i]
    OBVIOUS
  <2> HIDE DEF g
  <2>2. \A i \in 1 .. n : J[i] \in 1 .. n + 2
    BY DEF Ahead
  <2> QED BY <1>4, <2>1, <2>2 DEF Walks
<1>6. g = [i \in 1 .. n + 2 |-> g[i]]
  OBVIOUS
<1> HIDE DEF g
<1>7. g = Walk(g, n, A, J)
  BY <1>5, <1>6 DEF Walk
<1> QED BY <1>7

\* What walks a text gives sequences, when its pieces are sequences.
LEMMA WalkType ==
  ASSUME NEW S, NEW n \in Nat, NEW A, NEW J, NEW f, Walks(f, 1, n, A, J), Ahead(J, n),
         \A i \in 1 .. n : A[i] \in Seq(S)
  PROVE  \A i \in 1 .. n + 2 : f[i] \in Seq(S)
<1> DEFINE K == {k \in 1 .. n + 2 : f[k] \in Seq(S)}
<1>1. n + 1 \in K /\ n + 2 \in K
  <2>1. f[n + 1] = <<>> /\ f[n + 2] = <<>>
    BY DEF Walks
  <2>2. <<>> \in Seq(S)
    BY EmptySeq
  <2>3. n + 1 \in 1 .. n + 2 /\ n + 2 \in 1 .. n + 2
    OBVIOUS
  <2> QED BY <2>1, <2>2, <2>3
<1>2. ASSUME NEW k \in 1 .. n, k + 1 \in K, k + 2 \in K PROVE k \in K
  <2>1. f[k] = A[k] \o f[J[k]]
    <3>1. k \in 1 .. n + 2 /\ ~(k > n)
      OBVIOUS
    <3> QED BY <3>1 DEF Walks
  <2>2. J[k] = k + 1 \/ J[k] = k + 2
    BY DEF Ahead
  <2>3. f[J[k]] \in Seq(S) /\ A[k] \in Seq(S)
    BY <1>2, <2>2
  <2>4. f[k] \in Seq(S)
    BY <2>1, <2>3, ConcatProperties
  <2> QED BY <2>4
<1> HIDE DEF K
<1>3. \A k \in 1 .. n + 2 : k \in K
  BY <1>1, <1>2, Downward
<1> QED BY <1>3 DEF K

\* The pieces that prepare_source, JavaScript and Lines make of a text.
After(s) == [i \in 1 .. Len(s) |-> IF CrLf(s, i) THEN i + 2 ELSE i + 1]
Escaped(s) == [i \in 1 .. Len(s) |-> IF CrLf(s, i) THEN <<"BS", "n">> ELSE Escape(s[i])]
Lined(s) == [i \in 1 .. Len(s) |-> IF CrLf(s, i) THEN <<"LF">>
                                   ELSE <<IF s[i] = "CR" THEN "LF" ELSE s[i]>>]
Seen(s) == [i \in 1 .. Len(s) |-> IF s[i] = "LS" THEN <<"broken">> ELSE Lined(s)[i]]
Escapes(t, i) == t[i] = "BS" /\ i < Len(t)
Onward(t) == [i \in 1 .. Len(t) |-> IF Escapes(t, i) THEN i + 2 ELSE i + 1]
Read(t) == [i \in 1 .. Len(t) |->
  IF Escapes(t, i) THEN <<IF t[i + 1] = "n" THEN "LF" ELSE t[i + 1]>>
  ELSE <<IF t[i] \in {"BS", "LF", "CR", "DQ", "LS"} THEN "broken" ELSE t[i]>>]

\* A text is walked by the function that prepare_source defines.
LEMMA EscapingWalks ==
  ASSUME NEW S, NEW s \in Seq(S)
  PROVE  Walks(Escaping(s), 1, Len(s), Escaped(s), After(s)) /\ Ahead(After(s), Len(s))
<1> DEFINE n == Len(s)
           Body(f) == [i \in 1 .. Len(s) + 2 |->
             IF i > Len(s) THEN <<>>
             ELSE IF CrLf(s, i) THEN <<"BS", "n">> \o f[i + 2]
             ELSE Escape(s[i]) \o f[i + 1]]
<1>1. n \in Nat
  BY LenProperties
<1>2. Ahead(After(s), n)
  BY <1>1 DEF Ahead, After
<1>3. PICK f : f = Walk(f, n, Escaped(s), After(s))
  BY <1>1, <1>2, WalkExists
<1>4. ASSUME NEW g PROVE Walk(g, n, Escaped(s), After(s)) = Body(g)
  <2> SUFFICES ASSUME NEW i \in 1 .. n + 2
               PROVE  Walk(g, n, Escaped(s), After(s))[i] = Body(g)[i]
    BY DEF Walk
  <2>1. CASE i > n
    BY <2>1 DEF Walk
  <2>2. CASE i \in 1 .. n
    <3>1. ~(i > n)
      BY <1>1, <2>2
    <3>2. CASE CrLf(s, i)
      <4>1. Escaped(s)[i] = <<"BS", "n">> /\ After(s)[i] = i + 2
        BY <2>2, <3>2 DEF Escaped, After
      <4> QED BY <3>1, <3>2, <4>1 DEF Walk
    <3>3. CASE ~CrLf(s, i)
      <4>1. Escaped(s)[i] = Escape(s[i]) /\ After(s)[i] = i + 1
        BY <2>2, <3>3 DEF Escaped, After
      <4> QED BY <3>1, <3>3, <4>1 DEF Walk
    <3> QED BY <3>2, <3>3
  <2> QED BY <1>1, <2>1, <2>2
<1>5. f = Body(f)
  BY <1>3, <1>4
<1>6. Escaping(s) = Body(Escaping(s))
  BY <1>5 DEF Escaping
<1>7. Escaping(s) = Walk(Escaping(s), n, Escaped(s), After(s))
  BY <1>4, <1>6
<1> QED BY <1>1, <1>2, <1>7 DEF Walks, Walk

\* So is it by the function of Lines,
LEMMA LiningWalks ==
  ASSUME NEW S, NEW s \in Seq(S)
  PROVE  Walks(Lining(s), 1, Len(s), Lined(s), After(s)) /\ Ahead(After(s), Len(s))
<1> DEFINE n == Len(s)
           Body(f) == [i \in 1 .. Len(s) + 2 |->
             IF i > Len(s) THEN <<>>
             ELSE IF CrLf(s, i) THEN <<"LF">> \o f[i + 2]
             ELSE <<IF s[i] = "CR" THEN "LF" ELSE s[i]>> \o f[i + 1]]
<1>1. n \in Nat
  BY LenProperties
<1>2. Ahead(After(s), n)
  BY <1>1 DEF Ahead, After
<1>3. PICK f : f = Walk(f, n, Lined(s), After(s))
  BY <1>1, <1>2, WalkExists
<1>4. ASSUME NEW g PROVE Walk(g, n, Lined(s), After(s)) = Body(g)
  <2> SUFFICES ASSUME NEW i \in 1 .. n + 2
               PROVE  Walk(g, n, Lined(s), After(s))[i] = Body(g)[i]
    BY DEF Walk
  <2>1. CASE i > n
    BY <2>1 DEF Walk
  <2>2. CASE i \in 1 .. n
    <3>1. ~(i > n)
      BY <1>1, <2>2
    <3>2. CASE CrLf(s, i)
      <4>1. Lined(s)[i] = <<"LF">> /\ After(s)[i] = i + 2
        BY <2>2, <3>2 DEF Lined, After
      <4> QED BY <3>1, <3>2, <4>1 DEF Walk
    <3>3. CASE ~CrLf(s, i)
      <4>1. Lined(s)[i] = <<IF s[i] = "CR" THEN "LF" ELSE s[i]>> /\ After(s)[i] = i + 1
        BY <2>2, <3>3 DEF Lined, After
      <4> QED BY <3>1, <3>3, <4>1 DEF Walk
    <3> QED BY <3>2, <3>3
  <2> QED BY <1>1, <2>1, <2>2
<1>5. f = Body(f)
  BY <1>3, <1>4
<1>6. Lining(s) = Body(Lining(s))
  BY <1>5 DEF Lining
<1>7. Lining(s) = Walk(Lining(s), n, Lined(s), After(s))
  BY <1>4, <1>6
<1> QED BY <1>1, <1>2, <1>7 DEF Walks, Walk

\* and a literal by what JavaScript reads.
LEMMA ReadingWalks ==
  ASSUME NEW S, NEW t \in Seq(S)
  PROVE  Walks(Reading(t), 1, Len(t), Read(t), Onward(t)) /\ Ahead(Onward(t), Len(t))
<1> DEFINE n == Len(t)
           Body(f) == [i \in 1 .. Len(t) + 2 |->
             IF i > Len(t) THEN <<>>
             ELSE IF t[i] = "BS" /\ i < Len(t) THEN <<IF t[i + 1] = "n" THEN "LF" ELSE t[i + 1]>> \o f[i + 2]
             ELSE <<IF t[i] \in {"BS", "LF", "CR", "DQ", "LS"} THEN "broken" ELSE t[i]>> \o f[i + 1]]
<1>1. n \in Nat
  BY LenProperties
<1>2. Ahead(Onward(t), n)
  BY <1>1 DEF Ahead, Onward
<1>3. PICK f : f = Walk(f, n, Read(t), Onward(t))
  BY <1>1, <1>2, WalkExists
<1>4. ASSUME NEW g PROVE Walk(g, n, Read(t), Onward(t)) = Body(g)
  <2> SUFFICES ASSUME NEW i \in 1 .. n + 2
               PROVE  Walk(g, n, Read(t), Onward(t))[i] = Body(g)[i]
    BY DEF Walk
  <2>1. CASE i > n
    BY <2>1 DEF Walk
  <2>2. CASE i \in 1 .. n
    <3>1. ~(i > n)
      BY <1>1, <2>2
    <3>2. CASE Escapes(t, i)
      <4>1. Read(t)[i] = <<IF t[i + 1] = "n" THEN "LF" ELSE t[i + 1]>> /\ Onward(t)[i] = i + 2
        BY <2>2, <3>2 DEF Read, Onward, Escapes
      <4> QED BY <3>1, <3>2, <4>1 DEF Walk, Escapes
    <3>3. CASE ~Escapes(t, i)
      <4>1. Read(t)[i] = <<IF t[i] \in {"BS", "LF", "CR", "DQ", "LS"} THEN "broken" ELSE t[i]>> /\ Onward(t)[i] = i + 1
        BY <2>2, <3>3 DEF Read, Onward, Escapes
      <4> QED BY <3>1, <3>3, <4>1 DEF Walk, Escapes
    <3> QED BY <3>2, <3>3
  <2> QED BY <1>1, <2>1, <2>2
<1>5. f = Body(f)
  BY <1>3, <1>4
<1>6. Reading(t) = Body(Reading(t))
  BY <1>5 DEF Reading
<1>7. Reading(t) = Walk(Reading(t), n, Read(t), Onward(t))
  BY <1>4, <1>6
<1> QED BY <1>1, <1>2, <1>7 DEF Walks, Walk

\* The character that a piece of a literal, ending in c, is to JavaScript.
Meant(b, c) == IF Len(b) = 2 THEN IF c = "n" THEN "LF" ELSE c
               ELSE IF c = "LS" THEN "broken" ELSE c

\* JavaScript reads a piece that prepare_source wrote as one character.
LEMMA ReadsPiece ==
  ASSUME NEW C, NEW p \in Seq(C), NEW b \in Seq(C), NEW u \in Seq(C), NEW c \in C,
         \/ b = <<"BS", c>>
         \/ b = <<c>> /\ c \notin {"BS", "LF", "CR", "DQ"}
  PROVE  LET t == (p \o b) \o u IN
         Reading(t)[Len(p) + 1] = <<Meant(b, c)>> \o Reading(t)[Len(p) + Len(b) + 1]
<1> DEFINE t == (p \o b) \o u
           k == Len(p) + 1
<1>1. /\ p \o b \in Seq(C) /\ t \in Seq(C) /\ Len(p) \in Nat /\ Len(u) \in Nat /\ Len(b) \in {1, 2}
      /\ Len(p \o b) = Len(p) + Len(b) /\ Len(t) = Len(p) + Len(b) + Len(u)
  <2>1. Len(b) \in {1, 2}
    OBVIOUS
  <2> QED BY <2>1, ConcatProperties, LenProperties
<1>2. k \in 1 .. Len(t) /\ t[k] = b[1]
  <2>1. k \in 1 .. Len(p) + Len(b) /\ k > Len(p)
    BY <1>1
  <2>2. (p \o b)[k] = b[k - Len(p)]
    BY <1>1, <2>1, ConcatProperties
  <2>3. t[k] = (p \o b)[k]
    BY <1>1, <2>1, ConcatProperties
  <2> QED BY <1>1, <2>1, <2>2, <2>3
<1>3. Reading(t)[k] = Read(t)[k] \o Reading(t)[Onward(t)[k]]
  <2>1. Walks(Reading(t), 1, Len(t), Read(t), Onward(t))
    BY <1>1, ReadingWalks
  <2>2. k \in 1 .. Len(t) + 2 /\ ~(k > Len(t))
    BY <1>1, <1>2
  <2> HIDE DEF t, k
  <2> QED BY <2>1, <2>2 DEF Walks
<1>4. CASE b = <<"BS", c>>
  <2>1. Len(b) = 2 /\ b[1] = "BS" /\ b[2] = c
    BY <1>4
  <2>2. k + 1 \in 1 .. Len(t) /\ t[k + 1] = c
    <3>1. k + 1 \in 1 .. Len(p) + Len(b) /\ k + 1 > Len(p) /\ (k + 1) - Len(p) = 2
      BY <1>1, <2>1
    <3>2. (p \o b)[k + 1] = b[(k + 1) - Len(p)]
      BY <1>1, <3>1, ConcatProperties
    <3>3. t[k + 1] = (p \o b)[k + 1]
      BY <1>1, <3>1, ConcatProperties
    <3> QED BY <1>1, <2>1, <3>1, <3>2, <3>3
  <2>3. Escapes(t, k)
    BY <1>1, <1>2, <2>1, <2>2 DEF Escapes
  <2>4. Read(t)[k] = <<IF c = "n" THEN "LF" ELSE c>> /\ Onward(t)[k] = Len(p) + Len(b) + 1
    <3> HIDE DEF t
    <3> QED BY <1>1, <1>2, <2>1, <2>2, <2>3 DEF Read, Onward
  <2>5. Meant(b, c) = IF c = "n" THEN "LF" ELSE c
    BY <2>1 DEF Meant
  <2> QED BY <1>3, <2>1, <2>4, <2>5
<1>5. CASE b = <<c>> /\ c \notin {"BS", "LF", "CR", "DQ"}
  <2>1. Len(b) = 1 /\ b[1] = c
    BY <1>5
  <2>2. ~Escapes(t, k)
    BY <1>2, <1>5, <2>1 DEF Escapes
  <2>3. Read(t)[k] = <<IF c = "LS" THEN "broken" ELSE c>> /\ Onward(t)[k] = Len(p) + Len(b) + 1
    <3> HIDE DEF t
    <3> QED BY <1>1, <1>2, <1>5, <2>1, <2>2 DEF Read, Onward
  <2>4. Meant(b, c) = IF c = "LS" THEN "broken" ELSE c
    BY <2>1 DEF Meant
  <2> QED BY <1>3, <2>1, <2>3, <2>4
<1> QED BY <1>4, <1>5

\* The characters of a text and those its escapes are made of.
Escapable(S) == S \cup {"BS", "n", "DQ", "LF"}

\* A piece of prepare_source's is one character to JavaScript, the one of Lines,
\* or ends the literal.
LEMMA PieceOfText ==
  ASSUME NEW S, NEW s \in Seq(S), NEW i \in 1 .. Len(s)
  PROVE  /\ Escaped(s)[i] \in Seq(Escapable(S))
         /\ \E c \in Escapable(S) :
              /\ \/ Escaped(s)[i] = <<"BS", c>>
                 \/ Escaped(s)[i] = <<c>> /\ c \notin {"BS", "LF", "CR", "DQ"}
              /\ Seen(s)[i] = <<Meant(Escaped(s)[i], c)>>
<1>1. s[i] \in S
  BY ElementOfSeq
<1>2. CASE CrLf(s, i) \/ s[i] \in {"LF", "CR"}
  <2>1. Escaped(s)[i] = <<"BS", "n">> /\ Seen(s)[i] = <<"LF">>
    BY <1>2 DEF Escaped, Lined, Seen, Escape, CrLf
  <2>2. "BS" \in Escapable(S) /\ "n" \in Escapable(S)
    BY DEF Escapable
  <2>3. Meant(<<"BS", "n">>, "n") = "LF"
    BY DEF Meant
  <2> HIDE DEF Escapable
  <2> QED BY <2>1, <2>2, <2>3
<1>3. CASE ~CrLf(s, i) /\ s[i] \in {"BS", "DQ"}
  <2>1. Escaped(s)[i] = <<"BS", s[i]>> /\ Seen(s)[i] = <<s[i]>>
    BY <1>3 DEF Escaped, Lined, Seen, Escape
  <2>2. "BS" \in Escapable(S) /\ s[i] \in Escapable(S)
    BY <1>1 DEF Escapable
  <2>3. Meant(<<"BS", s[i]>>, s[i]) = s[i]
    BY <1>3 DEF Meant
  <2>4. <<"BS", s[i]>> \in Seq(Escapable(S))
    BY <2>2
  <2> QED BY <2>1, <2>2, <2>3, <2>4
<1>4. CASE ~CrLf(s, i) /\ s[i] \notin {"BS", "LF", "CR", "DQ"}
  <2>1. Escaped(s)[i] = <<s[i]>> /\ Seen(s)[i] = <<IF s[i] = "LS" THEN "broken" ELSE s[i]>>
    BY <1>4 DEF Escaped, Lined, Seen, Escape
  <2>2. s[i] \in Escapable(S)
    BY <1>1 DEF Escapable
  <2>3. <<s[i]>> \in Seq(Escapable(S))
    BY <2>2
  <2>4. Meant(<<s[i]>>, s[i]) = IF s[i] = "LS" THEN "broken" ELSE s[i]
    BY DEF Meant
  <2> QED BY <1>4, <2>1, <2>2, <2>3, <2>4
<1> QED BY <1>2, <1>3, <1>4

\* From any place of a text on, JavaScript reads what is to be seen of the rest,
\* whatever stands before it in the literal.
LEMMA ReadsRest ==
  ASSUME NEW S, NEW s \in Seq(S), NEW f, Walks(f, 1, Len(s), Seen(s), After(s))
  PROVE  \A i \in 1 .. Len(s) + 2 : \A p \in Seq(Escapable(S)) :
           Reading(p \o Escaping(s)[i])[Len(p) + 1] = f[i]
<1> DEFINE C == Escapable(S)
           n == Len(s)
           E == Escaping(s)
           K == {i \in 1 .. n + 2 : \A p \in Seq(C) : Reading(p \o E[i])[Len(p) + 1] = f[i]}
<1> HIDE DEF C, E
<1>1. n \in Nat
  BY LenProperties
<1>2. \A i \in 1 .. n : Escaped(s)[i] \in Seq(C)
  BY PieceOfText DEF C
<1>3. /\ Walks(E, 1, n, Escaped(s), After(s)) /\ Ahead(After(s), n)
      /\ Walks(f, 1, n, Seen(s), After(s))
  BY EscapingWalks DEF E
<1>4. \A i \in 1 .. n + 2 : E[i] \in Seq(C)
  BY <1>1, <1>2, <1>3, WalkType
<1>5. ASSUME NEW i \in {n + 1, n + 2} PROVE i \in K
  <2>1. i \in 1 .. n + 2 /\ i > n
    BY <1>1
  <2>2. E[i] = <<>> /\ f[i] = <<>>
    BY <1>3, <2>1 DEF Walks
  <2>3. ASSUME NEW p \in Seq(C) PROVE Reading(p \o E[i])[Len(p) + 1] = <<>>
    <3>1. p \o E[i] = p
      BY <2>2, ConcatEmptySeq
    <3>2. Walks(Reading(p), 1, Len(p), Read(p), Onward(p)) /\ Len(p) \in Nat
      BY ReadingWalks, LenProperties
    <3>3. Len(p) + 1 \in 1 .. Len(p) + 2 /\ Len(p) + 1 > Len(p)
      BY <3>2
    <3>4. Reading(p)[Len(p) + 1] = <<>>
      BY <3>2, <3>3 DEF Walks
    <3> QED BY <3>1, <3>4
  <2> QED BY <2>1, <2>2, <2>3
<1>6. ASSUME NEW i \in 1 .. n, i + 1 \in K, i + 2 \in K PROVE i \in K
  <2> DEFINE b == Escaped(s)[i]
             j == After(s)[i]
             u == E[j]
  <2>1. j \in K /\ j \in 1 .. n + 2 /\ i \in 1 .. n + 2 /\ ~(i > n)
    <3>1. j = i + 1 \/ j = i + 2
      BY <1>3 DEF Ahead
    <3> HIDE DEF j
    <3>2. j \in K
      BY <1>6, <3>1
    <3> QED BY <1>1, <3>2
  <2>2. E[i] = b \o u /\ f[i] = Seen(s)[i] \o f[j]
    BY <1>3, <2>1 DEF Walks
  <2>3. b \in Seq(C) /\ u \in Seq(C)
    BY <1>2, <1>4, <2>1
  <2>4. PICK c \in C : /\ b = <<"BS", c>> \/ (b = <<c>> /\ c \notin {"BS", "LF", "CR", "DQ"})
                       /\ Seen(s)[i] = <<Meant(b, c)>>
    BY PieceOfText DEF C
  <2>5. ASSUME NEW p \in Seq(C) PROVE Reading(p \o E[i])[Len(p) + 1] = f[i]
    <3>1. p \o E[i] = (p \o b) \o u
      <4>1. p \o E[i] = p \o (b \o u)
        BY <2>2
      <4> HIDE DEF b, u
      <4>2. (p \o b) \o u = p \o (b \o u)
        BY ONLY <2>3, p \in Seq(C), ConcatAssociative, SMTT(20)
      <4> QED BY <4>1, <4>2
    <3>2. Reading((p \o b) \o u)[Len(p) + 1] =
            <<Meant(b, c)>> \o Reading((p \o b) \o u)[Len(p) + Len(b) + 1]
      <4> HIDE DEF b, u
      <4> QED BY <2>3, <2>4, ReadsPiece
    <3>3. p \o b \in Seq(C) /\ Len(p \o b) = Len(p) + Len(b)
      BY <2>3, ConcatProperties
    <3>4. Reading((p \o b) \o u)[Len(p \o b) + 1] = f[j]
      BY <2>1, <3>3
    <3> HIDE DEF b, u, j
    <3> QED BY <2>2, <2>4, <3>1, <3>2, <3>3, <3>4
  <2> QED BY <2>1, <2>5
<1> HIDE DEF K
<1>7. \A i \in 1 .. n + 2 : i \in K
  BY <1>1, <1>5, <1>6, Downward
<1> QED BY <1>7 DEF K, C, E

\* What is to be seen of a text are its lines, or something in it ends the literal.
LEMMA SeenLines ==
  ASSUME NEW S, NEW s \in Seq(S), NEW f, Walks(f, 1, Len(s), Seen(s), After(s))
  PROVE  /\ f[1] = Lining(s)[1] \/ \E j \in 1 .. Len(f[1]) : f[1][j] = "broken"
         /\ "LS" \notin S => f[1] = Lining(s)[1]
<1> DEFINE n == Len(s)
           V == S \cup {"LF", "broken"}
           g == Lining(s)
           Same == {i \in 1 .. n + 2 : g[i] = f[i]}
           Cut == {i \in 1 .. n + 2 : \E j \in 1 .. Len(f[i]) : f[i][j] = "broken"}
<1> HIDE DEF g, V
<1>1. /\ n \in Nat /\ Ahead(After(s), n)
      /\ Walks(f, 1, n, Seen(s), After(s)) /\ Walks(g, 1, n, Lined(s), After(s))
  BY LiningWalks, LenProperties DEF g
<1>2. \A i \in 1 .. n : /\ Seen(s)[i] = Lined(s)[i] \/ (s[i] = "LS" /\ Seen(s)[i] = <<"broken">>)
                       /\ Seen(s)[i] \in Seq(V)
  <2> SUFFICES ASSUME NEW i \in 1 .. n
               PROVE  /\ Seen(s)[i] = Lined(s)[i] \/ (s[i] = "LS" /\ Seen(s)[i] = <<"broken">>)
                      /\ Seen(s)[i] \in Seq(V)
    OBVIOUS
  <2>1. s[i] \in S
    BY ElementOfSeq
  <2>2. Seen(s)[i] \in {<<"broken">>, <<"LF">>, <<s[i]>>}
    BY DEF Seen, Lined
  <2>3. "broken" \in V /\ "LF" \in V /\ s[i] \in V
    BY <2>1 DEF V
  <2>5. <<"broken">> \in Seq(V) /\ <<"LF">> \in Seq(V) /\ <<s[i]>> \in Seq(V)
    BY <2>3
  <2>4. Seen(s)[i] \in Seq(V)
    BY <2>2, <2>5
  <2> QED BY <2>4 DEF Seen
<1>3. \A i \in 1 .. n + 2 : f[i] \in Seq(V)
  BY <1>1, <1>2, WalkType
<1>4. ASSUME NEW i \in 1 .. n + 2, i > n PROVE f[i] = g[i]
  BY <1>1, <1>4 DEF Walks
<1>5. ASSUME NEW i \in 1 .. n
      PROVE  LET j == After(s)[i] IN
             /\ j \in {i + 1, i + 2} /\ j \in 1 .. n + 2
             /\ f[i] = Seen(s)[i] \o f[j] /\ g[i] = Lined(s)[i] \o g[j]
  <2>1. i \in 1 .. n + 2 /\ ~(i > n)
    BY <1>1
  <2>2. After(s)[i] \in {i + 1, i + 2}
    BY <1>1 DEF Ahead
  <2>3. After(s)[i] \in 1 .. n + 2
    BY <1>1, <2>2
  <2>4. f[i] = Seen(s)[i] \o f[After(s)[i]] /\ g[i] = Lined(s)[i] \o g[After(s)[i]]
    BY <1>1, <2>1 DEF Walks
  <2> QED BY <2>2, <2>3, <2>4
<1>6. ASSUME NEW i \in 1 .. n, Seen(s)[i] = <<"broken">> PROVE i \in Cut
  <2> DEFINE j == After(s)[i]
  <2>1. f[i] = <<"broken">> \o f[j] /\ f[j] \in Seq(V) /\ <<"broken">> \in Seq(V)
    BY <1>2, <1>3, <1>5, <1>6
  <2> HIDE DEF j
  <2>2. f[i][1] = "broken" /\ Len(f[i]) >= 1
    BY <2>1
  <2>3. Len(f[i]) \in Nat /\ i \in 1 .. n + 2
    BY <1>1, <1>3, LenProperties
  <2> QED BY <2>2, <2>3
<1>7. ASSUME NEW i \in 1 .. n, After(s)[i] \in Cut PROVE i \in Cut
  <2> DEFINE j == After(s)[i]
  <2>1. PICK m \in 1 .. Len(f[j]) : f[j][m] = "broken"
    BY <1>7
  <2>2. f[i] = Seen(s)[i] \o f[j] /\ f[j] \in Seq(V) /\ Seen(s)[i] \in Seq(V)
    BY <1>2, <1>3, <1>5
  <2> HIDE DEF j
  <2> DEFINE a == Len(Seen(s)[i])
             c == Len(f[j])
  <2>3. a \in Nat /\ c \in Nat /\ m \in 1 .. c
    BY <2>2, LenProperties
  <2>4. /\ Len(f[i]) = a + c
        /\ \A k \in 1 .. a + c : f[i][k] = IF k <= a THEN Seen(s)[i][k] ELSE f[j][k - a]
    <3> DEFINE first == Seen(s)[i]
               rest == f[j]
    <3>1. first \in Seq(V) /\ rest \in Seq(V) /\ f[i] = first \o rest
      BY <2>2
    <3> HIDE DEF first, rest
    <3>2. /\ Len(first \o rest) = Len(first) + Len(rest)
          /\ \A k \in 1 .. Len(first) + Len(rest) :
               (first \o rest)[k] = IF k <= Len(first) THEN first[k] ELSE rest[k - Len(first)]
      BY <3>1, ConcatProperties
    <3> QED BY <3>1, <3>2 DEF first, rest
  <2>5. i \in 1 .. n + 2
    BY <1>1
  <2> HIDE DEF a, c
  <2>6. a + m \in 1 .. a + c /\ ~(a + m <= a) /\ (a + m) - a = m
    BY <2>3
  <2>7. f[i][a + m] = "broken"
    BY <2>1, <2>4, <2>6
  <2> QED BY <2>4, <2>5, <2>6, <2>7
<1> DEFINE K == Same \cup Cut
<1>8. n + 1 \in Same /\ n + 2 \in Same
  <2>1. n + 1 \in 1 .. n + 2 /\ n + 2 \in 1 .. n + 2 /\ n + 1 > n /\ n + 2 > n
    BY <1>1
  <2> QED BY <1>4, <2>1
<1>9. ASSUME NEW i \in 1 .. n, Seen(s)[i] = Lined(s)[i], After(s)[i] \in Same PROVE i \in Same
  <2>1. i \in 1 .. n + 2
    BY <1>1
  <2> QED BY <1>5, <1>9, <2>1
<1>10. \A i \in 1 .. n : After(s)[i] \in {i + 1, i + 2}
  BY <1>5
<1> HIDE DEF Same, Cut
<1>11. ASSUME NEW i \in 1 .. n, i + 1 \in K, i + 2 \in K PROVE i \in K
  <2>1. After(s)[i] \in K
    BY <1>10, <1>11
  <2> QED BY <1>2, <1>6, <1>7, <1>9, <2>1
<1>12. ASSUME "LS" \notin S, NEW i \in 1 .. n, i + 1 \in Same, i + 2 \in Same PROVE i \in Same
  <2>1. After(s)[i] \in Same
    BY <1>10, <1>12
  <2>2. s[i] # "LS"
    BY <1>12, ElementOfSeq
  <2> QED BY <1>2, <1>9, <2>1, <2>2
<1>13. 1 \in 1 .. n + 2
  BY <1>1
<1>14. 1 \in K
  <2>1. n + 1 \in K /\ n + 2 \in K
    BY <1>8
  <2> HIDE DEF K
  <2>2. \A i \in 1 .. n + 2 : i \in K
    BY <1>1, <1>11, <2>1, Downward
  <2> QED BY <1>13, <2>2
<1>15. "LS" \notin S => 1 \in Same
  <2> SUFFICES ASSUME "LS" \notin S PROVE 1 \in Same
    OBVIOUS
  <2>1. \A i \in 1 .. n + 2 : i \in Same
    BY <1>1, <1>8, <1>12, Downward
  <2> QED BY <1>13, <2>1
<1> QED BY <1>14, <1>15 DEF Same, Cut, g

\* What prepare_source makes of a text is a literal that JavaScript reads as that
\* text, with its line breaks normalised, or not at all; it is read whenever
\* U+2028 and U+2029 are not in the text.
THEOREM LiteralIsText ==
  ASSUME NEW S, NEW s \in Seq(S)
  PROVE  /\ ~Broken(prepare_source(s)) => Literal(prepare_source(s)) = Lines(s)
         /\ "LS" \notin S => Literal(prepare_source(s)) = Lines(s)
         /\ prepare_source(s) \in Seq(Escapable(S))
<1>1. prepare_source(s) = Escaping(s)[1] /\ Lines(s) = Lining(s)[1]
  BY DEF prepare_source, Escaping, Lines, Lining
<1>2. Literal(prepare_source(s)) = Reading(prepare_source(s))[1]
  BY DEF Literal, Reading
<1>3. Len(s) \in Nat /\ 1 \in 1 .. Len(s) + 2
  BY LenProperties
<1>4. Walks(Escaping(s), 1, Len(s), Escaped(s), After(s)) /\ Ahead(After(s), Len(s))
  BY EscapingWalks
<1>5. Escaping(s)[1] \in Seq(Escapable(S))
  <2>1. \A i \in 1 .. Len(s) : Escaped(s)[i] \in Seq(Escapable(S))
    BY PieceOfText
  <2> QED BY <1>3, <1>4, <2>1, WalkType
<1>6. PICK f : f = Walk(f, Len(s), Seen(s), After(s))
  BY <1>3, <1>4, WalkExists
<1>7. Walks(f, 1, Len(s), Seen(s), After(s))
  BY <1>3, <1>6 DEF Walks, Walk
<1>8. <<>> \o Escaping(s)[1] = Escaping(s)[1] /\ <<>> \in Seq(Escapable(S)) /\ Len(<<>>) = 0
  BY <1>5, ConcatEmptySeq, EmptySeq
<1>9. Reading(<<>> \o Escaping(s)[1])[Len(<<>>) + 1] = f[1]
  <2>1. \A i \in 1 .. Len(s) + 2 : \A p \in Seq(Escapable(S)) :
          Reading(p \o Escaping(s)[i])[Len(p) + 1] = f[i]
    BY <1>7, ReadsRest
  <2> QED BY <1>3, <1>8, <2>1
<1>10. Literal(prepare_source(s)) = f[1]
  BY <1>1, <1>2, <1>8, <1>9
<1>11. /\ f[1] = Lines(s) \/ Broken(prepare_source(s))
       /\ "LS" \notin S => f[1] = Lines(s)
  BY <1>1, <1>7, <1>10, SeenLines DEF Broken
<1> QED BY <1>1, <1>5, <1>10, <1>11

\* Whatever the caller's string has become, it is a text.
SourceIsText == source \in Seq(Escapable(Characters))

\* Whatever JSLINT is given to read is the text to be checked, for every text.
THEOREM Lint == Spec => LintSeesSource
<1>1. Init => SourceIsText
  <2>1. Seq(Characters) \subseteq Seq(Escapable(Characters))
    <3>1. Characters \subseteq Escapable(Characters)
      BY DEF Escapable
    <3> HIDE DEF Escapable
    <3> QED BY <3>1, SeqMonotonic
  <2> QED BY <2>1, CallsAssumption DEF CallsAssumption, Init, SourceIsText
<1>2. SourceIsText /\ [Next]_vars => SourceIsText'
  <2> SUFFICES ASSUME SourceIsText, [Next]_vars PROVE SourceIsText'
    OBVIOUS
  <2>1. CASE check
    <3>1. prepare_source(source) \in Seq(Escapable(Escapable(Characters)))
      BY LiteralIsText DEF SourceIsText
    <3>2. Escapable(Escapable(Characters)) = Escapable(Characters)
      BY DEF Escapable
    <3> QED BY <2>1, <3>1, <3>2 DEF check, SourceIsText
  <2>2. ASSUME ~check PROVE source' = source
    BY <2>2 DEF Next, configure, add_library, run, CallDisabled, InvalidRuntime, Library, SetLimit,
       Eval, Lost, RegistryReplaced, vars, call, ends, text
  <2> QED BY <2>1, <2>2 DEF SourceIsText
<1>3. SourceIsText /\ [Next]_vars => [lint' # lint => Literal(lint') = Lines(source)]_vars
  <2> SUFFICES ASSUME SourceIsText, Next, lint' # lint PROVE Literal(lint') = Lines(source)
    OBVIOUS
  <2>1. lint' = prepare_source(source) /\ ~Broken(prepare_source(source))
    BY DEF Next, configure, add_library, check, run, CallDisabled, InvalidRuntime, Library, SetLimit,
       Eval, Lost, RegistryReplaced
  <2> QED BY <2>1, LiteralIsText DEF SourceIsText
<1> QED BY <1>1, <1>2, <1>3, PTL DEF Spec, LintSeesSource
====
