------------------------- MODULE JSLintNamesProofs --------------------------
(* Theorems about what JSLintScope says of names when it says nothing: that *)
(* a name resolves to the variable JavaScript means, a label to the loop     *)
(* around it, and a name from outside to a function that knows of its use.   *)
EXTENDS JSLintScopeProofs

(******************************* the invariant ******************************)
(* Each part is a predicate of the table of kinds K, the chain of scopes S,  *)
(* the declarations D, what is open N, and the function F that is read, so   *)
(* that the parts of a step can be taken one after the other.                *)
Within(N, F) == {F} \cup {N[i].funct : i \in 1 .. Len(N)}
OfFunction == {"params", "function"}

\* What is open was opened by functions and at depths that rise; a function's
\* number is above those of the functions around it; the last scope is F's.
Nested(S, N, F, l) ==
  /\ F <= l /\ Len(S) \in Nat \ {0} /\ Len(N) \in Nat
  /\ Len(S) = 1 => F = Global
  /\ \A i \in 1 .. Len(N) :
       /\ N[i].funct <= F /\ N[i].depth \in 1 .. Len(S)
       /\ N[i].kind \in OfFunction => N[i].funct < F
       /\ N[i].depth = 1 => N[i].funct = Global
       /\ N[i].depth = Len(S) => N[i].funct = F
       /\ \A k \in i + 1 .. Len(N) : /\ N[i].funct <= N[k].funct /\ N[i].depth <= N[k].depth
                                     /\ N[i].depth = N[k].depth => N[i].funct = N[k].funct
                                     /\ N[i].kind \in OfFunction => N[i].funct < N[k].funct
\* The functions that the entries of a name are of rise along the chain, and with
\* what is open.
Sited(S, N, F) ==
  /\ \A m \in Names : S[Len(S)][m].funct \in {0, F} /\ S[1][m].funct \in {0, Global}
  /\ \A i \in 1 .. Len(N), m \in Names : S[N[i].depth][m].funct \in {0, N[i].funct}
  /\ \A j \in 1 .. Len(S), m \in Names : S[j][m].funct # 0 =>
       /\ S[j][m].funct <= F
       /\ \A k \in j + 1 .. Len(S) : S[k][m].funct = 0 \/ S[j][m].funct <= S[k][m].funct
       /\ \A i \in 1 .. Len(N) : IF j <= N[i].depth THEN S[j][m].funct <= N[i].funct ELSE N[i].funct <= S[j][m].funct
\* A function knows the names that the chain has of it.
Noted(K, S) == \A j \in 1 .. Len(S), m \in Names :
  S[j][m].funct # 0 => K[S[j][m].funct][m] \notin {"none", "outer", "global"}
\* Of a function that has not begun nothing is known.
Unread(K, D, l) == \A f \in Functs, m \in Names : f > l => K[f][m] = "none" /\ D[f][m] = "no"
\* The entries of the environment are as the environment says.
Predefined(S, D, P) == \A m \in DOMAIN P :
  /\ \A f \in Functs : D[f][m] # "early"
  /\ \A j \in 1 .. Len(S) : S[j][m].funct = Global /\ S[j][m].writeable => P[m]

\* Where the chain has a label, the label is open.
Labels(K, S, N) == \A j \in 1 .. Len(S), m \in Names :
  S[j][m].funct # 0 /\ K[S[j][m].funct][m] = "label" =>
    \E i \in 1 .. Len(N) : N[i].kind = "label" /\ N[i].name = m /\ N[i].funct = S[j][m].funct /\ N[i].depth < j
\* Whatever else it has of a function, the function declares, or a catch clause.
Entries(K, S, D, N) == \A j \in 1 .. Len(S), m \in Names :
  S[j][m].funct \notin {0, Global} =>
    \/ D[S[j][m].funct][m] # "no" \/ K[S[j][m].funct][m] = "label"
    \/ \E i \in 1 .. Len(N) : N[i].kind = "catch" /\ N[i].name = m /\ N[i].funct = S[j][m].funct /\ N[i].depth < j
\* The name m was used before its declaration, in f or in a function around it.
Soon(D, N, F, f, m) == \E g \in Within(N, F) : g <= f /\ D[g][m] = "early"
\* Unless it was, the chain has what the body of a function declares, as long as
\* the function is open,
Bodies(S, D, N, F) == \A f \in Within(N, F) \ {Global}, m \in Names : D[f][m] = "body" =>
  \/ Soon(D, N, F, f, m)
  \/ \E j \in 1 .. Len(S) : S[j][m].funct = f /\ \A i \in 1 .. Len(N) : N[i].funct = f => j <= N[i].depth
\* and the variable of a catch clause, as long as that is open.
Catches(S, D, N, F) == \A i \in 1 .. Len(N) : N[i].kind = "catch" /\ N[i].funct # Global =>
  \/ Soon(D, N, F, N[i].funct, N[i].name)
  \/ \E j \in 1 .. Len(S) : S[j][N[i].name].funct = N[i].funct /\ \A k \in i + 1 .. Len(N) : j <= N[k].depth
\* What is undef was used before its declaration.
Undefs(K, D, N, F) == \A f \in Within(N, F), m \in Names : K[f][m] = "undef" => Soon(D, N, F, f, m)
\* A function has a name from outside it that is not a label.
Outers(K, S, N, F) == \A f \in Within(N, F), m \in Names : K[f][m] \in {"outer", "global"} =>
  \A j \in 1 .. Len(S) : S[j][m].funct \in 1 .. f - 1 /\ K[S[j][m].funct][m] = "label" =>
    \E k \in j + 1 .. Len(S) : S[k][m].funct \in 1 .. f - 1

Shape(K, S, D, N, F, l, P) == /\ Nested(S, N, F, l) /\ Sited(S, N, F)
                              /\ Noted(K, S) /\ Unread(K, D, l) /\ Predefined(S, D, P)
Clean(K, S, D, N, F) == /\ Labels(K, S, N) /\ Entries(K, S, D, N) /\ Undefs(K, D, N, F)
                        /\ Bodies(S, D, N, F) /\ Catches(S, D, N, F) /\ Outers(K, S, N, F)
\* A catch clause has a variable.
Named(N) == \A i \in 1 .. Len(N) : N[i].kind = "catch" => N[i].name \in Names
\* Their types.
Declarations == [Functs -> [Names -> {"no", "early", "block", "body"}]]
Typed(K, S, D, N, F) ==
  /\ K \in [Functs -> [Names -> Kinds]] /\ S \in Seq(Scopes) /\ D \in Declarations
  /\ N \in Seq(Openings) /\ F \in Functs

(***************************** opening a scope ******************************)
\* What is open, and the chain, with one more of each, or the chain as it was.
Pushed(N, it, N2) == Len(N2) = Len(N) + 1 /\ N2[Len(N) + 1] = it /\ \A i \in 1 .. Len(N) : N2[i] = N[i]
Longer(S, S2) == Len(S2) = Len(S) + 1 /\ \A j \in 1 .. Len(S) : S2[j] = S[j]
Blank(S, S2) == Longer(S, S2) /\ \A m \in Names : S2[Len(S) + 1][m].funct = 0

\* Another opening, in the same function or with a function of its own.
LEMMA NestedPush ==
  ASSUME NEW S, NEW S2, NEW N, NEW N2, NEW F \in Nat, NEW l \in Nat, NEW it, Nested(S, N, F, l),
         \A i \in 1 .. Len(N) : N[i].funct \in Nat,
         Pushed(N, it, N2), it.funct = F, it.depth = Len(S), NEW F2 \in Nat, NEW l2 \in Nat,
         \/ S2 = S /\ F2 = F /\ l2 = l /\ it.kind \notin OfFunction
         \/ Len(S2) = Len(S) + 1 /\ F2 = F /\ l2 = l /\ it.kind \notin OfFunction
         \/ Len(S2) = Len(S) + 1 /\ F2 = l + 1 /\ l2 = l + 1
  PROVE  Nested(S2, N2, F2, l2)
<1>1. /\ Len(N) \in Nat /\ Len(N2) = Len(N) + 1 /\ Len(S) \in Nat \ {0} /\ Len(S2) \in Nat \ {0}
      /\ Len(S) <= Len(S2) /\ F <= l /\ F <= F2 /\ F2 <= l2 /\ (Len(S) = 1 => F = Global)
      /\ it.kind \in OfFunction => F < F2
      /\ Len(S2) = Len(S) => F2 = F
  BY DEF Nested, Pushed
<1>2. Len(S2) = 1 => F2 = Global
  BY <1>1
<1>3. ASSUME NEW i \in 1 .. Len(N)
      PROVE  /\ N2[i] = N[i] /\ N2[i].funct <= F2 /\ N2[i].depth \in 1 .. Len(S2)
             /\ N2[i].kind \in OfFunction => N2[i].funct < F2
             /\ N2[i].depth = 1 => N2[i].funct = Global
             /\ N2[i].depth = Len(S2) => N2[i].funct = F2
             /\ \A k \in i + 1 .. Len(N2) : /\ N2[i].funct <= N2[k].funct /\ N2[i].depth <= N2[k].depth
                                            /\ N2[i].depth = N2[k].depth => N2[i].funct = N2[k].funct
                                            /\ N2[i].kind \in OfFunction => N2[i].funct < N2[k].funct
  <2>1. N2[i] = N[i] /\ N[i].funct <= F /\ N[i].depth \in 1 .. Len(S) /\ N[i].funct \in Nat
    BY DEF Nested, Pushed
  <2>2. ASSUME NEW k \in i + 1 .. Len(N2)
        PROVE  /\ N2[i].funct <= N2[k].funct /\ N2[i].depth <= N2[k].depth
               /\ N2[i].depth = N2[k].depth => N2[i].funct = N2[k].funct
               /\ N2[i].kind \in OfFunction => N2[i].funct < N2[k].funct
    <3>1. CASE k = Len(N) + 1
      BY <2>1, <3>1 DEF Nested, Pushed
    <3>2. CASE k # Len(N) + 1
      <4>1. k \in i + 1 .. Len(N) /\ k \in 1 .. Len(N)
        <5>1. Len(N) \in Nat /\ Len(N2) = Len(N) + 1
          BY <1>1
        <5> QED BY ONLY <3>2, <5>1, i \in 1 .. Len(N), k \in i + 1 .. Len(N2)
      <4>2. N2[k] = N[k]
        BY <4>1 DEF Pushed
      <4> QED BY <2>1, <4>1, <4>2 DEF Nested
    <3> QED BY <3>1, <3>2
  <2>3. /\ N2[i].kind \in OfFunction => N[i].funct < F
        /\ N[i].depth = 1 => N[i].funct = Global
        /\ N[i].depth = Len(S2) => N[i].funct = F2
    <3>1. N[i].depth = Len(S2) => Len(S2) = Len(S)
      BY <1>1, <2>1
    <3> QED BY <1>1, <2>1, <3>1 DEF Nested
  <2>4. N2[i].funct <= F2 /\ N2[i].depth \in 1 .. Len(S2)
    BY ONLY <1>1, <2>1, F \in Nat, F2 \in Nat
  <2>5. N2[i].kind \in OfFunction => N2[i].funct < F2
    BY ONLY <1>1, <2>1, <2>3, F \in Nat, F2 \in Nat
  <2> QED BY ONLY <2>1, <2>2, <2>3, <2>4, <2>5
<1>4. ASSUME NEW i \in 1 .. Len(N2)
      PROVE  /\ N2[i].funct <= F2 /\ N2[i].depth \in 1 .. Len(S2)
             /\ N2[i].kind \in OfFunction => N2[i].funct < F2
             /\ N2[i].depth = 1 => N2[i].funct = Global
             /\ N2[i].depth = Len(S2) => N2[i].funct = F2
             /\ \A k \in i + 1 .. Len(N2) : /\ N2[i].funct <= N2[k].funct /\ N2[i].depth <= N2[k].depth
                                            /\ N2[i].depth = N2[k].depth => N2[i].funct = N2[k].funct
                                            /\ N2[i].kind \in OfFunction => N2[i].funct < N2[k].funct
  <2>1. CASE i \in 1 .. Len(N)
    BY <1>3, <2>1
  <2>2. CASE i = Len(N) + 1
    <3>1. N2[i] = it
      BY <2>2 DEF Pushed
    <3>2. \A k \in i + 1 .. Len(N2) : FALSE
      BY <1>1, <2>2
    <3>3. N2[i].funct <= F2 /\ N2[i].depth \in 1 .. Len(S2)
      BY <1>1, <3>1
    <3>4. (N2[i].depth = 1 => N2[i].funct = Global) /\ (N2[i].depth = Len(S2) => N2[i].funct = F2)
      BY <1>1, <3>1
    <3>5. N2[i].kind \in OfFunction => N2[i].funct < F2
      BY <1>1, <3>1
    <3> QED BY <3>2, <3>3, <3>4, <3>5
  <2> QED BY ONLY <1>1, <2>1, <2>2, i \in 1 .. Len(N2)
<1> QED BY <1>1, <1>2, <1>4 DEF Nested

\* The functions of what is open.
LEMMA WithinPush ==
  ASSUME NEW N, NEW N2, Len(N) \in Nat, NEW it, Pushed(N, it, N2), NEW F, it.funct = F, NEW F2
  PROVE  Within(N2, F2) = Within(N, F) \cup {F2}
<1>1. 1 .. Len(N2) = (1 .. Len(N)) \cup {Len(N) + 1}
  BY DEF Pushed
<1>2. \A i \in 1 .. Len(N) : N2[i].funct = N[i].funct
  BY DEF Pushed
<1>3. N2[Len(N) + 1].funct = F
  BY DEF Pushed
<1>4. {N2[i].funct : i \in 1 .. Len(N2)} = {N[i].funct : i \in 1 .. Len(N)} \cup {F}
  BY <1>1, <1>2, <1>3
<1> QED BY <1>4 DEF Within

\* The chain with a scope of the function that is read from now on, or none.
LEMMA SitedPush ==
  ASSUME NEW S \in Seq(Scopes), NEW S2, NEW N, NEW N2, NEW F \in Nat, NEW l, NEW it, Nested(S, N, F, l), Sited(S, N, F),
         \A i \in 1 .. Len(N) : N[i].funct \in Nat,
         Pushed(N, it, N2), it.funct = F, it.depth = Len(S), NEW F2 \in Nat, F <= F2,
         \/ S2 = S /\ F2 = F
         \/ Longer(S, S2) /\ \A m \in Names : S2[Len(S) + 1][m].funct \in {0, F2}
  PROVE  Sited(S2, N2, F2)
<1>1. /\ Len(N) \in Nat /\ Len(N2) = Len(N) + 1 /\ Len(S) \in Nat \ {0} /\ Len(S2) \in Nat
      /\ Len(S) <= Len(S2) /\ \A j \in 1 .. Len(S) : S2[j] = S[j]
  BY DEF Nested, Pushed, Longer
<1>2. \A j \in 1 .. Len(S), m \in Names : S[j][m].funct \in Nat
  BY NamesAssumption DEF Scopes
<1>3. \A m \in Names : S2[Len(S2)][m].funct \in {0, F2} /\ S2[1][m].funct \in {0, Global}
  BY <1>1 DEF Sited, Longer
<1>4. \A i \in 1 .. Len(N2), m \in Names : S2[N2[i].depth][m].funct \in {0, N2[i].funct}
  <2> SUFFICES ASSUME NEW i \in 1 .. Len(N2), NEW m \in Names PROVE S2[N2[i].depth][m].funct \in {0, N2[i].funct}
    OBVIOUS
  <2>1. CASE i = Len(N) + 1
    BY <1>1, <2>1 DEF Sited, Pushed
  <2>2. CASE i # Len(N) + 1
    <3>1. i \in 1 .. Len(N) /\ N2[i] = N[i] /\ N[i].depth \in 1 .. Len(S)
      BY <1>1, <2>2 DEF Pushed, Nested
    <3> QED BY ONLY <1>1, <3>1, Sited(S, N, F), m \in Names DEF Sited
  <2> QED BY <2>1, <2>2
<1>5. ASSUME NEW j \in 1 .. Len(S2), NEW m \in Names, S2[j][m].funct # 0
      PROVE  /\ S2[j][m].funct <= F2
             /\ \A k \in j + 1 .. Len(S2) : S2[k][m].funct = 0 \/ S2[j][m].funct <= S2[k][m].funct
             /\ \A i \in 1 .. Len(N2) :
                  IF j <= N2[i].depth THEN S2[j][m].funct <= N2[i].funct ELSE N2[i].funct <= S2[j][m].funct
  <2>1. CASE j \in 1 .. Len(S)
    <3>1. S2[j] = S[j] /\ S[j][m].funct <= F /\ S[j][m].funct \in Nat
      BY <1>1, <1>2, <1>5, <2>1 DEF Sited
    <3>2. ASSUME NEW k \in j + 1 .. Len(S2)
          PROVE  S2[k][m].funct = 0 \/ S2[j][m].funct <= S2[k][m].funct
      <4>1. CASE k \in 1 .. Len(S)
        BY ONLY <1>1, <1>5, <2>1, <3>1, <4>1, Sited(S, N, F), m \in Names, k \in j + 1 .. Len(S2) DEF Sited
      <4>2. CASE k = Len(S) + 1
        <5>1. S2[k][m].funct \in {0, F2}
          BY <4>2
        <5> QED BY ONLY <3>1, <5>1, F \in Nat, F2 \in Nat, F <= F2
      <4> QED BY <1>1, <4>1, <4>2 DEF Longer
    <3>3. ASSUME NEW i \in 1 .. Len(N2)
          PROVE  IF j <= N2[i].depth THEN S2[j][m].funct <= N2[i].funct ELSE N2[i].funct <= S2[j][m].funct
      <4>1. CASE i \in 1 .. Len(N)
        <5>1. N2[i] = N[i]
          BY <4>1 DEF Pushed
        <5> QED BY ONLY <1>5, <2>1, <3>1, <4>1, <5>1, Sited(S, N, F), m \in Names DEF Sited
      <4>2. CASE i = Len(N) + 1
        <5>1. N2[i] = it /\ j <= N2[i].depth
          BY <1>1, <2>1, <4>2 DEF Pushed
        <5> QED BY <3>1, <5>1
      <4> QED BY <1>1, <4>1, <4>2
    <3>4. S2[j][m].funct <= F2
      BY <3>1
    <3> QED BY ONLY <3>2, <3>3, <3>4
  <2>2. CASE j = Len(S) + 1
    <3>1. S2[j][m].funct = F2 /\ Len(S2) = j
      BY <1>1, <1>5, <2>2 DEF Longer
    <3>2. ASSUME NEW i \in 1 .. Len(N2)
          PROVE  N2[i].funct <= F2 /\ ~ (j <= N2[i].depth)
      <4>1. CASE i = Len(N) + 1
        BY <1>1, <2>2, <4>1 DEF Pushed
      <4>2. CASE i # Len(N) + 1
        <5>1. i \in 1 .. Len(N) /\ N2[i] = N[i]
          BY <1>1, <4>2 DEF Pushed
        <5>2. N[i].funct <= F /\ N[i].depth \in 1 .. Len(S) /\ N[i].funct \in Nat
          BY <5>1 DEF Nested
        <5> QED BY ONLY <1>1, <2>2, <5>1, <5>2, F \in Nat, F2 \in Nat, F <= F2
      <4> QED BY <4>1, <4>2
    <3>3. \A k \in j + 1 .. Len(S2) : FALSE
      BY <1>1, <3>1
    <3> QED BY <3>1, <3>2, <3>3
  <2> QED BY <1>1, <2>1, <2>2 DEF Longer
<1> QED BY <1>3, <1>4, <1>5 DEF Sited

\* What the types say of what is open and of the chain.
LEMMA Numbers ==
  ASSUME NEW K, NEW S, NEW D, NEW N, NEW F, Typed(K, S, D, N, F)
  PROVE  /\ F \in Nat \ {0} /\ Len(N) \in Nat /\ Len(S) \in Nat
         /\ \A i \in 1 .. Len(N) : N[i].funct \in Nat \ {0} /\ N[i].depth \in Nat
         /\ \A j \in 1 .. Len(S), m \in Names : S[j][m].funct \in 0 .. MaxFunctions /\ S[j][m].funct \in Nat
<1>1. N \in Seq(Openings) /\ S \in Seq(Scopes) /\ F \in 1 .. MaxFunctions /\ MaxFunctions \in Nat
  BY NamesAssumption DEF Typed, Functs
<1>2. Len(N) \in Nat /\ Len(S) \in Nat /\ F \in Nat \ {0}
  BY <1>1
<1>3. \A i \in 1 .. Len(N) : N[i].funct \in Nat \ {0} /\ N[i].depth \in Nat
  <2>1. \A i \in 1 .. Len(N) : N[i] \in Openings
    BY <1>1
  <2> QED BY <1>1, <2>1 DEF Openings, Functs
<1>4. \A j \in 1 .. Len(S), m \in Names : S[j][m].funct \in 0 .. MaxFunctions /\ S[j][m].funct \in Nat
  BY <1>1 DEF Scopes
<1> QED BY <1>2, <1>3, <1>4

\* The chain has no more names than before.
LEMMA BlankSame ==
  ASSUME NEW S, Len(S) \in Nat, NEW S2, S2 = S \/ Blank(S, S2), NEW j \in 1 .. Len(S2), NEW m \in Names,
         S2[j][m].funct # 0
  PROVE  j \in 1 .. Len(S) /\ S2[j] = S[j]
BY DEF Blank, Longer

\* A block in the function that is read, with a scope of its own but for a var.
LEMMA OpenBlockShape ==
  ASSUME NEW K, NEW S, NEW D, NEW N, NEW F, Typed(K, S, D, N, F), NEW l \in Nat, NEW P,
         \A m \in DOMAIN P : m \in Names, Shape(K, S, D, N, F, l, P),
         NEW it, it.kind \notin OfFunction, it.funct = F, it.depth = Len(S), NEW N2, Pushed(N, it, N2),
         NEW S2, S2 = S \/ Blank(S, S2)
  PROVE  Shape(K, S2, D, N2, F, l, P)
<1>1. /\ F \in Nat /\ Len(N) \in Nat /\ Len(S) \in Nat /\ S \in Seq(Scopes)
      /\ \A i \in 1 .. Len(N) : N[i].funct \in Nat
  BY Numbers DEF Typed
<1>2. Nested(S2, N2, F, l)
  BY <1>1, NestedPush DEF Shape, Blank, Longer
<1>3. Sited(S2, N2, F)
  BY <1>1, SitedPush DEF Shape, Blank
<1>4. Noted(K, S2)
  BY <1>1, BlankSame DEF Shape, Noted
<1>5. Predefined(S2, D, P)
  <2> SUFFICES ASSUME NEW m \in DOMAIN P, NEW j \in 1 .. Len(S2), S2[j][m].funct = Global, S2[j][m].writeable PROVE P[m]
    BY DEF Shape, Predefined
  <2>1. j \in 1 .. Len(S) /\ S2[j] = S[j]
    <3>1. m \in Names /\ S2[j][m].funct # 0
      BY DEF Global
    <3> QED BY <1>1, <3>1, BlankSame
  <2> QED BY <2>1 DEF Shape, Predefined
<1> QED BY <1>2, <1>3, <1>4, <1>5 DEF Shape

\* It changes nothing that is said of the functions around it.
LEMMA OpenBlockClean ==
  ASSUME NEW K, NEW S, NEW D, NEW N, NEW F, Typed(K, S, D, N, F),
         Labels(K, S, N), Entries(K, S, D, N), Undefs(K, D, N, F), Bodies(S, D, N, F), Outers(K, S, N, F),
         NEW it, it.funct = F, it.depth = Len(S), NEW N2, Pushed(N, it, N2),
         NEW S2, S2 = S \/ Blank(S, S2)
  PROVE  /\ Labels(K, S2, N2) /\ Entries(K, S2, D, N2) /\ Undefs(K, D, N2, F)
         /\ Bodies(S2, D, N2, F) /\ Outers(K, S2, N2, F)
<1>1. /\ F \in Nat /\ Len(N) \in Nat /\ Len(S) \in Nat /\ Len(N2) = Len(N) + 1
      /\ \A i \in 1 .. Len(N) : i \in 1 .. Len(N2) /\ N2[i] = N[i]
  BY Numbers DEF Pushed
<1>2. Within(N2, F) = Within(N, F)
  <2>1. Within(N2, F) = Within(N, F) \cup {F} /\ F \in Within(N, F)
    <3>1. F \in Within(N, F)
      BY DEF Within
    <3> QED BY <1>1, <3>1, WithinPush
  <2> QED BY <2>1
<1>3. \A f, m : Soon(D, N2, F, f, m) <=> Soon(D, N, F, f, m)
  BY <1>2 DEF Soon
<1>4. \A j \in 1 .. Len(S) : j \in 1 .. Len(S2) /\ S2[j] = S[j]
  BY <1>1 DEF Blank, Longer
<1>5. Labels(K, S2, N2)
  <2> SUFFICES ASSUME NEW j \in 1 .. Len(S2), NEW m \in Names, S2[j][m].funct # 0, K[S2[j][m].funct][m] = "label"
               PROVE  \E i \in 1 .. Len(N2) : /\ N2[i].kind = "label" /\ N2[i].name = m
                                              /\ N2[i].funct = S2[j][m].funct /\ N2[i].depth < j
    BY DEF Labels
  <2>1. j \in 1 .. Len(S) /\ S2[j] = S[j]
    BY <1>1, BlankSame
  <2>2. PICK i \in 1 .. Len(N) : N[i].kind = "label" /\ N[i].name = m /\ N[i].funct = S[j][m].funct /\ N[i].depth < j
    BY <2>1 DEF Labels
  <2> QED BY <1>1, <2>1, <2>2
<1>6. Entries(K, S2, D, N2)
  <2> SUFFICES ASSUME NEW j \in 1 .. Len(S2), NEW m \in Names, S2[j][m].funct \notin {0, Global},
                      ~ (D[S2[j][m].funct][m] # "no" \/ K[S2[j][m].funct][m] = "label")
               PROVE  \E i \in 1 .. Len(N2) : /\ N2[i].kind = "catch" /\ N2[i].name = m
                                              /\ N2[i].funct = S2[j][m].funct /\ N2[i].depth < j
    BY DEF Entries
  <2>1. j \in 1 .. Len(S) /\ S2[j] = S[j]
    BY <1>1, BlankSame
  <2>2. PICK i \in 1 .. Len(N) : N[i].kind = "catch" /\ N[i].name = m /\ N[i].funct = S[j][m].funct /\ N[i].depth < j
    BY <2>1 DEF Entries
  <2> QED BY <1>1, <2>1, <2>2
<1>7. Undefs(K, D, N2, F)
  BY <1>2, <1>3 DEF Undefs
<1>8. Bodies(S2, D, N2, F)
  <2> SUFFICES ASSUME NEW f \in Within(N, F) \ {Global}, NEW m \in Names, D[f][m] = "body", ~ Soon(D, N, F, f, m)
               PROVE  \E j \in 1 .. Len(S2) : S2[j][m].funct = f /\ \A i \in 1 .. Len(N2) : N2[i].funct = f => j <= N2[i].depth
    BY <1>2, <1>3 DEF Bodies
  <2>1. PICK j \in 1 .. Len(S) : S[j][m].funct = f /\ \A i \in 1 .. Len(N) : N[i].funct = f => j <= N[i].depth
    BY DEF Bodies
  <2>2. ASSUME NEW i \in 1 .. Len(N2), N2[i].funct = f PROVE j <= N2[i].depth
    <3>1. CASE i \in 1 .. Len(N)
      BY <1>1, <2>1, <2>2, <3>1
    <3>2. CASE i = Len(N) + 1
      BY <1>1, <3>2 DEF Pushed
    <3> QED BY <1>1, <3>1, <3>2
  <2> QED BY <1>4, <2>1, <2>2
<1>9. Outers(K, S2, N2, F)
  <2> SUFFICES ASSUME NEW f \in Within(N, F), NEW m \in Names, K[f][m] \in {"outer", "global"},
                      NEW j \in 1 .. Len(S2), S2[j][m].funct \in 1 .. f - 1, K[S2[j][m].funct][m] = "label"
               PROVE  \E k \in j + 1 .. Len(S2) : S2[k][m].funct \in 1 .. f - 1
    BY <1>2 DEF Outers
  <2>0. S2[j][m].funct # 0
    OBVIOUS
  <2>1. j \in 1 .. Len(S) /\ S2[j] = S[j]
    BY <1>1, <2>0, BlankSame
  <2>2. PICK k \in j + 1 .. Len(S) : S[k][m].funct \in 1 .. f - 1
    BY <2>1 DEF Outers
  <2>3. k \in 1 .. Len(S) /\ k \in j + 1 .. Len(S2)
    BY <1>1, <2>1 DEF Blank, Longer
  <2> QED BY <1>4, <2>2, <2>3
<1> QED BY <1>5, <1>6, <1>7, <1>8, <1>9

\* The chain grows, and keeps its entries; what was used soon still was; a catch
\* clause that is opened has its variable.
Grown(S, S2) == /\ Len(S2) \in Nat /\ Len(S) <= Len(S2)
                /\ \A j \in 1 .. Len(S), m \in Names : S[j][m].funct # 0 => S2[j][m].funct = S[j][m].funct
Sooner(D, N, F, D2, N2, F2) == \A i \in 1 .. Len(N) :
  Soon(D, N, F, N[i].funct, N[i].name) => Soon(D2, N2, F2, N[i].funct, N[i].name)
Caught(it, S2, D2, N2, F2) == it.kind = "catch" /\ it.funct # Global =>
  Soon(D2, N2, F2, it.funct, it.name) \/ \E j \in 1 .. Len(S2) : S2[j][it.name].funct = it.funct
\* Opening anything keeps the catch clauses.
LEMMA CatchesPush ==
  ASSUME NEW S, Len(S) \in Nat, NEW D, NEW N \in Seq(Openings), NEW F, Catches(S, D, N, F), Named(N),
         NEW it, it.funct = F, it.depth = Len(S), NEW N2, Pushed(N, it, N2), NEW S2, Grown(S, S2),
         NEW D2, NEW F2, Sooner(D, N, F, D2, N2, F2), Caught(it, S2, D2, N2, F2)
  PROVE  Catches(S2, D2, N2, F2)
<1>0. Len(N) \in Nat /\ \A i \in 1 .. Len(N) : N[i].funct # 0
  <2>1. Len(N) \in Nat /\ \A i \in 1 .. Len(N) : N[i] \in Openings
    BY ONLY N \in Seq(Openings)
  <2> QED BY ONLY <2>1, NamesAssumption DEF Openings, Functs
<1> USE DEF Grown, Sooner, Caught, Named
<1> SUFFICES ASSUME NEW i \in 1 .. Len(N2), N2[i].kind = "catch", N2[i].funct # Global,
                    ~ Soon(D2, N2, F2, N2[i].funct, N2[i].name)
             PROVE  \E j \in 1 .. Len(S2) : /\ S2[j][N2[i].name].funct = N2[i].funct
                                            /\ \A k \in i + 1 .. Len(N2) : j <= N2[k].depth
  BY DEF Catches
<1>1. Len(N2) = Len(N) + 1 /\ N2[Len(N) + 1] = it /\ Len(N) \in Nat
  BY <1>0 DEF Pushed
<1>2. CASE i = Len(N) + 1
  <2>1. \A k \in i + 1 .. Len(N2) : FALSE
    BY <1>1, <1>2
  <2> QED BY <1>1, <1>2, <2>1
<1>3. CASE i \in 1 .. Len(N)
  <2>1. N2[i] = N[i] /\ N[i].kind = "catch" /\ N[i].funct # Global /\ N[i].name \in Names
    BY <1>3 DEF Pushed
  <2>2. ~ Soon(D, N, F, N[i].funct, N[i].name)
    BY <1>3, <2>1
  <2>3. PICK j \in 1 .. Len(S) : /\ S[j][N[i].name].funct = N[i].funct
                                 /\ \A k \in i + 1 .. Len(N) : j <= N[k].depth
    BY <1>3, <2>1, <2>2 DEF Catches
  <2>4. j \in 1 .. Len(S2) /\ S2[j][N[i].name].funct = N[i].funct
    BY <1>0, <1>3, <2>1, <2>3
  <2>5. ASSUME NEW k \in i + 1 .. Len(N2) PROVE j <= N2[k].depth
    <3>1. CASE k = Len(N) + 1
      BY <1>1, <3>1
    <3>2. CASE k # Len(N) + 1
      <4>1. k \in i + 1 .. Len(N) /\ k \in 1 .. Len(N)
        BY ONLY <1>1, <1>3, <3>2, Len(N) \in Nat, k \in i + 1 .. Len(N2)
      <4>2. N2[k] = N[k]
        BY <4>1 DEF Pushed
      <4> QED BY <2>3, <4>1, <4>2
    <3> QED BY <3>1, <3>2
  <2> QED BY <2>1, <2>4, <2>5
<1> QED BY <1>1, <1>2, <1>3

(**************************** opening a function ****************************)
\* The function F2 begins: it knows its own name, if it has one, and declares it.
Begins(K, S, D, F2, K2, S2, D2) ==
  /\ K2 \in [Functs -> [Names -> Kinds]] /\ D2 \in Declarations /\ Longer(S, S2)
  /\ \A f \in Functs \ {F2} : K2[f] = K[f] /\ D2[f] = D[f]
  /\ \A m \in Names :
       \/ S2[Len(S) + 1][m].funct = 0 /\ K2[F2][m] = K[F2][m] /\ D2[F2][m] = D[F2][m]
       \/ S2[Len(S) + 1][m].funct = F2 /\ K2[F2][m] = "function" /\ D2[F2][m] = "body"

\* The parts of Shape.
LEMMA OpenFunctionShape ==
  ASSUME NEW K, NEW S, NEW D, NEW N, NEW F, Typed(K, S, D, N, F), NEW l \in Nat, NEW P,
         \A m \in DOMAIN P : m \in Names, Shape(K, S, D, N, F, l, P), l + 1 \in Functs,
         NEW it, it.funct = F, it.depth = Len(S), NEW N2, Pushed(N, it, N2),
         NEW K2, NEW S2, NEW D2, Begins(K, S, D, l + 1, K2, S2, D2)
  PROVE  Shape(K2, S2, D2, N2, l + 1, l + 1, P)
<1>1. /\ F \in Nat /\ F \in Functs /\ Len(N) \in Nat /\ Len(S) \in Nat \ {0} /\ S \in Seq(Scopes)
      /\ \A i \in 1 .. Len(N) : N[i].funct \in Nat
      /\ F < l + 1 /\ l + 1 \in Nat /\ Len(S2) = Len(S) + 1 /\ l + 1 # Global
  BY Numbers DEF Typed, Shape, Nested, Begins, Longer, Global
<1>n. Nested(S, N, F, l) /\ Sited(S, N, F)
  BY DEF Shape
<1>2. Nested(S2, N2, l + 1, l + 1)
  BY ONLY <1>1, <1>n, l \in Nat, Pushed(N, it, N2), it.funct = F, it.depth = Len(S), NestedPush
<1>3. Sited(S2, N2, l + 1)
  <2>1. Longer(S, S2) /\ \A m \in Names : S2[Len(S) + 1][m].funct \in {0, l + 1}
    BY DEF Begins
  <2>2. F <= l + 1
    BY <1>1
  <2> QED BY ONLY <1>1, <1>n, <2>1, <2>2, Pushed(N, it, N2), it.funct = F, it.depth = Len(S), SitedPush
<1>4. ASSUME NEW j \in 1 .. Len(S2), NEW m \in Names
      PROVE  \/ j \in 1 .. Len(S) /\ S2[j] = S[j]
             \/ j = Len(S) + 1 /\ S2[j][m].funct = 0
             \/ j = Len(S) + 1 /\ S2[j][m].funct = l + 1 /\ K2[l + 1][m] = "function"
  <2>1. CASE j \in 1 .. Len(S)
    BY <2>1 DEF Begins, Longer
  <2>2. CASE j = Len(S) + 1
    BY <2>2 DEF Begins
  <2> QED BY <1>1, <2>1, <2>2
<1>5. \A j \in 1 .. Len(S), m \in Names : S[j][m].funct # 0 =>
        S[j][m].funct \in Functs /\ S[j][m].funct # l + 1
  <2> SUFFICES ASSUME NEW j \in 1 .. Len(S), NEW m \in Names, S[j][m].funct # 0
               PROVE  S[j][m].funct \in Functs /\ S[j][m].funct # l + 1
    OBVIOUS
  <2>1. S[j][m].funct \in 0 .. MaxFunctions /\ S[j][m].funct <= F
    BY Numbers DEF Shape, Sited
  <2> QED BY <1>1, <2>1, NamesAssumption DEF Functs
<1>6. Noted(K2, S2)
  <2> SUFFICES ASSUME NEW j \in 1 .. Len(S2), NEW m \in Names, S2[j][m].funct # 0
               PROVE  K2[S2[j][m].funct][m] \notin {"none", "outer", "global"}
    BY DEF Noted
  <2>1. CASE j \in 1 .. Len(S) /\ S2[j] = S[j]
    <3>1. S[j][m].funct \in Functs \ {l + 1} /\ K[S[j][m].funct][m] \notin {"none", "outer", "global"}
      BY <1>5, <2>1 DEF Shape, Noted
    <3> QED BY <2>1, <3>1 DEF Begins
  <2>2. CASE S2[j][m].funct = l + 1 /\ K2[l + 1][m] = "function"
    BY <2>2
  <2> QED BY <1>4, <2>1, <2>2
<1>7. Unread(K2, D2, l + 1)
  BY <1>1 DEF Shape, Unread, Begins, Functs
<1>8. Predefined(S2, D2, P)
  <2>1. ASSUME NEW m \in DOMAIN P, NEW f \in Functs PROVE D2[f][m] # "early"
    <3>1. m \in Names /\ D[f][m] # "early"
      BY DEF Shape, Predefined
    <3> QED BY <3>1 DEF Begins
  <2>2. ASSUME NEW m \in DOMAIN P, NEW j \in 1 .. Len(S2), S2[j][m].funct = Global, S2[j][m].writeable PROVE P[m]
    <3>1. m \in Names /\ Global # 0
      BY DEF Global
    <3>2. j \in 1 .. Len(S) /\ S2[j] = S[j]
      BY <1>1, <1>4, <2>2, <3>1
    <3> QED BY <2>2, <3>2 DEF Shape, Predefined
  <2> QED BY <2>1, <2>2 DEF Predefined
<1> QED BY <1>2, <1>3, <1>6, <1>7, <1>8 DEF Shape

\* The parts of Clean but for the catch clauses.
LEMMA OpenFunctionClean ==
  ASSUME NEW K, NEW S, NEW D, NEW N, NEW F, Typed(K, S, D, N, F), NEW l \in Nat, NEW P,
         Shape(K, S, D, N, F, l, P), l + 1 \in Functs,
         Labels(K, S, N), Entries(K, S, D, N), Undefs(K, D, N, F), Bodies(S, D, N, F), Outers(K, S, N, F),
         NEW it, it.funct = F, it.depth = Len(S), NEW N2, Pushed(N, it, N2),
         NEW K2, NEW S2, NEW D2, Begins(K, S, D, l + 1, K2, S2, D2)
  PROVE  /\ Labels(K2, S2, N2) /\ Entries(K2, S2, D2, N2) /\ Undefs(K2, D2, N2, l + 1)
         /\ Bodies(S2, D2, N2, l + 1) /\ Outers(K2, S2, N2, l + 1)
         /\ \A f, m : f \in Within(N, F) /\ Soon(D, N, F, f, m) => Soon(D2, N2, l + 1, f, m)
<1>1. /\ F \in Nat /\ F \in Functs /\ Len(N) \in Nat /\ Len(S) \in Nat \ {0}
      /\ F < l + 1 /\ l + 1 \in Nat /\ Len(S2) = Len(S) + 1 /\ l + 1 # Global /\ Len(N2) = Len(N) + 1
      /\ \A i \in 1 .. Len(N) : i \in 1 .. Len(N2) /\ N2[i] = N[i]
      /\ \A j \in 1 .. Len(S) : j \in 1 .. Len(S2) /\ S2[j] = S[j]
  BY Numbers DEF Typed, Shape, Nested, Begins, Longer, Pushed, Global
<1>2. Within(N2, l + 1) = Within(N, F) \cup {l + 1}
  BY <1>1, WithinPush
<1>3. \A f \in Within(N, F) : f \in Functs \ {l + 1} /\ f <= F /\ f \in Nat
  <2>1. \A i \in 1 .. Len(N) : N[i] \in Openings /\ N[i].funct <= F
    BY DEF Typed, Shape, Nested
  <2> QED BY <1>1, <2>1 DEF Within, Openings, Functs
<1>4. \A f, m : f \in Within(N, F) /\ Soon(D, N, F, f, m) => Soon(D2, N2, l + 1, f, m)
  BY <1>2, <1>3 DEF Soon, Begins
<1>5. ASSUME NEW j \in 1 .. Len(S2), NEW m \in Names, S2[j][m].funct # 0
      PROVE  \/ /\ j \in 1 .. Len(S) /\ S2[j] = S[j] /\ S[j][m].funct \in Functs \ {l + 1}
                /\ K2[S[j][m].funct] = K[S[j][m].funct] /\ D2[S[j][m].funct] = D[S[j][m].funct]
             \/ S2[j][m].funct = l + 1 /\ K2[l + 1][m] = "function" /\ D2[l + 1][m] = "body"
  <2>1. CASE j \in 1 .. Len(S)
    <3>1. S2[j] = S[j] /\ S[j][m].funct \in 0 .. MaxFunctions /\ S[j][m].funct <= F
      BY <1>1, <1>5, <2>1, Numbers DEF Shape, Sited
    <3>2. S[j][m].funct \in Functs \ {l + 1}
      BY ONLY <1>1, <1>5, <3>1, NamesAssumption DEF Functs
    <3> QED BY <2>1, <3>1, <3>2 DEF Begins
  <2>2. CASE j = Len(S) + 1
    BY <1>5, <2>2 DEF Begins
  <2> QED BY <1>1, <2>1, <2>2
<1>6. Labels(K2, S2, N2)
  <2> SUFFICES ASSUME NEW j \in 1 .. Len(S2), NEW m \in Names, S2[j][m].funct # 0, K2[S2[j][m].funct][m] = "label"
               PROVE  \E i \in 1 .. Len(N2) : /\ N2[i].kind = "label" /\ N2[i].name = m
                                              /\ N2[i].funct = S2[j][m].funct /\ N2[i].depth < j
    BY DEF Labels
  <2>1. j \in 1 .. Len(S) /\ S2[j] = S[j] /\ K[S[j][m].funct][m] = "label"
    BY <1>5
  <2>2. PICK i \in 1 .. Len(N) : N[i].kind = "label" /\ N[i].name = m /\ N[i].funct = S[j][m].funct /\ N[i].depth < j
    BY <2>1 DEF Labels
  <2> QED BY <1>1, <2>1, <2>2
<1>7. Entries(K2, S2, D2, N2)
  <2> SUFFICES ASSUME NEW j \in 1 .. Len(S2), NEW m \in Names, S2[j][m].funct \notin {0, Global},
                      ~ (D2[S2[j][m].funct][m] # "no" \/ K2[S2[j][m].funct][m] = "label")
               PROVE  \E i \in 1 .. Len(N2) : /\ N2[i].kind = "catch" /\ N2[i].name = m
                                              /\ N2[i].funct = S2[j][m].funct /\ N2[i].depth < j
    BY DEF Entries
  <2>1. /\ j \in 1 .. Len(S) /\ S2[j] = S[j]
        /\ K2[S[j][m].funct] = K[S[j][m].funct] /\ D2[S[j][m].funct] = D[S[j][m].funct]
    BY <1>5
  <2>2. PICK i \in 1 .. Len(N) : N[i].kind = "catch" /\ N[i].name = m /\ N[i].funct = S[j][m].funct /\ N[i].depth < j
    BY <2>1 DEF Entries
  <2> QED BY <1>1, <2>1, <2>2
<1>8. Undefs(K2, D2, N2, l + 1)
  <2> SUFFICES ASSUME NEW f \in Within(N, F) \cup {l + 1}, NEW m \in Names, K2[f][m] = "undef"
               PROVE  Soon(D2, N2, l + 1, f, m)
    BY <1>2 DEF Undefs
  <2>1. f # l + 1
    <3>1. K[l + 1][m] = "none"
      BY <1>1 DEF Shape, Unread
    <3>2. K2[l + 1][m] = K[l + 1][m] \/ K2[l + 1][m] = "function"
      BY DEF Begins
    <3> QED BY <3>1, <3>2
  <2>2. f \in Within(N, F) /\ K[f][m] = "undef"
    BY <1>3, <2>1 DEF Begins
  <2> QED BY <1>4, <2>2 DEF Undefs
<1>9. Bodies(S2, D2, N2, l + 1)
  <2> SUFFICES ASSUME NEW f \in (Within(N, F) \cup {l + 1}) \ {Global}, NEW m \in Names, D2[f][m] = "body",
                      ~ Soon(D2, N2, l + 1, f, m)
               PROVE  \E j \in 1 .. Len(S2) : S2[j][m].funct = f /\ \A i \in 1 .. Len(N2) : N2[i].funct = f => j <= N2[i].depth
    BY <1>2 DEF Bodies
  <2>1. CASE f = l + 1
    <3>1. S2[Len(S) + 1][m].funct = l + 1
      <4>1. D[l + 1][m] = "no"
        BY <1>1 DEF Shape, Unread
      <4> QED BY <2>1, <4>1 DEF Begins
    <3>2. \A i \in 1 .. Len(N2) : N2[i].funct # l + 1
      <4> SUFFICES ASSUME NEW i \in 1 .. Len(N2) PROVE N2[i].funct # l + 1
        OBVIOUS
      <4>1. CASE i = Len(N) + 1
        BY <1>1, <4>1 DEF Pushed
      <4>2. CASE i \in 1 .. Len(N)
        BY <1>1, <1>3, <4>2 DEF Within
      <4> QED BY <1>1, <4>1, <4>2
    <3>3. Len(S) + 1 \in 1 .. Len(S2)
      BY <1>1
    <3> QED BY <2>1, <3>1, <3>2, <3>3
  <2>2. CASE f # l + 1
    <3>1. f \in Within(N, F) \ {Global} /\ D[f][m] = "body" /\ ~ Soon(D, N, F, f, m)
      BY <1>3, <1>4, <2>2 DEF Begins
    <3>2. PICK j \in 1 .. Len(S) : S[j][m].funct = f /\ \A i \in 1 .. Len(N) : N[i].funct = f => j <= N[i].depth
      BY <3>1 DEF Bodies
    <3>3. ASSUME NEW i \in 1 .. Len(N2), N2[i].funct = f PROVE j <= N2[i].depth
      <4>1. CASE i \in 1 .. Len(N)
        BY <1>1, <3>2, <3>3, <4>1
      <4>2. CASE i = Len(N) + 1
        BY <1>1, <4>2 DEF Pushed
      <4> QED BY <1>1, <4>1, <4>2
    <3> QED BY <1>1, <3>2, <3>3
  <2> QED BY <2>1, <2>2
<1>10. Outers(K2, S2, N2, l + 1)
  <2> SUFFICES ASSUME NEW f \in Within(N, F) \cup {l + 1}, NEW m \in Names, K2[f][m] \in {"outer", "global"},
                      NEW j \in 1 .. Len(S2), S2[j][m].funct \in 1 .. f - 1, K2[S2[j][m].funct][m] = "label"
               PROVE  \E k \in j + 1 .. Len(S2) : S2[k][m].funct \in 1 .. f - 1
    BY <1>2 DEF Outers
  <2>1. f # l + 1
    <3>1. K[l + 1][m] = "none"
      BY <1>1 DEF Shape, Unread
    <3>2. K2[l + 1][m] = K[l + 1][m] \/ K2[l + 1][m] = "function"
      BY DEF Begins
    <3> QED BY <3>1, <3>2
  <2>2. f \in Within(N, F) /\ K[f][m] \in {"outer", "global"}
    BY <1>3, <2>1 DEF Begins
  <2>3. S2[j][m].funct # 0
    OBVIOUS
  <2>4. j \in 1 .. Len(S) /\ S2[j] = S[j] /\ K[S[j][m].funct][m] = "label"
    BY <1>5, <2>3
  <2>5. PICK k \in j + 1 .. Len(S) : S[k][m].funct \in 1 .. f - 1
    BY <2>2, <2>4 DEF Outers
  <2>6. k \in 1 .. Len(S) /\ k \in j + 1 .. Len(S2)
    BY <1>1, <2>4
  <2> QED BY <1>1, <2>5, <2>6
<1> QED BY <1>4, <1>6, <1>7, <1>8, <1>9, <1>10

(********************************* closing **********************************)
\* What was opened last is closed, and what it restores restored.
Popped(S, N, S2, N2) ==
  /\ Len(N) \in Nat \ {0} /\ Len(N2) = Len(N) - 1 /\ \A i \in 1 .. Len(N) - 1 : N2[i] = N[i]
  /\ Len(S2) = N[Len(N)].depth /\ \A j \in 1 .. Len(S2) : S2[j] = S[j]

\* The functions of what is left open.
LEMMA WithinPop ==
  ASSUME NEW S, NEW N, NEW S2, NEW N2, NEW F \in Nat, NEW l, Nested(S, N, F, l),
         \A i \in 1 .. Len(N) : N[i].funct \in Nat, Popped(S, N, S2, N2), NEW D
  PROVE  /\ Within(N, F) = Within(N2, N[Len(N)].funct) \cup {F}
         /\ \A f \in Within(N, F) : f <= F
         /\ \A f \in Within(N2, N[Len(N)].funct) : f \in Nat /\ f <= N[Len(N)].funct /\ \E i \in 1 .. Len(N) : N[i].funct = f
         /\ \A f, m : f \in Within(N2, N[Len(N)].funct) /\ Soon(D, N, F, f, m) => Soon(D, N2, N[Len(N)].funct, f, m)
<1> DEFINE k == Len(N)
<1>1. /\ k \in Nat \ {0} /\ 1 .. Len(N) = (1 .. Len(N2)) \cup {k} /\ 1 .. Len(N2) = 1 .. k - 1
      /\ \A i \in 1 .. Len(N2) : i \in 1 .. Len(N) /\ N2[i] = N[i] /\ N[i].funct <= N[k].funct
      /\ N[k].funct \in Nat /\ N[k].funct <= F
  <2>1. k \in Nat \ {0} /\ Len(N2) = k - 1
    BY DEF Popped
  <2>2. 1 .. Len(N) = (1 .. Len(N2)) \cup {k} /\ 1 .. Len(N2) = 1 .. k - 1
    BY <2>1
  <2>3. ASSUME NEW i \in 1 .. Len(N2)
        PROVE  i \in 1 .. Len(N) /\ N2[i] = N[i] /\ N[i].funct <= N[k].funct
    <3>1. i \in 1 .. Len(N) /\ k \in i + 1 .. Len(N)
      BY <2>1
    <3> QED BY <2>1, <3>1 DEF Popped, Nested
  <2>4. N[k].funct \in Nat /\ N[k].funct <= F
    BY <2>1 DEF Nested
  <2> QED BY <2>1, <2>2, <2>3, <2>4
<1> HIDE DEF k
<1>2. Within(N2, N[k].funct) = {N[i].funct : i \in 1 .. Len(N)}
  BY <1>1 DEF Within
<1>3. Within(N, F) = Within(N2, N[k].funct) \cup {F}
  BY <1>2 DEF Within
<1>4. \A f \in Within(N2, N[k].funct) : f \in Nat /\ f <= N[k].funct /\ \E i \in 1 .. Len(N) : N[i].funct = f
  BY <1>1, <1>2
<1>5. \A f \in Within(N, F) : f <= F
  BY <1>1, <1>3, <1>4
<1>6. ASSUME NEW f \in Within(N2, N[k].funct), NEW m, Soon(D, N, F, f, m)
      PROVE  Soon(D, N2, N[k].funct, f, m)
  <2>1. PICK g \in Within(N, F) : g <= f /\ D[g][m] = "early"
    BY <1>6 DEF Soon
  <2>2. g \in Within(N2, N[k].funct)
    <3>1. CASE g = F
      <4>1. f \in Nat /\ f <= N[k].funct
        BY <1>4
      <4>2. F <= f
        BY <2>1, <3>1
      <4>3. f = F
        BY ONLY <1>1, <4>1, <4>2, F \in Nat
      <4> QED BY <3>1, <4>3
    <3> QED BY <1>3, <3>1
  <2> QED BY <2>1, <2>2 DEF Soon
<1> QED BY <1>3, <1>4, <1>5, <1>6 DEF k

\* The parts of Shape.
LEMMA CloseShape ==
  ASSUME NEW K, NEW S, NEW D, NEW N, NEW F, Typed(K, S, D, N, F), NEW l \in Nat, NEW P,
         Shape(K, S, D, N, F, l, P), NEW S2, NEW N2, Popped(S, N, S2, N2)
  PROVE  Shape(K, S2, D, N2, N[Len(N)].funct, l, P)
<1> DEFINE F2 == N[Len(N)].funct
<1>1. /\ F \in Nat /\ Len(N) \in Nat \ {0} /\ Len(N) \in 1 .. Len(N) /\ Len(N2) \in Nat /\ F2 \in Nat /\ F2 <= F /\ F <= l
      /\ Len(S) \in Nat /\ Len(S2) \in 1 .. Len(S) /\ Len(S2) = N[Len(N)].depth
      /\ \A j \in 1 .. Len(S2) : j \in 1 .. Len(S) /\ S2[j] = S[j]
  BY Numbers DEF Shape, Nested, Popped
<1>2. ASSUME NEW i \in 1 .. Len(N2)
      PROVE  i \in 1 .. Len(N) /\ Len(N) \in i + 1 .. Len(N) /\ N2[i] = N[i] /\ N[i].depth \in 1 .. Len(S2)
  <2>1. i \in 1 .. Len(N) /\ Len(N) \in i + 1 .. Len(N) /\ i \in 1 .. Len(N) - 1
    BY <1>1 DEF Popped
  <2>2. N2[i] = N[i] /\ N[i].depth <= N[Len(N)].depth /\ N[i].depth \in 1 .. Len(S)
    BY <2>1 DEF Popped, Shape, Nested
  <2> QED BY <1>1, <2>1, <2>2
<1> HIDE DEF F2
<1>3. Nested(S2, N2, F2, l)
  <2>n. Nested(S, N, F, l)
    BY DEF Shape
  <2>1. \A i \in 1 .. Len(N) : N[i].funct \in Nat
    BY Numbers
  <2>2. F2 <= l /\ (Len(S2) = 1 => F2 = Global)
    BY <1>1, <2>1 DEF Shape, Nested, F2
  <2>3. ASSUME NEW i \in 1 .. Len(N2)
        PROVE  /\ N2[i].funct <= F2 /\ N2[i].depth \in 1 .. Len(S2)
               /\ N2[i].kind \in OfFunction => N2[i].funct < F2
               /\ N2[i].depth = 1 => N2[i].funct = Global
               /\ N2[i].depth = Len(S2) => N2[i].funct = F2
    <3>1. i \in 1 .. Len(N) /\ Len(N) \in i + 1 .. Len(N) /\ N2[i] = N[i] /\ N[i].depth \in 1 .. Len(S2)
      BY <1>2
    <3>2. /\ N[i].funct <= N[Len(N)].funct /\ (N[i].depth = N[Len(N)].depth => N[i].funct = N[Len(N)].funct)
          /\ N[i].kind \in OfFunction => N[i].funct < N[Len(N)].funct
          /\ N[i].depth = 1 => N[i].funct = Global
      BY ONLY <2>n, <3>1 DEF Nested
    <3> QED BY ONLY <1>1, <3>1, <3>2 DEF F2
  <2>4. ASSUME NEW i \in 1 .. Len(N2), NEW k \in i + 1 .. Len(N2)
        PROVE  /\ N2[i].funct <= N2[k].funct /\ N2[i].depth <= N2[k].depth
               /\ N2[i].depth = N2[k].depth => N2[i].funct = N2[k].funct
               /\ N2[i].kind \in OfFunction => N2[i].funct < N2[k].funct
    <3>1. k \in 1 .. Len(N2) /\ k \in i + 1 .. Len(N)
      BY <1>1, <1>2 DEF Popped
    <3> QED BY ONLY <1>2, <2>n, <3>1, i \in 1 .. Len(N2) DEF Nested
  <2> QED BY <1>1, <2>2, <2>3, <2>4 DEF Nested
<1>4. Sited(S2, N2, F2)
  <2>1. /\ \A m \in Names : S[1][m].funct \in {0, Global}
        /\ \A i \in 1 .. Len(N), m \in Names : S[N[i].depth][m].funct \in {0, N[i].funct}
    BY DEF Shape, Sited
  <2>2. \A m \in Names : S2[Len(S2)][m].funct \in {0, F2} /\ S2[1][m].funct \in {0, Global}
    <3>1. Len(S2) \in 1 .. Len(S2) /\ 1 \in 1 .. Len(S2)
      BY <1>1
    <3> QED BY <1>1, <2>1, <3>1 DEF F2
  <2>3. \A i \in 1 .. Len(N2), m \in Names : S2[N2[i].depth][m].funct \in {0, N2[i].funct}
    <3> SUFFICES ASSUME NEW i \in 1 .. Len(N2), NEW m \in Names PROVE S2[N2[i].depth][m].funct \in {0, N2[i].funct}
      OBVIOUS
    <3>1. i \in 1 .. Len(N) /\ N2[i] = N[i] /\ N[i].depth \in 1 .. Len(S2)
      BY <1>2
    <3>2. S2[N[i].depth] = S[N[i].depth]
      BY <1>1, <3>1
    <3> QED BY <2>1, <3>1, <3>2
  <2>4. ASSUME NEW j \in 1 .. Len(S2), NEW m \in Names, S2[j][m].funct # 0
        PROVE  /\ S2[j][m].funct <= F2
               /\ \A k \in j + 1 .. Len(S2) : S2[k][m].funct = 0 \/ S2[j][m].funct <= S2[k][m].funct
               /\ \A i \in 1 .. Len(N2) :
                    IF j <= N2[i].depth THEN S2[j][m].funct <= N2[i].funct ELSE N2[i].funct <= S2[j][m].funct
    <3>1. j \in 1 .. Len(S) /\ S2[j] = S[j] /\ j <= N[Len(N)].depth
      BY <1>1
    <3>2. /\ \A k \in j + 1 .. Len(S) : S[k][m].funct = 0 \/ S[j][m].funct <= S[k][m].funct
          /\ \A i \in 1 .. Len(N) : IF j <= N[i].depth THEN S[j][m].funct <= N[i].funct ELSE N[i].funct <= S[j][m].funct
      BY <2>4, <3>1 DEF Shape, Sited
    <3>3. \A k \in j + 1 .. Len(S2) : k \in j + 1 .. Len(S) /\ k \in 1 .. Len(S2)
      BY <1>1
    <3>4. \A k \in j + 1 .. Len(S2) : S2[k][m].funct = 0 \/ S2[j][m].funct <= S2[k][m].funct
      BY <1>1, <3>1, <3>2, <3>3
    <3>5. S[j][m].funct <= F2
      BY <1>1, <3>1, <3>2 DEF F2
    <3>6. \A i \in 1 .. Len(N2) :
            IF j <= N2[i].depth THEN S2[j][m].funct <= N2[i].funct ELSE N2[i].funct <= S2[j][m].funct
      BY <1>2, <3>1, <3>2
    <3> QED BY <3>1, <3>4, <3>5, <3>6
  <2> QED BY <2>2, <2>3, <2>4 DEF Sited
<1>5. Noted(K, S2)
  BY <1>1 DEF Shape, Noted
<1>6. Predefined(S2, D, P)
  BY <1>1 DEF Shape, Predefined
<1> QED BY <1>3, <1>4, <1>5, <1>6 DEF Shape, F2

\* The parts of Clean.
LEMMA CloseClean ==
  ASSUME NEW K, NEW S, NEW D, NEW N, NEW F, Typed(K, S, D, N, F), NEW l \in Nat, NEW P,
         Shape(K, S, D, N, F, l, P), Clean(K, S, D, N, F), NEW S2, NEW N2, Popped(S, N, S2, N2)
  PROVE  Clean(K, S2, D, N2, N[Len(N)].funct)
<1> DEFINE F2 == N[Len(N)].funct
<1>1. /\ F \in Nat /\ Len(N) \in Nat \ {0} /\ Len(N) \in 1 .. Len(N) /\ Len(N2) = Len(N) - 1 /\ F2 \in Nat
      /\ Len(S) \in Nat /\ Len(S2) \in 1 .. Len(S) /\ Len(S2) = N[Len(N)].depth
      /\ \A j \in 1 .. Len(S2) : j \in 1 .. Len(S) /\ S2[j] = S[j]
  BY Numbers DEF Shape, Nested, Popped
<1>2. ASSUME NEW i \in 1 .. Len(N)
      PROVE  \/ i = Len(N)
             \/ i \in 1 .. Len(N2) /\ N2[i] = N[i] /\ N[i].depth <= Len(S2)
  <2>1. CASE i # Len(N)
    <3>1. i \in 1 .. Len(N) - 1 /\ Len(N) \in i + 1 .. Len(N)
      BY <1>1, <2>1
    <3> QED BY <1>1, <3>1 DEF Popped, Shape, Nested
  <2> QED BY <2>1
<1>3. /\ Within(N2, F2) \subseteq Within(N, F)
      /\ \A f \in Within(N2, F2) : f \in Nat /\ f <= F2 /\ \E i \in 1 .. Len(N) : N[i].funct = f
      /\ \A f, m : f \in Within(N2, F2) /\ Soon(D, N, F, f, m) => Soon(D, N2, F2, f, m)
  <2>1. \A i \in 1 .. Len(N) : N[i].funct \in Nat
    BY Numbers
  <2>2. Nested(S, N, F, l) /\ F \in Nat
    BY <1>1 DEF Shape
  <2>3. /\ Within(N, F) = Within(N2, N[Len(N)].funct) \cup {F}
        /\ \A f \in Within(N, F) : f <= F
        /\ \A f \in Within(N2, N[Len(N)].funct) : f \in Nat /\ f <= N[Len(N)].funct /\ \E i \in 1 .. Len(N) : N[i].funct = f
        /\ \A f, m : f \in Within(N2, N[Len(N)].funct) /\ Soon(D, N, F, f, m) => Soon(D, N2, N[Len(N)].funct, f, m)
    BY ONLY <2>1, <2>2, Popped(S, N, S2, N2), WithinPop
  <2> QED BY <2>3
<1>4. \A i \in 1 .. Len(N2) : i \in 1 .. Len(N) /\ N2[i] = N[i]
  BY <1>1 DEF Popped
<1> HIDE DEF F2
<1>5. Labels(K, S2, N2)
  <2> SUFFICES ASSUME NEW j \in 1 .. Len(S2), NEW m \in Names, S2[j][m].funct # 0, K[S2[j][m].funct][m] = "label"
               PROVE  \E i \in 1 .. Len(N2) : /\ N2[i].kind = "label" /\ N2[i].name = m
                                              /\ N2[i].funct = S2[j][m].funct /\ N2[i].depth < j
    BY DEF Labels
  <2>1. j \in 1 .. Len(S) /\ S2[j] = S[j] /\ j <= N[Len(N)].depth
    BY <1>1
  <2>2. PICK i \in 1 .. Len(N) : N[i].kind = "label" /\ N[i].name = m /\ N[i].funct = S[j][m].funct /\ N[i].depth < j
    BY <2>1 DEF Clean, Labels
  <2>3. i # Len(N)
    BY <1>1, <2>1, <2>2
  <2> QED BY <1>2, <2>1, <2>2, <2>3
<1>6. Entries(K, S2, D, N2)
  <2> SUFFICES ASSUME NEW j \in 1 .. Len(S2), NEW m \in Names, S2[j][m].funct \notin {0, Global},
                      ~ (D[S2[j][m].funct][m] # "no" \/ K[S2[j][m].funct][m] = "label")
               PROVE  \E i \in 1 .. Len(N2) : /\ N2[i].kind = "catch" /\ N2[i].name = m
                                              /\ N2[i].funct = S2[j][m].funct /\ N2[i].depth < j
    BY DEF Entries
  <2>1. j \in 1 .. Len(S) /\ S2[j] = S[j] /\ j <= N[Len(N)].depth
    BY <1>1
  <2>2. PICK i \in 1 .. Len(N) : N[i].kind = "catch" /\ N[i].name = m /\ N[i].funct = S[j][m].funct /\ N[i].depth < j
    BY <2>1 DEF Clean, Entries
  <2>3. i # Len(N)
    BY <1>1, <2>1, <2>2
  <2> QED BY <1>2, <2>1, <2>2, <2>3
<1>7. Undefs(K, D, N2, F2)
  BY <1>3 DEF Clean, Undefs
<1>8. Bodies(S2, D, N2, F2)
  <2> SUFFICES ASSUME NEW f \in Within(N2, F2) \ {Global}, NEW m \in Names, D[f][m] = "body", ~ Soon(D, N2, F2, f, m)
               PROVE  \E j \in 1 .. Len(S2) : S2[j][m].funct = f /\ \A i \in 1 .. Len(N2) : N2[i].funct = f => j <= N2[i].depth
    BY DEF Bodies
  <2>1. PICK j \in 1 .. Len(S) : S[j][m].funct = f /\ \A i \in 1 .. Len(N) : N[i].funct = f => j <= N[i].depth
    BY <1>3 DEF Clean, Bodies
  <2>2. PICK i \in 1 .. Len(N) : N[i].funct = f
    BY <1>3
  <2>3. j <= N[i].depth /\ N[i].depth \in Nat
    BY <2>1, <2>2, Numbers
  <2>4. j \in 1 .. Len(S2)
    BY <1>1, <1>2, <2>3
  <2> QED BY <1>1, <1>4, <2>1, <2>4
<1>9. Catches(S2, D, N2, F2)
  <2> SUFFICES ASSUME NEW i \in 1 .. Len(N2), N2[i].kind = "catch", N2[i].funct # Global,
                      ~ Soon(D, N2, F2, N2[i].funct, N2[i].name)
               PROVE  \E j \in 1 .. Len(S2) : /\ S2[j][N2[i].name].funct = N2[i].funct
                                              /\ \A k \in i + 1 .. Len(N2) : j <= N2[k].depth
    BY DEF Catches
  <2>1. i \in 1 .. Len(N) /\ N2[i] = N[i] /\ N[i].funct \in Within(N2, F2)
    BY <1>4 DEF Within
  <2>2. PICK j \in 1 .. Len(S) : S[j][N[i].name].funct = N[i].funct /\ \A k \in i + 1 .. Len(N) : j <= N[k].depth
    BY <1>3, <2>1 DEF Clean, Catches
  <2>3. Len(N) \in i + 1 .. Len(N)
    BY <1>1
  <2>4. j \in 1 .. Len(S2)
    BY <1>1, <2>2, <2>3
  <2>5. \A k \in i + 1 .. Len(N2) : k \in i + 1 .. Len(N) /\ k \in 1 .. Len(N2)
    BY <1>1
  <2> QED BY <1>1, <1>4, <2>1, <2>2, <2>4, <2>5
<1>10. Outers(K, S2, N2, F2)
  <2> SUFFICES ASSUME NEW f \in Within(N2, F2), NEW m \in Names, K[f][m] \in {"outer", "global"},
                      NEW j \in 1 .. Len(S2), S2[j][m].funct \in 1 .. f - 1, K[S2[j][m].funct][m] = "label"
               PROVE  \E k \in j + 1 .. Len(S2) : S2[k][m].funct \in 1 .. f - 1
    BY DEF Outers
  <2>1. j \in 1 .. Len(S) /\ S2[j] = S[j]
    BY <1>1
  <2>2. PICK k \in j + 1 .. Len(S) : S[k][m].funct \in 1 .. f - 1
    BY <1>3, <2>1 DEF Clean, Outers
  <2>3. k <= Len(S2)
    <3>1. k \in 1 .. Len(S) /\ S[k][m].funct # 0 /\ f \in Nat /\ f <= F2
      BY <1>1, <1>3, <2>1, <2>2
    <3>2. ~ (F2 <= S[k][m].funct)
      BY <1>1, <2>2, <3>1
    <3>3. k <= N[Len(N)].depth
      BY <1>1, <3>1, <3>2 DEF Shape, Sited, F2
    <3> QED BY <1>1, <3>3
  <2>4. k \in j + 1 .. Len(S2) /\ k \in 1 .. Len(S2)
    BY <1>1, <2>1, <2>2, <2>3
  <2> QED BY <1>1, <2>2, <2>4
<1> QED BY <1>5, <1>6, <1>7, <1>8, <1>9, <1>10 DEF Clean, F2

\* The body of a function: the kind of what was opened last is another, and the
\* chain has a scope more.
Embodied(N, N2) ==
  /\ Len(N) \in Nat \ {0} /\ Len(N2) = Len(N) /\ N[Len(N)].kind = "params"
  /\ \A i \in 1 .. Len(N) : /\ N2[i].name = N[i].name /\ N2[i].funct = N[i].funct /\ N2[i].depth = N[i].depth
                            /\ N2[i].kind = IF i = Len(N) THEN "function" ELSE N[i].kind

\* The parts of Shape,
LEMMA BodyShape ==
  ASSUME NEW K, NEW S, NEW D, NEW N, NEW F, Typed(K, S, D, N, F), NEW l \in Nat, NEW P, \A m \in DOMAIN P : m \in Names,
         Shape(K, S, D, N, F, l, P), NEW N2, Embodied(N, N2), NEW S2, Blank(S, S2)
  PROVE  Shape(K, S2, D, N2, F, l, P)
<1>1. /\ F \in Nat \ {0} /\ Len(N) \in Nat \ {0} /\ Len(N2) = Len(N) /\ Len(S) \in Nat \ {0} /\ Len(S2) = Len(S) + 1
      /\ \A i \in 1 .. Len(N) : N[i].funct \in Nat /\ N[i].depth \in 1 .. Len(S)
      /\ \A i \in 1 .. Len(N) : N2[i].funct = N[i].funct /\ N2[i].depth = N[i].depth
      /\ \A i \in 1 .. Len(N) : N2[i].kind \in OfFunction <=> N[i].kind \in OfFunction
      /\ \A j \in 1 .. Len(S) : j \in 1 .. Len(S2) /\ S2[j] = S[j]
  <2>1. /\ F \in Nat \ {0} /\ Len(N) \in Nat \ {0} /\ Len(N2) = Len(N) /\ Len(S) \in Nat \ {0} /\ Len(S2) = Len(S) + 1
        /\ \A i \in 1 .. Len(N) : N[i].funct \in Nat
    BY Numbers DEF Shape, Nested, Embodied, Blank, Longer
  <2>2. \A i \in 1 .. Len(N) : N[i].depth \in 1 .. Len(S)
    BY DEF Shape, Nested
  <2>3. /\ \A i \in 1 .. Len(N) : N2[i].funct = N[i].funct /\ N2[i].depth = N[i].depth
        /\ \A i \in 1 .. Len(N) : N2[i].kind \in OfFunction <=> N[i].kind \in OfFunction
    BY DEF Embodied, OfFunction
  <2>4. \A j \in 1 .. Len(S) : j \in 1 .. Len(S2) /\ S2[j] = S[j]
    BY <2>1 DEF Blank, Longer
  <2> QED BY <2>1, <2>2, <2>3, <2>4
<1>2. Nested(S2, N2, F, l)
  <2>1. F <= l /\ (\A i \in 1 .. Len(N) : N[i].funct <= F /\ (N[i].kind \in OfFunction => N[i].funct < F))
    BY DEF Shape, Nested
  <2>2. \A i \in 1 .. Len(N) : (N[i].depth = 1 => N[i].funct = Global) /\ (N[i].depth = Len(S2) => N[i].funct = F)
    BY <1>1 DEF Shape, Nested
  <2>3. ASSUME NEW i \in 1 .. Len(N2), NEW k \in i + 1 .. Len(N2)
        PROVE  /\ N2[i].funct <= N2[k].funct /\ N2[i].depth <= N2[k].depth
               /\ N2[i].depth = N2[k].depth => N2[i].funct = N2[k].funct
               /\ N2[i].kind \in OfFunction => N2[i].funct < N2[k].funct
    <3>1. k \in 1 .. Len(N) /\ k \in i + 1 .. Len(N) /\ i \in 1 .. Len(N)
      BY <1>1
    <3> QED BY <1>1, <3>1 DEF Shape, Nested
  <2>4. Len(S2) \in Nat \ {0} /\ Len(S2) # 1 /\ \A i \in 1 .. Len(N) : N[i].depth \in 1 .. Len(S2)
    BY <1>1
  <2> QED BY <1>1, <2>1, <2>2, <2>3, <2>4 DEF Nested
<1>3. Sited(S2, N2, F)
  <2>1. /\ \A m \in Names : S[1][m].funct \in {0, Global}
        /\ \A i \in 1 .. Len(N), m \in Names : S[N[i].depth][m].funct \in {0, N[i].funct}
    BY DEF Shape, Sited
  <2>2. \A m \in Names : S2[Len(S2)][m].funct \in {0, F} /\ S2[1][m].funct \in {0, Global}
    BY <1>1, <2>1 DEF Blank
  <2>3. \A i \in 1 .. Len(N2), m \in Names : S2[N2[i].depth][m].funct \in {0, N2[i].funct}
    BY ONLY <1>1, <2>1
  <2>4. ASSUME NEW j \in 1 .. Len(S2), NEW m \in Names, S2[j][m].funct # 0
        PROVE  /\ S2[j][m].funct <= F
               /\ \A k \in j + 1 .. Len(S2) : S2[k][m].funct = 0 \/ S2[j][m].funct <= S2[k][m].funct
               /\ \A i \in 1 .. Len(N2) :
                    IF j <= N2[i].depth THEN S2[j][m].funct <= N2[i].funct ELSE N2[i].funct <= S2[j][m].funct
    <3>1. j \in 1 .. Len(S) /\ S2[j] = S[j]
      BY <1>1, <2>4, BlankSame
    <3>2. /\ S[j][m].funct <= F
          /\ \A k \in j + 1 .. Len(S) : S[k][m].funct = 0 \/ S[j][m].funct <= S[k][m].funct
          /\ \A i \in 1 .. Len(N) : IF j <= N[i].depth THEN S[j][m].funct <= N[i].funct ELSE N[i].funct <= S[j][m].funct
      BY <2>4, <3>1 DEF Shape, Sited
    <3>3. ASSUME NEW k \in j + 1 .. Len(S2), S2[k][m].funct # 0 PROVE S2[j][m].funct <= S2[k][m].funct
      <4>1. k \in 1 .. Len(S2)
        BY <1>1, <3>1
      <4>2. k \in 1 .. Len(S) /\ S2[k] = S[k]
        BY <1>1, <3>3, <4>1, BlankSame
      <4>3. k \in j + 1 .. Len(S)
        BY <1>1, <4>2
      <4> QED BY <3>1, <3>2, <3>3, <4>2, <4>3
    <3> QED BY <1>1, <3>1, <3>2, <3>3
  <2> QED BY <2>2, <2>3, <2>4 DEF Sited
<1>4. Noted(K, S2)
  BY <1>1, BlankSame DEF Shape, Noted
<1>5. Predefined(S2, D, P)
  <2> SUFFICES ASSUME NEW m \in DOMAIN P, NEW j \in 1 .. Len(S2), S2[j][m].funct = Global, S2[j][m].writeable PROVE P[m]
    BY DEF Shape, Predefined
  <2>1. j \in 1 .. Len(S) /\ S2[j] = S[j]
    <3>1. m \in Names /\ S2[j][m].funct # 0
      BY DEF Global
    <3> QED BY <1>1, <3>1, BlankSame
  <2> QED BY <2>1 DEF Shape, Predefined
<1> QED BY <1>2, <1>3, <1>4, <1>5 DEF Shape

\* and those of Clean.
LEMMA BodyClean ==
  ASSUME NEW K, NEW S, NEW D, NEW N, NEW F, Typed(K, S, D, N, F), Clean(K, S, D, N, F),
         NEW N2, Embodied(N, N2), NEW S2, Blank(S, S2)
  PROVE  Clean(K, S2, D, N2, F)
<1>1. /\ Len(N) \in Nat \ {0} /\ Len(N2) = Len(N) /\ Len(S) \in Nat
      /\ \A i \in 1 .. Len(N) : N2[i].name = N[i].name /\ N2[i].funct = N[i].funct /\ N2[i].depth = N[i].depth
      /\ \A i \in 1 .. Len(N), k \in {"label", "catch"} : N2[i].kind = k <=> N[i].kind = k
      /\ \A j \in 1 .. Len(S) : j \in 1 .. Len(S2) /\ S2[j] = S[j]
  <2>1. Len(N) \in Nat \ {0} /\ Len(N2) = Len(N) /\ Len(S) \in Nat
    BY Numbers DEF Embodied
  <2>2. /\ \A i \in 1 .. Len(N) : N2[i].name = N[i].name /\ N2[i].funct = N[i].funct /\ N2[i].depth = N[i].depth
        /\ \A i \in 1 .. Len(N), k \in {"label", "catch"} : N2[i].kind = k <=> N[i].kind = k
    BY DEF Embodied
  <2>3. \A j \in 1 .. Len(S) : j \in 1 .. Len(S2) /\ S2[j] = S[j]
    BY <2>1 DEF Blank, Longer
  <2> QED BY <2>1, <2>2, <2>3
<1>2. Within(N2, F) = Within(N, F)
  BY <1>1 DEF Within
<1>3. \A f, m : Soon(D, N2, F, f, m) <=> Soon(D, N, F, f, m)
  BY <1>2 DEF Soon
<1>4. \A j \in 1 .. Len(S2), m \in Names : S2[j][m].funct # 0 => j \in 1 .. Len(S) /\ S2[j] = S[j]
  BY <1>1, BlankSame
<1>5. Labels(K, S2, N2)
  <2> SUFFICES ASSUME NEW j \in 1 .. Len(S2), NEW m \in Names, S2[j][m].funct # 0, K[S2[j][m].funct][m] = "label"
               PROVE  \E i \in 1 .. Len(N2) : /\ N2[i].kind = "label" /\ N2[i].name = m
                                              /\ N2[i].funct = S2[j][m].funct /\ N2[i].depth < j
    BY DEF Labels
  <2>1. j \in 1 .. Len(S) /\ S2[j] = S[j]
    BY <1>4
  <2>2. PICK i \in 1 .. Len(N) : N[i].kind = "label" /\ N[i].name = m /\ N[i].funct = S[j][m].funct /\ N[i].depth < j
    BY <2>1 DEF Clean, Labels
  <2> QED BY <1>1, <2>1, <2>2
<1>6. Entries(K, S2, D, N2)
  <2> SUFFICES ASSUME NEW j \in 1 .. Len(S2), NEW m \in Names, S2[j][m].funct \notin {0, Global},
                      ~ (D[S2[j][m].funct][m] # "no" \/ K[S2[j][m].funct][m] = "label")
               PROVE  \E i \in 1 .. Len(N2) : /\ N2[i].kind = "catch" /\ N2[i].name = m
                                              /\ N2[i].funct = S2[j][m].funct /\ N2[i].depth < j
    BY DEF Entries
  <2>1. j \in 1 .. Len(S) /\ S2[j] = S[j]
    BY <1>4
  <2>2. PICK i \in 1 .. Len(N) : N[i].kind = "catch" /\ N[i].name = m /\ N[i].funct = S[j][m].funct /\ N[i].depth < j
    BY <2>1 DEF Clean, Entries
  <2> QED BY <1>1, <2>1, <2>2
<1>7. Undefs(K, D, N2, F)
  BY <1>2, <1>3 DEF Clean, Undefs
<1>8. Bodies(S2, D, N2, F)
  <2> SUFFICES ASSUME NEW f \in Within(N, F) \ {Global}, NEW m \in Names, D[f][m] = "body", ~ Soon(D, N, F, f, m)
               PROVE  \E j \in 1 .. Len(S2) : S2[j][m].funct = f /\ \A i \in 1 .. Len(N2) : N2[i].funct = f => j <= N2[i].depth
    BY <1>2, <1>3 DEF Bodies
  <2>1. PICK j \in 1 .. Len(S) : S[j][m].funct = f /\ \A i \in 1 .. Len(N) : N[i].funct = f => j <= N[i].depth
    BY DEF Clean, Bodies
  <2> QED BY <1>1, <2>1
<1>9. Catches(S2, D, N2, F)
  <2> SUFFICES ASSUME NEW i \in 1 .. Len(N2), N2[i].kind = "catch", N2[i].funct # Global,
                      ~ Soon(D, N2, F, N2[i].funct, N2[i].name)
               PROVE  \E j \in 1 .. Len(S2) : /\ S2[j][N2[i].name].funct = N2[i].funct
                                              /\ \A k \in i + 1 .. Len(N2) : j <= N2[k].depth
    BY DEF Catches
  <2>1. i \in 1 .. Len(N) /\ N[i].kind = "catch" /\ N[i].funct # Global /\ ~ Soon(D, N, F, N[i].funct, N[i].name)
    BY <1>1, <1>3
  <2>2. PICK j \in 1 .. Len(S) : S[j][N[i].name].funct = N[i].funct /\ \A k \in i + 1 .. Len(N) : j <= N[k].depth
    BY <2>1 DEF Clean, Catches
  <2>3. \A k \in i + 1 .. Len(N2) : k \in i + 1 .. Len(N) /\ k \in 1 .. Len(N)
    BY <1>1
  <2> QED BY <1>1, <2>1, <2>2, <2>3
<1>10. Outers(K, S2, N2, F)
  <2> SUFFICES ASSUME NEW f \in Within(N, F), NEW m \in Names, K[f][m] \in {"outer", "global"},
                      NEW j \in 1 .. Len(S2), S2[j][m].funct \in 1 .. f - 1, K[S2[j][m].funct][m] = "label"
               PROVE  \E k \in j + 1 .. Len(S2) : S2[k][m].funct \in 1 .. f - 1
    BY <1>2 DEF Outers
  <2>0. S2[j][m].funct # 0
    OBVIOUS
  <2>1. j \in 1 .. Len(S) /\ S2[j] = S[j]
    BY <1>4, <2>0
  <2>2. PICK k \in j + 1 .. Len(S) : S[k][m].funct \in 1 .. f - 1
    BY <2>1 DEF Clean, Outers
  <2>3. k \in 1 .. Len(S) /\ k \in j + 1 .. Len(S2)
    BY <1>1, <2>1, <2>2 DEF Blank, Longer
  <2> QED BY <1>1, <2>2, <2>3
<1> QED BY <1>5, <1>6, <1>7, <1>8, <1>9, <1>10 DEF Clean

(******************************* writing a name *****************************)
\* A step writes the entries of one name n: one of the function that is read into
\* the last scope, or of the global one into the first, where there was none.
Writes(n, S, F, S2) ==
  /\ Len(S2) = Len(S)
  /\ \A j \in 1 .. Len(S), m \in Names :
       \/ S2[j][m] = S[j][m]
       \/ /\ m = n /\ S[j][m].funct \in {0, S2[j][m].funct}
          /\ \/ j = Len(S) /\ S2[j][m].funct = F
             \/ j = 1 /\ S2[j][m].funct = Global

\* The parts of Shape that are about the chain.
LEMMA WriteSited ==
  ASSUME NEW K, NEW S, NEW D, NEW N, NEW F, Typed(K, S, D, N, F), NEW l \in Nat,
         Nested(S, N, F, l), Sited(S, N, F), NEW n, NEW S2, Writes(n, S, F, S2)
  PROVE  Nested(S2, N, F, l) /\ Sited(S2, N, F)
<1>1. /\ F \in Nat \ {0} /\ Len(N) \in Nat /\ Len(S) \in Nat \ {0} /\ Len(S2) = Len(S)
      /\ \A j \in 1 .. Len(S), m \in Names : S[j][m].funct \in Nat
      /\ Len(S) = 1 => F = Global
  BY Numbers DEF Nested, Writes
<1>2. Nested(S2, N, F, l)
  BY <1>1 DEF Nested
<1>3. \A j \in 1 .. Len(S), m \in Names :
        \/ S2[j][m] = S[j][m]
        \/ j = Len(S) /\ S2[j][m].funct = F
        \/ j = 1 /\ S2[j][m].funct = Global
  BY DEF Writes
<1>4. /\ \A m \in Names : S[Len(S)][m].funct \in {0, F} /\ S[1][m].funct \in {0, Global}
      /\ \A i \in 1 .. Len(N), m \in Names : S[N[i].depth][m].funct \in {0, N[i].funct}
      /\ \A i \in 1 .. Len(N) :
           /\ N[i].depth \in 1 .. Len(S) /\ N[i].funct \in Nat \ {0} /\ N[i].funct <= F
           /\ N[i].depth = 1 => N[i].funct = Global
           /\ N[i].depth = Len(S) => N[i].funct = F
  BY Numbers DEF Sited, Nested
<1>5. ASSUME NEW m \in Names PROVE S2[Len(S2)][m].funct \in {0, F} /\ S2[1][m].funct \in {0, Global}
  <2>1. 1 \in 1 .. Len(S) /\ Len(S) \in 1 .. Len(S)
    BY <1>1
  <2> QED BY <1>1, <1>3, <1>4, <2>1
<1>6. ASSUME NEW i \in 1 .. Len(N), NEW m \in Names PROVE S2[N[i].depth][m].funct \in {0, N[i].funct}
  BY <1>3, <1>4
<1>7. ASSUME NEW j \in 1 .. Len(S), NEW m \in Names
      PROVE  \/ S2[j][m] = S[j][m]
             \/ S2[j][m].funct = F /\ \A k \in j + 1 .. Len(S) : FALSE
             \/ j = 1 /\ S2[j][m].funct = Global
  <2>1. Len(S) \in Nat
    BY <1>1
  <2>2. j = Len(S) => \A k \in j + 1 .. Len(S) : FALSE
    BY ONLY <2>1
  <2> QED BY <1>3, <2>2
<1>8. ASSUME NEW j \in 1 .. Len(S), NEW m \in Names, S2[j][m].funct # 0
      PROVE  Global <= S2[j][m].funct /\ S2[j][m].funct <= F /\ S2[j][m].funct \in Nat
  <2>1. S2[j][m] = S[j][m] \/ S2[j][m].funct = F \/ S2[j][m].funct = Global
    BY <1>3
  <2>2. S[j][m].funct # 0 => S[j][m].funct <= F
    BY DEF Sited
  <2> QED BY <1>1, <1>8, <2>1, <2>2 DEF Global
<1>9. ASSUME NEW j \in 1 .. Len(S), NEW m \in Names, S2[j][m].funct # 0, NEW k \in j + 1 .. Len(S), S2[k][m].funct # 0
      PROVE  S2[j][m].funct <= S2[k][m].funct
  <2>0. Len(S) \in Nat
    BY <1>1
  <2>1. k \in 1 .. Len(S) /\ k # 1
    BY ONLY <2>0, j \in 1 .. Len(S), k \in j + 1 .. Len(S)
  <2>2. CASE S2[j][m] = S[j][m] /\ S2[k][m] = S[k][m]
    BY <1>9, <2>2 DEF Sited
  <2>3. CASE S2[j][m].funct = Global
    BY <1>8, <1>9, <2>1, <2>3
  <2>4. CASE S2[k][m].funct = F
    BY <1>8, <1>9, <2>4
  <2> QED BY <1>7, <1>3, <2>1, <2>2, <2>3, <2>4
<1>10. ASSUME NEW j \in 1 .. Len(S), NEW m \in Names, S2[j][m].funct # 0, NEW i \in 1 .. Len(N)
       PROVE  IF j <= N[i].depth THEN S2[j][m].funct <= N[i].funct ELSE N[i].funct <= S2[j][m].funct
  <2>1. CASE S2[j][m] = S[j][m]
    BY <1>10, <2>1 DEF Sited
  <2>0. Len(S) \in Nat /\ N[i].depth \in 1 .. Len(S) /\ N[i].funct \in Nat \ {0} /\ N[i].funct <= F
    BY <1>1, <1>4
  <2>2. CASE j = 1 /\ S2[j][m].funct = Global
    <3>1. 1 <= N[i].depth /\ 1 <= N[i].funct
      BY ONLY <2>0
    <3> QED BY <2>2, <3>1 DEF Global
  <2>3. CASE j = Len(S) /\ S2[j][m].funct = F
    <3>1. Len(S) <= N[i].depth => N[i].depth = Len(S)
      BY ONLY <2>0
    <3>2. F <= F
      BY <1>1
    <3> QED BY <1>4, <2>0, <2>3, <3>1, <3>2
  <2> QED BY <1>3, <2>1, <2>2, <2>3
<1> QED BY <1>1, <1>2, <1>5, <1>6, <1>8, <1>9, <1>10 DEF Sited

\* What a step does to the names while the same things are open: of an entry it
\* writes it has the reason, and of a kind or a declaration that is new.
Opens(N, kind, m, f, j) == \E i \in 1 .. Len(N) : N[i].kind = kind /\ N[i].name = m /\ N[i].funct = f /\ N[i].depth < j
Nearer(K, S, f, m) == \A j \in 1 .. Len(S) : S[j][m].funct \in 1 .. f - 1 /\ K[S[j][m].funct][m] = "label" =>
                        \E k \in j + 1 .. Len(S) : S[k][m].funct \in 1 .. f - 1
Held(S, N, f, m) == \E j \in 1 .. Len(S) : S[j][m].funct = f /\ \A i \in 1 .. Len(N) : N[i].funct = f => j <= N[i].depth
Alters(K, S, D, N, F, K2, S2, D2) ==
  /\ \A f \in Functs, m \in Names :
       /\ D[f][m] = "early" => D2[f][m] = "early"
       /\ D2[f][m] = "no" => D[f][m] = "no"
       /\ K2[f][m] = "undef" => K[f][m] = "undef" \/ Soon(D2, N, F, f, m)
       /\ D2[f][m] = "body" => D[f][m] = "body" \/ f = Global \/ Soon(D2, N, F, f, m) \/ Held(S2, N, f, m)
       /\ K2[f][m] \in {"outer", "global"} => K[f][m] \in {"outer", "global"} \/ Nearer(K2, S2, f, m)
  /\ \A j \in 1 .. Len(S), m \in Names : S2[j][m].funct # 0 =>
       \/ /\ S2[j][m] = S[j][m]
          /\ K2[S[j][m].funct][m] = "label" <=> K[S[j][m].funct][m] = "label"
       \/ /\ K2[S2[j][m].funct][m] # "label"
          /\ S2[j][m].funct = Global \/ D2[S2[j][m].funct][m] # "no" \/ Opens(N, "catch", m, S2[j][m].funct, j)
       \/ K2[S2[j][m].funct][m] = "label" /\ S2[j][m].funct = F /\ Opens(N, "label", m, F, j)

\* It keeps the parts of Clean but for the catch clauses.
LEMMA WriteClean ==
  ASSUME NEW K, NEW S, NEW D, NEW N, NEW F, Typed(K, S, D, N, F), NEW l, Nested(S, N, F, l),
         Labels(K, S, N), Entries(K, S, D, N), Undefs(K, D, N, F), Bodies(S, D, N, F), Outers(K, S, N, F),
         NEW n, NEW K2, NEW S2, NEW D2, Typed(K2, S2, D2, N, F), Writes(n, S, F, S2), Alters(K, S, D, N, F, K2, S2, D2)
  PROVE  /\ Labels(K2, S2, N) /\ Entries(K2, S2, D2, N) /\ Undefs(K2, D2, N, F)
         /\ Bodies(S2, D2, N, F) /\ Outers(K2, S2, N, F)
         /\ \A f, m : m \in Names /\ Soon(D, N, F, f, m) => Soon(D2, N, F, f, m)
<1>1. /\ Len(S2) = Len(S) /\ Len(S) \in Nat /\ F \in Nat
      /\ \A j \in 1 .. Len(S), m \in Names : S[j][m].funct # 0 => S2[j][m].funct = S[j][m].funct
      /\ \A j \in 1 .. Len(S), m \in Names : S[j][m].funct \in 0 .. MaxFunctions /\ S2[j][m].funct \in 0 .. MaxFunctions
  <2>1. Len(S2) = Len(S) /\ Len(S) \in Nat /\ F \in Nat
    BY Numbers DEF Writes
  <2>2. \A j \in 1 .. Len(S), m \in Names : S[j][m].funct # 0 => S2[j][m].funct = S[j][m].funct
    BY DEF Writes
  <2>3. \A j \in 1 .. Len(S), m \in Names : S[j][m].funct \in 0 .. MaxFunctions /\ S2[j][m].funct \in 0 .. MaxFunctions
    BY <2>1, Numbers
  <2> QED BY <2>1, <2>2, <2>3
<1>2. \A f \in Within(N, F) : f \in Functs /\ f \in Nat /\ f <= F
  <2>1. \A i \in 1 .. Len(N) : N[i] \in Openings /\ N[i].funct <= F
    BY DEF Typed, Nested
  <2>2. F \in Functs
    BY DEF Typed
  <2> QED BY <1>1, <2>1, <2>2 DEF Within, Openings, Functs
<1>3. \A f, m : m \in Names /\ Soon(D, N, F, f, m) => Soon(D2, N, F, f, m)
  BY <1>2 DEF Soon, Alters
<1>4. Labels(K2, S2, N)
  <2> SUFFICES ASSUME NEW j \in 1 .. Len(S2), NEW m \in Names, S2[j][m].funct # 0, K2[S2[j][m].funct][m] = "label"
               PROVE  Opens(N, "label", m, S2[j][m].funct, j)
    BY DEF Labels, Opens
  <2>1. CASE S2[j][m] = S[j][m] /\ K[S[j][m].funct][m] = "label"
    BY <1>1, <2>1 DEF Labels, Opens
  <2>2. CASE ~ (S2[j][m] = S[j][m] /\ K[S[j][m].funct][m] = "label")
    BY <1>1, <2>2 DEF Alters
  <2> QED BY <2>1, <2>2
<1>5. Entries(K2, S2, D2, N)
  <2> SUFFICES ASSUME NEW j \in 1 .. Len(S2), NEW m \in Names, S2[j][m].funct \notin {0, Global},
                      D2[S2[j][m].funct][m] = "no", K2[S2[j][m].funct][m] # "label"
               PROVE  Opens(N, "catch", m, S2[j][m].funct, j)
    BY DEF Entries, Opens
  <2>1. CASE S2[j][m] = S[j][m] /\ K[S[j][m].funct][m] # "label"
    <3>1. S[j][m].funct \in Functs
      BY <1>1, <2>1, NamesAssumption DEF Functs
    <3>2. D[S[j][m].funct][m] = "no"
      BY <2>1, <3>1 DEF Alters
    <3> QED BY <1>1, <2>1, <3>2 DEF Entries, Opens
  <2>2. CASE ~ (S2[j][m] = S[j][m] /\ K[S[j][m].funct][m] # "label")
    BY <1>1, <2>2 DEF Alters
  <2> QED BY <2>1, <2>2
<1>6. Undefs(K2, D2, N, F)
  BY <1>2, <1>3 DEF Undefs, Alters
<1>7. Bodies(S2, D2, N, F)
  <2> SUFFICES ASSUME NEW f \in Within(N, F) \ {Global}, NEW m \in Names, D2[f][m] = "body", ~ Soon(D2, N, F, f, m)
               PROVE  Held(S2, N, f, m)
    BY DEF Bodies, Held
  <2>1. D[f][m] = "body" \/ Held(S2, N, f, m)
    BY <1>2 DEF Alters
  <2>2. CASE D[f][m] = "body"
    <3>1. ~ Soon(D, N, F, f, m)
      BY <1>3
    <3>2. PICK j \in 1 .. Len(S) : S[j][m].funct = f /\ \A i \in 1 .. Len(N) : N[i].funct = f => j <= N[i].depth
      BY <2>2, <3>1 DEF Bodies
    <3>3. f # 0
      BY <1>2 DEF Functs
    <3> QED BY <1>1, <3>2, <3>3 DEF Held
  <2> QED BY <2>1, <2>2
<1>8. Outers(K2, S2, N, F)
  <2> SUFFICES ASSUME NEW f \in Within(N, F), NEW m \in Names, K2[f][m] \in {"outer", "global"}
               PROVE  Nearer(K2, S2, f, m)
    BY DEF Outers, Nearer
  <2>1. K[f][m] \in {"outer", "global"} \/ Nearer(K2, S2, f, m)
    BY <1>2 DEF Alters
  <2>2. CASE K[f][m] \in {"outer", "global"}
    <3> SUFFICES ASSUME NEW j \in 1 .. Len(S2), S2[j][m].funct \in 1 .. f - 1, K2[S2[j][m].funct][m] = "label"
                 PROVE  \E k \in j + 1 .. Len(S2) : S2[k][m].funct \in 1 .. f - 1
      BY DEF Nearer
    <3>1. S2[j][m].funct # 0 /\ S2[j][m].funct # F
      BY <1>1, <1>2
    <3>2. S2[j][m] = S[j][m] /\ K[S[j][m].funct][m] = "label"
      BY <1>1, <3>1 DEF Alters
    <3>3. PICK k \in j + 1 .. Len(S) : S[k][m].funct \in 1 .. f - 1
      BY <1>1, <2>2, <3>2 DEF Outers
    <3>4. k \in 1 .. Len(S) /\ k \in j + 1 .. Len(S2)
      BY <1>1
    <3>5. S[k][m].funct # 0
      BY <3>3
    <3> QED BY <1>1, <3>3, <3>4, <3>5
  <2> QED BY <2>1, <2>2
<1> QED BY <1>3, <1>4, <1>5, <1>6, <1>7, <1>8

\* And the catch clauses that are open have their variables still.
LEMMA WriteCatches ==
  ASSUME NEW K, NEW S, NEW D, NEW N, NEW F, Typed(K, S, D, N, F), Catches(S, D, N, F),
         \A i \in 1 .. Len(N) : N[i].kind = "catch" => N[i].name \in Names,
         NEW n, NEW S2, NEW D2, Writes(n, S, F, S2),
         \A f, m : m \in Names /\ Soon(D, N, F, f, m) => Soon(D2, N, F, f, m)
  PROVE  Catches(S2, D2, N, F)
<1> SUFFICES ASSUME NEW i \in 1 .. Len(N), N[i].kind = "catch", N[i].funct # Global,
                    ~ Soon(D2, N, F, N[i].funct, N[i].name)
             PROVE  \E j \in 1 .. Len(S2) : /\ S2[j][N[i].name].funct = N[i].funct
                                            /\ \A k \in i + 1 .. Len(N) : j <= N[k].depth
  BY DEF Catches
<1>1. N[i].name \in Names /\ N[i].funct # 0 /\ Len(S2) = Len(S)
  BY Numbers DEF Writes
<1>2. PICK j \in 1 .. Len(S) : S[j][N[i].name].funct = N[i].funct /\ \A k \in i + 1 .. Len(N) : j <= N[k].depth
  BY <1>1 DEF Catches
<1>3. S2[j][N[i].name].funct = N[i].funct
  BY <1>1, <1>2 DEF Writes
<1> QED BY <1>1, <1>2, <1>3

(********************************* add_label ********************************)
Enters(n, kind, S, K2, S2) == K2 = Kind(funct, n, LabelKind(n, kind)) /\ S2 = Labelled(S, n)
EnterKinds == {"becoming", "unction", "parameter", "exception", "label"}
\* A sequence of scopes with one entry more.
LEMMA EntryAt ==
  ASSUME NEW chain \in Seq(Scopes), NEW i \in 1 .. Len(chain), NEW n \in Names, NEW v \in Entry,
         NEW s, s = [chain EXCEPT ![i] = [@ EXCEPT ![n] = v]]
  PROVE  /\ s \in Seq(Scopes) /\ Len(s) = Len(chain) /\ s[i] = [chain[i] EXCEPT ![n] = v]
         /\ \A j \in 1 .. Len(chain) : \A m \in Names : s[j][m] = chain[j][m] \/ (j = i /\ m = n)
<1>1. chain[i] \in [Names -> Entry] /\ Scopes = [Names -> Entry]
  BY DEF Scopes, Entry
<1>2. s \in Seq(Scopes) /\ Len(s) = Len(chain)
  BY EntryType
<1>3. s[i] = [chain[i] EXCEPT ![n] = v]
  OBVIOUS
<1>4. \A m \in Names : m # n => s[i][m] = chain[i][m]
  BY <1>1, <1>3
<1>5. \A j \in 1 .. Len(chain) : j # i => s[j] = chain[j]
  OBVIOUS
<1> QED BY <1>2, <1>3, <1>4, <1>5

\* The entry of add_label: of the global function in the first scope, as the
\* environment says, of another one in the last.
LEMMA LabelEntry ==
  ASSUME TypeOK, NEW chain \in Seq(Scopes), Len(chain) \in Nat \ {0}, NEW n \in Names, kinds[funct][n] = "none",
         NEW s, s = Labelled(chain, n)
  PROVE  \E i \in 1 .. Len(chain), v \in Entry :
           /\ v.funct = funct /\ s \in Seq(Scopes) /\ Len(s) = Len(chain) /\ s[i][n] = v
           /\ IF funct = Global THEN i = 1 /\ (n \in DOMAIN predefined /\ v.writeable => predefined[n]) ELSE i = Len(chain)
           /\ \A j \in 1 .. Len(chain) : \A m \in Names : s[j][m] = chain[j][m] \/ (j = i /\ m = n)
<1>1. Writeable(n) \in BOOLEAN
  BY NamesAssumption DEF TypeOK, Writeable
<1>2. Global \in Functs /\ funct \in Functs /\ 1 \in 1 .. Len(chain) /\ Len(chain) \in 1 .. Len(chain)
  BY NamesAssumption DEF TypeOK, Global, Functs
<1>3. \A i \in 1 .. Len(chain) : chain[i] \in [Names -> Entry]
  BY DEF Scopes, Entry
<1>4. CASE funct = Global
  <2> DEFINE v == Variable(Global, Writeable(n))
  <2>1. s = [chain EXCEPT ![1] = [@ EXCEPT ![n] = v]]
    BY <1>4 DEF Labelled
  <2>2. v \in Entry /\ v.funct = Global
    BY <1>1, <1>2, VariableType
  <2>3. n \in DOMAIN predefined /\ v.writeable => predefined[n]
    BY DEF Variable, Writeable
  <2> HIDE DEF v
  <2>4. /\ s \in Seq(Scopes) /\ Len(s) = Len(chain) /\ s[1] = [chain[1] EXCEPT ![n] = v]
        /\ \A j \in 1 .. Len(chain) : \A m \in Names : s[j][m] = chain[j][m] \/ (j = 1 /\ m = n)
    BY ONLY <1>2, <2>1, <2>2, chain \in Seq(Scopes), n \in Names, EntryAt
  <2>5. s[1][n] = v
    BY <1>2, <1>3, <2>4
  <2> QED BY <1>2, <1>4, <2>2, <2>3, <2>4, <2>5
<1>5. CASE funct # Global
  <2> DEFINE v == Variable(funct, TRUE)
  <2>1. s = [chain EXCEPT ![Len(chain)] = [@ EXCEPT ![n] = v]]
    BY <1>5 DEF Labelled
  <2>2. v \in Entry /\ v.funct = funct
    BY <1>2, VariableType
  <2> HIDE DEF v
  <2>3. /\ s \in Seq(Scopes) /\ Len(s) = Len(chain) /\ s[Len(chain)] = [chain[Len(chain)] EXCEPT ![n] = v]
        /\ \A j \in 1 .. Len(chain) : \A m \in Names : s[j][m] = chain[j][m] \/ (j = Len(chain) /\ m = n)
    <3>1. chain \in Seq(Scopes) /\ Len(chain) \in 1 .. Len(chain) /\ v \in Entry
      BY <1>2, <2>2
    <3> QED BY ONLY <2>1, <3>1, n \in Names, EntryAt
  <2>4. s[Len(chain)][n] = v
    BY <1>2, <1>3, <2>3
  <2> QED BY <1>2, <1>5, <2>2, <2>3, <2>4
<1> QED BY <1>4, <1>5

\* What add_label does to the table and to the chain, whatever is open.
LEMMA EnterFacts ==
  ASSUME TypeOK, NEW n \in Names, NEW kind \in EnterKinds, NEW S \in Seq(Scopes), Len(S) \in Nat \ {0}, NEW N,
         Sited(S, N, funct), Noted(kinds, S),
         NEW K2, NEW S2, Enters(n, kind, S, K2, S2)
  PROVE  /\ K2 \in [Functs -> [Names -> Kinds]] /\ S2 \in Seq(Scopes) /\ Writes(n, S, funct, S2)
         /\ \A f \in Functs, m \in Names : K2[f][m] = IF f = funct /\ m = n THEN LabelKind(n, kind) ELSE kinds[f][m]
         /\ LabelKind(n, kind) \in EnterKinds \cup {"var"}
         /\ \A j \in 1 .. Len(S), m \in Names :
              \/ S2[j][m] = S[j][m]
              \/ /\ m = n /\ kinds[funct][n] = "none" /\ S2[j][m].funct = funct
                 /\ IF funct = Global THEN j = 1 /\ (n \in DOMAIN predefined /\ S2[j][m].writeable => predefined[n])
                    ELSE j = Len(S)
         /\ kinds[funct][n] = "none" /\ funct # Global => S2[Len(S)][n].funct = funct
<1> USE DEF Enters
<1>1. LabelKind(n, kind) \in EnterKinds \cup {"var"}
  BY DEF LabelKind
<1>2. LabelKind(n, kind) \in Kinds
  BY <1>1 DEF EnterKinds, Kinds
<1>3. /\ K2 \in [Functs -> [Names -> Kinds]]
      /\ \A f \in Functs, m \in Names : K2[f][m] = IF f = funct /\ m = n THEN LabelKind(n, kind) ELSE kinds[f][m]
  BY <1>2, KindType
<1>4. CASE kinds[funct][n] # "none"
  <2>1. S2 = S
    BY <1>4 DEF Labelled
  <2> QED BY <1>1, <1>3, <1>4, <2>1 DEF Writes
<1>5. CASE kinds[funct][n] = "none"
  <2>1. PICK i \in 1 .. Len(S), v \in Entry :
          /\ v.funct = funct /\ S2 \in Seq(Scopes) /\ Len(S2) = Len(S) /\ S2[i][n] = v
          /\ IF funct = Global THEN i = 1 /\ (n \in DOMAIN predefined /\ v.writeable => predefined[n]) ELSE i = Len(S)
          /\ \A j \in 1 .. Len(S) : \A m \in Names : S2[j][m] = S[j][m] \/ (j = i /\ m = n)
    BY ONLY TypeOK, S \in Seq(Scopes), Len(S) \in Nat \ {0}, n \in Names, S2 = Labelled(S, n), <1>5, LabelEntry
  <2>2. S[i][n].funct = 0
    <3>1. S[i][n].funct \in {0, funct}
      BY <2>1 DEF Sited
    <3> QED BY <1>5, <3>1 DEF Noted
  <2>3. Writes(n, S, funct, S2)
    BY <2>1, <2>2 DEF Writes
  <2> QED BY <1>1, <1>3, <1>5, <2>1, <2>3
<1> QED BY <1>4, <1>5

\* It keeps Shape.
LEMMA EnterShape ==
  ASSUME TypeOK, NEW n \in Names, NEW kind \in EnterKinds, NEW S \in Seq(Scopes), NEW N \in Seq(Openings),
         Shape(kinds, S, declared, N, funct, last, predefined),
         NEW K2, NEW S2, Enters(n, kind, S, K2, S2),
         NEW D2, D2 = declared \/ D2 = Declared(n)
  PROVE  Shape(K2, S2, D2, N, funct, last, predefined) /\ Typed(K2, S2, D2, N, funct)
<1> USE DEF Enters
<1>1. /\ Len(S) \in Nat \ {0} /\ funct \in Functs /\ funct \in Nat /\ last \in Nat /\ funct <= last
      /\ declared \in Declarations /\ Typed(kinds, S, declared, N, funct)
  BY DEF TypeOK, Shape, Nested, Functs, Declarations, Typed
<1>2. /\ K2 \in [Functs -> [Names -> Kinds]] /\ S2 \in Seq(Scopes) /\ Writes(n, S, funct, S2)
      /\ \A f \in Functs, m \in Names : K2[f][m] = IF f = funct /\ m = n THEN LabelKind(n, kind) ELSE kinds[f][m]
      /\ LabelKind(n, kind) \in EnterKinds \cup {"var"}
      /\ \A j \in 1 .. Len(S), m \in Names :
           \/ S2[j][m] = S[j][m]
           \/ /\ m = n /\ kinds[funct][n] = "none" /\ S2[j][m].funct = funct
              /\ IF funct = Global THEN j = 1 /\ (n \in DOMAIN predefined /\ S2[j][m].writeable => predefined[n])
                 ELSE j = Len(S)
  BY <1>1, EnterFacts DEF Shape
<1>3. /\ D2 \in Declarations
      /\ \A f \in Functs, m \in Names :
           \/ D2[f][m] = declared[f][m]
           \/ f = funct /\ (D2[f][m] = "early" => declared[f][m] = "early")
  <2>1. CASE D2 = declared
    BY <1>1, <2>1
  <2>2. CASE D2 = Declared(n)
    <3>1. D2 \in Declarations /\ \A f \in Functs : f # funct => D2[f] = declared[f]
      BY <1>1, <2>2 DEF Declared, Declarations
    <3>2. \A m \in Names : D2[funct][m] = "early" => declared[funct][m] = "early"
      BY <1>1, <2>2 DEF Declared, Declarations
    <3> QED BY <3>1, <3>2
  <2> QED BY <2>1, <2>2
<1>4. Typed(K2, S2, D2, N, funct)
  BY <1>1, <1>2, <1>3 DEF Typed
<1>5. Nested(S2, N, funct, last) /\ Sited(S2, N, funct)
  BY <1>1, <1>2, WriteSited DEF Shape
<1>6. Noted(K2, S2)
  <2> SUFFICES ASSUME NEW j \in 1 .. Len(S2), NEW m \in Names, S2[j][m].funct # 0
               PROVE  K2[S2[j][m].funct][m] \notin {"none", "outer", "global"}
    BY DEF Noted
  <2>1. j \in 1 .. Len(S)
    BY <1>2 DEF Writes
  <2>2. S2[j][m].funct \in Functs
    <3>1. S2[j][m].funct \in 0 .. MaxFunctions
      BY <1>4, Numbers
    <3> QED BY <3>1, NamesAssumption DEF Functs
  <2>3. CASE S2[j][m].funct = funct /\ m = n
    BY <1>1, <1>2, <2>3 DEF EnterKinds
  <2>4. CASE ~ (S2[j][m].funct = funct /\ m = n)
    <3>1. S2[j][m] = S[j][m]
      BY <1>2, <2>1, <2>4
    <3> QED BY <1>2, <2>1, <2>2, <2>4, <3>1 DEF Shape, Noted
  <2> QED BY <2>3, <2>4
<1>7. Unread(K2, D2, last)
  <2> SUFFICES ASSUME NEW f \in Functs, NEW m \in Names, f > last PROVE K2[f][m] = "none" /\ D2[f][m] = "no"
    BY DEF Unread
  <2>1. f # funct
    BY <1>1
  <2> QED BY <1>2, <1>3, <2>1 DEF Shape, Unread
<1>8. Predefined(S2, D2, predefined)
  <2>1. DOMAIN predefined \subseteq Names
    BY NamesAssumption DEF TypeOK
  <2>2. ASSUME NEW m \in DOMAIN predefined, NEW f \in Functs PROVE D2[f][m] # "early"
    BY <1>3, <2>1 DEF Shape, Predefined
  <2>3. ASSUME NEW m \in DOMAIN predefined, NEW j \in 1 .. Len(S2), S2[j][m].funct = Global, S2[j][m].writeable
        PROVE  predefined[m]
    <3>1. j \in 1 .. Len(S) /\ m \in Names
      BY <1>2, <2>1 DEF Writes
    <3>2. CASE S2[j][m] = S[j][m]
      BY <2>3, <3>1, <3>2 DEF Shape, Predefined
    <3>3. CASE S2[j][m] # S[j][m]
      BY <1>2, <2>3, <3>1, <3>3
    <3> QED BY <3>2, <3>3
  <2> QED BY <2>2, <2>3 DEF Predefined
<1> QED BY <1>4, <1>5, <1>6, <1>7, <1>8 DEF Shape

\* Where a label, a catch clause, and what is declared is entered.
Suits(n, kind, S, N, D2) ==
  \/ kind = "label" /\ D2 = declared /\ funct # Global /\ Opens(N, "label", n, funct, Len(S))
  \/ kind = "exception" /\ D2 = declared /\ (funct = Global \/ Opens(N, "catch", n, funct, Len(S)))
  \/ /\ kind \notin {"label", "exception"} /\ D2 = Declared(n)
     /\ InBlock \/ funct = Global \/ \A i \in 1 .. Len(N) : N[i].funct # funct

\* It keeps the parts of Clean but for the catch clauses, if nothing is said.
LEMMA EnterClean ==
  ASSUME TypeOK, NEW n \in Names, NEW kind \in EnterKinds, NEW S \in Seq(Scopes), NEW N \in Seq(Openings),
         Shape(kinds, S, declared, N, funct, last, predefined),
         Labels(kinds, S, N), Entries(kinds, S, declared, N), Undefs(kinds, declared, N, funct),
         Bodies(S, declared, N, funct), Outers(kinds, S, N, funct), LabelSays(n) = <<>>,
         NEW K2, NEW S2, Enters(n, kind, S, K2, S2), NEW D2, Suits(n, kind, S, N, D2)
  PROVE  /\ Labels(K2, S2, N) /\ Entries(K2, S2, D2, N) /\ Undefs(K2, D2, N, funct)
         /\ Bodies(S2, D2, N, funct) /\ Outers(K2, S2, N, funct)
         /\ \A f, m : m \in Names /\ Soon(declared, N, funct, f, m) => Soon(D2, N, funct, f, m)
         /\ funct # Global => Soon(declared, N, funct, funct, n) \/ S2[Len(S)][n].funct = funct
<1> USE DEF Enters, Suits
<1>1. /\ Len(S) \in Nat \ {0} /\ funct \in Functs /\ funct \in Nat /\ declared \in Declarations
      /\ Typed(kinds, S, declared, N, funct) /\ funct \in Within(N, funct)
  BY DEF TypeOK, Shape, Nested, Functs, Declarations, Typed, Within
<1>2. Shape(K2, S2, D2, N, funct, last, predefined) /\ Typed(K2, S2, D2, N, funct)
  BY EnterShape
<1>3. /\ K2 \in [Functs -> [Names -> Kinds]] /\ S2 \in Seq(Scopes) /\ Writes(n, S, funct, S2)
      /\ \A f \in Functs, m \in Names : K2[f][m] = IF f = funct /\ m = n THEN LabelKind(n, kind) ELSE kinds[f][m]
      /\ \A j \in 1 .. Len(S), m \in Names :
           \/ S2[j][m] = S[j][m]
           \/ /\ m = n /\ kinds[funct][n] = "none" /\ S2[j][m].funct = funct
              /\ IF funct = Global THEN j = 1 /\ (n \in DOMAIN predefined /\ S2[j][m].writeable => predefined[n])
                 ELSE j = Len(S)
      /\ kinds[funct][n] = "none" /\ funct # Global => S2[Len(S)][n].funct = funct
  BY <1>1, EnterFacts DEF Shape
<1>4. funct = Global \/ kinds[funct][n] = "none" \/ kinds[funct][n] = "undef"
  BY DEF LabelSays
<1>5. /\ LabelKind(n, kind) \in EnterKinds \cup {"var"} /\ (LabelKind(n, kind) = "label" => kind = "label")
      /\ funct # Global => LabelKind(n, kind) = IF kinds[funct][n] = "undef" THEN "var" ELSE kind
  BY DEF LabelKind
<1>6. kinds[funct][n] = "undef" => Soon(declared, N, funct, funct, n)
  BY <1>1 DEF Undefs
<1>7. ASSUME NEW f \in Functs, NEW m \in Names
      PROVE  /\ declared[f][m] = "early" => D2[f][m] = "early"
             /\ D2[f][m] = "no" => declared[f][m] = "no"
             /\ D2[f][m] = "body" => \/ declared[f][m] = "body"
                                     \/ f = funct /\ m = n /\ ~ InBlock /\ kind \notin {"label", "exception"}
             /\ f = funct /\ m = n /\ kind \notin {"label", "exception"} => D2[f][m] # "no"
  <2>1. CASE D2 = declared /\ kind \in {"label", "exception"}
    BY <2>1
  <2>2. CASE D2 = Declared(n) /\ kind \notin {"label", "exception"}
    <3>1. f # funct \/ m # n => D2[f][m] = declared[f][m]
      BY <1>1, <2>2 DEF Declared, Declarations
    <3>2. CASE f = funct /\ m = n
      <4>1. D2[f][m] = IF declared[f][m] = "early" THEN declared[f][m]
                       ELSE IF InBlock \/ declared[f][m] = "block" THEN "block" ELSE "body"
        BY <1>1, <2>2, <3>2 DEF Declared, Declarations
      <4> QED BY <2>2, <3>2, <4>1
    <3> QED BY <3>1, <3>2
  <2> QED BY <2>1, <2>2
<1>8. \A f \in Functs, m \in Names : D2[f][m] = "body" =>
        declared[f][m] = "body" \/ f = Global \/ Soon(D2, N, funct, f, m) \/ Held(S2, N, f, m)
  <2> SUFFICES ASSUME NEW f \in Functs, NEW m \in Names, D2[f][m] = "body", declared[f][m] # "body", f # Global
               PROVE  Soon(D2, N, funct, f, m) \/ Held(S2, N, f, m)
    OBVIOUS
  <2>1. f = funct /\ m = n /\ ~ InBlock /\ kind \notin {"label", "exception"}
    BY <1>7
  <2>2. CASE kinds[funct][n] = "none"
    <3>1. S2[Len(S)][n].funct = funct /\ Len(S) \in 1 .. Len(S2)
      BY <1>1, <1>3, <2>1, <2>2 DEF Writes
    <3>2. \A i \in 1 .. Len(N) : N[i].funct # funct
      BY <2>1
    <3> QED BY <2>1, <3>1, <3>2 DEF Held
  <2>3. CASE kinds[funct][n] = "undef"
    <3>1. PICK g \in Within(N, funct) : g <= funct /\ declared[g][n] = "early"
      BY <1>6, <2>3 DEF Soon
    <3>2. g \in Functs
      <4>1. \A i \in 1 .. Len(N) : N[i] \in Openings
        OBVIOUS
      <4> QED BY <1>1, <4>1 DEF Within, Openings
    <3>3. D2[g][n] = "early"
      BY <1>7, <3>1, <3>2
    <3> QED BY <2>1, <3>1, <3>3 DEF Soon
  <2> QED BY <1>4, <2>1, <2>2, <2>3
<1>9. \A j \in 1 .. Len(S), m \in Names : S2[j][m].funct # 0 =>
        \/ /\ S2[j][m] = S[j][m]
           /\ K2[S[j][m].funct][m] = "label" <=> kinds[S[j][m].funct][m] = "label"
        \/ /\ K2[S2[j][m].funct][m] # "label"
           /\ S2[j][m].funct = Global \/ D2[S2[j][m].funct][m] # "no" \/ Opens(N, "catch", m, S2[j][m].funct, j)
        \/ K2[S2[j][m].funct][m] = "label" /\ S2[j][m].funct = funct /\ Opens(N, "label", m, funct, j)
  <2> SUFFICES ASSUME NEW j \in 1 .. Len(S), NEW m \in Names, S2[j][m].funct # 0
               PROVE  \/ /\ S2[j][m] = S[j][m]
                         /\ K2[S[j][m].funct][m] = "label" <=> kinds[S[j][m].funct][m] = "label"
                      \/ /\ K2[S2[j][m].funct][m] # "label"
                         /\ S2[j][m].funct = Global \/ D2[S2[j][m].funct][m] # "no" \/ Opens(N, "catch", m, S2[j][m].funct, j)
                      \/ K2[S2[j][m].funct][m] = "label" /\ S2[j][m].funct = funct /\ Opens(N, "label", m, funct, j)
    OBVIOUS
  <2>1. S2[j][m].funct \in Functs
    <3>1. S2[j][m].funct \in 0 .. MaxFunctions
      BY <1>2, <1>3, Numbers DEF Writes
    <3> QED BY <3>1, NamesAssumption DEF Functs
  <2>2. CASE S2[j][m].funct # funct \/ m # n
    BY <1>3, <2>1, <2>2
  <2>3. CASE S2[j][m].funct = funct /\ m = n /\ funct = Global
    BY <1>3, <1>5, <2>1, <2>3
  <2>4. CASE S2[j][m].funct = funct /\ m = n /\ funct # Global /\ kinds[funct][n] = "undef"
    BY <1>1, <1>3, <1>5, <2>4
  <2>5. CASE S2[j][m].funct = funct /\ m = n /\ funct # Global /\ kinds[funct][n] = "none"
    <3>1. j = Len(S)
      <4>1. S2[j][m] # S[j][m]
        BY <2>1, <2>5 DEF Shape, Noted
      <4> QED BY <1>3, <2>5, <4>1
    <3>2. K2[funct][n] = kind
      BY <1>1, <1>3, <1>5, <2>5
    <3> QED BY <1>7, <2>1, <2>5, <3>1, <3>2
  <2> QED BY <1>4, <2>2, <2>3, <2>4, <2>5
<1>10. Alters(kinds, S, declared, N, funct, K2, S2, D2)
  <2>1. \A f \in Functs, m \in Names :
          /\ K2[f][m] = "undef" => kinds[f][m] = "undef"
          /\ K2[f][m] \in {"outer", "global"} => kinds[f][m] \in {"outer", "global"}
    BY <1>3, <1>5 DEF EnterKinds
  <2> QED BY <1>7, <1>8, <1>9, <2>1 DEF Alters
<1>11. /\ Labels(K2, S2, N) /\ Entries(K2, S2, D2, N) /\ Undefs(K2, D2, N, funct)
       /\ Bodies(S2, D2, N, funct) /\ Outers(K2, S2, N, funct)
       /\ \A f, m : m \in Names /\ Soon(declared, N, funct, f, m) => Soon(D2, N, funct, f, m)
  <2>1. Nested(S, N, funct, last)
    BY DEF Shape
  <2>2. Typed(kinds, S, declared, N, funct) /\ Typed(K2, S2, D2, N, funct) /\ Writes(n, S, funct, S2)
    BY <1>1, <1>2, <1>3
  <2> QED BY ONLY <1>10, <2>1, <2>2, Labels(kinds, S, N), Entries(kinds, S, declared, N),
       Undefs(kinds, declared, N, funct), Bodies(S, declared, N, funct), Outers(kinds, S, N, funct), WriteClean
<1> QED BY <1>3, <1>4, <1>6, <1>11

(******************************** identifiers *******************************)
\* The entry that a name has is the last one of the chain.
LEMMA SeenLast ==
  ASSUME TypeOK, NEW n \in Names, Found(n)
  PROVE  /\ Seen(n) \in 1 .. Len(scope) /\ scope[Seen(n)][n].funct # 0 /\ Site(n) = scope[Seen(n)][n].funct
         /\ \A j \in 1 .. Len(scope) : scope[j][n].funct # 0 => j <= Seen(n)
<1>1. Len(scope) \in Nat /\ Has(n) \in SUBSET (1 .. Len(scope)) /\ Has(n) # {}
  BY DEF TypeOK, Found, Has
<1>2. PICK m \in Has(n) : \A k \in Has(n) : k <= m
  BY <1>1, Largest
<1>3. Seen(n) \in Has(n) /\ \A k \in Has(n) : k <= Seen(n)
  BY <1>2 DEF Seen
<1> QED BY <1>3 DEF Has, Site

\* What a use of a name does to the table.
LEMMA ReferTable ==
  ASSUME IInv, NEW n \in Names
  PROVE  /\ Referred(n) \in [Functs -> [Names -> Kinds]]
         /\ \A f \in Functs, m \in Names :
              \/ /\ Referred(n)[f][m] = kinds[f][m]
                 /\ m # n \/ Found(n) \/ (Environment(n) /\ f # Global) \/ (Undefined(n) /\ f # funct)
              \/ /\ m = n /\ f = Site(n) /\ Referred(n)[f][m] \in {"var", "function", "closure"}
                 /\ Environment(n) \/ kinds[f][m] # "label"
              \/ m = n /\ f = funct /\ Undefined(n) /\ Referred(n)[f][m] = "undef"
              \/ /\ m = n /\ f = funct /\ Site(n) # funct /\ kinds[f][m] \notin Settled
                 /\ Referred(n)[f][m] = IF Site(n) = Global THEN "global" ELSE "outer"
                 /\ Referred(n)[Site(n)][n] = "closure"
              \/ /\ m = n /\ f = funct /\ Site(n) # funct /\ kinds[f][m] \notin Settled /\ Found(n)
                 /\ kinds[Site(n)][n] = "undef" /\ Referred(n)[f][m] = "undef"
<1> DEFINE T == Table(n)
<1>1. /\ TypeOK /\ Global \in Functs /\ funct \in Functs /\ Site(n) \in Functs
      /\ kinds \in [Functs -> [Names -> Kinds]] /\ {"var", "undef", "closure", "global", "outer", "function"} \subseteq Kinds
  BY SiteOpen, NamesAssumption DEF IInv, TypeOK, Functs, Global, Kinds
<1>2. /\ ~ (Environment(n) /\ Undefined(n)) /\ ~ (Environment(n) /\ Found(n)) /\ ~ (Undefined(n) /\ Found(n))
      /\ Environment(n) \/ Undefined(n) \/ Found(n)
      /\ Environment(n) => Site(n) = Global
      /\ Undefined(n) => Site(n) = funct
  BY DEF Environment, Undefined, Site
<1>3. /\ T \in [Functs -> [Names -> Kinds]]
      /\ \A f \in Functs, m \in Names :
           T[f][m] = IF m = n /\ f = Global /\ Environment(n) THEN "var"
                     ELSE IF m = n /\ f = funct /\ Undefined(n) THEN "undef" ELSE kinds[f][m]
  <2>1. CASE Environment(n)
    <3>1. T = Kind(Global, n, "var")
      BY <2>1 DEF Table
    <3> QED BY <1>1, <1>2, <2>1, <3>1, KindType
  <2>2. CASE Undefined(n)
    <3>1. T = Kind(funct, n, "undef")
      BY <1>2, <2>2 DEF Table
    <3> QED BY <1>1, <1>2, <2>2, <3>1, KindType
  <2>3. CASE Found(n)
    <3>1. T = kinds
      BY <1>2, <2>3 DEF Table
    <3> QED BY <1>1, <1>2, <2>3, <3>1
  <2> QED BY <1>2, <2>1, <2>2, <2>3
<1> HIDE DEF T
<1>4. CASE Site(n) = funct
  <2>1. Referred(n) = Here(n, T)
    BY <1>4 DEF Referred, T
  <2>2. CASE T[funct][n] \in DOMAIN Own
    <3>1. /\ DOMAIN Own = {"becoming", "unused", "unction"}
          /\ Own[T[funct][n]] \in {"var", "function"}
      BY <2>2 DEF Own
    <3>2. Referred(n) = [T EXCEPT ![funct] = [@ EXCEPT ![n] = Own[T[funct][n]]]]
      BY <2>1, <2>2 DEF Here
    <3> DEFINE k == Own[T[funct][n]]
    <3>3. k \in Kinds /\ k \in {"var", "function", "closure"}
      BY <1>1, <3>1
    <3> HIDE DEF k
    <3>4. /\ Referred(n) \in [Functs -> [Names -> Kinds]]
          /\ \A f \in Functs, m \in Names : Referred(n)[f][m] = IF f = funct /\ m = n THEN k ELSE T[f][m]
      BY <1>1, <1>3, <3>2, <3>3 DEF k
    <3>5. Found(n) \/ Environment(n)
      BY <1>1, <1>2, <1>3, <2>2, <3>1
    <3>6. kinds[funct][n] # "label" \/ Environment(n)
      BY <1>1, <1>2, <1>3, <2>2, <3>1, <3>5
    <3> QED BY <1>1, <1>2, <1>3, <1>4, <3>3, <3>4, <3>5, <3>6
  <2>3. CASE T[funct][n] \notin DOMAIN Own
    <3>1. Referred(n) = T
      BY <2>1, <2>3 DEF Here
    <3> QED BY <1>1, <1>2, <1>3, <1>4, <3>1
  <2> QED BY <2>2, <2>3
<1>5. CASE Site(n) # funct
  <2>1. Referred(n) = There(n, T) /\ ~ Undefined(n)
    BY <1>2, <1>5 DEF Referred, T
  <2>2. \A f \in Functs, m \in Names : T[f][m] = IF m = n /\ f = Global /\ Environment(n) THEN "var" ELSE kinds[f][m]
    BY <1>3, <2>1
  <2>3. T[funct][n] = kinds[funct][n]
    BY <1>1, <1>2, <1>5, <2>2
  <2>4. CASE T[funct][n] \notin Settled /\ T[Site(n)][n] \in Closures
    <3> DEFINE closed == [T EXCEPT ![Site(n)] = [@ EXCEPT ![n] = "closure"]]
               k == IF Site(n) = Global THEN "global" ELSE "outer"
    <3>1. Referred(n) = [closed EXCEPT ![funct] = [@ EXCEPT ![n] = k]]
      BY <2>1, <2>4 DEF There
    <3>2. /\ closed \in [Functs -> [Names -> Kinds]]
          /\ \A f \in Functs, m \in Names : closed[f][m] = IF f = Site(n) /\ m = n THEN "closure" ELSE T[f][m]
      BY ONLY <1>1, <1>3, n \in Names
    <3>3. k \in Kinds
      BY <1>1
    <3> HIDE DEF closed
    <3>4. /\ Referred(n) \in [Functs -> [Names -> Kinds]]
          /\ \A f \in Functs, m \in Names : Referred(n)[f][m] = IF f = funct /\ m = n THEN k ELSE closed[f][m]
      BY <1>1, <3>1, <3>2, <3>3
    <3>5. Environment(n) \/ kinds[Site(n)][n] # "label"
      BY <1>1, <2>2, <2>4 DEF Closures
    <3> HIDE DEF k
    <3>6. Referred(n)[Site(n)][n] = "closure"
      BY <1>1, <1>5, <3>2, <3>4
    <3>7. ASSUME NEW f \in Functs, NEW m \in Names
          PROVE  \/ /\ Referred(n)[f][m] = kinds[f][m]
                    /\ m # n \/ Found(n) \/ (Environment(n) /\ f # Global) \/ (Undefined(n) /\ f # funct)
                 \/ m = n /\ f = Site(n) /\ Referred(n)[f][m] = "closure"
                 \/ m = n /\ f = funct /\ Referred(n)[f][m] = k
      BY <1>2, <2>1, <2>2, <3>2, <3>4
    <3> QED BY <1>5, <2>3, <2>4, <3>4, <3>5, <3>6, <3>7 DEF k
  <2>5. CASE T[funct][n] \notin Settled /\ T[Site(n)][n] \notin Closures /\ T[Site(n)][n] = "undef"
    <3>1. Referred(n) = [T EXCEPT ![funct] = [@ EXCEPT ![n] = "undef"]]
      BY <2>1, <2>5 DEF There
    <3>2. /\ Referred(n) \in [Functs -> [Names -> Kinds]]
          /\ \A f \in Functs, m \in Names : Referred(n)[f][m] = IF f = funct /\ m = n THEN "undef" ELSE T[f][m]
      BY <1>1, <1>3, <3>1
    <3>3. Found(n)
      BY <1>1, <1>2, <2>1, <2>2, <2>5
    <3>4. kinds[Site(n)][n] = "undef"
      BY <1>1, <1>2, <2>2, <2>5, <3>3
    <3> QED BY <1>1, <1>2, <1>5, <2>2, <2>3, <2>5, <3>2, <3>3, <3>4
  <2>6. CASE T[funct][n] \in Settled \/ (T[Site(n)][n] \notin Closures /\ T[Site(n)][n] # "undef")
    <3>1. Referred(n) = T
      BY <2>1, <2>6 DEF There
    <3>2. ASSUME NEW f \in Functs, NEW m \in Names
          PROVE  \/ /\ Referred(n)[f][m] = kinds[f][m]
                    /\ m # n \/ Found(n) \/ (Environment(n) /\ f # Global)
                 \/ m = n /\ f = Site(n) /\ Referred(n)[f][m] = "var" /\ Environment(n)
      BY <1>2, <2>1, <2>2, <3>1
    <3> QED BY <1>3, <3>1, <3>2
  <2> QED BY <2>4, <2>5, <2>6
<1> QED BY <1>4, <1>5

\* The declarations after a use of a name.
Used(n) == IF Undefined(n) THEN [declared EXCEPT ![funct] = [@ EXCEPT ![n] = "early"]] ELSE declared
\* What a use of a name does to the chain and to the declarations.
LEMMA ReferEntry ==
  ASSUME IInv, NEW n \in Names, NEW S2, S2 = Entered(n)
  PROVE  /\ S2 \in Seq(Scopes) /\ Writes(n, scope, funct, S2) /\ Used(n) \in Declarations
         /\ Found(n) => S2 = scope /\ Used(n) = declared
         /\ \A f \in Functs, m \in Names :
              \/ Used(n)[f][m] = declared[f][m] /\ (m # n \/ f # funct \/ ~ Undefined(n))
              \/ m = n /\ f = funct /\ Undefined(n) /\ Used(n)[f][m] = "early"
         /\ \A j \in 1 .. Len(scope), m \in Names :
              \/ S2[j][m] = scope[j][m]
              \/ /\ m = n /\ Environment(n) /\ j = 1 /\ S2[j][m].funct = Global
                 /\ S2[j][m].writeable => predefined[n]
              \/ m = n /\ Undefined(n) /\ j = Len(scope) /\ S2[j][m].funct = funct
<1>1. /\ scope \in Seq(Scopes) /\ Len(scope) \in Nat \ {0} /\ Global \in Functs /\ funct \in Functs
      /\ 1 \in 1 .. Len(scope) /\ Len(scope) \in 1 .. Len(scope) /\ declared \in Declarations
      /\ \A i \in 1 .. Len(scope) : scope[i] \in [Names -> Entry]
  BY ChainOpen, NamesAssumption DEF IInv, TypeOK, Functs, Global, Declarations, Scopes, Entry
<1>2. ~ Found(n) => \A j \in 1 .. Len(scope) : scope[j][n].funct = 0
  BY DEF Found, Has
<1>3. /\ Used(n) \in Declarations
      /\ \A f \in Functs, m \in Names :
           \/ Used(n)[f][m] = declared[f][m] /\ (m # n \/ f # funct \/ ~ Undefined(n))
           \/ m = n /\ f = funct /\ Undefined(n) /\ Used(n)[f][m] = "early"
  BY <1>1 DEF Used, Declarations
<1>4. CASE Found(n)
  BY <1>1, <1>3, <1>4 DEF Entered, Environment, Undefined, Used, Writes
<1>5. CASE Environment(n)
  <2> DEFINE v == Variable(Global, predefined[n])
  <2>1. predefined[n] \in BOOLEAN
    BY <1>5, NamesAssumption DEF IInv, TypeOK, Environment
  <2>2. S2 = [scope EXCEPT ![1] = [@ EXCEPT ![n] = v]]
    BY <1>5 DEF Entered
  <2>3. v \in Entry /\ v.funct = Global /\ (v.writeable => predefined[n])
    BY <1>1, <2>1, VariableType DEF Variable
  <2> HIDE DEF v
  <2>4. /\ S2 \in Seq(Scopes) /\ Len(S2) = Len(scope) /\ S2[1] = [scope[1] EXCEPT ![n] = v]
        /\ \A j \in 1 .. Len(scope) : \A m \in Names : S2[j][m] = scope[j][m] \/ (j = 1 /\ m = n)
    <3>1. scope \in Seq(Scopes) /\ 1 \in 1 .. Len(scope) /\ v \in Entry
      BY <1>1, <2>3
    <3> QED BY ONLY <2>2, <3>1, n \in Names, EntryAt
  <2>5. S2[1][n] = v
    BY <1>1, <2>4
  <2>6. ~ Found(n)
    BY <1>5 DEF Environment
  <2> QED BY <1>1, <1>2, <1>3, <1>5, <2>3, <2>4, <2>5, <2>6 DEF Writes
<1>6. CASE Undefined(n)
  <2> DEFINE v == Variable(funct, TRUE)
  <2>1. S2 = [scope EXCEPT ![Len(scope)] = [@ EXCEPT ![n] = v]]
    BY <1>6 DEF Entered, Environment, Undefined
  <2>n. ~ Found(n)
    BY <1>6 DEF Undefined
  <2>2. v \in Entry /\ v.funct = funct
    BY <1>1, VariableType
  <2> HIDE DEF v
  <2>3. /\ S2 \in Seq(Scopes) /\ Len(S2) = Len(scope) /\ S2[Len(scope)] = [scope[Len(scope)] EXCEPT ![n] = v]
        /\ \A j \in 1 .. Len(scope) : \A m \in Names : S2[j][m] = scope[j][m] \/ (j = Len(scope) /\ m = n)
    <3> DEFINE l == Len(scope)
    <3>1. scope \in Seq(Scopes) /\ l \in 1 .. Len(scope) /\ v \in Entry /\ S2 = [scope EXCEPT ![l] = [@ EXCEPT ![n] = v]]
      BY <1>1, <2>1, <2>2
    <3> HIDE DEF l
    <3>2. /\ S2 \in Seq(Scopes) /\ Len(S2) = Len(scope) /\ S2[l] = [scope[l] EXCEPT ![n] = v]
          /\ \A j \in 1 .. Len(scope) : \A m \in Names : S2[j][m] = scope[j][m] \/ (j = l /\ m = n)
      BY ONLY <3>1, n \in Names, EntryAt
    <3> QED BY <3>2 DEF l
  <2>4. S2[Len(scope)][n] = v
    BY <1>1, <2>3
  <2> QED BY <1>1, <1>2, <1>3, <1>6, <2>n, <2>2, <2>3, <2>4 DEF Writes
<1> QED BY <1>4, <1>5, <1>6 DEF Environment, Undefined

\* Where the entry of a name is of another function, that function is around the
\* one that is read, which has no entry of the name.
LEMMA SiteAround ==
  ASSUME IInv, NEW n \in Names, Sited(scope, nest, funct), Found(n), Site(n) # funct
  PROVE  /\ Site(n) \in 1 .. funct - 1
         /\ \A j \in 1 .. Len(scope) : scope[j][n].funct # funct
<1>1. /\ Seen(n) \in 1 .. Len(scope) /\ scope[Seen(n)][n].funct # 0 /\ Site(n) = scope[Seen(n)][n].funct
      /\ \A j \in 1 .. Len(scope) : scope[j][n].funct # 0 => j <= Seen(n)
  BY SeenLast DEF IInv
<1>2. Site(n) \in Nat /\ funct \in Nat \ {0} /\ Len(scope) \in Nat /\ Site(n) # 0
  <2>1. Site(n) \in Functs /\ funct \in Functs /\ Len(scope) \in Nat
    BY SiteOpen DEF IInv, TypeOK
  <2> QED BY <2>1, NamesAssumption DEF Functs
<1>3. Site(n) <= funct
  BY <1>1 DEF Sited
<1>4. ASSUME NEW j \in 1 .. Len(scope), scope[j][n].funct = funct PROVE FALSE
  <2>1. j <= Seen(n)
    BY <1>1, <1>2, <1>4
  <2>2. j # Seen(n)
    BY <1>1, <1>4
  <2>3. Seen(n) \in j + 1 .. Len(scope)
    BY ONLY <1>1, <1>2, <2>1, <2>2, j \in 1 .. Len(scope)
  <2>4. funct <= Site(n)
    BY <1>1, <1>2, <1>4, <2>3 DEF Sited
  <2> QED BY <1>2, <1>3, <2>4
<1>5. Site(n) \in 1 .. funct - 1
  BY ONLY <1>2, <1>3, Site(n) # funct
<1> QED BY <1>4, <1>5

\* A use of a name keeps Shape.
LEMMA ReferShape ==
  ASSUME IInv, NEW n \in Names, Shape(kinds, scope, declared, nest, funct, last, predefined)
  PROVE  /\ Shape(Referred(n), Entered(n), Used(n), nest, funct, last, predefined)
         /\ Typed(Referred(n), Entered(n), Used(n), nest, funct)
<1> DEFINE K2 == Referred(n)
           S2 == Entered(n)
           D2 == Used(n)
<1>1. /\ S2 \in Seq(Scopes) /\ Writes(n, scope, funct, S2) /\ D2 \in Declarations
      /\ Found(n) => S2 = scope /\ D2 = declared
      /\ \A f \in Functs, m \in Names :
           \/ D2[f][m] = declared[f][m] /\ (m # n \/ f # funct \/ ~ Undefined(n))
           \/ m = n /\ f = funct /\ Undefined(n) /\ D2[f][m] = "early"
      /\ \A j \in 1 .. Len(scope), m \in Names :
           \/ S2[j][m] = scope[j][m]
           \/ /\ m = n /\ Environment(n) /\ j = 1 /\ S2[j][m].funct = Global
              /\ S2[j][m].writeable => predefined[n]
           \/ m = n /\ Undefined(n) /\ j = Len(scope) /\ S2[j][m].funct = funct
  BY ReferEntry
<1>2. /\ K2 \in [Functs -> [Names -> Kinds]]
      /\ \A f \in Functs, m \in Names :
           \/ /\ K2[f][m] = kinds[f][m]
              /\ m # n \/ Found(n) \/ (Environment(n) /\ f # Global) \/ (Undefined(n) /\ f # funct)
           \/ /\ m = n /\ f = Site(n) /\ K2[f][m] \in {"var", "function", "closure"}
              /\ Environment(n) \/ kinds[f][m] # "label"
           \/ m = n /\ f = funct /\ Undefined(n) /\ K2[f][m] = "undef"
           \/ /\ m = n /\ f = funct /\ Site(n) # funct /\ kinds[f][m] \notin Settled
              /\ K2[f][m] = IF Site(n) = Global THEN "global" ELSE "outer"
              /\ K2[Site(n)][n] = "closure"
           \/ /\ m = n /\ f = funct /\ Site(n) # funct /\ kinds[f][m] \notin Settled /\ Found(n)
              /\ kinds[Site(n)][n] = "undef" /\ K2[f][m] = "undef"
  BY ReferTable
<1>3. /\ funct \in Functs /\ funct \in Nat /\ last \in Nat /\ funct <= last /\ Site(n) \in Functs /\ Site(n) <= last
      /\ nest \in Seq(Openings) /\ scope \in Seq(Scopes) /\ kinds \in [Functs -> [Names -> Kinds]] /\ declared \in Declarations
  <2>1. /\ funct \in Functs /\ funct \in Nat /\ last \in Nat /\ funct <= last /\ Site(n) \in Functs /\ Global \in Nat
        /\ nest \in Seq(Openings) /\ scope \in Seq(Scopes) /\ kinds \in [Functs -> [Names -> Kinds]] /\ declared \in Declarations
    BY SiteOpen DEF IInv, TypeOK, Functs, Shape, Nested, Declarations, Global
  <2>2. Site(n) <= last
    <3>1. CASE Found(n) /\ Site(n) # funct
      <4>1. Site(n) \in 1 .. funct - 1
        BY <3>1, SiteAround DEF Shape
      <4> QED BY <2>1, <4>1
    <3>2. CASE ~ Found(n)
      <4>1. Site(n) \in {Global, funct} /\ 1 <= last
        BY <2>1, <3>2 DEF Site, Functs
      <4> QED BY <2>1, <4>1 DEF Global
    <3> QED BY <2>1, <3>1, <3>2
  <2> QED BY <2>1, <2>2
<1> HIDE DEF K2, S2, D2
<1>4. Typed(kinds, scope, declared, nest, funct) /\ Typed(K2, S2, D2, nest, funct)
  BY <1>1, <1>2, <1>3 DEF Typed
<1>5. Nested(S2, nest, funct, last) /\ Sited(S2, nest, funct)
  BY <1>1, <1>3, <1>4, WriteSited DEF Shape
<1>6. Noted(K2, S2)
  <2> SUFFICES ASSUME NEW j \in 1 .. Len(S2), NEW m \in Names, S2[j][m].funct # 0
               PROVE  K2[S2[j][m].funct][m] \notin {"none", "outer", "global"}
    BY DEF Noted
  <2>1. j \in 1 .. Len(scope)
    BY <1>1 DEF Writes
  <2>2. S2[j][m].funct \in Functs
    <3>1. S2[j][m].funct \in 0 .. MaxFunctions
      BY <1>4, Numbers
    <3> QED BY <3>1, NamesAssumption DEF Functs
  <2>3. CASE S2[j][m] = scope[j][m]
    <3>1. kinds[S2[j][m].funct][m] \notin {"none", "outer", "global"}
      BY <2>1, <2>3 DEF Shape, Noted
    <3>2. m = n /\ S2[j][m].funct = funct => ~ (Site(n) # funct)
      <4> SUFFICES ASSUME m = n, S2[j][m].funct = funct, Site(n) # funct PROVE FALSE
        OBVIOUS
      <4>1. Found(n)
        BY <2>1, <2>3 DEF Found, Has
      <4> QED BY <2>1, <2>3, <4>1, SiteAround DEF Shape
    <3> QED BY <1>2, <2>2, <3>1, <3>2
  <2>4. CASE m = n /\ Environment(n) /\ S2[j][m].funct = Global
    <3>1. Site(n) = Global /\ ~ Found(n) /\ ~ Undefined(n)
      BY <2>4 DEF Site, Environment, Undefined
    <3> QED BY <1>2, <2>2, <2>4, <3>1
  <2>5. CASE m = n /\ Undefined(n) /\ S2[j][m].funct = funct
    <3>1. Site(n) = funct /\ ~ Found(n) /\ ~ Environment(n)
      BY <2>5 DEF Site, Environment, Undefined
    <3> QED BY <1>2, <2>2, <2>5, <3>1
  <2> QED BY <1>1, <2>1, <2>3, <2>4, <2>5
<1>7. Unread(K2, D2, last)
  <2> SUFFICES ASSUME NEW f \in Functs, NEW m \in Names, f > last PROVE K2[f][m] = "none" /\ D2[f][m] = "no"
    BY DEF Unread
  <2>1. f # funct /\ f # Site(n)
    <3>1. f \in Nat
      BY NamesAssumption DEF Functs
    <3>2. Site(n) \in Nat
      BY <1>3, NamesAssumption DEF Functs
    <3> QED BY <1>3, <3>1, <3>2
  <2> QED BY <1>1, <1>2, <2>1 DEF Shape, Unread
<1>8. Predefined(S2, D2, predefined)
  <2>1. DOMAIN predefined \subseteq Names
    BY NamesAssumption DEF IInv, TypeOK
  <2>2. ASSUME NEW m \in DOMAIN predefined, NEW f \in Functs PROVE D2[f][m] # "early"
    <3>1. ~ (m = n /\ Undefined(n)) /\ m \in Names
      BY <2>1 DEF Undefined
    <3> QED BY <1>1, <3>1 DEF Shape, Predefined
  <2>3. ASSUME NEW m \in DOMAIN predefined, NEW j \in 1 .. Len(S2), S2[j][m].funct = Global, S2[j][m].writeable
        PROVE  predefined[m]
    <3>1. j \in 1 .. Len(scope) /\ m \in Names /\ ~ (m = n /\ Undefined(n))
      BY <1>1, <2>1 DEF Writes, Undefined
    <3>2. CASE S2[j][m] = scope[j][m]
      BY <2>3, <3>1, <3>2 DEF Shape, Predefined
    <3> QED BY <1>1, <2>3, <3>1, <3>2
  <2> QED BY <2>2, <2>3 DEF Predefined
<1>9. Shape(K2, S2, D2, nest, funct, last, predefined)
  BY <1>5, <1>6, <1>7, <1>8 DEF Shape
<1> QED BY <1>4, <1>9 DEF K2, S2, D2

\* It keeps the parts of Clean.
LEMMA ReferClean ==
  ASSUME IInv, NEW n \in Names, Shape(kinds, scope, declared, nest, funct, last, predefined),
         Clean(kinds, scope, declared, nest, funct), Named(nest)
  PROVE  Clean(Referred(n), Entered(n), Used(n), nest, funct)
<1> DEFINE K2 == Referred(n)
           S2 == Entered(n)
           D2 == Used(n)
<1>1. /\ S2 \in Seq(Scopes) /\ Writes(n, scope, funct, S2) /\ D2 \in Declarations
      /\ Found(n) => S2 = scope /\ D2 = declared
      /\ \A f \in Functs, m \in Names :
           \/ D2[f][m] = declared[f][m] /\ (m # n \/ f # funct \/ ~ Undefined(n))
           \/ m = n /\ f = funct /\ Undefined(n) /\ D2[f][m] = "early"
      /\ \A j \in 1 .. Len(scope), m \in Names :
           \/ S2[j][m] = scope[j][m]
           \/ /\ m = n /\ Environment(n) /\ j = 1 /\ S2[j][m].funct = Global
              /\ S2[j][m].writeable => predefined[n]
           \/ m = n /\ Undefined(n) /\ j = Len(scope) /\ S2[j][m].funct = funct
  BY ReferEntry
<1>2. /\ K2 \in [Functs -> [Names -> Kinds]]
      /\ \A f \in Functs, m \in Names :
           \/ /\ K2[f][m] = kinds[f][m]
              /\ m # n \/ Found(n) \/ (Environment(n) /\ f # Global) \/ (Undefined(n) /\ f # funct)
           \/ /\ m = n /\ f = Site(n) /\ K2[f][m] \in {"var", "function", "closure"}
              /\ Environment(n) \/ kinds[f][m] # "label"
           \/ m = n /\ f = funct /\ Undefined(n) /\ K2[f][m] = "undef"
           \/ /\ m = n /\ f = funct /\ Site(n) # funct /\ kinds[f][m] \notin Settled
              /\ K2[f][m] = IF Site(n) = Global THEN "global" ELSE "outer"
              /\ K2[Site(n)][n] = "closure"
           \/ /\ m = n /\ f = funct /\ Site(n) # funct /\ kinds[f][m] \notin Settled /\ Found(n)
              /\ kinds[Site(n)][n] = "undef" /\ K2[f][m] = "undef"
  BY ReferTable
<1>3. Typed(K2, S2, D2, nest, funct)
  BY ReferShape
<1>4. /\ funct \in Functs /\ funct \in Within(nest, funct) /\ Site(n) \in Functs /\ Site(n) \in Within(nest, funct)
      /\ Len(scope) \in Nat /\ Typed(kinds, scope, declared, nest, funct) /\ funct \in Nat /\ funct <= funct
      /\ Site(n) \in Nat /\ (Found(n) /\ Site(n) # funct => Site(n) \in 1 .. funct - 1)
  <2>1. /\ funct \in Functs /\ Len(scope) \in Nat /\ Typed(kinds, scope, declared, nest, funct) /\ funct \in Nat
        /\ funct <= funct
    BY DEF IInv, TypeOK, Typed, Declarations, Functs
  <2>2. OpenFuncts = Within(nest, funct)
    BY DEF OpenFuncts, Within
  <2>3. Site(n) \in Functs /\ Site(n) \in Within(nest, funct) /\ funct \in Within(nest, funct)
    BY <2>2, SiteOpen DEF IInv, Within
  <2>4. Found(n) /\ Site(n) # funct => Site(n) \in 1 .. funct - 1
    BY SiteAround DEF Shape
  <2>5. Site(n) \in Nat
    BY <2>3, NamesAssumption DEF Functs
  <2> QED BY <2>1, <2>3, <2>4, <2>5
<1> HIDE DEF K2, S2, D2
<1>5. \A f \in Functs, m \in Names :
        /\ declared[f][m] = "early" => D2[f][m] = "early"
        /\ D2[f][m] = "no" => declared[f][m] = "no"
        /\ D2[f][m] = "body" => declared[f][m] = "body"
  BY <1>1
<1>6. ASSUME NEW f \in Functs, NEW m \in Names, K2[f][m] = "undef"
      PROVE  kinds[f][m] = "undef" \/ Soon(D2, nest, funct, f, m)
  <2>1. CASE m = n /\ f = funct /\ Undefined(n)
    <3>1. D2[funct][n] = "early"
      BY <1>1, <1>4, <2>1
    <3> QED BY <1>4, <2>1, <3>1 DEF Soon
  <2>2. CASE m = n /\ f = funct /\ Site(n) # funct /\ Found(n) /\ kinds[Site(n)][n] = "undef"
    <3>1. D2 = declared
      BY <1>1, <2>2
    <3>2. PICK g \in Within(nest, funct) : g <= Site(n) /\ declared[g][n] = "early"
      BY <1>4, <2>2 DEF Clean, Undefs, Soon
    <3>3. g \in Nat
      <4>1. \A i \in 1 .. Len(nest) : nest[i].funct \in Nat
        BY <1>4, Numbers
      <4> QED BY <1>4, <4>1 DEF Within
    <3>4. g <= funct
      BY ONLY <1>4, <2>2, <3>2, <3>3
    <3> QED BY <2>2, <3>1, <3>2, <3>4 DEF Soon
  <2> QED BY <1>2, <1>6, <2>1, <2>2
<1>7. ASSUME NEW f \in Functs, NEW m \in Names, K2[f][m] \in {"outer", "global"}, kinds[f][m] \notin {"outer", "global"}
      PROVE  Nearer(K2, S2, f, m)
  <2>1. m = n /\ f = funct /\ Site(n) # funct /\ K2[Site(n)][n] = "closure" /\ ~ Undefined(n)
    BY <1>2, <1>7 DEF Undefined, Site, Environment
  <2> SUFFICES ASSUME NEW j \in 1 .. Len(S2), S2[j][n].funct \in 1 .. funct - 1, K2[S2[j][n].funct][n] = "label"
               PROVE  \E k \in j + 1 .. Len(S2) : S2[k][n].funct \in 1 .. funct - 1
    BY <2>1 DEF Nearer
  <2>2. CASE Found(n)
    <3>1. S2 = scope
      BY <1>1, <2>2
    <3>2. /\ Seen(n) \in 1 .. Len(scope) /\ Site(n) = scope[Seen(n)][n].funct
          /\ j <= Seen(n)
      BY <1>4, <2>2, <3>1, SeenLast DEF IInv
    <3>3. j # Seen(n)
      BY <2>1, <3>1, <3>2
    <3>4. Seen(n) \in j + 1 .. Len(scope)
      BY ONLY <1>4, <3>1, <3>2, <3>3, j \in 1 .. Len(S2)
    <3> QED BY <1>4, <2>1, <2>2, <3>1, <3>2, <3>4
  <2>3. CASE Environment(n)
    <3>1. j \in 1 .. Len(scope) /\ scope[j][n].funct = 0
      BY <1>1, <2>3 DEF Writes, Environment, Found, Has
    <3>2. S2[j][n].funct = Global /\ Site(n) = Global
      BY <1>1, <1>4, <2>1, <2>3, <3>1 DEF Site, Environment
    <3> QED BY <2>1, <3>2
  <2> QED BY <2>1, <2>2, <2>3 DEF Undefined, Environment
<1>8. ASSUME NEW j \in 1 .. Len(scope), NEW m \in Names, S2[j][m].funct # 0
      PROVE  \/ /\ S2[j][m] = scope[j][m]
                /\ K2[scope[j][m].funct][m] = "label" <=> kinds[scope[j][m].funct][m] = "label"
             \/ /\ K2[S2[j][m].funct][m] # "label"
                /\ S2[j][m].funct = Global \/ D2[S2[j][m].funct][m] # "no"
  <2>1. S2[j][m].funct \in Functs
    <3>1. S2[j][m].funct \in 0 .. MaxFunctions
      BY <1>1, <1>3, Numbers DEF Writes
    <3> QED BY <1>8, <3>1, NamesAssumption DEF Functs
  <2>2. CASE S2[j][m] = scope[j][m]
    <3>1. m = n => Found(n) /\ ~ Environment(n) /\ ~ Undefined(n)
      BY <1>8, <2>2 DEF Found, Has, Environment, Undefined
    <3>2. K2[scope[j][m].funct][m] = "label" <=> kinds[scope[j][m].funct][m] = "label"
      BY <1>2, <2>1, <2>2, <3>1 DEF Settled
    <3> QED BY <2>2, <3>2
  <2>3. CASE m = n /\ Environment(n) /\ S2[j][m].funct = Global
    <3>1. ~ Found(n) /\ ~ Undefined(n) /\ Site(n) = Global
      BY <2>3 DEF Environment, Undefined, Site
    <3>2. K2[Global][n] # "label"
      BY <1>2, <2>1, <2>3, <3>1
    <3> QED BY <2>3, <3>2
  <2>4. CASE m = n /\ Undefined(n) /\ S2[j][m].funct = funct
    <3>1. ~ Found(n) /\ ~ Environment(n) /\ Site(n) = funct
      BY <2>4 DEF Environment, Undefined, Site
    <3>2. K2[funct][n] # "label" /\ D2[funct][n] # "no"
      BY <1>1, <1>2, <1>4, <2>4, <3>1
    <3> QED BY <2>4, <3>2
  <2> QED BY <1>1, <2>2, <2>3, <2>4
<1>9. Alters(kinds, scope, declared, nest, funct, K2, S2, D2)
  BY <1>5, <1>6, <1>7, <1>8 DEF Alters
<1>10. Nested(scope, nest, funct, last)
  BY DEF Shape
<1>11. /\ Labels(kinds, scope, nest) /\ Entries(kinds, scope, declared, nest) /\ Undefs(kinds, declared, nest, funct)
       /\ Bodies(scope, declared, nest, funct) /\ Catches(scope, declared, nest, funct) /\ Outers(kinds, scope, nest, funct)
  BY DEF Clean
<1>12. Typed(kinds, scope, declared, nest, funct) /\ Writes(n, scope, funct, S2)
  BY <1>1, <1>4
<1>13. /\ Labels(K2, S2, nest) /\ Entries(K2, S2, D2, nest) /\ Undefs(K2, D2, nest, funct)
       /\ Bodies(S2, D2, nest, funct) /\ Outers(K2, S2, nest, funct)
       /\ \A f, m : m \in Names /\ Soon(declared, nest, funct, f, m) => Soon(D2, nest, funct, f, m)
  BY ONLY <1>3, <1>9, <1>10, <1>11, <1>12, WriteClean
<1>14. \A i \in 1 .. Len(nest) : nest[i].kind = "catch" => nest[i].name \in Names
  BY DEF Named
<1>15. Catches(S2, D2, nest, funct)
  BY ONLY <1>3, <1>11, <1>12, <1>13, <1>14, WriteCatches
<1> QED BY <1>13, <1>15 DEF Clean, K2, S2, D2

(********************************* the steps ********************************)
NamesInv ==
  /\ IInv /\ Named(nest)
  /\ Shape(kinds, scope, declared, nest, funct, last, predefined)
  /\ errors = <<>> => Clean(kinds, scope, declared, nest, funct)

\* The types, as the lemmas ask for them.
LEMMA TypedHere ==
  ASSUME IInv
  PROVE  /\ Typed(kinds, scope, declared, nest, funct) /\ last \in Nat /\ \A m \in DOMAIN predefined : m \in Names
         /\ Len(nest) \in Nat /\ Len(scope) \in Nat /\ nest \in Seq(Openings) /\ scope \in Seq(Scopes)
         /\ \A i \in 1 .. Len(nest) : nest[i] \in Openings /\ nest[i].funct # 0
<1>1. \A m \in DOMAIN predefined : m \in Names
  BY NamesAssumption DEF IInv, TypeOK
<1>2. \A i \in 1 .. Len(nest) : nest[i] \in Openings /\ nest[i].funct # 0
  <2>1. \A i \in 1 .. Len(nest) : nest[i] \in Openings
    BY DEF IInv, TypeOK
  <2> QED BY <2>1, NamesAssumption DEF Openings, Functs
<1> QED BY <1>1, <1>2 DEF IInv, TypeOK, Typed, Declarations, Functs

\* Something more is open.
LEMMA PushHere ==
  ASSUME IInv, Named(nest), NEW kind \in Openers, NEW n \in Names \cup {NoName}, Open(kind, n), kind = "catch" => n \in Names
  PROVE  /\ Pushed(nest, Opened(kind, n), nest') /\ nest' \in Seq(Openings) /\ Named(nest')
         /\ Opened(kind, n).kind = kind /\ Opened(kind, n).name = n
         /\ Opened(kind, n).funct = funct /\ Opened(kind, n).depth = Len(scope)
         /\ Len(nest') = Len(nest) + 1 /\ nest'[Len(nest')] = Opened(kind, n)
<1>1. nest' = Append(nest, Opened(kind, n)) /\ Opened(kind, n) \in Openings /\ nest' \in Seq(Openings)
  BY OpenType DEF IInv
<1>2. nest \in Seq(Openings) /\ Len(nest) \in Nat
  BY DEF IInv, TypeOK
<1>3. Pushed(nest, Opened(kind, n), nest')
  BY <1>1, <1>2, AppendProperties DEF Pushed
<1>4. Opened(kind, n).kind = kind /\ Opened(kind, n).name = n
  BY DEF Opened
<1>5. Named(nest')
  <2> SUFFICES ASSUME NEW i \in 1 .. Len(nest'), nest'[i].kind = "catch" PROVE nest'[i].name \in Names
    BY DEF Named
  <2>1. CASE i \in 1 .. Len(nest)
    BY <1>3, <2>1 DEF Pushed, Named
  <2>2. CASE i = Len(nest) + 1
    BY <1>3, <1>4, <2>2 DEF Pushed
  <2> QED BY <1>2, <1>3, <2>1, <2>2 DEF Pushed
<1>6. Opened(kind, n).funct = funct /\ Opened(kind, n).depth = Len(scope)
  BY DEF Opened
<1>7. Len(nest') = Len(nest) + 1 /\ nest'[Len(nest')] = Opened(kind, n)
  BY <1>3 DEF Pushed
<1> QED BY <1>1, <1>3, <1>4, <1>5, <1>6, <1>7

\* A scope more.
LEMMA BlankHere ==
  ASSUME IInv, NEW S2, S2 = Append(scope, Empty)
  PROVE  S2 \in Seq(Scopes) /\ Blank(scope, S2) /\ Len(S2) = Len(scope) + 1
<1>1. scope \in Seq(Scopes) /\ Empty \in Scopes /\ \A m \in Names : Empty[m].funct = 0
  BY EmptyType DEF IInv, TypeOK
<1> QED BY <1>1, AppendProperties DEF Blank, Longer

\* What is said to be used soon is so when more is open.
LEMMA SoonPush ==
  ASSUME NEW N, NEW N2, Len(N) \in Nat, NEW it, NEW F, it.funct = F, Pushed(N, it, N2), NEW D
  PROVE  \A f, m : Soon(D, N, F, f, m) => Soon(D, N2, F, f, m)
<1>1. Within(N2, F) = Within(N, F) \cup {F}
  BY WithinPush
<1> QED BY <1>1 DEF Soon

\* Another opening in the same function keeps Clean.
LEMMA PushClean ==
  ASSUME NEW K, NEW S, NEW D, NEW N, NEW F, Typed(K, S, D, N, F), Clean(K, S, D, N, F), Named(N),
         NEW it, it.kind # "catch", it.funct = F, it.depth = Len(S), NEW N2, Pushed(N, it, N2),
         NEW S2, S2 = S \/ Blank(S, S2)
  PROVE  Clean(K, S2, D, N2, F)
<1>1. /\ Labels(K, S, N) /\ Entries(K, S, D, N) /\ Undefs(K, D, N, F) /\ Bodies(S, D, N, F)
      /\ Catches(S, D, N, F) /\ Outers(K, S, N, F)
  BY DEF Clean
<1>2. /\ Labels(K, S2, N2) /\ Entries(K, S2, D, N2) /\ Undefs(K, D, N2, F)
      /\ Bodies(S2, D, N2, F) /\ Outers(K, S2, N2, F)
  BY <1>1, OpenBlockClean
<1>3. /\ Len(S) \in Nat /\ Len(N) \in Nat /\ N \in Seq(Openings) /\ Catches(S, D, N, F) /\ Named(N)
      /\ Pushed(N, it, N2) /\ it.funct = F /\ it.depth = Len(S)
  BY <1>1, Numbers DEF Typed
<1>4. Grown(S, S2)
  BY <1>3 DEF Grown, Blank, Longer
<1>5. Sooner(D, N, F, D, N2, F) /\ Caught(it, S2, D, N2, F)
  BY <1>3, SoonPush DEF Sooner, Caught
<1>6. Catches(S2, D, N2, F)
  BY ONLY <1>3, <1>4, <1>5, CatchesPush
<1> QED BY <1>2, <1>6 DEF Clean

\* The beginning of a block.
LEMMA BlockNames == ASSUME NamesInv, NEW kind \in {"block", "try"}, block(kind) PROVE NamesInv'
<1>1. IInv' /\ IInv /\ Named(nest) /\ Shape(kinds, scope, declared, nest, funct, last, predefined)
  BY BlockStep DEF NamesInv
<1>2. /\ Pushed(nest, Opened(kind, NoName), nest') /\ Named(nest') /\ Opened(kind, NoName).kind = kind
      /\ Opened(kind, NoName).funct = funct /\ Opened(kind, NoName).depth = Len(scope)
  BY <1>1, PushHere DEF block, Openers
<1>3. Blank(scope, scope') /\ kinds' = kinds /\ declared' = declared /\ funct' = funct /\ last' = last /\ predefined' = predefined
  BY <1>1, BlankHere DEF block
<1>4. kind \notin OfFunction /\ kind # "catch"
  BY DEF OfFunction
<1>5. Shape(kinds', scope', declared', nest', funct', last', predefined')
  BY <1>1, <1>2, <1>3, <1>4, TypedHere, OpenBlockShape
<1>6. ASSUME errors' = <<>> PROVE Clean(kinds', scope', declared', nest', funct')
  <2>1. errors = <<>>
    <3>1. <<>> \in Seq(Keys)
      OBVIOUS
    <3> QED BY <1>6, <3>1, WarnSilent DEF block, IInv, TypeOK, NamesInv
  <2>2. Clean(kinds, scope, declared, nest, funct) /\ Typed(kinds, scope, declared, nest, funct)
    BY <1>1, <2>1, TypedHere DEF NamesInv
  <2>3. Clean(kinds, scope', declared, nest', funct)
    BY ONLY <1>1, <1>2, <1>3, <1>4, <2>2, PushClean
  <2> QED BY <1>3, <2>3
<1> QED BY <1>1, <1>2, <1>5, <1>6 DEF NamesInv

\* Who ends without complaint had none before.
LEMMA Quiet ==
  ASSUME NamesInv, NEW ms \in Seq(Keys), NEW then, warn(ms, then), errors' = <<>>
  PROVE  ms = <<>> /\ errors = <<>> /\ Clean(kinds, scope, declared, nest, funct)
<1>1. ReportTypeOK(Keys)
  BY DEF NamesInv, IInv, TypeOK
<1>2. ms = <<>> /\ errors = <<>>
  BY ONLY <1>1, ms \in Seq(Keys), warn(ms, then), errors' = <<>>, WarnSilent
<1> QED BY <1>2 DEF NamesInv

\* The end of anything.
LEMMA CloseNames ==
  ASSUME NamesInv, Top # "global", Close, scope' = SubSeq(scope, 1, Innermost.depth), funct' = Innermost.funct,
         kinds' = kinds, declared' = declared, last' = last, predefined' = predefined, IInv',
         warn(<<>>, "running")
  PROVE  NamesInv'
<1>1. /\ IInv /\ Named(nest) /\ Shape(kinds, scope, declared, nest, funct, last, predefined)
      /\ Typed(kinds, scope, declared, nest, funct) /\ last \in Nat /\ nest \in Seq(Openings) /\ scope \in Seq(Scopes)
  BY TypedHere DEF NamesInv
<1>2. nest # <<>> /\ Innermost.depth \in 1 .. Len(scope)
  BY <1>1, CloseType DEF IInv
<1>3. Len(nest) \in Nat \ {0} /\ Len(nest) - 1 \in 0 .. Len(nest) /\ Len(scope) \in Nat
  BY <1>1, <1>2, EmptySeq, LenProperties
<1>4. Len(nest') = Len(nest) - 1 /\ \A i \in 1 .. Len(nest) - 1 : nest'[i] = nest[i]
  BY <1>1, <1>3, Shorter DEF Close
<1>5. Len(scope') = Innermost.depth /\ \A j \in 1 .. Len(scope') : scope'[j] = scope[j]
  <2>1. Innermost.depth \in 0 .. Len(scope)
    BY <1>2, <1>3
  <2> QED BY <1>1, <2>1, Shorter
<1>6. Popped(scope, nest, scope', nest') /\ funct' = nest[Len(nest)].funct
  BY <1>3, <1>4, <1>5 DEF Popped, Innermost
<1>7. Shape(kinds', scope', declared', nest', funct', last', predefined')
  BY <1>1, <1>6, CloseShape
<1>8. ASSUME errors' = <<>> PROVE Clean(kinds', scope', declared', nest', funct')
  <2>1. Clean(kinds, scope, declared, nest, funct)
    <3>1. <<>> \in Seq(Keys)
      OBVIOUS
    <3> QED BY <1>8, <3>1, Quiet
  <2> QED BY <1>1, <1>6, <2>1, CloseClean
<1>9. Named(nest')
  BY <1>1, <1>3, <1>4 DEF Named
<1> QED BY <1>7, <1>8, <1>9 DEF NamesInv

\* The end of a block, a try, a catch clause or a labelled loop, or of a function.
LEMMA EndNames == ASSUME NamesInv, end_block \/ end_function PROVE NamesInv'
<1>1. IInv /\ IInv'
  BY EndBlockStep, EndFunctionStep DEF NamesInv
<1>2. Top # "global" /\ funct' = Innermost.funct
  BY <1>1, CloseType DEF IInv, end_block, end_function
<1> QED BY <1>1, <1>2, CloseNames DEF end_block, end_function

\* Names of a function that come to be used, and nothing else.
Uses(K, K2) == \A f \in Functs, m \in Names :
  K2[f][m] = K[f][m] \/ (K[f][m] \in {"becoming", "unused"} /\ K2[f][m] \in {"unused", "var"})
LEMMA UsesKept ==
  ASSUME NEW K, NEW S, NEW D, NEW N, NEW F, Typed(K, S, D, N, F), NEW l, NEW P, Shape(K, S, D, N, F, l, P),
         NEW K2, Uses(K, K2)
  PROVE  Shape(K2, S, D, N, F, l, P) /\ (Clean(K, S, D, N, F) => Clean(K2, S, D, N, F))
<1>1. /\ \A j \in 1 .. Len(S), m \in Names : S[j][m].funct # 0 => S[j][m].funct \in Functs
      /\ \A f \in Within(N, F) : f \in Functs
  <2>1. /\ \A j \in 1 .. Len(S), m \in Names : S[j][m].funct # 0 => S[j][m].funct \in Functs
        /\ F \in Functs /\ \A i \in 1 .. Len(N) : N[i] \in Openings
    <3>1. \A j \in 1 .. Len(S), m \in Names : S[j][m].funct \in 0 .. MaxFunctions
      BY Numbers
    <3>2. F \in Functs /\ \A i \in 1 .. Len(N) : N[i] \in Openings
      BY DEF Typed
    <3> QED BY ONLY <3>1, <3>2, NamesAssumption DEF Functs
  <2> QED BY <2>1 DEF Within, Openings
<1>2. \A f \in Functs, m \in Names :
        /\ K2[f][m] \in {"none", "outer", "global", "label", "undef"} => K2[f][m] = K[f][m]
        /\ K[f][m] \in {"none", "outer", "global", "label", "undef"} => K2[f][m] = K[f][m]
  BY DEF Uses
<1>3. Noted(K2, S) /\ Unread(K2, D, l)
  BY <1>1, <1>2 DEF Shape, Noted, Unread
<1>4. ASSUME Clean(K, S, D, N, F) PROVE Clean(K2, S, D, N, F)
  <2>1. Labels(K2, S, N)
    BY <1>1, <1>2, <1>4 DEF Clean, Labels
  <2>2. Entries(K2, S, D, N)
    BY <1>1, <1>2, <1>4 DEF Clean, Entries
  <2>3. Undefs(K2, D, N, F)
    BY <1>1, <1>2, <1>4 DEF Clean, Undefs
  <2>4. Outers(K2, S, N, F)
    BY <1>1, <1>2, <1>4, Numbers DEF Clean, Outers
  <2> QED BY <1>4, <2>1, <2>2, <2>3, <2>4 DEF Clean
<1> QED BY <1>3, <1>4 DEF Shape

\* Such are the uses by an initial value that ends and by a for-in.
LEMMA UsesStep == ASSUME IInv, end_var \/ \E n \in Names : forin(n) PROVE Uses(kinds, kinds')
<1>1. CASE end_var
  <2>1. "unused" \in Kinds
    BY DEF Kinds
  <2>2. kinds' = kinds \/ (kinds[funct][Innermost.name] = "becoming" /\ kinds' = Kind(funct, Innermost.name, "unused"))
    BY <1>1 DEF end_var
  <2>3. TypeOK
    BY DEF IInv
  <2>4. \A f \in Functs, m \in Names :
          Kind(funct, Innermost.name, "unused")[f][m] = IF f = funct /\ m = Innermost.name THEN "unused" ELSE kinds[f][m]
    BY ONLY <2>1, <2>3, KindType
  <2> QED BY ONLY <2>2, <2>4 DEF Uses
<1>2. ASSUME NEW n \in Names, forin(n) PROVE Uses(kinds, kinds')
  <2>1. "var" \in Kinds
    BY DEF Kinds
  <2>2. kinds' = kinds \/ (kinds[funct][n] = "unused" /\ kinds' = Kind(funct, n, "var"))
    BY <1>2 DEF forin
  <2>3. TypeOK
    BY DEF IInv
  <2>4. \A f \in Functs, m \in Names : Kind(funct, n, "var")[f][m] = IF f = funct /\ m = n THEN "var" ELSE kinds[f][m]
    BY ONLY <2>1, <2>3, KindType
  <2> QED BY ONLY <2>2, <2>4 DEF Uses
<1> QED BY <1>1, <1>2

\* The end of the initial value of a var.
LEMMA EndVarNames == ASSUME NamesInv, end_var PROVE NamesInv'
<1>1. /\ IInv /\ IInv' /\ Named(nest) /\ Shape(kinds, scope, declared, nest, funct, last, predefined)
      /\ Typed(kinds, scope, declared, nest, funct) /\ last \in Nat /\ nest \in Seq(Openings)
  BY TypedHere, EndVarStep DEF NamesInv
<1>2. nest # <<>> /\ Innermost.depth = Len(scope) /\ Innermost.funct = funct
  BY <1>1, CloseType DEF IInv, end_var
<1>3. Len(nest) \in Nat \ {0} /\ Len(nest) - 1 \in 0 .. Len(nest)
  BY <1>1, <1>2, EmptySeq, LenProperties
<1>4. Len(nest') = Len(nest) - 1 /\ \A i \in 1 .. Len(nest) - 1 : nest'[i] = nest[i]
  BY <1>1, <1>3, Shorter DEF Close, end_var
<1>5. Popped(scope, nest, scope, nest') /\ nest[Len(nest)].funct = funct
  BY <1>2, <1>3, <1>4 DEF Popped, Innermost
<1>6. scope' = scope /\ declared' = declared /\ funct' = funct /\ last' = last /\ predefined' = predefined
  BY DEF end_var
<1>7. Shape(kinds, scope, declared, nest', funct, last, predefined)
  BY <1>1, <1>5, CloseShape
<1>8. Typed(kinds, scope, declared, nest', funct)
  BY <1>1, <1>6 DEF Typed, IInv, TypeOK
<1>9. Uses(kinds, kinds')
  BY <1>1, UsesStep
<1>10. Shape(kinds', scope', declared', nest', funct', last', predefined')
  BY <1>6, <1>7, <1>8, <1>9, UsesKept
<1>11. ASSUME errors' = <<>> PROVE Clean(kinds', scope', declared', nest', funct')
  <2>1. Clean(kinds, scope, declared, nest, funct)
    <3>1. <<>> \in Seq(Keys) /\ warn(<<>>, "running")
      BY DEF end_var
    <3> QED BY <1>11, <3>1, Quiet
  <2>2. Clean(kinds, scope, declared, nest', funct)
    BY <1>1, <1>5, <2>1, CloseClean
  <2> QED BY <1>6, <1>7, <1>8, <1>9, <2>2, UsesKept
<1>12. Named(nest')
  BY <1>1, <1>3, <1>4 DEF Named
<1> QED BY <1>1, <1>10, <1>11, <1>12 DEF NamesInv

\* The variable of a for-in.
LEMMA ForinNames == ASSUME NamesInv, NEW n \in Names, forin(n) PROVE NamesInv'
<1>1. /\ IInv /\ IInv' /\ Named(nest) /\ Shape(kinds, scope, declared, nest, funct, last, predefined)
      /\ Typed(kinds, scope, declared, nest, funct)
  BY TypedHere, ForinStep DEF NamesInv
<1>2. scope' = scope /\ declared' = declared /\ nest' = nest /\ funct' = funct /\ last' = last /\ predefined' = predefined
  BY DEF forin
<1>3. Uses(kinds, kinds')
  BY <1>1, UsesStep
<1>4. ASSUME errors' = <<>> PROVE Clean(kinds, scope, declared, nest, funct)
  <2>1. <<>> \in Seq(Keys) /\ <<"bad_in_a">> \in Seq(Keys)
    BY DEF Keys
  <2> QED BY <1>4, <2>1, Quiet DEF forin, ForinSays
<1> QED BY <1>1, <1>2, <1>3, <1>4, UsesKept DEF NamesInv

\* A use of a name.
LEMMA ReferNames == ASSUME NamesInv, NEW n \in Names, identifier(n) \/ plusplus(n) \/ assignop(n) PROVE NamesInv'
<1>1. IInv /\ IInv' /\ Named(nest) /\ Shape(kinds, scope, declared, nest, funct, last, predefined)
  BY IdentifierStep DEF NamesInv
<1>2. /\ kinds' = Referred(n) /\ scope' = Entered(n) /\ declared' = Used(n)
      /\ nest' = nest /\ funct' = funct /\ last' = last /\ predefined' = predefined
  BY DEF identifier, plusplus, assignop, Refer, Used
<1>3. ASSUME errors' = <<>> PROVE Clean(kinds, scope, declared, nest, funct)
  <2>1. ReferSays(n) \in Seq(Keys) /\ ReferSays(n) \o AssignSays(n) \in Seq(Keys)
    BY SaysType
  <2> QED BY <1>3, <2>1, Quiet DEF identifier, plusplus, assignop
<1>4. Shape(kinds', scope', declared', nest', funct', last', predefined')
  BY <1>1, <1>2, ReferShape
<1>5. ASSUME errors' = <<>> PROVE Clean(kinds', scope', declared', nest', funct')
  BY <1>1, <1>2, <1>3, <1>5, ReferClean
<1> QED BY <1>1, <1>2, <1>4, <1>5 DEF NamesInv

\* A jump, and the end of the text.
LEMMA JumpNames == ASSUME NamesInv, end \/ \E n \in Names : jump(n) PROVE NamesInv'
<1>1. IInv /\ IInv'
  BY EndStep, JumpStep DEF NamesInv
<1>2. UNCHANGED names
  BY DEF end, jump
<1>3. ASSUME errors' = <<>> PROVE Clean(kinds, scope, declared, nest, funct)
  <2>1. <<>> \in Seq(Keys) /\ <<"not_a_label">> \in Seq(Keys) /\ <<"not_a_scope">> \in Seq(Keys) /\ ReportTypeOK(Keys)
    BY <1>1 DEF Keys, IInv, TypeOK
  <2>2. ~ crash
    BY <1>3, <2>1, StopLoud
  <2> QED BY <1>3, <2>1, <2>2, Quiet DEF end, jump
<1> QED BY <1>1, <1>2, <1>3 DEF NamesInv, names

\* The body of a function, after its parameters.
LEMMA BodyNames == ASSUME NamesInv, body PROVE NamesInv'
<1>1. /\ IInv /\ IInv' /\ Named(nest) /\ Shape(kinds, scope, declared, nest, funct, last, predefined)
      /\ Typed(kinds, scope, declared, nest, funct) /\ last \in Nat /\ \A m \in DOMAIN predefined : m \in Names
      /\ nest \in Seq(Openings)
  BY TypedHere, BodyStep DEF NamesInv
<1>2. nest # <<>> /\ Innermost.kind = "params"
  BY <1>1, CloseType DEF IInv, body
<1>3. Len(nest) \in Nat \ {0} /\ \A i \in 1 .. Len(nest) : nest[i] \in Openings
  BY <1>1, <1>2, EmptySeq, LenProperties
<1>4. nest' = [nest EXCEPT ![Len(nest)] = [@ EXCEPT !.kind = "function"]]
  BY DEF body
<1>5. /\ Len(nest') = Len(nest)
      /\ \A i \in 1 .. Len(nest) : /\ nest'[i].name = nest[i].name /\ nest'[i].funct = nest[i].funct /\ nest'[i].depth = nest[i].depth
                                   /\ nest'[i].kind = IF i = Len(nest) THEN "function" ELSE nest[i].kind
  BY ONLY <1>1, <1>3, <1>4 DEF Openings
<1>6. Embodied(nest, nest')
  BY <1>2, <1>3, <1>5 DEF Embodied, Innermost
<1>7. Blank(scope, scope')
  BY <1>1, BlankHere DEF body
<1>8. kinds' = kinds /\ declared' = declared /\ funct' = funct /\ last' = last /\ predefined' = predefined
  BY DEF body
<1>9. Shape(kinds', scope', declared', nest', funct', last', predefined')
  BY <1>1, <1>6, <1>7, <1>8, BodyShape
<1>10. ASSUME errors' = <<>> PROVE Clean(kinds', scope', declared', nest', funct')
  <2>1. Clean(kinds, scope, declared, nest, funct)
    <3>1. <<>> \in Seq(Keys) /\ warn(<<>>, "running")
      BY DEF body
    <3> QED BY <1>10, <3>1, Quiet
  <2> QED BY <1>1, <1>6, <1>7, <1>8, <2>1, BodyClean
<1>11. Named(nest')
  BY <1>1, <1>5 DEF Named
<1> QED BY <1>1, <1>9, <1>10, <1>11 DEF NamesInv

\* A catch clause or a labelled loop.
LEMMA ClauseNames == ASSUME NamesInv, NEW n \in Names, catch(n) \/ label(n) PROVE NamesInv'
<1> DEFINE C == Append(scope, Empty)
<1>1. /\ IInv /\ IInv' /\ TypeOK /\ Named(nest) /\ Shape(kinds, scope, declared, nest, funct, last, predefined)
      /\ Typed(kinds, scope, declared, nest, funct) /\ last \in Nat /\ \A m \in DOMAIN predefined : m \in Names
      /\ Len(nest) \in Nat /\ Len(scope) \in Nat /\ nest \in Seq(Openings)
  BY TypedHere, CatchStep, LabelStep DEF NamesInv, IInv
<1>2. C \in Seq(Scopes) /\ Blank(scope, C) /\ Len(C) = Len(scope) + 1
  BY <1>1, BlankHere
<1>3. /\ funct' = funct /\ last' = last /\ predefined' = predefined /\ declared' = declared
      /\ scope' = Labelled(C, n)
  BY DEF catch, label, add_label
<1>4. PICK kind \in {"catch", "label"}, as \in {"exception", "label"} :
        /\ kind = "catch" <=> as = "exception"
        /\ Open(kind, n) /\ kinds' = Kind(funct, n, LabelKind(n, as))
        /\ warn(LabelSays(n), "running") \/ stop(<<"unexpected_label_a">>)
        /\ as = "label" /\ funct = Global => stop(<<"unexpected_label_a">>)
        /\ ~ (as = "label" /\ funct = Global) => warn(LabelSays(n), "running")
  BY DEF catch, label, add_label
<1> DEFINE it == Opened(kind, n)
<1>5. /\ Pushed(nest, it, nest') /\ nest' \in Seq(Openings) /\ Named(nest') /\ it.kind = kind /\ it.name = n
      /\ it.funct = funct /\ it.depth = Len(scope) /\ Len(nest') = Len(nest) + 1 /\ nest'[Len(nest')] = it
  <2>1. kind \in Openers /\ n \in Names \cup {NoName}
    BY DEF Openers
  <2> QED BY ONLY <1>1, <1>4, <2>1, n \in Names, PushHere
<1> HIDE DEF C, it
<1>6. it.kind \notin OfFunction /\ as \in EnterKinds
  BY <1>4, <1>5 DEF OfFunction, EnterKinds
<1>7. Enters(n, as, C, kinds', scope')
  BY <1>3, <1>4 DEF Enters
<1>8. Shape(kinds, C, declared, nest', funct, last, predefined)
  BY ONLY <1>1, <1>2, <1>5, <1>6, OpenBlockShape
<1>9. Shape(kinds', scope', declared, nest', funct, last, predefined)
  BY ONLY <1>1, <1>2, <1>5, <1>6, <1>8, <1>7, n \in Names, EnterShape
<1>10. ASSUME errors' = <<>> PROVE Clean(kinds', scope', declared, nest', funct)
  <2>1. /\ ReportTypeOK(Keys) /\ LabelSays(n) \in Seq(Keys) /\ <<"unexpected_label_a">> \in Seq(Keys)
    BY <1>1, LabelSaysType DEF IInv, TypeOK
  <2>2. ~ stop(<<"unexpected_label_a">>)
    BY ONLY <1>10, <2>1, StopLoud
  <2>3. ~ (as = "label" /\ funct = Global) /\ LabelSays(n) = <<>> /\ Clean(kinds, scope, declared, nest, funct)
    BY <1>4, <1>10, <2>1, <2>2, Quiet
  <2>4. /\ Labels(kinds, scope, nest) /\ Entries(kinds, scope, declared, nest) /\ Undefs(kinds, declared, nest, funct)
        /\ Bodies(scope, declared, nest, funct) /\ Outers(kinds, scope, nest, funct) /\ Catches(scope, declared, nest, funct)
    BY <2>3 DEF Clean
  <2>5. /\ Labels(kinds, C, nest') /\ Entries(kinds, C, declared, nest') /\ Undefs(kinds, declared, nest', funct)
        /\ Bodies(C, declared, nest', funct) /\ Outers(kinds, C, nest', funct)
    BY ONLY <1>1, <1>2, <1>5, <2>4, OpenBlockClean
  <2>6. Opens(nest', kind, n, funct, Len(C))
    <3>1. Len(nest') \in 1 .. Len(nest') /\ Len(scope) < Len(C)
      BY <1>1, <1>2, <1>5
    <3> QED BY <1>5, <3>1 DEF Opens
  <2>7. /\ Labels(kinds', scope', nest') /\ Entries(kinds', scope', declared, nest') /\ Undefs(kinds', declared, nest', funct)
        /\ Bodies(scope', declared, nest', funct) /\ Outers(kinds', scope', nest', funct)
        /\ funct # Global => Soon(declared, nest', funct, funct, n) \/ scope'[Len(C)][n].funct = funct
    <3>1. Suits(n, as, C, nest', declared)
      BY <1>4, <2>3, <2>6 DEF Suits
    <3>2. TypeOK /\ C \in Seq(Scopes) /\ nest' \in Seq(Openings) /\ LabelSays(n) = <<>> /\ as \in EnterKinds
      BY <1>1, <1>2, <1>5, <1>6, <2>3
    <3> QED BY ONLY <1>8, <1>7, <2>5, <3>1, <3>2, n \in Names, EnterClean
  <2>8. Writes(n, C, funct, scope') /\ Len(C) \in Nat \ {0}
    <3>1. Len(C) \in Nat \ {0} /\ Sited(C, nest', funct) /\ Noted(kinds, C)
      BY <1>1, <1>2, <1>8 DEF Shape
    <3> QED BY ONLY <1>1, <1>2, <1>6, <1>7, <3>1, n \in Names, EnterFacts
  <2>9. Grown(scope, scope')
    BY <1>1, <1>2, <2>8 DEF Grown, Writes, Blank, Longer
  <2>10. Sooner(declared, nest, funct, declared, nest', funct)
    BY <1>1, <1>5, SoonPush DEF Sooner
  <2>11. Caught(it, scope', declared, nest', funct)
    <3>1. Len(C) \in 1 .. Len(scope')
      BY <2>8 DEF Writes
    <3> QED BY <1>5, <2>7, <3>1 DEF Caught
  <2>12. Catches(scope', declared, nest', funct)
    BY ONLY <1>1, <1>5, <2>4, <2>9, <2>10, <2>11, CatchesPush
  <2> QED BY <2>7, <2>12 DEF Clean
<1> QED BY <1>1, <1>3, <1>5, <1>9, <1>10 DEF NamesInv

\* At the beginning of a function's body nothing in it is open.
LEMMA AtBody ==
  ASSUME IInv, Nested(scope, nest, funct, last), ~ InBlock, Top # "var"
  PROVE  \A i \in 1 .. Len(nest) : nest[i].funct # funct
<1> SUFFICES ASSUME NEW i \in 1 .. Len(nest) PROVE nest[i].funct # funct
  OBVIOUS
<1>1. nest \in Seq(Openings) /\ Len(nest) \in Nat /\ Len(nest) \in 1 .. Len(nest) /\ nest # <<>>
  BY DEF IInv, TypeOK
<1>2. nest[Len(nest)] \in Openings /\ nest[i] \in Openings /\ funct \in Nat
  BY <1>1 DEF IInv, TypeOK, Functs
<1>3. nest[Len(nest)].kind \in OfFunction
  BY <1>1, <1>2 DEF Top, InBlock, Openings, Openers, OfFunction
<1>4. nest[Len(nest)].funct < funct /\ nest[i].funct <= nest[Len(nest)].funct
  <2>1. nest[Len(nest)].funct < funct
    BY <1>1, <1>3 DEF Nested
  <2>2. CASE i = Len(nest)
    BY <1>2, <2>1, <2>2 DEF Openings, Functs
  <2>3. CASE i # Len(nest)
    <3>1. Len(nest) \in i + 1 .. Len(nest)
      BY <1>1, <2>3
    <3> QED BY <2>1, <3>1 DEF Nested
  <2> QED BY <2>1, <2>2, <2>3
<1>5. nest[i].funct \in Nat /\ nest[Len(nest)].funct \in Nat
  BY <1>2 DEF Openings, Functs
<1> QED BY <1>2, <1>4, <1>5

\* A declaration where the text is.
LEMMA DeclareHere ==
  ASSUME NamesInv, NEW n \in Names, NEW kind \in {"becoming", "unction", "parameter"}, Top # "var",
         NEW K2, K2 = Kind(funct, n, LabelKind(n, kind)), NEW S2, S2 = Labelled(scope, n)
  PROVE  /\ Shape(K2, S2, Declared(n), nest, funct, last, predefined)
         /\ Typed(K2, S2, Declared(n), nest, funct) /\ Len(S2) = Len(scope)
         /\ Clean(kinds, scope, declared, nest, funct) /\ LabelSays(n) = <<>> => Clean(K2, S2, Declared(n), nest, funct)
<1>1. /\ IInv /\ TypeOK /\ Named(nest) /\ Shape(kinds, scope, declared, nest, funct, last, predefined)
      /\ Typed(kinds, scope, declared, nest, funct) /\ nest \in Seq(Openings) /\ scope \in Seq(Scopes)
  BY TypedHere DEF NamesInv, IInv
<1>2. Enters(n, kind, scope, K2, S2) /\ kind \in EnterKinds
  BY DEF Enters, EnterKinds
<1>3. Shape(K2, S2, Declared(n), nest, funct, last, predefined) /\ Typed(K2, S2, Declared(n), nest, funct)
  BY ONLY <1>1, <1>2, n \in Names, EnterShape
<1>4. Writes(n, scope, funct, S2)
  <2>1. Len(scope) \in Nat \ {0} /\ Sited(scope, nest, funct) /\ Noted(kinds, scope)
    BY <1>1 DEF Shape, Nested
  <2> QED BY ONLY <1>1, <1>2, <2>1, n \in Names, EnterFacts
<1>5. ASSUME Clean(kinds, scope, declared, nest, funct), LabelSays(n) = <<>>
      PROVE  Clean(K2, S2, Declared(n), nest, funct)
  <2>1. /\ Labels(kinds, scope, nest) /\ Entries(kinds, scope, declared, nest) /\ Undefs(kinds, declared, nest, funct)
        /\ Bodies(scope, declared, nest, funct) /\ Outers(kinds, scope, nest, funct) /\ Catches(scope, declared, nest, funct)
    BY <1>5 DEF Clean
  <2>2. Suits(n, kind, scope, nest, Declared(n))
    <3>1. InBlock \/ \A i \in 1 .. Len(nest) : nest[i].funct # funct
      BY <1>1, AtBody DEF Shape
    <3> QED BY <3>1 DEF Suits
  <2>3. /\ Labels(K2, S2, nest) /\ Entries(K2, S2, Declared(n), nest) /\ Undefs(K2, Declared(n), nest, funct)
        /\ Bodies(S2, Declared(n), nest, funct) /\ Outers(K2, S2, nest, funct)
        /\ \A f, m : m \in Names /\ Soon(declared, nest, funct, f, m) => Soon(Declared(n), nest, funct, f, m)
    BY ONLY <1>1, <1>2, <1>5, <2>1, <2>2, n \in Names, EnterClean
  <2>4. Catches(S2, Declared(n), nest, funct)
    <3>1. \A i \in 1 .. Len(nest) : nest[i].kind = "catch" => nest[i].name \in Names
      BY <1>1 DEF Named
    <3> QED BY ONLY <1>1, <1>4, <2>1, <2>3, <3>1, WriteCatches
  <2> QED BY <2>3, <2>4 DEF Clean
<1> QED BY <1>3, <1>4, <1>5 DEF Writes

\* A name of a var statement.
LEMMA VarNames == ASSUME NamesInv, NEW n \in Names, var(n) PROVE NamesInv'
<1>1. IInv /\ IInv' /\ Named(nest) /\ Top # "var" /\ last \in Nat /\ \A m \in DOMAIN predefined : m \in Names
  BY VarStep, TypedHere DEF NamesInv, var, Statement
<1>2. /\ funct' = funct /\ last' = last /\ predefined' = predefined /\ declared' = Declared(n)
      /\ kinds' = Kind(funct, n, LabelKind(n, "becoming")) /\ scope' = Labelled(scope, n)
  BY DEF var, add_label
<1>3. /\ Shape(kinds', scope', declared', nest, funct, last, predefined)
      /\ Typed(kinds', scope', declared', nest, funct) /\ Len(scope') = Len(scope)
      /\ Clean(kinds, scope, declared, nest, funct) /\ LabelSays(n) = <<>> => Clean(kinds', scope', declared', nest, funct)
  BY <1>1, <1>2, DeclareHere
<1>4. /\ Pushed(nest, Opened("var", n), nest') /\ Named(nest')
      /\ Opened("var", n).kind = "var" /\ Opened("var", n).funct = funct /\ Opened("var", n).depth = Len(scope')
  <2>1. "var" \in Openers /\ Open("var", n) /\ n \in Names \cup {NoName}
    BY DEF Openers, var
  <2> QED BY ONLY <1>1, <1>3, <2>1, n \in Names, PushHere
<1>5. Opened("var", n).kind \notin OfFunction /\ Opened("var", n).kind # "catch"
  BY <1>4 DEF OfFunction
<1>6. Shape(kinds', scope', declared', nest', funct, last, predefined)
  BY ONLY <1>1, <1>3, <1>4, <1>5, OpenBlockShape
<1>7. ASSUME errors' = <<>> PROVE Clean(kinds', scope', declared', nest', funct)
  <2>1. LabelSays(n) = <<>> /\ Clean(kinds, scope, declared, nest, funct)
    BY <1>1, <1>7, LabelSaysType, Quiet DEF var
  <2> QED BY ONLY <1>1, <1>3, <1>4, <1>5, <2>1, PushClean
<1> QED BY <1>1, <1>2, <1>4, <1>6, <1>7 DEF NamesInv

\* A parameter.
LEMMA ParamsNames == ASSUME NamesInv, NEW n \in Names, function_params(n) PROVE NamesInv'
<1>1. IInv /\ IInv' /\ Named(nest) /\ Top # "var"
  BY ParamsStep DEF NamesInv, function_params
<1>2. /\ funct' = funct /\ last' = last /\ predefined' = predefined /\ declared' = Declared(n) /\ nest' = nest
      /\ kinds' = Kind(funct, n, LabelKind(n, "parameter")) /\ scope' = Labelled(scope, n)
  BY DEF function_params, add_label
<1>3. /\ Shape(kinds', scope', declared', nest, funct, last, predefined)
      /\ Clean(kinds, scope, declared, nest, funct) /\ LabelSays(n) = <<>> => Clean(kinds', scope', declared', nest, funct)
  BY <1>1, <1>2, DeclareHere
<1>4. ASSUME errors' = <<>> PROVE LabelSays(n) = <<>> /\ Clean(kinds, scope, declared, nest, funct)
  BY <1>1, <1>4, LabelSaysType, Quiet DEF function_params
<1> QED BY <1>1, <1>2, <1>3, <1>4 DEF NamesInv

\* A function that begins, after entries into the table K, the chain S and the
\* declarations D.
Begun(D, n) == IF n = NoName THEN D ELSE [D EXCEPT ![last + 1] = [@ EXCEPT ![n] = "body"]]
LEMMA FunctionHere ==
  ASSUME IInv, Named(nest), NEW K, NEW S, NEW D, Typed(K, S, D, nest, funct), Len(S) = Len(scope),
         Shape(K, S, D, nest, funct, last, predefined),
         NEW n \in Names \cup {NoName}, do_function(n, K, S), declared' = Begun(D, n)
  PROVE  /\ Shape(kinds', scope', declared', nest', funct', last', predefined') /\ Named(nest')
         /\ Clean(K, S, D, nest, funct) => Clean(kinds', scope', declared', nest', funct')
<1>1. /\ last + 1 \in Functs /\ last' = last + 1 /\ funct' = last + 1 /\ predefined' = predefined /\ last \in Nat
      /\ last + 1 # 0 /\ \A m \in DOMAIN predefined : m \in Names
  BY NamesAssumption, TypedHere DEF IInv, TypeOK, Functs, do_function
<1>2. /\ K \in [Functs -> [Names -> Kinds]] /\ S \in Seq(Scopes) /\ D \in Declarations /\ Len(S) \in Nat
      /\ nest \in Seq(Openings) /\ Len(nest) \in Nat
  BY DEF Typed
<1>3. /\ Pushed(nest, Opened("params", NoName), nest') /\ Named(nest')
      /\ Opened("params", NoName).kind = "params" /\ Opened("params", NoName).funct = funct
      /\ Opened("params", NoName).depth = Len(S)
  <2>1. "params" \in Openers /\ Open("params", NoName) /\ NoName \in Names \cup {NoName}
    BY DEF Openers, do_function
  <2> QED BY <2>1, PushHere
<1> DEFINE own == IF n = NoName THEN Empty ELSE [Empty EXCEPT ![n] = Variable(last + 1, FALSE)]
<1>4. \A m \in Names : own[m].funct = IF m = n THEN last + 1 ELSE 0
  <2>1. Empty \in Scopes /\ \A m \in Names : Empty[m].funct = 0
    BY EmptyType
  <2>2. NoName \notin Names
    BY NamesAssumption
  <2>3. CASE n = NoName
    BY <2>1, <2>2, <2>3
  <2>4. CASE n # NoName
    <3>1. Variable(last + 1, FALSE).funct = last + 1
      BY DEF Variable
    <3>2. own = [Empty EXCEPT ![n] = Variable(last + 1, FALSE)] /\ DOMAIN Empty = Names
      BY <2>1, <2>4 DEF Scopes
    <3> HIDE DEF own
    <3> QED BY <2>1, <3>1, <3>2
  <2> QED BY <2>3, <2>4
<1>5. Longer(S, scope') /\ scope'[Len(S) + 1] = own
  <2>1. scope' = Append(S, own)
    BY DEF do_function
  <2> HIDE DEF own
  <2> QED BY <1>2, <2>1, AppendProperties DEF Longer
<1> HIDE DEF own
<1>6. /\ kinds' \in [Functs -> [Names -> Kinds]]
      /\ \A f \in Functs, m \in Names : kinds'[f][m] = IF f = last + 1 /\ m = n THEN "function" ELSE K[f][m]
      /\ \A f \in Functs \ {last + 1} : kinds'[f] = K[f]
  <2>1. "function" \in Kinds /\ NoName \notin Names
    BY NamesAssumption DEF Kinds
  <2>2. kinds' = IF n = NoName THEN K ELSE [K EXCEPT ![last + 1] = [@ EXCEPT ![n] = "function"]]
    BY DEF do_function
  <2> QED BY ONLY <1>1, <1>2, <2>1, <2>2
<1>7. /\ declared' \in Declarations
      /\ \A f \in Functs, m \in Names : declared'[f][m] = IF f = last + 1 /\ m = n THEN "body" ELSE D[f][m]
      /\ \A f \in Functs \ {last + 1} : declared'[f] = D[f]
  <2>1. NoName \notin Names
    BY NamesAssumption
  <2> QED BY ONLY <1>1, <1>2, <2>1, declared' = Begun(D, n) DEF Begun, Declarations
<1>8. Begins(K, S, D, last + 1, kinds', scope', declared')
  <2>1. \A m \in Names :
          \/ scope'[Len(S) + 1][m].funct = 0 /\ kinds'[last + 1][m] = K[last + 1][m] /\ declared'[last + 1][m] = D[last + 1][m]
          \/ scope'[Len(S) + 1][m].funct = last + 1 /\ kinds'[last + 1][m] = "function" /\ declared'[last + 1][m] = "body"
    BY ONLY <1>1, <1>4, <1>5, <1>6, <1>7
  <2> QED BY <1>5, <1>6, <1>7, <2>1 DEF Begins
<1>9. Shape(kinds', scope', declared', nest', last + 1, last + 1, predefined)
  BY <1>1, <1>3, <1>8, OpenFunctionShape
<1>10. ASSUME Clean(K, S, D, nest, funct) PROVE Clean(kinds', scope', declared', nest', last + 1)
  <2>1. /\ Labels(K, S, nest) /\ Entries(K, S, D, nest) /\ Undefs(K, D, nest, funct)
        /\ Bodies(S, D, nest, funct) /\ Outers(K, S, nest, funct) /\ Catches(S, D, nest, funct)
    BY <1>10 DEF Clean
  <2>2. /\ Labels(kinds', scope', nest') /\ Entries(kinds', scope', declared', nest') /\ Undefs(kinds', declared', nest', last + 1)
        /\ Bodies(scope', declared', nest', last + 1) /\ Outers(kinds', scope', nest', last + 1)
        /\ \A f, m : f \in Within(nest, funct) /\ Soon(D, nest, funct, f, m) => Soon(declared', nest', last + 1, f, m)
    <3>1. /\ Typed(K, S, D, nest, funct) /\ Shape(K, S, D, nest, funct, last, predefined)
          /\ last \in Nat /\ last + 1 \in Functs
      BY <1>1
    <3> DEFINE it == Opened("params", NoName)
    <3>2. Pushed(nest, it, nest') /\ it.funct = funct /\ it.depth = Len(S)
      BY <1>3
    <3> HIDE DEF it
    <3> QED BY ONLY <1>8, <2>1, <3>1, <3>2, OpenFunctionClean
  <2>3. Grown(S, scope')
    BY <1>2, <1>5 DEF Grown, Longer
  <2>4. Sooner(D, nest, funct, declared', nest', last + 1)
    <3>1. \A i \in 1 .. Len(nest) : nest[i].funct \in Within(nest, funct)
      BY DEF Within
    <3> QED BY <2>2, <3>1 DEF Sooner
  <2>5. Caught(Opened("params", NoName), scope', declared', nest', last + 1)
    BY <1>3 DEF Caught
  <2>6. Catches(scope', declared', nest', last + 1)
    BY ONLY <1>2, <1>3, Named(nest), <2>1, <2>3, <2>4, <2>5, CatchesPush
  <2> QED BY <2>2, <2>6 DEF Clean
<1> QED BY <1>1, <1>3, <1>9, <1>10

\* A function statement declares its name where it stands.
LEMMA StatementNames == ASSUME NamesInv, NEW n \in Names, function_statement(n) PROVE NamesInv'
<1> DEFINE K == Kind(funct, n, LabelKind(n, "unction"))
           S == Labelled(scope, n)
<1>1. IInv /\ IInv' /\ Named(nest) /\ Top # "var" /\ n # NoName
  BY FunctionStatementStep, NamesAssumption DEF NamesInv, function_statement, Statement
<1>2. /\ Shape(K, S, Declared(n), nest, funct, last, predefined) /\ Typed(K, S, Declared(n), nest, funct)
      /\ Len(S) = Len(scope)
      /\ Clean(kinds, scope, declared, nest, funct) /\ LabelSays(n) = <<>> => Clean(K, S, Declared(n), nest, funct)
  BY <1>1, DeclareHere
<1>3. do_function(n, K, S) /\ declared' = Begun(Declared(n), n)
  BY <1>1 DEF function_statement, Begun
<1> HIDE DEF K, S
<1>4. /\ Shape(kinds', scope', declared', nest', funct', last', predefined') /\ Named(nest')
      /\ Clean(K, S, Declared(n), nest, funct) => Clean(kinds', scope', declared', nest', funct')
  BY <1>1, <1>2, <1>3, FunctionHere
<1>5. ASSUME errors' = <<>> PROVE LabelSays(n) = <<>> /\ Clean(kinds, scope, declared, nest, funct)
  BY <1>1, <1>5, StatementSaysType, Quiet DEF function_statement
<1> QED BY <1>1, <1>2, <1>4, <1>5 DEF NamesInv

\* A function expression declares nothing there.
LEMMA ExpressionNames == ASSUME NamesInv, NEW n \in Names \cup {NoName}, function_expression(n) PROVE NamesInv'
<1>1. /\ IInv /\ IInv' /\ Named(nest) /\ Typed(kinds, scope, declared, nest, funct)
      /\ Shape(kinds, scope, declared, nest, funct, last, predefined)
  BY FunctionExpressionStep, TypedHere DEF NamesInv
<1>2. do_function(n, kinds, scope) /\ declared' = Begun(declared, n)
  BY DEF function_expression, Begun
<1>3. /\ Shape(kinds', scope', declared', nest', funct', last', predefined') /\ Named(nest')
      /\ Clean(kinds, scope, declared, nest, funct) => Clean(kinds', scope', declared', nest', funct')
  BY <1>1, <1>2, FunctionHere
<1>4. ASSUME errors' = <<>> PROVE Clean(kinds, scope, declared, nest, funct)
  <2>1. <<>> \in Seq(Keys) /\ warn(<<>>, "running")
    BY DEF function_expression
  <2> QED BY <1>4, <2>1, Quiet
<1> QED BY <1>1, <1>3, <1>4 DEF NamesInv

(****************************** the invariance ******************************)
\* Every step keeps it.
LEMMA NamesStep == NamesInv /\ [Next \/ Done]_vars => NamesInv'
<1> SUFFICES ASSUME NamesInv, [Next \/ Done]_vars PROVE NamesInv'
  OBVIOUS
<1>1. CASE Done \/ UNCHANGED vars
  <2>1. UNCHANGED names /\ errors' = errors
    BY <1>1 DEF Done, vars, report
  <2>2. IInv'
    BY InvStep DEF NamesInv
  <2> QED BY <2>1, <2>2 DEF NamesInv, names
<1>2. ASSUME NEW n \in Names,
             catch(n) \/ label(n) \/ var(n) \/ function_statement(n) \/ function_params(n)
      PROVE  NamesInv'
  BY <1>2, ClauseNames, VarNames, StatementNames, ParamsNames
<1>3. ASSUME NEW n \in Names, identifier(n) \/ plusplus(n) \/ assignop(n) \/ forin(n) \/ jump(n) PROVE NamesInv'
  BY <1>3, ReferNames, ForinNames, JumpNames
<1>4. ASSUME NEW n \in Names \cup {NoName}, function_expression(n) PROVE NamesInv'
  BY <1>4, ExpressionNames
<1>5. CASE block("block") \/ block("try")
  BY <1>5, BlockNames
<1>6. CASE end_block \/ end_var \/ body \/ end_function \/ end
  BY <1>6, EndNames, EndVarNames, BodyNames, JumpNames
<1> QED BY <1>1, <1>2, <1>3, <1>4, <1>5, <1>6 DEF Next

\* It holds at the beginning.
LEMMA NamesInit == Init => NamesInv
<1> SUFFICES ASSUME Init PROVE NamesInv
  OBVIOUS
<1>1. IInv /\ TypeOK
  BY InvInit DEF IInv
<1>2. /\ nest = <<>> /\ Len(nest) = 0 /\ Len(scope) = 1 /\ scope[1] = Empty /\ \A m \in Names : Empty[m].funct = 0
      /\ funct = Global /\ last = Global /\ Global = 1
  BY EmptyType DEF Init, Global
<1>3. /\ \A f \in Functs, m \in Names : kinds[f][m] = "none" /\ declared[f][m] = "no"
      /\ \A m \in DOMAIN predefined : m \in Names
  BY <1>1, TypedHere DEF Init
<1>4. Nested(scope, nest, funct, last)
  BY ONLY <1>2 DEF Nested
<1>5. Sited(scope, nest, funct)
  BY ONLY <1>2 DEF Sited
<1>6. Noted(kinds, scope) /\ Unread(kinds, declared, last) /\ Predefined(scope, declared, predefined)
  BY ONLY <1>2, <1>3 DEF Noted, Unread, Predefined
<1>7. Labels(kinds, scope, nest) /\ Entries(kinds, scope, declared, nest) /\ Outers(kinds, scope, nest, funct)
  BY ONLY <1>2 DEF Labels, Entries, Outers
<1>8. Undefs(kinds, declared, nest, funct) /\ Bodies(scope, declared, nest, funct) /\ Catches(scope, declared, nest, funct)
  <2>1. Within(nest, funct) \subseteq Functs
    BY <1>1, <1>2 DEF Within, TypeOK
  <2> QED BY ONLY <1>2, <1>3, <2>1 DEF Undefs, Bodies, Catches
<1>9. Named(nest)
  BY <1>2 DEF Named
<1> QED BY <1>1, <1>4, <1>5, <1>6, <1>7, <1>8, <1>9 DEF NamesInv, Shape, Clean

\* The inductive invariant of the names.
THEOREM NamesInvariance == Spec => []NamesInv
<1> QED BY NamesInit, NamesStep, PTL DEF Spec

(******************************* the theorems *******************************)
\* A jump that JSLint lets pass leads to a label that is around it, in the function
\* of the jump: scope[label].funct === funct is tested for nothing else.
THEOREM Enclosed == Spec => []LabelsEnclose
<1>1. NamesInv => LabelsEnclose
  <2> SUFFICES ASSUME NamesInv, errors = <<>>, NEW n \in Names, Jumps(n)
               PROVE  \E i \in 1 .. Len(nest) : nest[i].kind = "label" /\ nest[i].name = n /\ nest[i].funct = funct
    BY DEF LabelsEnclose
  <2>1. /\ Seen(n) \in 1 .. Len(scope) /\ scope[Seen(n)][n].funct # 0 /\ Site(n) = scope[Seen(n)][n].funct
        /\ kinds[funct][n] = "label" /\ Site(n) = funct
    BY SeenLast DEF Jumps, NamesInv, IInv
  <2>2. Labels(kinds, scope, nest)
    BY DEF NamesInv, Clean
  <2>3. scope[Seen(n)][n].funct = funct /\ funct # 0 /\ kinds[scope[Seen(n)][n].funct][n] = "label"
    BY ONLY <2>1
  <2>4. PICK i \in 1 .. Len(nest) : /\ nest[i].kind = "label" /\ nest[i].name = n
                                    /\ nest[i].funct = scope[Seen(n)][n].funct
    BY ONLY <2>1, <2>2, <2>3, n \in Names DEF Labels
  <2> QED BY ONLY <2>3, <2>4
<1> QED BY <1>1, NamesInvariance, PTL

\* Whoever uses a name that the chain has as a label hears of it.
LEMMA LabelHeard ==
  ASSUME NamesInv, errors = <<>>, NEW n \in Names, Found(n), kinds[Site(n)][n] = "label"
  PROVE  ReferSays(n) # <<>>
<1>1. IInv /\ Sited(scope, nest, funct) /\ Outers(kinds, scope, nest, funct) /\ Len(scope) \in Nat
  BY TypedHere DEF NamesInv, Shape, Clean
<1>2. /\ Seen(n) \in 1 .. Len(scope) /\ scope[Seen(n)][n].funct # 0 /\ Site(n) = scope[Seen(n)][n].funct
      /\ \A j \in 1 .. Len(scope) : scope[j][n].funct # 0 => j <= Seen(n)
  BY <1>1, SeenLast DEF IInv
<1>3. Table(n) = kinds
  BY DEF Table, Environment, Undefined
<1>4. CASE Site(n) = funct
  BY <1>3, <1>4 DEF ReferSays, HereSays
<1>5. CASE Site(n) # funct
  <2>1. Site(n) \in 1 .. funct - 1
    BY <1>1, <1>5, SiteAround
  <2>2. kinds[funct][n] \notin {"outer", "global"}
    <3> SUFFICES ASSUME kinds[funct][n] \in {"outer", "global"} PROVE FALSE
      OBVIOUS
    <3>1. PICK k \in Seen(n) + 1 .. Len(scope) : scope[k][n].funct \in 1 .. funct - 1
      BY <1>1, <1>2, <2>1 DEF Outers, Within
    <3>2. k \in 1 .. Len(scope) /\ scope[k][n].funct # 0
      BY <1>1, <1>2, <3>1
    <3> QED BY <1>1, <1>2, <3>1, <3>2
  <2>3. ThereSays(kinds[funct][n], "label") \in {<<"a_scope">>, <<"a_label">>}
    BY <2>2 DEF ThereSays, Settled, InUse
  <2>4. ReferSays(n) \in {<<"a_scope">>, <<"a_label">>}
    BY <1>3, <1>5, <2>3 DEF ReferSays
  <2>5. <<"a_scope">> # <<>> /\ <<"a_label">> # <<>>
    OBVIOUS
  <2> QED BY ONLY <2>4, <2>5
<1> QED BY <1>4, <1>5

\* The functions that are open.
LEMMA OpenNumbers ==
  ASSUME IInv
  PROVE  \A f \in OpenFuncts : f \in Functs /\ f \in Nat \ {0} /\ f >= Global
<1>1. funct \in Functs /\ \A i \in 1 .. Len(nest) : nest[i] \in Openings
  BY DEF IInv, TypeOK
<1> QED BY <1>1, NamesAssumption DEF OpenFuncts, Openings, Functs, Global

\* A function that the chain has the name of binds it, unless it uses it early.
LEMMA EntryBinds ==
  ASSUME NamesInv, errors = <<>>, NEW n \in Names, Found(n), ReferSays(n) = <<>>, Site(n) # Global,
         declared[Site(n)][n] # "early"
  PROVE  Site(n) \in OpenFuncts /\ Site(n) \in Functs /\ Binds(Site(n), n)
<1>1. IInv /\ Entries(kinds, scope, declared, nest) /\ kinds[Site(n)][n] # "label"
  BY LabelHeard DEF NamesInv, Clean
<1>2. Seen(n) \in 1 .. Len(scope) /\ scope[Seen(n)][n].funct \notin {0, Global} /\ Site(n) = scope[Seen(n)][n].funct
  BY <1>1, SeenLast DEF IInv
<1>3. Site(n) \in OpenFuncts /\ Site(n) \in Functs
  BY <1>1, SiteOpen DEF IInv
<1>4. declared[Site(n)][n] \in {"no", "early", "block", "body"}
  BY <1>1, <1>3 DEF IInv, TypeOK
<1> QED BY <1>1, <1>2, <1>3, <1>4 DEF Entries, Binds

\* The chain has the names that a function binds in its body or by a catch clause.
LEMMA BinderEntry ==
  ASSUME NamesInv, errors = <<>>, NEW n \in Names, NEW g \in OpenFuncts, g # Global, Binds(g, n),
         declared[g][n] # "block", \A f \in OpenFuncts : declared[f][n] # "early"
  PROVE  \E j \in 1 .. Len(scope) : scope[j][n].funct = g
<1>1. Bodies(scope, declared, nest, funct) /\ Catches(scope, declared, nest, funct)
  BY DEF NamesInv, Clean
<1>2. OpenFuncts = Within(nest, funct)
  BY DEF OpenFuncts, Within
<1>3. ~ Soon(declared, nest, funct, g, n)
  BY <1>2 DEF Soon
<1>4. CASE declared[g][n] = "body"
  BY <1>1, <1>2, <1>3, <1>4 DEF Bodies
<1>5. CASE \E i \in 1 .. Len(nest) : nest[i].kind = "catch" /\ nest[i].name = n /\ nest[i].funct = g
  BY <1>1, <1>3, <1>5 DEF Catches
<1> QED BY <1>4, <1>5 DEF Binds

\* The variable that is meant is that of the innermost function that binds it.
LEMMA OwnerIs ==
  ASSUME IInv, NEW n
  PROVE  LET B == {f \in OpenFuncts : Binds(f, n)} IN
         /\ Owner(n) = Global \/ Owner(n) \in B
         /\ \A f \in B : f \in Nat /\ f <= Owner(n)
         /\ \A f \in B : (\A g \in B : g <= f) => Owner(n) = f
<1> DEFINE B == {f \in OpenFuncts : Binds(f, n)}
<1>1. B \in SUBSET (1 .. MaxFunctions) /\ MaxFunctions \in Nat
  BY OpenNumbers, NamesAssumption DEF Functs
<1>2. Owner(n) = IF B = {} THEN Global ELSE CHOOSE f \in B : \A g \in B : g <= f
  BY DEF Owner
<1> HIDE DEF B
<1>3. CASE B = {}
  BY <1>2, <1>3 DEF B
<1>4. CASE B # {}
  <2>1. PICK f \in B : \A g \in B : g <= f
    BY <1>1, <1>4, Largest
  <2>2. Owner(n) \in B /\ \A g \in B : g <= Owner(n)
    BY <1>2, <1>4, <2>1
  <2>3. \A g \in B : g \in Nat
    BY <1>1
  <2> QED BY <2>2, <2>3 DEF B
<1> QED BY <1>3, <1>4

\* Where nothing is used early or declared in a block, and nothing is said, a name
\* resolves to the variable that JavaScript means.
THEOREM Same == Spec => []SameVariable
<1>1. NamesInv => SameVariable
  <2> SUFFICES ASSUME NamesInv, errors = <<>>, NEW n \in Names, ReferSays(n) = <<>>, ~ Undefined(n), Plain(n)
               PROVE  Site(n) = Owner(n)
    BY DEF SameVariable
  <2> DEFINE B == {f \in OpenFuncts : Binds(f, n)}
  <2>1. IInv /\ Sited(scope, nest, funct) /\ Len(scope) \in Nat /\ Global = 1
    BY TypedHere DEF NamesInv, Shape, Global
  <2>2. \A f \in OpenFuncts : declared[f][n] \notin {"early", "block"}
    BY DEF Plain
  <2>3. \A g \in B \ {Global} : \E j \in 1 .. Len(scope) : scope[j][n].funct = g
    BY <2>2, BinderEntry
  <2>4. /\ Owner(n) = Global \/ Owner(n) \in B
        /\ \A f \in B : f \in Nat /\ f <= Owner(n)
        /\ \A f \in B : (\A g \in B : g <= f) => Owner(n) = f
    BY <2>1, OwnerIs
  <2>5. Site(n) \in OpenFuncts /\ Site(n) \in Functs /\ Site(n) \in Nat \ {0}
    BY <2>1, SiteOpen DEF IInv, Functs
  <2>6. CASE ~ Found(n)
    <3>1. Site(n) = Global
      BY <2>6 DEF Site, Undefined, Environment
    <3>2. B \subseteq {Global}
      <4> SUFFICES ASSUME NEW g \in B \ {Global} PROVE FALSE
        OBVIOUS
      <4>1. PICK j \in 1 .. Len(scope) : scope[j][n].funct = g
        BY <2>3
      <4>2. g # 0
        BY <2>1, OpenNumbers
      <4> QED BY <2>6, <4>1, <4>2 DEF Found, Has
    <3> QED BY <2>4, <3>1, <3>2
  <2>7. CASE Found(n)
    <3>1. /\ Seen(n) \in 1 .. Len(scope) /\ scope[Seen(n)][n].funct # 0 /\ Site(n) = scope[Seen(n)][n].funct
          /\ \A j \in 1 .. Len(scope) : scope[j][n].funct # 0 => j <= Seen(n)
      BY <2>1, <2>7, SeenLast DEF IInv
    <3>2. \A g \in B \ {Global} : g <= Site(n)
      <4> SUFFICES ASSUME NEW g \in B \ {Global} PROVE g <= Site(n)
        OBVIOUS
      <4>1. PICK j \in 1 .. Len(scope) : scope[j][n].funct = g
        BY <2>3
      <4>2. g # 0 /\ g \in Nat
        BY <2>1, OpenNumbers
      <4>3. CASE j = Seen(n)
        BY <2>5, <3>1, <4>1, <4>3
      <4>4. CASE j # Seen(n)
        <5>1. Seen(n) \in j + 1 .. Len(scope)
          BY <2>1, <3>1, <4>1, <4>2, <4>4
        <5> QED BY <2>1, <3>1, <4>1, <4>2, <5>1 DEF Sited
      <4> QED BY <4>3, <4>4
    <3>3. CASE Site(n) = Global
      <4>1. \A g \in B : g = Global
        <5>1. \A g \in B : g \in Nat \ {0}
          BY <2>1, OpenNumbers
        <5> HIDE DEF B
        <5> QED BY ONLY <2>1, <5>1, <3>2, <3>3
      <4> QED BY <2>4, <3>3, <4>1
    <3>4. CASE Site(n) # Global
      <4>1. Site(n) \in B
        BY <2>2, <2>5, <2>7, <3>4, EntryBinds
      <4>2. \A g \in B : g <= Site(n)
        BY <2>1, <2>5, <3>2
      <4> QED BY <2>4, <4>1, <4>2
    <3> QED BY <3>3, <3>4
  <2> QED BY <2>6, <2>7
<1> QED BY <1>1, NamesInvariance, PTL

\* What the environment keeps read-only is the left side of an assignment operator
\* without complaint only where a function inside the program binds the name.
THEOREM AssignopsHeard == Spec => []AssignopHeard
<1>1. NamesInv => AssignopHeard
  <2> SUFFICES ASSUME NamesInv, errors = <<>>, NEW n \in DOMAIN predefined, ~ predefined[n],
                      ReferSays(n) \o AssignSays(n) = <<>>
               PROVE  Owner(n) # Global
    BY DEF AssignopHeard
  <2>1. IInv /\ Predefined(scope, declared, predefined) /\ n \in Names
    BY TypedHere DEF NamesInv, Shape
  <2>2. ReferSays(n) = <<>> /\ AssignSays(n) = <<>>
    <3>1. ReferSays(n) \in Seq(Keys) /\ AssignSays(n) \in Seq(Keys)
      BY <2>1, SaysType
    <3> QED BY <3>1
  <2>3. ~ ReadOnly(n)
    <3> SUFFICES ASSUME ReadOnly(n) PROVE AssignSays(n) # <<>>
      BY <2>2
    <3> QED BY DEF AssignSays
  <2>4. Found(n) /\ scope[Seen(n)][n].writeable
    BY <2>3 DEF ReadOnly, Writeable
  <2>5. Seen(n) \in 1 .. Len(scope) /\ Site(n) = scope[Seen(n)][n].funct
    BY <2>1, <2>4, SeenLast DEF IInv
  <2>6. Site(n) # Global
    BY <2>4, <2>5, <2>1 DEF Predefined
  <2>7. Site(n) \in OpenFuncts /\ Site(n) \in Functs /\ Binds(Site(n), n)
    <3>1. Site(n) \in Functs
      BY <2>1, SiteOpen DEF IInv
    <3>2. declared[Site(n)][n] # "early"
      BY <2>1, <3>1 DEF Predefined
    <3> QED BY <2>1, <2>2, <2>4, <2>6, <3>2, EntryBinds
  <2>8. Site(n) <= Owner(n) /\ Site(n) \in Nat
    BY <2>1, <2>7, OwnerIs DEF Functs
  <2> QED BY <2>6, <2>7, <2>8 DEF Functs, Global
<1> QED BY <1>1, NamesInvariance, PTL

(*************************** the functions around ***************************)
\* The functions around each, by the contexts c.
Chains(c) == LET a[g \in 0 .. MaxFunctions] == IF g = 0 THEN {} ELSE {g} \cup a[c[g]] IN a
AroundBy(c) == [f \in Functs |-> Chains(c)[c[f]]]

\* They are the least set that is closed under context, so that the recursive
\* definition defines a function, whatever the contexts.
LEMMA ChainsExist ==
  ASSUME NEW c \in [Functs -> 0 .. MaxFunctions]
  PROVE  \E a : a = [g \in 0 .. MaxFunctions |-> IF g = 0 THEN {} ELSE {g} \cup a[c[g]]]
<1> DEFINE closed(T) == T \in SUBSET Functs /\ \A x \in T : c[x] \in T \cup {0}
           b(g) == {h \in Functs : \A T \in SUBSET Functs : g \in T /\ closed(T) => h \in T}
           a == [g \in 0 .. MaxFunctions |-> IF g = 0 THEN {} ELSE b(g)]
<1>1. Functs \subseteq 0 .. MaxFunctions /\ 0 \notin Functs /\ \A g \in 0 .. MaxFunctions : g # 0 => g \in Functs
  BY NamesAssumption DEF Functs
<1>2. ASSUME NEW g \in Functs, c[g] = 0 PROVE b(g) = {g}
  <2>1. closed({g})
    BY <1>2
  <2> QED BY <2>1
<1>3. ASSUME NEW g \in Functs, c[g] # 0 PROVE b(g) = {g} \cup b(c[g])
  <2>1. c[g] \in Functs
    BY <1>1, <1>3
  <2>2. {g} \cup b(c[g]) \subseteq b(g)
    BY <1>3, <2>1
  <2>3. ASSUME NEW h \in b(g), h # g, h \notin b(c[g]) PROVE FALSE
    <3>1. PICK T \in SUBSET Functs : c[g] \in T /\ closed(T) /\ h \notin T
      BY <2>1, <2>3
    <3>2. closed(T \cup {g})
      BY <3>1
    <3> QED BY <2>3, <3>1, <3>2
  <2> QED BY <2>2, <2>3
<1>4. \A g \in 0 .. MaxFunctions : a[g] = IF g = 0 THEN {} ELSE b(g)
  OBVIOUS
<1>5. ASSUME NEW g \in 0 .. MaxFunctions PROVE a[g] = IF g = 0 THEN {} ELSE {g} \cup a[c[g]]
  <2>1. CASE g = 0
    BY <1>4, <2>1
  <2>2. CASE g # 0
    <3>1. g \in Functs /\ c[g] \in 0 .. MaxFunctions
      BY <1>1, <2>2
    <3>2. a[g] = b(g) /\ a[c[g]] = IF c[g] = 0 THEN {} ELSE b(c[g])
      BY <1>4, <2>2, <3>1
    <3> HIDE DEF a, b
    <3>3. CASE c[g] = 0
      BY <1>2, <2>2, <3>1, <3>2, <3>3
    <3>4. CASE c[g] # 0
      BY <1>3, <2>2, <3>1, <3>2, <3>4
    <3> QED BY <3>3, <3>4
  <2> QED BY <2>1, <2>2
<1>6. a = [g \in 0 .. MaxFunctions |-> a[g]]
  OBVIOUS
<1> HIDE DEF a
<1>7. a = [g \in 0 .. MaxFunctions |-> IF g = 0 THEN {} ELSE {g} \cup a[c[g]]]
  BY <1>5, <1>6
<1> QED BY <1>7

\* The functions around f are its context and those around that.
LEMMA AroundStep ==
  ASSUME NEW c \in [Functs -> 0 .. MaxFunctions], NEW f \in Functs
  PROVE  AroundBy(c)[f] = IF c[f] = 0 THEN {} ELSE {c[f]} \cup AroundBy(c)[c[f]]
<1> DEFINE a == Chains(c)
<1>1. a = [g \in 0 .. MaxFunctions |-> IF g = 0 THEN {} ELSE {g} \cup a[c[g]]]
  BY ChainsExist DEF Chains
<1>2. \A g \in Functs : AroundBy(c)[g] = a[c[g]]
  BY DEF AroundBy
<1>3. \A g \in 0 .. MaxFunctions : a[g] = IF g = 0 THEN {} ELSE {g} \cup a[c[g]]
  <2> HIDE DEF a
  <2> QED BY <1>1
<1>4. c[f] \in 0 .. MaxFunctions /\ \A g \in 0 .. MaxFunctions : g # 0 => g \in Functs
  BY NamesAssumption DEF Functs
<1> HIDE DEF a
<1> QED BY <1>2, <1>3, <1>4

\* They came before it,
LEMMA AroundBefore ==
  ASSUME NEW c \in [Functs -> 0 .. MaxFunctions], \A f \in Functs : c[f] < f
  PROVE  \A f \in Functs : AroundBy(c)[f] \subseteq 1 .. f - 1
<1> DEFINE B == {f \in Functs : ~ (AroundBy(c)[f] \subseteq 1 .. f - 1)}
<1> SUFFICES ASSUME B # {} PROVE FALSE
  OBVIOUS
<1>1. B \in SUBSET Nat
  BY DEF Functs
<1>2. PICK f \in B : \A g \in B : f <= g
  BY <1>1, Least
<1>3. f \in Functs /\ f \in Nat /\ c[f] \in Nat /\ c[f] < f /\ (c[f] # 0 => c[f] \in Functs)
  BY NamesAssumption DEF Functs
<1>4. c[f] # 0 => AroundBy(c)[c[f]] \subseteq 1 .. c[f] - 1
  BY <1>2, <1>3
<1>5. AroundBy(c)[f] = IF c[f] = 0 THEN {} ELSE {c[f]} \cup AroundBy(c)[c[f]]
  BY <1>3, AroundStep
<1>6. AroundBy(c)[f] \subseteq 1 .. f - 1
  <2>1. CASE c[f] = 0
    BY <1>5, <2>1
  <2>2. CASE c[f] # 0
    <3>1. 1 .. c[f] - 1 \subseteq 1 .. f - 1 /\ c[f] \in 1 .. f - 1
      BY <1>3, <2>2
    <3> QED BY <1>4, <1>5, <2>2, <3>1
  <2> QED BY <2>1, <2>2
<1> QED BY <1>2, <1>6

\* and stay the same when a function begins.
LEMMA AroundStays ==
  ASSUME NEW c \in [Functs -> 0 .. MaxFunctions], NEW d \in [Functs -> 0 .. MaxFunctions], NEW l \in Nat,
         \A f \in Functs : f <= l => c[f] < f /\ d[f] = c[f]
  PROVE  \A f \in Functs : f <= l => AroundBy(d)[f] = AroundBy(c)[f]
<1> DEFINE B == {f \in Functs : f <= l /\ AroundBy(d)[f] # AroundBy(c)[f]}
<1> SUFFICES ASSUME B # {} PROVE FALSE
  OBVIOUS
<1>1. B \in SUBSET Nat
  BY DEF Functs
<1>2. PICK f \in B : \A g \in B : f <= g
  BY <1>1, Least
<1>3. /\ f \in Functs /\ f \in Nat /\ f <= l /\ c[f] \in Nat /\ c[f] < f /\ (c[f] # 0 => c[f] \in Functs)
      /\ d[f] = c[f]
  BY NamesAssumption DEF Functs
<1>4. c[f] # 0 => AroundBy(d)[c[f]] = AroundBy(c)[c[f]]
  BY <1>2, <1>3
<1>5. /\ AroundBy(c)[f] = IF c[f] = 0 THEN {} ELSE {c[f]} \cup AroundBy(c)[c[f]]
      /\ AroundBy(d)[f] = IF d[f] = 0 THEN {} ELSE {d[f]} \cup AroundBy(d)[d[f]]
  BY <1>3, AroundStep
<1>6. AroundBy(d)[f] = AroundBy(c)[f]
  BY <1>3, <1>4, <1>5
<1> QED BY <1>2, <1>6

\* Every function begins in an older one, and what is open is around what was
\* opened in it.
Family ==
  /\ \A f \in Functs : context[f] < f
  /\ \A f, g \in OpenFuncts : g < f => g \in Around[f]
OuterInv == NamesInv /\ Family /\ OuterHasOwner

\* What a step without complaint does to what is used from outside.
Moves == \A f \in Functs, m \in Names :
  /\ kinds'[f][m] = "outer" => \/ kinds[f][m] = "outer"
                               \/ f <= last /\ \E g \in Around[f] \ {Global} : kinds'[g][m] = "closure"
  /\ kinds'[f][m] = "global" => kinds[f][m] = "global" \/ kinds'[Global][m] # "none"
  /\ f <= last /\ f # Global /\ kinds[f][m] = "closure" => kinds'[f][m] = "closure" \/ declared'[f][m] = "early"
  /\ f <= last /\ declared[f][m] = "early" => declared'[f][m] = "early"
  /\ kinds[Global][m] # "none" => kinds'[Global][m] # "none"

\* Steps that declare nothing and refer to nothing.
LEMMA UsesMoves == ASSUME IInv, Uses(kinds, kinds'), declared' = declared PROVE Moves
<1>1. Global \in Functs
  BY NamesAssumption DEF Functs, Global
<1> QED BY <1>1 DEF Uses, Moves

\* A declaration.
LEMMA DeclareMoves ==
  ASSUME IInv, NEW n \in Names, LabelSays(n) = <<>>, NEW kind \in EnterKinds,
         kinds' = Kind(funct, n, LabelKind(n, kind)), declared' = declared \/ declared' = Declared(n)
  PROVE  Moves
<1>1. TypeOK /\ Global \in Functs /\ funct \in Functs /\ declared \in [Functs -> [Names -> {"no", "early", "block", "body"}]]
  BY NamesAssumption DEF Functs, Global, IInv, TypeOK
<1>2. LabelKind(n, kind) \in EnterKinds \cup {"var"} /\ LabelKind(n, kind) \in Kinds
  BY DEF LabelKind, EnterKinds, Kinds
<1>3. \A f \in Functs, m \in Names : kinds'[f][m] = IF f = funct /\ m = n THEN LabelKind(n, kind) ELSE kinds[f][m]
  BY <1>1, <1>2, KindType
<1>4. funct # Global => kinds[funct][n] # "closure"
  <2>1. <<"already_defined">> # <<>>
    OBVIOUS
  <2> QED BY <2>1 DEF LabelSays
<1>5. \A f \in Functs, m \in Names : declared[f][m] = "early" => declared'[f][m] = "early"
  BY <1>1 DEF Declared
<1>6. LabelKind(n, kind) \notin {"outer", "global", "none"}
  BY <1>2 DEF EnterKinds
<1> QED BY ONLY <1>1, <1>3, <1>4, <1>5, <1>6 DEF Moves

\* The beginning of a function, with what it declares of itself, in the table K and
\* the declarations D, in which the name of a statement has been entered.
Introduced(K, D) == \A f \in Functs, m \in Names :
  /\ K[f][m] \in {"outer", "global"} => K[f][m] = kinds[f][m]
  /\ f # Global /\ kinds[f][m] = "closure" => K[f][m] = "closure" \/ D[f][m] = "early"
  /\ declared[f][m] = "early" => D[f][m] = "early"
  /\ kinds[Global][m] # "none" => K[Global][m] # "none"
LEMMA FunctionMoves ==
  ASSUME IInv, NEW n, NEW K \in [Functs -> [Names -> Kinds]], NEW D \in Declarations,
         kinds' = K \/ kinds' = [K EXCEPT ![last + 1] = [@ EXCEPT ![n] = "function"]],
         declared' = D \/ declared' = [D EXCEPT ![last + 1] = [@ EXCEPT ![n] = "body"]],
         Introduced(K, D)
  PROVE  Moves
<1>1. Global \in Functs /\ last \in Nat /\ \A f \in Functs : f <= last => f # last + 1
  BY NamesAssumption DEF Functs, Global, IInv, TypeOK
<1>2. \A f \in Functs, m \in Names : /\ kinds'[f][m] = K[f][m] \/ (f = last + 1 /\ kinds'[f][m] = "function")
                                     /\ declared'[f][m] = D[f][m] \/ f = last + 1
  BY ONLY K \in [Functs -> [Names -> Kinds]], D \in Declarations,
          kinds' = K \/ kinds' = [K EXCEPT ![last + 1] = [@ EXCEPT ![n] = "function"]],
          declared' = D \/ declared' = [D EXCEPT ![last + 1] = [@ EXCEPT ![n] = "body"]] DEF Declarations
<1> QED BY <1>1, <1>2 DEF Introduced, Moves

\* A use of a name: a name that a function has from outside becomes a closure there.
LEMMA ReferMoves ==
  ASSUME OuterInv, NEW n \in Names, kinds' = Referred(n), declared' = Used(n)
  PROVE  Moves
<1>1. /\ IInv /\ TypeOK /\ Sited(scope, nest, funct) /\ Global \in Functs /\ funct \in Functs /\ funct <= last
      /\ funct \in OpenFuncts /\ kinds \in [Functs -> [Names -> Kinds]]
  BY NamesAssumption DEF OuterInv, NamesInv, Shape, Nested, Functs, Global, IInv, TypeOK, OpenFuncts
<1>2. /\ Site(n) \in Functs /\ Site(n) \in OpenFuncts
      /\ Found(n) /\ Site(n) # funct => Site(n) \in Around[funct]
      /\ ~ Found(n) => Site(n) = Global \/ (Undefined(n) /\ Site(n) = funct)
  <2>1. Site(n) \in Functs /\ Site(n) \in OpenFuncts
    BY <1>1, SiteOpen DEF IInv
  <2>2. ASSUME Found(n), Site(n) # funct PROVE Site(n) \in Around[funct]
    <3>1. Site(n) \in 1 .. funct - 1
      BY <1>1, <2>2, SiteAround
    <3>2. Site(n) < funct
      BY <1>1, <3>1 DEF Functs
    <3> QED BY <1>1, <2>1, <3>2 DEF OuterInv, Family
  <2> QED BY <2>1, <2>2 DEF Site, Undefined, Environment
<1>3. \A f \in Functs, m \in Names :
        \/ Used(n)[f][m] = declared[f][m]
        \/ m = n /\ f = funct /\ Undefined(n) /\ Used(n)[f][m] = "early"
  BY <1>1, ReferEntry
<1>4. \A f \in Functs, m \in Names :
        \/ Referred(n)[f][m] = kinds[f][m]
        \/ m = n /\ f = Site(n) /\ Referred(n)[f][m] \in {"var", "function", "closure"}
        \/ m = n /\ f = funct /\ Undefined(n) /\ Referred(n)[f][m] = "undef"
        \/ /\ m = n /\ f = funct /\ Site(n) # funct /\ kinds[f][m] \notin Settled
           /\ Referred(n)[f][m] = IF Site(n) = Global THEN "global" ELSE "outer"
           /\ Referred(n)[Site(n)][n] = "closure"
        \/ m = n /\ f = funct /\ kinds[f][m] \notin Settled /\ Referred(n)[f][m] = "undef"
  BY <1>1, ReferTable
<1>5. Site(n) # Global /\ kinds[Site(n)][n] = "closure" /\ ~ Undefined(n) => Referred(n)[Site(n)][n] = "closure"
  <2> SUFFICES ASSUME Site(n) # Global, kinds[Site(n)][n] = "closure", ~ Undefined(n)
               PROVE  Referred(n)[Site(n)][n] = "closure"
    OBVIOUS
  <2>1. Table(n) = kinds
    BY DEF Table, Site, Environment, Undefined
  <2>2. CASE Site(n) = funct
    BY <2>1, <2>2 DEF Referred, Here, Own
  <2>3. CASE Site(n) # funct
    <3> DEFINE closed == [kinds EXCEPT ![Site(n)] = [@ EXCEPT ![n] = "closure"]]
    <3>1. \/ Referred(n) = kinds
          \/ Referred(n) = [closed EXCEPT ![funct] = [@ EXCEPT ![n] = IF Site(n) = Global THEN "global" ELSE "outer"]]
      BY <2>1, <2>3 DEF Referred, There, Closures
    <3> QED BY ONLY <1>1, <1>2, <2>3, <3>1, kinds[Site(n)][n] = "closure", n \in Names
  <2> QED BY <2>2, <2>3
<1>6. ASSUME NEW f \in Functs, NEW m \in Names
      PROVE  /\ Referred(n)[f][m] = "outer" => \/ kinds[f][m] = "outer"
                                               \/ f <= last /\ \E g \in Around[f] \ {Global} : Referred(n)[g][m] = "closure"
             /\ Referred(n)[f][m] = "global" => kinds[f][m] = "global" \/ Referred(n)[Global][m] # "none"
             /\ f # Global /\ kinds[f][m] = "closure" => Referred(n)[f][m] = "closure" \/ Used(n)[f][m] = "early"
             /\ declared[f][m] = "early" => Used(n)[f][m] = "early"
  <2>1. /\ Referred(n)[f][m] = "outer" => \/ kinds[f][m] = "outer"
                                          \/ f <= last /\ \E g \in Around[f] \ {Global} : Referred(n)[g][m] = "closure"
        /\ Referred(n)[f][m] = "global" => kinds[f][m] = "global" \/ Referred(n)[Global][m] # "none"
    BY <1>1, <1>2, <1>4
  <2>2. f # Global /\ kinds[f][m] = "closure" => Referred(n)[f][m] = "closure" \/ Used(n)[f][m] = "early"
    <3>1. "closure" \in Settled
      BY DEF Settled, InUse
    <3>2. Undefined(n) => Used(n)[funct][n] = "early"
      BY <1>1 DEF Used, IInv, TypeOK
    <3>3. Undefined(n) => Site(n) = funct
      BY DEF Undefined, Site, Environment
    <3> QED BY <1>4, <1>5, <3>1, <3>2, <3>3
  <2>3. declared[f][m] = "early" => Used(n)[f][m] = "early"
    BY <1>3
  <2> QED BY <2>1, <2>2, <2>3
<1>7. \A m \in Names : kinds[Global][m] # "none" => Referred(n)[Global][m] # "none"
  BY <1>1, <1>4
<1> QED BY <1>6, <1>7 DEF Moves

LEMMA AroundIs == Around = AroundBy(context) /\ Around' = AroundBy(context')
BY DEF Around, AroundBy, Chains

\* Steps that begin no function open nothing of another.
LEMMA OpenFewer ==
  ASSUME IInv, context' = context,
         \/ nest' = nest /\ funct' = funct
         \/ \E kind, n : Open(kind, n) /\ funct' = funct
         \/ nest # <<>> /\ Close /\ funct' \in {funct, Innermost.funct}
         \/ body
  PROVE  OpenFuncts' \subseteq OpenFuncts /\ Around' = Around
<1>1. Around' = Around
  BY AroundIs
<1>2. nest \in Seq(Openings) /\ Len(nest) \in Nat /\ \A i \in 1 .. Len(nest) : nest[i].funct \in OpenFuncts
  BY DEF IInv, TypeOK, OpenFuncts
<1>3. funct \in OpenFuncts /\ OpenFuncts' = {funct'} \cup {nest'[i].funct : i \in 1 .. Len(nest')}
  BY DEF OpenFuncts
<1>4. CASE nest' = nest /\ funct' = funct
  BY <1>1, <1>2, <1>3, <1>4
<1>5. ASSUME NEW kind, NEW n, Open(kind, n), funct' = funct PROVE OpenFuncts' \subseteq OpenFuncts
  <2>1. nest' = Append(nest, Opened(kind, n)) /\ Opened(kind, n).funct = funct
    BY <1>5 DEF Open, Opened
  <2>2. Len(nest') = Len(nest) + 1 /\ \A i \in 1 .. Len(nest') : nest'[i] = IF i = Len(nest) + 1 THEN Opened(kind, n) ELSE nest[i]
    BY <1>2, <2>1, AppendProperties
  <2>3. \A i \in 1 .. Len(nest') : nest'[i].funct \in OpenFuncts
    BY <1>2, <1>3, <2>1, <2>2
  <2> QED BY <1>3, <1>5, <2>3
<1>6. CASE nest # <<>> /\ Close /\ funct' \in {funct, Innermost.funct}
  <2>1. Len(nest) \in 1 .. Len(nest) /\ Len(nest) - 1 \in 0 .. Len(nest)
    BY <1>2, <1>6, EmptySeq
  <2>2. Len(nest') = Len(nest) - 1 /\ \A i \in 1 .. Len(nest) - 1 : nest'[i] = nest[i]
    BY <1>2, <1>6, <2>1, Shorter DEF Close
  <2>3. funct' \in OpenFuncts
    BY <1>2, <1>3, <1>6, <2>1 DEF Innermost
  <2>4. \A i \in 1 .. Len(nest') : nest'[i].funct \in OpenFuncts
    BY <1>2, <2>1, <2>2
  <2> QED BY <1>1, <1>3, <2>3, <2>4
<1>7. CASE body
  <2>1. Len(nest) \in Nat /\ \A i \in 1 .. Len(nest) : nest[i] \in Openings
    BY <1>2
  <2>2. nest' = [nest EXCEPT ![Len(nest)] = [@ EXCEPT !.kind = "function"]]
    BY <1>7 DEF body
  <2>3. Len(nest') = Len(nest) /\ \A i \in 1 .. Len(nest) : nest'[i].funct = nest[i].funct
    BY ONLY <1>2, <2>1, <2>2 DEF Openings
  <2>4. \A i \in 1 .. Len(nest') : nest'[i].funct \in OpenFuncts
    BY <1>2, <2>3
  <2> QED BY <1>1, <1>3, <1>7, <2>4 DEF body
<1> QED BY <1>1, <1>4, <1>5, <1>6, <1>7

\* What Moves keeps, when what is around stays.
LEMMA OwnersKept ==
  ASSUME OuterInv, Moves, errors = <<>>, last' \in Nat, \A f \in Functs : f <= last => Around'[f] = Around[f],
         \A f \in 1 .. last' : f \in Functs
  PROVE  OuterHasOwner'
<1>1. /\ TypeOK /\ last \in Nat /\ Unread(kinds, declared, last) /\ context \in [Functs -> 0 .. MaxFunctions]
      /\ Global \in Functs /\ \A f \in Functs : f \in Nat /\ (f <= last => f \in 1 .. last)
  BY NamesAssumption DEF OuterInv, NamesInv, IInv, TypeOK, Shape, Functs, Global
<1>2. \A f \in Functs : Around[f] \subseteq 1 .. f - 1
  BY <1>1, AroundIs, AroundBefore DEF OuterInv, Family
<1>3. \A f \in Functs, m \in Names : kinds[f][m] \in {"outer", "global"} => f <= last
  BY <1>1 DEF Unread
<1>4. ASSUME NEW f \in 1 .. last', NEW n \in Names, kinds'[f][n] = "outer"
      PROVE  \E g \in Around'[f] \ {Global} : kinds'[g][n] = "closure" \/ declared'[g][n] = "early"
  <2>1. f \in Functs
    OBVIOUS
  <2>2. CASE kinds[f][n] = "outer"
    <3>1. f <= last /\ f \in 1 .. last /\ Around'[f] = Around[f]
      BY <1>1, <1>3, <2>1, <2>2
    <3>2. PICK g \in Around[f] \ {Global} : kinds[g][n] = "closure" \/ declared[g][n] = "early"
      BY <2>2, <3>1 DEF OuterInv, OuterHasOwner
    <3>3. g \in Functs /\ g <= last
      BY <1>1, <1>2, <2>1, <3>1, <3>2 DEF Functs
    <3> QED BY <3>1, <3>2, <3>3 DEF Moves
  <2>3. CASE f <= last /\ \E g \in Around[f] \ {Global} : kinds'[g][n] = "closure"
    BY <2>1, <2>3
  <2> QED BY <1>4, <2>1, <2>2, <2>3 DEF Moves
<1>5. ASSUME NEW f \in 1 .. last', NEW n \in Names, kinds'[f][n] = "global"
      PROVE  kinds'[Global][n] # "none"
  <2>1. f \in Functs
    OBVIOUS
  <2>2. CASE kinds[f][n] = "global"
    <3>1. f \in 1 .. last
      BY <1>1, <1>3, <2>1, <2>2
    <3>2. kinds[Global][n] # "none"
      BY <2>2, <3>1 DEF OuterInv, OuterHasOwner
    <3> QED BY <1>1, <3>2 DEF Moves
  <2> QED BY <1>5, <2>1, <2>2 DEF Moves
<1> QED BY <1>4, <1>5 DEF OuterHasOwner

\* A function begins inside that which is read.
LEMMA FamilyBegins ==
  ASSUME OuterInv, NEW n, NEW K, NEW S, do_function(n, K, S)
  PROVE  Family' /\ \A f \in Functs : f <= last => Around'[f] = Around[f]
<1>1. /\ TypeOK /\ last \in Nat /\ last + 1 \in Functs /\ funct \in Functs /\ funct \in Nat /\ funct <= last
      /\ context \in [Functs -> 0 .. MaxFunctions] /\ nest \in Seq(Openings) /\ Len(nest) \in Nat
      /\ \A f \in Functs : f \in Nat /\ f # 0
  BY NamesAssumption DEF OuterInv, NamesInv, IInv, TypeOK, Shape, Nested, Functs, do_function
<1>2. funct' = last + 1 /\ context' = [context EXCEPT ![last + 1] = funct] /\ nest' = Append(nest, Opened("params", NoName))
  BY DEF do_function, Open
<1>3. context' \in [Functs -> 0 .. MaxFunctions] /\ \A f \in Functs : context'[f] = IF f = last + 1 THEN funct ELSE context[f]
  BY <1>1, <1>2 DEF Functs
<1>4. \A f \in Functs : context[f] < f
  BY DEF OuterInv, Family
<1>5. \A f \in Functs : context'[f] < f
  BY <1>1, <1>3, <1>4
<1>6. \A f \in Functs : f <= last => Around'[f] = Around[f]
  <2>1. \A f \in Functs : f <= last => context[f] < f /\ context'[f] = context[f]
    BY <1>1, <1>3, <1>4
  <2>2. context \in [Functs -> 0 .. MaxFunctions] /\ context' \in [Functs -> 0 .. MaxFunctions] /\ last \in Nat
    BY <1>1, <1>3
  <2>3. \A f \in Functs : f <= last => AroundBy(context')[f] = AroundBy(context)[f]
    BY ONLY <2>1, <2>2, AroundStays
  <2> QED BY ONLY <2>3, AroundIs
<1>7. OpenFuncts' = OpenFuncts \cup {last + 1} /\ \A f \in OpenFuncts : f \in Functs /\ f <= funct
  <2>1. Opened("params", NoName).funct = funct
    BY DEF Opened
  <2>2. Pushed(nest, Opened("params", NoName), nest')
    BY <1>1, <1>2, AppendProperties DEF Pushed
  <2>3. Within(nest', last + 1) = Within(nest, funct) \cup {last + 1}
    BY <1>1, <2>1, <2>2, WithinPush
  <2>4. \A i \in 1 .. Len(nest) : nest[i].funct <= funct
    BY DEF OuterInv, NamesInv, Shape, Nested
  <2>5. \A f \in OpenFuncts : f \in Functs
    BY OpenNumbers DEF OuterInv, NamesInv
  <2>6. OpenFuncts = Within(nest, funct) /\ OpenFuncts' = Within(nest', last + 1)
    BY <1>2 DEF OpenFuncts, Within
  <2>7. \A f \in OpenFuncts : f <= funct
    BY <1>1, <2>4 DEF OpenFuncts
  <2> QED BY <2>3, <2>5, <2>6, <2>7
<1>8. Around'[last + 1] = {funct} \cup Around'[funct]
  <2>1. context'[last + 1] = funct /\ funct # 0
    BY <1>1, <1>3
  <2> QED BY ONLY <1>1, <1>3, <2>1, AroundIs, AroundStep
<1>9. ASSUME NEW f \in OpenFuncts', NEW g \in OpenFuncts', g < f PROVE g \in Around'[f]
  <2>1. CASE f = last + 1
    <3>1. g \in OpenFuncts /\ g <= funct
      BY <1>1, <1>7, <1>9, <2>1
    <3>2. CASE g = funct
      BY <1>8, <2>1, <3>2
    <3>3. CASE g # funct
      <4>1. g < funct /\ funct \in OpenFuncts
        BY <1>1, <1>7, <3>1, <3>3 DEF OpenFuncts
      <4> QED BY <1>1, <1>6, <1>8, <2>1, <3>1, <4>1 DEF OuterInv, Family
    <3> QED BY <3>2, <3>3
  <2>2. CASE f # last + 1
    <3>1. f \in OpenFuncts /\ f \in Functs /\ f <= last
      BY <1>1, <1>7, <2>2
    <3>2. g \in OpenFuncts
      BY <1>1, <1>7, <1>9, <3>1
    <3> QED BY <1>6, <1>9, <3>1, <3>2 DEF OuterInv, Family
  <2> QED BY <2>1, <2>2
<1> QED BY <1>5, <1>6, <1>9 DEF Family

\* What a step keeps that begins no function, and what one keeps that does.
Quietly == errors' = <<>> => errors = <<>> /\ Moves
LEMMA OuterStays ==
  ASSUME OuterInv, IInv', Quietly, last' = last, context' = context,
         OpenFuncts' \subseteq OpenFuncts, Around' = Around
  PROVE  Family' /\ OuterHasOwner'
<1>1. Family'
  BY DEF OuterInv, Family
<1>2. last' \in Nat /\ \A f \in 1 .. last' : f \in Functs
  BY NamesAssumption DEF IInv, TypeOK, Functs
<1>3. ASSUME errors' = <<>> PROVE OuterHasOwner'
  BY <1>2, <1>3, OwnersKept DEF Quietly
<1>4. ASSUME errors' # <<>> PROVE OuterHasOwner'
  BY <1>4 DEF OuterHasOwner
<1> QED BY <1>1, <1>3, <1>4
LEMMA OuterBegins ==
  ASSUME OuterInv, IInv', Quietly, NEW n, NEW K, NEW S, do_function(n, K, S)
  PROVE  Family' /\ OuterHasOwner'
<1>1. Family' /\ \A f \in Functs : f <= last => Around'[f] = Around[f]
  BY FamilyBegins
<1>2. last' \in Nat /\ \A f \in 1 .. last' : f \in Functs
  BY NamesAssumption DEF IInv, TypeOK, Functs
<1>3. ASSUME errors' = <<>> PROVE OuterHasOwner'
  BY <1>1, <1>2, <1>3, OwnersKept DEF Quietly
<1>4. ASSUME errors' # <<>> PROVE OuterHasOwner'
  BY <1>4 DEF OuterHasOwner
<1> QED BY <1>1, <1>3, <1>4

\* No step moves anything but so: blocks, bodies and ends,
LEMMA PlainQuietly ==
  ASSUME NamesInv, block("block") \/ block("try") \/ end_block \/ end_var \/ body \/ end_function
                   \/ \E n \in Names : forin(n)
  PROVE  Quietly
<1>1. IInv /\ declared' = declared
  BY DEF NamesInv, block, end_block, end_var, body, end_function, forin
<1>2. Uses(kinds, kinds')
  <2>1. CASE end_var \/ \E n \in Names : forin(n)
    BY <1>1, <2>1, UsesStep
  <2>2. CASE block("block") \/ block("try") \/ end_block \/ body \/ end_function
    <3>1. kinds' = kinds
      BY <2>2 DEF block, end_block, body, end_function
    <3> QED BY <3>1 DEF Uses
  <2> QED BY <2>1, <2>2
<1>3. PICK ms \in Seq(Keys) : warn(ms, "running")
  <2>1. <<>> \in Seq(Keys) /\ <<"bad_in_a">> \in Seq(Keys)
    BY DEF Keys
  <2>2. warn(<<>>, "running") \/ warn(<<"bad_in_a">>, "running")
    BY DEF block, end_block, end_var, body, end_function, forin, ForinSays
  <2> QED BY <2>1, <2>2
<1>4. errors' = <<>> => errors = <<>>
  BY <1>3, Quiet
<1> QED BY <1>1, <1>2, <1>4, UsesMoves DEF Quietly

\* declarations,
LEMMA DeclareQuietly ==
  ASSUME NamesInv, NEW n \in Names, catch(n) \/ label(n) \/ var(n) \/ function_params(n)
  PROVE  Quietly
<1>1. IInv /\ ReportTypeOK(Keys) /\ LabelSays(n) \in Seq(Keys) /\ <<"unexpected_label_a">> \in Seq(Keys)
  BY LabelSaysType DEF NamesInv, IInv, TypeOK
<1>2. PICK kind \in EnterKinds : kinds' = Kind(funct, n, LabelKind(n, kind))
  BY DEF catch, label, var, function_params, add_label, EnterKinds
<1>3. declared' = declared \/ declared' = Declared(n)
  BY DEF catch, label, var, function_params
<1>4. warn(LabelSays(n), "running") \/ stop(<<"unexpected_label_a">>)
  BY DEF catch, label, var, function_params
<1>5. ASSUME errors' = <<>> PROVE LabelSays(n) = <<>> /\ errors = <<>>
  <2>1. ~ stop(<<"unexpected_label_a">>)
    BY ONLY <1>1, <1>5, StopLoud
  <2> QED BY <1>1, <1>4, <1>5, <2>1, Quiet
<1> QED BY <1>1, <1>2, <1>3, <1>5, DeclareMoves DEF Quietly

\* functions
LEMMA StatementQuietly == ASSUME NamesInv, NEW n \in Names, function_statement(n) PROVE Quietly
<1> DEFINE K == Kind(funct, n, LabelKind(n, "unction"))
           D == Declared(n)
<1>1. IInv /\ TypeOK /\ funct \in Functs /\ n # NoName /\ StatementSays(n) \in Seq(Keys) /\ warn(StatementSays(n), "running")
  BY StatementSaysType, NamesAssumption DEF NamesInv, IInv, TypeOK, function_statement
<1>2. LabelKind(n, "unction") \in {"unction", "var"} /\ LabelKind(n, "unction") \in Kinds
  BY DEF LabelKind, Kinds
<1>3. /\ K \in [Functs -> [Names -> Kinds]]
      /\ \A f \in Functs, m \in Names : K[f][m] = IF f = funct /\ m = n THEN LabelKind(n, "unction") ELSE kinds[f][m]
  BY <1>1, <1>2, KindType
<1>4. D \in Declarations /\ \A f \in Functs, m \in Names : declared[f][m] = "early" => D[f][m] = "early"
  BY <1>1, DeclaredType DEF Declarations, Declared, TypeOK
<1>5. /\ kinds' = [K EXCEPT ![last + 1] = [@ EXCEPT ![n] = "function"]]
      /\ declared' = [D EXCEPT ![last + 1] = [@ EXCEPT ![n] = "body"]]
  BY <1>1 DEF function_statement, do_function
<1> HIDE DEF K, D
<1>6. ASSUME errors' = <<>> PROVE errors = <<>> /\ Moves
  <2>1. LabelSays(n) = <<>> /\ errors = <<>>
    BY <1>1, <1>6, Quiet, StatementSaysType
  <2>2. funct # Global => kinds[funct][n] # "closure"
    <3>1. <<"already_defined">> # <<>>
      OBVIOUS
    <3> QED BY <2>1, <3>1 DEF LabelSays
  <2>3. Introduced(K, D)
    <3>1. Global \in Functs
      BY NamesAssumption DEF Functs, Global
    <3> QED BY ONLY <1>2, <1>3, <1>4, <2>2, <3>1 DEF Introduced
  <2>4. /\ kinds' = K \/ kinds' = [K EXCEPT ![last + 1] = [@ EXCEPT ![n] = "function"]]
        /\ declared' = D \/ declared' = [D EXCEPT ![last + 1] = [@ EXCEPT ![n] = "body"]]
    BY <1>5
  <2>5. IInv /\ K \in [Functs -> [Names -> Kinds]] /\ D \in Declarations
    BY <1>1, <1>3, <1>4
  <2>6. Moves
    BY ONLY <2>3, <2>4, <2>5, FunctionMoves
  <2> QED BY <2>1, <2>6
<1> QED BY <1>6 DEF Quietly
LEMMA ExpressionQuietly == ASSUME NamesInv, NEW n \in Names \cup {NoName}, function_expression(n) PROVE Quietly
<1>1. /\ IInv /\ kinds \in [Functs -> [Names -> Kinds]] /\ declared \in Declarations /\ <<>> \in Seq(Keys)
      /\ warn(<<>>, "running")
  BY DEF NamesInv, IInv, TypeOK, Declarations, function_expression
<1>2. kinds' = kinds \/ kinds' = [kinds EXCEPT ![last + 1] = [@ EXCEPT ![n] = "function"]]
  BY DEF function_expression, do_function
<1>3. declared' = declared \/ declared' = [declared EXCEPT ![last + 1] = [@ EXCEPT ![n] = "body"]]
  BY DEF function_expression
<1>4. Moves
  <2>1. Introduced(kinds, declared)
    BY DEF Introduced
  <2> QED BY ONLY <1>1, <1>2, <1>3, <2>1, FunctionMoves
<1> QED BY <1>1, <1>4, Quiet DEF Quietly

\* and uses of names.
LEMMA ReferQuietly == ASSUME OuterInv, NEW n \in Names, identifier(n) \/ plusplus(n) \/ assignop(n) PROVE Quietly
<1>1. NamesInv
  BY DEF OuterInv
<1>2. kinds' = Referred(n) /\ declared' = Used(n)
  BY DEF identifier, plusplus, assignop, Refer, Used
<1>3. Moves
  BY <1>2, ReferMoves
<1>4. PICK ms \in Seq(Keys) : warn(ms, "running")
  BY SaysType DEF identifier, plusplus, assignop
<1>5. errors' = <<>> => errors = <<>>
  BY <1>1, <1>4, Quiet
<1> QED BY <1>3, <1>5 DEF Quietly
LEMMA JumpQuietly == ASSUME NamesInv, UNCHANGED names, end \/ Done \/ UNCHANGED vars \/ \E n \in Names : jump(n) PROVE Quietly
<1>1. IInv /\ ReportTypeOK(Keys) /\ <<>> \in Seq(Keys) /\ <<"not_a_label">> \in Seq(Keys) /\ <<"not_a_scope">> \in Seq(Keys)
  BY DEF NamesInv, IInv, TypeOK, Keys
<1>2. ASSUME errors' = <<>> PROVE errors = <<>>
  <2>1. ~ crash
    BY <1>1, <1>2, StopLoud
  <2>2. CASE end \/ \E n \in Names : jump(n)
    BY <1>1, <1>2, <2>1, <2>2, Quiet DEF end, jump
  <2>3. CASE Done \/ UNCHANGED vars
    BY <1>2, <2>3 DEF Done, vars, report
  <2> QED BY <2>2, <2>3
<1>3. Uses(kinds, kinds') /\ declared' = declared
  BY DEF Uses, names
<1> QED BY <1>1, <1>2, <1>3, UsesMoves DEF Quietly

\* The step, and the beginning.
LEMMA OuterStep == OuterInv /\ [Next \/ Done]_vars => OuterInv'
<1> SUFFICES ASSUME OuterInv, [Next \/ Done]_vars PROVE OuterInv'
  OBVIOUS
<1>1. NamesInv /\ IInv /\ NamesInv' /\ IInv'
  BY NamesStep DEF OuterInv, NamesInv
<1>2. ASSUME UNCHANGED names, end \/ Done \/ UNCHANGED vars \/ \E n \in Names : jump(n)
      PROVE  Family' /\ OuterHasOwner'
  <2>1. Quietly
    BY <1>1, <1>2, JumpQuietly
  <2>2. last' = last /\ context' = context /\ nest' = nest /\ funct' = funct
    BY <1>2 DEF names
  <2> QED BY <1>1, <2>1, <2>2, OpenFewer, OuterStays
<1>3. ASSUME NEW n \in Names, catch(n) \/ label(n) \/ var(n) \/ function_params(n)
      PROVE  Family' /\ OuterHasOwner'
  <2>1. Quietly
    BY <1>1, <1>3, DeclareQuietly
  <2>2. last' = last /\ context' = context /\ funct' = funct /\ (nest' = nest \/ \E kind, m : Open(kind, m))
    BY <1>3 DEF catch, label, var, function_params
  <2> QED BY <1>1, <2>1, <2>2, OpenFewer, OuterStays
<1>4. ASSUME NEW n \in Names, function_statement(n) PROVE Family' /\ OuterHasOwner'
  BY <1>1, <1>4, StatementQuietly, OuterBegins DEF function_statement
<1>5. ASSUME NEW n \in Names \cup {NoName}, function_expression(n) PROVE Family' /\ OuterHasOwner'
  BY <1>1, <1>5, ExpressionQuietly, OuterBegins DEF function_expression
<1>6. ASSUME NEW n \in Names, identifier(n) \/ plusplus(n) \/ assignop(n) PROVE Family' /\ OuterHasOwner'
  <2>1. last' = last /\ context' = context /\ nest' = nest /\ funct' = funct
    BY <1>6 DEF identifier, plusplus, assignop, Refer
  <2> QED BY <1>1, <1>6, <2>1, ReferQuietly, OpenFewer, OuterStays
<1>7. ASSUME block("block") \/ block("try") \/ \E n \in Names : forin(n) PROVE Family' /\ OuterHasOwner'
  <2>1. Quietly
    BY <1>1, <1>7, PlainQuietly
  <2>2. last' = last /\ context' = context /\ funct' = funct /\ (nest' = nest \/ \E kind, m : Open(kind, m))
    BY <1>7 DEF block, forin
  <2> QED BY <1>1, <2>1, <2>2, OpenFewer, OuterStays
<1>8. ASSUME end_block \/ end_var \/ end_function PROVE Family' /\ OuterHasOwner'
  <2>1. Quietly
    BY <1>1, <1>8, PlainQuietly
  <2>2. last' = last /\ context' = context /\ Close /\ funct' \in {funct, Innermost.funct} /\ nest # <<>>
    BY <1>8 DEF end_block, end_var, end_function, Top
  <2> QED BY <1>1, <2>1, <2>2, OpenFewer, OuterStays
<1>9. ASSUME body PROVE Family' /\ OuterHasOwner'
  <2>1. last' = last /\ context' = context
    BY <1>9 DEF body
  <2> QED BY <1>1, <1>9, <2>1, PlainQuietly, OpenFewer, OuterStays
<1>10. Family' /\ OuterHasOwner'
  <2>1. Done \/ UNCHANGED vars => UNCHANGED names
    BY DEF Done, vars
  <2>2. (end \/ \E n \in Names : jump(n)) => UNCHANGED names
    BY DEF end, jump
  <2> QED BY <1>2, <1>3, <1>4, <1>5, <1>6, <1>7, <1>8, <1>9, <2>1, <2>2 DEF Next
<1> QED BY <1>1, <1>10 DEF OuterInv
LEMMA OuterInit == Init => OuterInv
<1> SUFFICES ASSUME Init PROVE OuterInv
  OBVIOUS
<1>1. Global \in Functs /\ Functs \subseteq Nat \ {0} /\ last = Global /\ Global = 1
  BY NamesAssumption DEF Functs, Global, Init
<1>2. \A f \in Functs : context[f] < f
  BY <1>1 DEF Init
<1>3. OpenFuncts = {Global}
  BY DEF Init, OpenFuncts
<1>4. \A f \in Functs, m \in Names : kinds[f][m] = "none"
  BY DEF Init
<1> QED BY <1>1, <1>2, <1>3, <1>4, NamesInit DEF OuterInv, Family, OuterHasOwner

\* The inductive invariant of the names with that of the functions around.
THEOREM OuterInvariance == Spec => []OuterInv
<1> QED BY OuterInit, OuterStep, PTL DEF Spec

\* While JSLint has not complained, a function that has a name from outside has it
\* from a function around it that knows of the use, and one that has it from the
\* global object finds it entered there: what data() reports of closures and globals.
THEOREM Owned == Spec => []OuterHasOwner
<1>1. OuterInv => OuterHasOwner
  BY DEF OuterInv
<1> QED BY <1>1, OuterInvariance, PTL
=============================================================================
