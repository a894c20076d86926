------------------------- MODULE JSLintScopeProofs --------------------------
(* Theorems about JSLintScope, for any names, environments, number of       *)
(* functions and depth of nesting.                                          *)
EXTENDS JSLintScope, JSLintErrorsProofs, WellFoundedInduction

\* The first k elements of a sequence.
LEMMA Shorter ==
  ASSUME NEW S, NEW s \in Seq(S), NEW k \in 0 .. Len(s)
  PROVE  /\ SubSeq(s, 1, k) \in Seq(S) /\ Len(SubSeq(s, 1, k)) = k
         /\ \A i \in 1 .. k : SubSeq(s, 1, k)[i] = s[i]
<1>1. Len(s) \in Nat /\ \A i \in 1 .. k : s[i] \in S
  BY LenProperties
<1> QED BY <1>1, SubSeqProperties

(********************************** levels **********************************)
(* What is open makes levels: of each, how long the chain was when it was   *)
(* opened (D) and in which function (F); the last level is that of scope    *)
(* and funct.                                                               *)
Climbs(n, D, F) ==
  /\ \A i \in 1 .. n : D[i] \in Nat \ {0} /\ F[i] \in Nat
  /\ D[1] = 1 /\ F[1] = Global
  /\ \A i, k \in 1 .. n : i < k => D[i] <= D[k] /\ (D[i] = D[k] => F[i] = F[k])
\* A scope of a level knows variables of the functions up to that level only.
Known(n, D, F, s) ==
  \A i \in 1 .. n : \A j \in 1 .. D[i] : \A m \in Names :
    s[j][m].funct = 0 \/ \E k \in 1 .. i : s[j][m].funct = F[k]

\* What a step enters: a variable of the function that is read into the last
\* scope, or of the global one into any.
LEMMA KnownEntry ==
  ASSUME NEW n \in Nat \ {0}, NEW D, NEW F, Climbs(n, D, F), NEW s, Known(n, D, F, s), NEW s2,
         \A j \in 1 .. D[n] : \A m \in Names :
           \/ s2[j][m] = s[j][m] \/ s2[j][m].funct \in {0, Global}
           \/ j = D[n] /\ s2[j][m].funct = F[n]
  PROVE  Known(n, D, F, s2)
<1> SUFFICES ASSUME NEW i \in 1 .. n, NEW j \in 1 .. D[i], NEW m \in Names
             PROVE  s2[j][m].funct = 0 \/ \E k \in 1 .. i : s2[j][m].funct = F[k]
  BY DEF Known
<1>1. D[i] \in Nat \ {0} /\ D[n] \in Nat \ {0} /\ D[i] <= D[n] /\ (D[i] = D[n] => F[i] = F[n])
  BY DEF Climbs
<1>2. j \in 1 .. D[n] /\ 1 \in 1 .. i /\ i \in 1 .. i
  BY <1>1
<1>3. CASE s2[j][m] = s[j][m]
  BY <1>3 DEF Known
<1>4. CASE s2[j][m].funct \in {0, Global}
  BY <1>2, <1>4 DEF Climbs
<1>5. CASE j = D[n] /\ s2[j][m].funct = F[n]
  BY <1>1, <1>2, <1>5
<1> QED BY <1>2, <1>3, <1>4, <1>5

\* A level more, with scopes of its own or in the same function.
LEMMA KnownPush ==
  ASSUME NEW n \in Nat \ {0}, NEW D, NEW F, Climbs(n, D, F), NEW s, Known(n, D, F, s),
         NEW N \in Nat, n < N, N <= n + 1, NEW D2, NEW F2, NEW s2,
         \A i \in 1 .. n : D2[i] = D[i] /\ F2[i] = F[i],
         D2[N] \in Nat, D2[N] >= D[n], F2[N] \in Nat, D2[N] = D[n] => F2[N] = F[n],
         \A j \in 1 .. D2[N] : \A m \in Names :
           \/ j <= D[n] /\ s2[j][m] = s[j][m]
           \/ j > D[n] /\ s2[j][m].funct \in {0, F2[N]}
  PROVE  Climbs(N, D2, F2) /\ Known(N, D2, F2, s2)
<1>0. N = n + 1
  OBVIOUS
<1>1. \A i \in 1 .. n : D[i] \in Nat \ {0} /\ F[i] \in Nat /\ D[i] <= D[n] /\ (D[i] = D[n] => F[i] = F[n])
  BY DEF Climbs
<1>2. D[n] \in Nat \ {0} /\ D[1] = 1 /\ F[1] = Global
  BY DEF Climbs
<1>3. Climbs(N, D2, F2)
  <2>1. \A i \in 1 .. N : D2[i] \in Nat \ {0} /\ F2[i] \in Nat
    BY <1>1, <1>2
  <2>2. ASSUME NEW i \in 1 .. N, NEW k \in 1 .. N, i < k
        PROVE  D2[i] <= D2[k] /\ (D2[i] = D2[k] => F2[i] = F2[k])
    <3>1. CASE k \in 1 .. n
      BY <2>2, <3>1 DEF Climbs
    <3>2. CASE k = N
      BY <1>1, <1>2, <2>2, <3>2
    <3> QED BY <3>1, <3>2
  <2> QED BY <1>2, <2>1, <2>2 DEF Climbs
<1>4. Known(N, D2, F2, s2)
  <2> SUFFICES ASSUME NEW i \in 1 .. N, NEW j \in 1 .. D2[i], NEW m \in Names
               PROVE  s2[j][m].funct = 0 \/ \E k \in 1 .. i : s2[j][m].funct = F2[k]
    BY DEF Known
  <2>1. D2[i] \in Nat /\ D2[i] <= D2[N] /\ j \in 1 .. D2[N]
    <3>1. CASE i \in 1 .. n
      BY <1>1, <3>1
    <3>2. CASE i = N
      BY <3>2
    <3> QED BY <3>1, <3>2
  <2>2. CASE j <= D[n] /\ s2[j][m] = s[j][m]
    <3>1. CASE i \in 1 .. n
      <4>1. j \in 1 .. D[i]
        BY <1>1, <3>1
      <4> QED BY <2>2, <3>1, <4>1 DEF Known
    <3>2. CASE i = N
      <4>1. j \in 1 .. D[n]
        BY <1>2, <2>1, <2>2
      <4>2. s[j][m].funct = 0 \/ \E k \in 1 .. n : s[j][m].funct = F[k]
        BY <4>1 DEF Known
      <4> QED BY <2>2, <3>2, <4>2
    <3> QED BY <3>1, <3>2
  <2>3. CASE j > D[n] /\ s2[j][m].funct \in {0, F2[N]}
    <3>1. i = N
      BY <1>1, <1>2, <2>1, <2>3
    <3> QED BY <2>3, <3>1
  <2> QED BY <2>1, <2>2, <2>3
<1> QED BY <1>3, <1>4

\* Fewer levels.
LEMMA KnownPop ==
  ASSUME NEW n \in Nat \ {0}, NEW N \in Nat, n < N, NEW D, NEW F, Climbs(N, D, F), NEW s, Known(N, D, F, s),
         NEW s2, \A j \in 1 .. D[n] : s2[j] = s[j]
  PROVE  Climbs(n, D, F) /\ Known(n, D, F, s2)
<1>1. \A i \in 1 .. n : i \in 1 .. N /\ D[i] \in Nat \ {0} /\ D[i] <= D[n]
  BY DEF Climbs
<1>2. Climbs(n, D, F)
  BY <1>1 DEF Climbs
<1>3. Known(n, D, F, s2)
  <2> SUFFICES ASSUME NEW i \in 1 .. n, NEW j \in 1 .. D[i], NEW m \in Names
               PROVE  s2[j][m].funct = 0 \/ \E k \in 1 .. i : s2[j][m].funct = F[k]
    BY DEF Known
  <2>1. j \in 1 .. D[i] /\ j \in 1 .. D[n]
    BY <1>1
  <2>2. s[j][m].funct = 0 \/ \E k \in 1 .. i : s[j][m].funct = F[k]
    BY <1>1, <2>1 DEF Known
  <2> QED BY <2>1, <2>2
<1> QED BY <1>2, <1>3

\* Only the first n levels matter.
LEMMA KnownSame ==
  ASSUME NEW n \in Nat \ {0}, NEW D, NEW F, NEW s, Climbs(n, D, F), Known(n, D, F, s),
         NEW D2, NEW F2, \A i \in 1 .. n : D2[i] = D[i] /\ F2[i] = F[i]
  PROVE  Climbs(n, D2, F2) /\ Known(n, D2, F2, s)
<1>1. Climbs(n, D2, F2)
  BY DEF Climbs
<1>2. Known(n, D2, F2, s)
  BY DEF Known
<1> QED BY <1>1, <1>2

\* A scope more in the last level, with nothing in it.
LEMMA KnownGrow ==
  ASSUME NEW n \in Nat \ {0}, NEW D, NEW F, Climbs(n, D, F), NEW s, Known(n, D, F, s),
         NEW D2, NEW F2, NEW s2, n > 1,
         \A i \in 1 .. n - 1 : D2[i] = D[i] /\ F2[i] = F[i],
         D2[n] = D[n] + 1, F2[n] = F[n],
         \A j \in 1 .. D[n] : s2[j] = s[j], \A m \in Names : s2[D[n] + 1][m].funct = 0
  PROVE  Climbs(n, D2, F2) /\ Known(n, D2, F2, s2)
<1>1. \A i \in 1 .. n : D[i] \in Nat \ {0} /\ F[i] \in Nat /\ D[i] <= D[n] /\ F2[i] = F[i]
  BY DEF Climbs
<1>2. Climbs(n, D2, F2)
  <2>1. ASSUME NEW i \in 1 .. n, NEW k \in 1 .. n, i < k
        PROVE  D2[i] <= D2[k] /\ (D2[i] = D2[k] => F2[i] = F2[k])
    <3>1. CASE k \in 1 .. n - 1
      BY <2>1, <3>1 DEF Climbs
    <3>2. CASE k = n
      BY <1>1, <2>1, <3>2
    <3> QED BY <3>1, <3>2
  <2>2. \A i \in 1 .. n : D2[i] \in Nat \ {0} /\ F2[i] \in Nat
    BY <1>1
  <2> QED BY <2>1, <2>2 DEF Climbs
<1>3. Known(n, D2, F2, s2)
  <2> SUFFICES ASSUME NEW i \in 1 .. n, NEW j \in 1 .. D2[i], NEW m \in Names
               PROVE  s2[j][m].funct = 0 \/ \E k \in 1 .. i : s2[j][m].funct = F2[k]
    BY DEF Known
  <2>1. CASE i = n /\ j = D[n] + 1
    BY <2>1
  <2>2. CASE ~(i = n /\ j = D[n] + 1)
    <3>1. j \in 1 .. D[i] /\ j \in 1 .. D[n]
      BY <1>1, <2>2
    <3>2. s[j][m].funct = 0 \/ \E k \in 1 .. i : s[j][m].funct = F[k]
      BY <3>1 DEF Known
    <3> QED BY <1>1, <3>1, <3>2
  <2> QED BY <2>1, <2>2
<1> QED BY <1>2, <1>3

(********************************** the chain *******************************)
Levels == Len(nest) + 1
Depths == [i \in 1 .. Levels |-> IF i = Levels THEN Len(scope) ELSE nest[i].depth]
Owners == [i \in 1 .. Levels |-> IF i = Levels THEN funct ELSE nest[i].funct]
\* What end_var and end_block do not restore is what it was.
Items == \A i \in 1 .. Len(nest) :
  /\ nest[i].kind = "var" => Depths[i + 1] = Depths[i]
  /\ nest[i].kind \notin {"params", "function"} => Owners[i + 1] = Owners[i]
Chain == Climbs(Levels, Depths, Owners) /\ Known(Levels, Depths, Owners, scope) /\ Items

\* A step that opens and closes nothing.
LEMMA ChainStays ==
  ASSUME TypeOK, Chain, nest' = nest, funct' = funct, Len(scope') = Len(scope),
         \A j \in 1 .. Len(scope) : \A m \in Names :
           \/ scope'[j][m] = scope[j][m] \/ scope'[j][m].funct \in {0, Global}
           \/ j = Len(scope) /\ scope'[j][m].funct = funct
  PROVE  Chain'
<1>1. Levels \in Nat \ {0} /\ Levels' = Levels /\ Depths' = Depths /\ Owners' = Owners
  BY DEF TypeOK, Levels, Depths, Owners
<1>2. Depths[Levels] = Len(scope) /\ Owners[Levels] = funct
  BY <1>1 DEF Depths, Owners
<1>3. Known(Levels, Depths, Owners, scope')
  <2>1. Climbs(Levels, Depths, Owners) /\ Known(Levels, Depths, Owners, scope)
    BY DEF Chain
  <2>2. \A j \in 1 .. Depths[Levels] : \A m \in Names :
           \/ scope'[j][m] = scope[j][m] \/ scope'[j][m].funct \in {0, Global}
           \/ j = Depths[Levels] /\ scope'[j][m].funct = Owners[Levels]
    BY <1>2
  <2> QED BY <1>1, <2>1, <2>2, KnownEntry
<1>4. Climbs(Levels', Depths', Owners') /\ Known(Levels', Depths', Owners', scope')
  BY <1>1, <1>3 DEF Chain
<1>5. Items'
  BY <1>1 DEF Chain, Items
<1> QED BY <1>4, <1>5 DEF Chain

\* A step that opens something, after entries in the scopes there are.
LEMMA ChainGrows ==
  ASSUME TypeOK, Chain, NEW kind, NEW n, nest' = Append(nest, Opened(kind, n)), Opened(kind, n) \in Openings,
         Len(scope') \in Nat, Len(scope') >= Len(scope), funct' \in Nat,
         Len(scope') = Len(scope) => funct' = funct,
         kind = "var" => Len(scope') = Len(scope), kind \notin {"params", "function"} => funct' = funct,
         \A j \in 1 .. Len(scope) : \A m \in Names :
           \/ scope'[j][m] = scope[j][m] \/ scope'[j][m].funct \in {0, Global}
           \/ j = Len(scope) /\ scope'[j][m].funct = funct,
         \A j \in Len(scope) + 1 .. Len(scope') : \A m \in Names : scope'[j][m].funct \in {0, funct'}
  PROVE  Chain'
<1>1. /\ Levels \in Nat \ {0} /\ Levels' = Levels + 1 /\ Len(nest') = Levels /\ Len(nest) \in Nat
      /\ \A i \in 1 .. Len(nest) : nest'[i] = nest[i]
      /\ nest'[Levels] = Opened(kind, n)
  BY DEF TypeOK, Levels
<1>2. /\ Depths[Levels] = Len(scope) /\ Owners[Levels] = funct
      /\ Depths'[Levels + 1] = Len(scope') /\ Owners'[Levels + 1] = funct'
  BY <1>1 DEF Depths, Owners
<1>3. \A i \in 1 .. Levels : Depths'[i] = Depths[i] /\ Owners'[i] = Owners[i]
  <2>1. ASSUME NEW i \in 1 .. Len(nest)
        PROVE  Depths'[i] = Depths[i] /\ Owners'[i] = Owners[i]
    BY <1>1 DEF Depths, Owners, Levels
  <2>2. Depths'[Levels] = Depths[Levels] /\ Owners'[Levels] = Owners[Levels]
    BY <1>1 DEF Depths, Owners, Opened
  <2> QED BY <1>1, <2>1, <2>2 DEF Levels
<1>4. Climbs(Levels, Depths, Owners) /\ Known(Levels, Depths, Owners, scope')
  <2>1. Climbs(Levels, Depths, Owners) /\ Known(Levels, Depths, Owners, scope)
    BY DEF Chain
  <2>2. \A j \in 1 .. Depths[Levels] : \A m \in Names :
           \/ scope'[j][m] = scope[j][m] \/ scope'[j][m].funct \in {0, Global}
           \/ j = Depths[Levels] /\ scope'[j][m].funct = Owners[Levels]
    BY <1>2
  <2> QED BY <1>1, <2>1, <2>2, KnownEntry
<1>5. Climbs(Levels', Depths', Owners') /\ Known(Levels', Depths', Owners', scope')
  <2>1. \A j \in 1 .. Depths'[Levels'] : \A m \in Names :
           \/ j <= Depths[Levels] /\ scope'[j][m] = scope'[j][m]
           \/ j > Depths[Levels] /\ scope'[j][m].funct \in {0, Owners'[Levels']}
    <3> SUFFICES ASSUME NEW j \in 1 .. Len(scope'), NEW m \in Names
                 PROVE  j <= Len(scope) \/ (j > Len(scope) /\ scope'[j][m].funct \in {0, funct'})
      BY <1>1, <1>2
    <3>1. Len(scope) \in Nat
      BY DEF TypeOK
    <3> QED BY <3>1
  <2>2. /\ Depths'[Levels'] \in Nat /\ Depths'[Levels'] >= Depths[Levels] /\ Owners'[Levels'] \in Nat
        /\ Depths'[Levels'] = Depths[Levels] => Owners'[Levels'] = Owners[Levels]
    BY <1>1, <1>2
  <2>3. Levels \in Nat \ {0} /\ Levels' \in Nat /\ Levels < Levels' /\ Levels' <= Levels + 1
    BY <1>1
  <2> QED BY ONLY <1>3, <1>4, <2>1, <2>2, <2>3, KnownPush, SMTT(20)
<1>6. Items'
  <2> SUFFICES ASSUME NEW i \in 1 .. Levels
               PROVE  /\ nest'[i].kind = "var" => Depths'[i + 1] = Depths'[i]
                      /\ nest'[i].kind \notin {"params", "function"} => Owners'[i + 1] = Owners'[i]
    BY <1>1 DEF Items
  <2>1. CASE i \in 1 .. Len(nest)
    BY <1>1, <1>3, <2>1 DEF Chain, Items, Levels
  <2>2. CASE i = Levels
    BY <1>1, <1>2, <1>3, <2>2 DEF Opened
  <2> QED BY <1>1, <2>1, <2>2 DEF Levels
<1> QED BY <1>1, <1>5, <1>6 DEF Chain

\* A step that closes what was opened last and restores funct and scope.
LEMMA ChainFalls ==
  ASSUME TypeOK, Chain, nest # <<>>, nest' = SubSeq(nest, 1, Len(nest) - 1),
         Len(scope') = Innermost.depth, funct' = Innermost.funct,
         \A j \in 1 .. Innermost.depth : scope'[j] = scope[j]
  PROVE  Chain'
<1>1. /\ Len(nest) \in Nat \ {0} /\ Levels = Len(nest) + 1 /\ Levels' = Len(nest) /\ Len(nest') = Len(nest) - 1
      /\ \A i \in 1 .. Len(nest) - 1 : nest'[i] = nest[i]
  <2>1. Len(nest) \in Nat \ {0}
    BY EmptySeq, LenProperties DEF TypeOK
  <2>2. Len(nest') = Len(nest) - 1 /\ \A i \in 1 .. Len(nest) - 1 : nest'[i] = nest[i]
    <3>1. nest \in Seq(Openings) /\ Len(nest) - 1 \in 0 .. Len(nest)
      BY <2>1 DEF TypeOK
    <3>2. nest' = SubSeq(nest, 1, Len(nest) - 1)
      OBVIOUS
    <3> QED BY ONLY <3>1, <3>2, Shorter
  <2> QED BY <2>1, <2>2 DEF Levels
<1>2. \A i \in 1 .. Len(nest) : Depths'[i] = Depths[i] /\ Owners'[i] = Owners[i]
  <2>1. ASSUME NEW i \in 1 .. Len(nest) - 1
        PROVE  Depths'[i] = Depths[i] /\ Owners'[i] = Owners[i]
    BY <1>1 DEF Depths, Owners
  <2>2. Depths'[Len(nest)] = Depths[Len(nest)] /\ Owners'[Len(nest)] = Owners[Len(nest)]
    BY <1>1 DEF Depths, Owners, Innermost
  <2> QED BY <1>1, <2>1, <2>2
<1>3. Climbs(Len(nest), Depths', Owners') /\ Known(Len(nest), Depths', Owners', scope')
  <2>1. Climbs(Levels, Depths, Owners) /\ Known(Levels, Depths, Owners, scope)
    BY DEF Chain
  <2>2. \A j \in 1 .. Depths[Len(nest)] : scope'[j] = scope[j]
    BY <1>1 DEF Depths, Innermost
  <2>3. Levels \in Nat /\ Len(nest) < Levels /\ Len(nest) \in Nat \ {0}
    BY <1>1
  <2>4. Climbs(Len(nest), Depths, Owners) /\ Known(Len(nest), Depths, Owners, scope')
    BY ONLY <2>1, <2>2, <2>3, KnownPop
  <2> QED BY ONLY <1>2, <2>3, <2>4, KnownSame
<1>4. Items'
  BY <1>1, <1>2 DEF Chain, Items
<1> QED BY <1>1, <1>3, <1>4 DEF Chain

\* The beginning of a body: a scope more for what was opened last.
LEMMA ChainWidens ==
  ASSUME TypeOK, Chain, nest # <<>>, scope' = Append(scope, Empty), funct' = funct, Innermost.kind = "params",
         nest' = [nest EXCEPT ![Len(nest)] = [@ EXCEPT !.kind = "function"]]
  PROVE  Chain'
<1>1. Len(nest) \in Nat \ {0} /\ Levels = Len(nest) + 1 /\ Len(scope) \in Nat /\ Len(scope') = Len(scope) + 1
  BY EmptySeq, LenProperties DEF TypeOK, Levels
<1>2. nest \in Seq(Openings) /\ nest[Len(nest)] \in Openings
  BY <1>1 DEF TypeOK
<1>3. /\ Len(nest') = Len(nest) /\ Levels' = Levels
      /\ \A i \in 1 .. Len(nest) : nest'[i].funct = nest[i].funct /\ nest'[i].depth = nest[i].depth
      /\ \A i \in 1 .. Len(nest) : nest'[i].kind = IF i = Len(nest) THEN "function" ELSE nest[i].kind
  BY <1>1, <1>2 DEF Levels, Openings
<1>4. \A i \in 1 .. Levels - 1 : Depths'[i] = Depths[i] /\ Owners'[i] = Owners[i]
  BY <1>1, <1>3 DEF Depths, Owners
<1>5. /\ Depths[Levels] = Len(scope) /\ Owners[Levels] = funct
      /\ Depths'[Levels] = Len(scope) + 1 /\ Owners'[Levels] = funct
  BY <1>1, <1>3 DEF Depths, Owners
<1>6. Climbs(Levels, Depths', Owners') /\ Known(Levels, Depths', Owners', scope')
  <2>1. Climbs(Levels, Depths, Owners) /\ Known(Levels, Depths, Owners, scope)
    BY DEF Chain
  <2>2. Levels \in Nat \ {0} /\ Levels > 1
    BY <1>1
  <2>3. Depths'[Levels] = Depths[Levels] + 1 /\ Owners'[Levels] = Owners[Levels]
    BY <1>5
  <2>4. /\ \A j \in 1 .. Depths[Levels] : scope'[j] = scope[j]
        /\ \A m \in Names : scope'[Depths[Levels] + 1][m].funct = 0
    BY <1>1, <1>5 DEF TypeOK, Empty, NoVariable, Variable
  <2> QED BY ONLY <1>4, <2>1, <2>2, <2>3, <2>4, KnownGrow
<1>7. Items'
  BY <1>1, <1>3, <1>4 DEF Chain, Items, Innermost
<1> QED BY <1>3, <1>6, <1>7 DEF Chain

\* What an invariant chain means.
LEMMA ChainOpen ==
  ASSUME TypeOK, Chain
  PROVE  SitesOpen /\ ScopeRestored /\ Global \in OpenFuncts /\ Len(scope) \in Nat \ {0}
<1>1. /\ Len(nest) \in Nat /\ Len(scope) \in Nat /\ Levels = Len(nest) + 1
      /\ Depths[Levels] = Len(scope) /\ Owners[Levels] = funct
      /\ \A i \in 1 .. Len(nest) : Owners[i] = nest[i].funct
  BY DEF TypeOK, Levels, Depths, Owners
<1>2. \A k \in 1 .. Levels : Owners[k] \in OpenFuncts
  BY <1>1 DEF OpenFuncts
<1>3. Depths[1] = 1 /\ Owners[1] = Global
  BY DEF Chain, Climbs
<1>4. SitesOpen
  <2> SUFFICES ASSUME NEW j \in 1 .. Len(scope), NEW m \in Names
               PROVE  scope[j][m].funct \in OpenFuncts \cup {0}
    BY DEF SitesOpen
  <2>1. Levels \in 1 .. Levels
    BY <1>1
  <2>2. scope[j][m].funct = 0 \/ \E k \in 1 .. Levels : scope[j][m].funct = Owners[k]
    BY <1>1, <2>1 DEF Chain, Known
  <2> QED BY <1>2, <2>2
<1>6. Len(scope) \in Nat \ {0}
  BY <1>1 DEF Chain, Climbs
<1>5. ScopeRestored
  <2> SUFFICES ASSUME nest = <<>> PROVE funct = Global /\ Len(scope) = 1
    BY DEF ScopeRestored
  <2>1. Len(nest) = 0
    BY EmptySeq
  <2>2. Levels = 1
    BY <1>1, <2>1
  <2> QED BY <1>1, <1>3, <2>2
<1> QED BY <1>1, <1>2, <1>3, <1>4, <1>5, <1>6

(******************************* the operators ******************************)
\* A set of numbers has a least one.
LEMMA Least ==
  ASSUME NEW S \in SUBSET Nat, S # {}
  PROVE  \E m \in S : \A k \in S : m <= k
<1> DEFINE R == {ss \in Nat \X Nat : ss[1] < ss[2]}
<1>1. R = OpToRel(<, Nat)
  BY Zenon DEF OpToRel
<1>2. IsWellFoundedOn(R, Nat)
  BY <1>1, NatLessThanWellFounded, Zenon
<1>3. PICK m \in S : \A k \in S : ~ (<<k, m>> \in R)
  <2> HIDE DEF R
  <2> QED BY <1>2, WFMin
<1>4. ASSUME NEW k \in S PROVE m <= k
  <2>1. m \in Nat /\ k \in Nat /\ ~ (<<k, m>> \in R)
    BY <1>3
  <2>2. ~ (k < m)
    BY <2>1
  <2> QED BY <2>1, <2>2
<1> QED BY <1>4

\* A set of numbers up to a bound has a largest one.
LEMMA Largest ==
  ASSUME NEW N \in Nat, NEW T \in SUBSET (1 .. N), T # {}
  PROVE  \E m \in T : \A k \in T : k <= m
<1> DEFINE S == {N - k : k \in T}
<1>1. S \in SUBSET Nat
  OBVIOUS
<1>5. S # {}
  OBVIOUS
<1>2. PICK d \in S : \A e \in S : d <= e
  <2> HIDE DEF S
  <2> QED BY <1>1, <1>5, Least
<1>3. PICK m \in T : d = N - m
  OBVIOUS
<1>4. ASSUME NEW k \in T PROVE k <= m
  <2>1. N - m <= N - k
    BY <1>2, <1>3
  <2> QED BY <2>1
<1> QED BY <1>4

\* scope[n] is an entry, of a function that is open.
LEMMA SiteOpen ==
  ASSUME TypeOK, Chain, NEW n \in Names
  PROVE  Site(n) \in OpenFuncts /\ Site(n) \in Functs
<1>1. SitesOpen /\ Global \in OpenFuncts /\ Global \in Functs /\ funct \in OpenFuncts /\ funct \in Functs
  BY ChainOpen, NamesAssumption DEF OpenFuncts, Functs, Global, TypeOK
<1>2. CASE Found(n)
  <2>1. PICK m \in Has(n) : \A k \in Has(n) : k <= m
    <3>1. Len(scope) \in Nat /\ Has(n) \in SUBSET (1 .. Len(scope)) /\ Has(n) # {}
      BY <1>2 DEF Found, Has, TypeOK
    <3> QED BY <3>1, Largest
  <2>2. Seen(n) \in Has(n)
    BY <2>1 DEF Seen
  <2>3. Seen(n) \in 1 .. Len(scope) /\ scope[Seen(n)][n].funct # 0
    BY <2>2 DEF Has
  <2>4. scope[Seen(n)] \in Scopes
    BY <2>3 DEF TypeOK
  <2>5. scope[Seen(n)][n].funct \in 1 .. MaxFunctions
    BY <2>3, <2>4, NamesAssumption DEF Scopes
  <2> QED BY <1>1, <1>2, <2>3, <2>5 DEF Site, SitesOpen, Functs
<1>3. CASE ~Found(n)
  BY <1>1, <1>3 DEF Site
<1> QED BY <1>2, <1>3

\* An entry of a scope.
Entry == [funct : 0 .. MaxFunctions, writeable : BOOLEAN]
\* A sequence of scopes with an entry more.
LEMMA EntryType ==
  ASSUME NEW chain \in Seq(Scopes), NEW i \in 1 .. Len(chain), NEW n, NEW v \in Entry,
         NEW s, s = [chain EXCEPT ![i] = [@ EXCEPT ![n] = v]]
  PROVE  /\ s \in Seq(Scopes) /\ Len(s) = Len(chain)
         /\ \A j \in 1 .. Len(chain) : \A m \in Names : s[j][m] = chain[j][m] \/ (j = i /\ s[j][m] = v)
<1>1. chain[i] \in [Names -> Entry] /\ Scopes = [Names -> Entry]
  BY DEF Scopes, Entry
<1>2. [chain[i] EXCEPT ![n] = v] \in Scopes
  BY <1>1
<1>3. s \in Seq(Scopes) /\ Len(s) = Len(chain)
  BY <1>2
<1>4. \A j \in 1 .. Len(chain) : \A m \in Names : s[j][m] = chain[j][m] \/ (j = i /\ s[j][m] = v)
  <2> SUFFICES ASSUME NEW j \in 1 .. Len(chain), NEW m \in Names
               PROVE  s[j][m] = chain[j][m] \/ (j = i /\ s[j][m] = v)
    OBVIOUS
  <2>1. CASE j # i
    BY <2>1
  <2>2. CASE j = i
    BY <1>1, <2>2
  <2> QED BY <2>1, <2>2
<1> QED BY <1>3, <1>4

\* An entry of a function.
LEMMA VariableType ==
  ASSUME NEW f \in Functs, NEW w \in BOOLEAN
  PROVE  Variable(f, w) \in Entry /\ Variable(f, w).funct = f
BY NamesAssumption DEF Variable, Entry, Functs

\* The table with one kind changed.
LEMMA KindType ==
  ASSUME TypeOK, NEW f, NEW n, NEW kind \in Kinds
  PROVE  /\ Kind(f, n, kind) \in [Functs -> [Names -> Kinds]]
         /\ \A g \in Functs, m \in Names : Kind(f, n, kind)[g][m] = IF g = f /\ m = n THEN kind ELSE kinds[g][m]
BY DEF TypeOK, Kind

\* add_label enters a name into the global scope or the last one.
LEMMA LabelType ==
  ASSUME TypeOK, NEW chain \in Seq(Scopes), Len(chain) >= 1, NEW n \in Names, NEW kind \in Kinds
  PROVE  /\ Labelled(chain, n) \in Seq(Scopes) /\ Len(Labelled(chain, n)) = Len(chain)
         /\ \A j \in 1 .. Len(chain) : \A m \in Names :
              \/ Labelled(chain, n)[j][m] = chain[j][m]
              \/ j = 1 /\ Labelled(chain, n)[j][m].funct = Global
              \/ j = Len(chain) /\ Labelled(chain, n)[j][m].funct = funct
         /\ LabelKind(n, kind) \in Kinds /\ LabelSays(n) \in Seq(Keys)
<1>1. Writeable(n) \in BOOLEAN
  BY NamesAssumption DEF TypeOK, Writeable
<1>2. /\ Global \in Functs /\ funct \in Functs /\ 1 \in 1 .. Len(chain) /\ Len(chain) \in 1 .. Len(chain)
  BY NamesAssumption DEF TypeOK, Global, Functs
<1>6. LabelKind(n, kind) \in Kinds /\ LabelSays(n) \in Seq(Keys)
  <2>1. LabelKind(n, kind) \in {kind, "var"} /\ "var" \in Kinds
    BY DEF LabelKind, Kinds
  <2>2. LabelSays(n) \in Seq(Keys)
    <3>1. LabelSays(n) \in {<<"already_defined">>, <<>>}
      BY DEF LabelSays
    <3>2. <<"already_defined">> \in Seq(Keys) /\ <<>> \in Seq(Keys)
      BY DEF Keys
    <3> QED BY <3>1, <3>2
  <2> QED BY <2>1, <2>2
<1>3. CASE kinds[funct][n] # "none"
  BY <1>3, <1>6 DEF Labelled
<1>4. CASE kinds[funct][n] = "none" /\ funct = Global
  <2> DEFINE v == Variable(Global, Writeable(n))
  <2>1. Labelled(chain, n) = [chain EXCEPT ![1] = [@ EXCEPT ![n] = v]]
    BY <1>4 DEF Labelled
  <2>2. v \in Entry /\ v.funct = Global
    BY <1>1, <1>2, VariableType
  <2> HIDE DEF v
  <2>3. /\ Labelled(chain, n) \in Seq(Scopes) /\ Len(Labelled(chain, n)) = Len(chain)
        /\ \A j \in 1 .. Len(chain) : \A m \in Names :
             Labelled(chain, n)[j][m] = chain[j][m] \/ (j = 1 /\ Labelled(chain, n)[j][m] = v)
    BY ONLY <1>2, <2>1, <2>2, chain \in Seq(Scopes), EntryType
  <2>4. \A j \in 1 .. Len(chain) : \A m \in Names :
          Labelled(chain, n)[j][m] = chain[j][m] \/ (j = 1 /\ Labelled(chain, n)[j][m].funct = Global)
    BY ONLY <2>2, <2>3
  <2> QED BY ONLY <1>6, <2>3, <2>4
<1>5. CASE kinds[funct][n] = "none" /\ funct # Global
  <2> DEFINE v == Variable(funct, TRUE)
  <2>1. Labelled(chain, n) = [chain EXCEPT ![Len(chain)] = [@ EXCEPT ![n] = v]]
    BY <1>5 DEF Labelled
  <2>2. v \in Entry /\ v.funct = funct
    BY <1>2, VariableType
  <2> HIDE DEF v
  <2>3. /\ Labelled(chain, n) \in Seq(Scopes) /\ Len(Labelled(chain, n)) = Len(chain)
        /\ \A j \in 1 .. Len(chain) : \A m \in Names :
             Labelled(chain, n)[j][m] = chain[j][m] \/ (j = Len(chain) /\ Labelled(chain, n)[j][m] = v)
    BY ONLY <1>2, <2>1, <2>2, chain \in Seq(Scopes), EntryType, SMTT(20)
  <2>4. \A j \in 1 .. Len(chain) : \A m \in Names :
          Labelled(chain, n)[j][m] = chain[j][m] \/ (j = Len(chain) /\ Labelled(chain, n)[j][m].funct = funct)
    BY ONLY <2>2, <2>3
  <2> QED BY ONLY <1>6, <2>3, <2>4
<1> QED BY <1>3, <1>4, <1>5, <1>6

\* What is said of a name in a use of it is said with the messages of the module.
LEMMA SaysType ==
  ASSUME NEW n \in Names
  PROVE  ReferSays(n) \in Seq(Keys) /\ AssignSays(n) \in Seq(Keys) /\ ReferSays(n) \o AssignSays(n) \in Seq(Keys)
<1>1. /\ <<"unexpected_a">> \in Seq(Keys) /\ <<"a_label">> \in Seq(Keys) /\ <<"a_scope">> \in Seq(Keys)
      /\ <<"read_only">> \in Seq(Keys) /\ <<"assign_exception">> \in Seq(Keys) /\ <<>> \in Seq(Keys)
  BY DEF Keys
<1>2. ReferSays(n) \in {<<"unexpected_a">>, <<"a_label">>, <<"a_scope">>, <<>>}
  BY DEF ReferSays, HereSays, ThereSays
<1>3. AssignSays(n) \in Seq(Keys)
  <2> DEFINE a == IF ReadOnly(n) THEN <<"read_only">> ELSE <<>>
             b == IF Referred(n)[funct][n] = "exception" THEN <<"assign_exception">> ELSE <<>>
  <2>1. a \in Seq(Keys) /\ b \in Seq(Keys)
    BY <1>1
  <2>2. AssignSays(n) = a \o b
    BY DEF AssignSays
  <2> HIDE DEF a, b
  <2> QED BY <2>1, <2>2
<1>4. ReferSays(n) \in Seq(Keys)
  BY <1>1, <1>2
<1> QED BY <1>3, <1>4

\* A table of kinds that differs from kinds in functions that are open only, and
\* there in names that are in use.
InUseKinds == {"var", "function", "undef", "closure", "outer", "global"}
Kept(table) ==
  /\ table \in [Functs -> [Names -> Kinds]]
  /\ \A f \in Functs \ OpenFuncts : table[f] = kinds[f]
  /\ \A f \in Functs, m \in Names : table[f][m] = kinds[f][m] \/ table[f][m] \in InUseKinds
\* Such a table with one name more in use.
LEMMA KeptStep ==
  ASSUME NEW table, Kept(table), NEW f \in OpenFuncts, f \in Functs, NEW n \in Names, NEW k \in InUseKinds,
         NEW next, next = [table EXCEPT ![f] = [@ EXCEPT ![n] = k]]
  PROVE  Kept(next)
<1>1. k \in Kinds
  BY DEF InUseKinds, Kinds
<1>2. table \in [Functs -> [Names -> Kinds]]
  BY DEF Kept
<1>3. next \in [Functs -> [Names -> Kinds]]
  BY <1>1, <1>2
<1>4. \A g \in Functs, m \in Names : next[g][m] = IF g = f /\ m = n THEN k ELSE table[g][m]
  BY <1>2
<1>5. \A g \in Functs \ OpenFuncts : next[g] = table[g]
  BY <1>2
<1> QED BY <1>3, <1>4, <1>5 DEF Kept

\* A use of a name enters it, if nothing has it, into the global scope or the
\* last one, and changes its kind in the functions that are open only.
LEMMA ReferStep ==
  ASSUME TypeOK, Chain, NEW n \in Names, Refer(n)
  PROVE  /\ kinds' \in [Functs -> [Names -> Kinds]]
         /\ scope' \in Seq(Scopes) /\ Len(scope') = Len(scope)
         /\ \A j \in 1 .. Len(scope) : \A m \in Names :
              \/ scope'[j][m] = scope[j][m] \/ scope'[j][m].funct \in {0, Global}
              \/ j = Len(scope) /\ scope'[j][m].funct = funct
         /\ declared' \in [Functs -> [Names -> {"no", "early", "block", "body"}]]
         /\ \A f \in Functs \ OpenFuncts : kinds'[f] = kinds[f]
         /\ \A f \in Functs, m \in Names :
              kinds'[f][m] = kinds[f][m] \/ kinds'[f][m] \in {"var", "function", "undef", "closure", "outer", "global"}
<1>1. /\ Site(n) \in OpenFuncts /\ Site(n) \in Functs /\ Global \in OpenFuncts /\ Global \in Functs
      /\ funct \in OpenFuncts /\ funct \in Functs
  BY SiteOpen, ChainOpen, NamesAssumption DEF TypeOK, OpenFuncts, Functs, Global
<1>2. /\ scope' \in Seq(Scopes) /\ Len(scope') = Len(scope)
      /\ \A j \in 1 .. Len(scope) : \A m \in Names :
              \/ scope'[j][m] = scope[j][m] \/ scope'[j][m].funct \in {0, Global}
              \/ j = Len(scope) /\ scope'[j][m].funct = funct
  <2>1. scope' = Entered(n) /\ scope \in Seq(Scopes) /\ 1 \in 1 .. Len(scope) /\ Len(scope) \in 1 .. Len(scope)
    <3>1. scope \in Seq(Scopes) /\ Len(scope) \in Nat \ {0}
      BY ChainOpen DEF TypeOK
    <3> QED BY <3>1 DEF Refer
  <2>2. CASE Environment(n)
    <3> DEFINE v == Variable(Global, predefined[n])
    <3>1. scope' = [scope EXCEPT ![1] = [@ EXCEPT ![n] = v]]
      BY <2>1, <2>2 DEF Entered
    <3>2. v \in Entry /\ v.funct = Global
      <4>1. predefined[n] \in BOOLEAN
        BY <2>2, NamesAssumption DEF TypeOK, Environment
      <4> QED BY <1>1, <4>1, VariableType
    <3> HIDE DEF v
    <3>3. /\ scope' \in Seq(Scopes) /\ Len(scope') = Len(scope)
          /\ \A j \in 1 .. Len(scope) : \A m \in Names : scope'[j][m] = scope[j][m] \/ (j = 1 /\ scope'[j][m] = v)
      BY ONLY <2>1, <3>1, <3>2, EntryType
    <3> QED BY <3>2, <3>3
  <2>3. CASE Undefined(n)
    <3> DEFINE v == Variable(funct, TRUE)
    <3>4. PICK l \in 1 .. Len(scope) : l = Len(scope)
      BY <2>1
    <3>1. scope' = [scope EXCEPT ![l] = [@ EXCEPT ![n] = v]]
      BY <2>1, <2>3, <3>4 DEF Entered, Environment, Undefined
    <3>2. v \in Entry /\ v.funct = funct
      BY <1>1, VariableType
    <3> HIDE DEF v
    <3>3. /\ scope' \in Seq(Scopes) /\ Len(scope') = Len(scope)
          /\ \A j \in 1 .. Len(scope) : \A m \in Names : scope'[j][m] = scope[j][m] \/ (j = l /\ scope'[j][m] = v)
      BY ONLY <2>1, <3>1, <3>2, l \in 1 .. Len(scope), EntryType
    <3> QED BY <3>2, <3>3, <3>4
  <2>4. CASE ~Environment(n) /\ ~Undefined(n)
    BY <2>1, <2>4 DEF Entered
  <2> QED BY <2>2, <2>3, <2>4
<1>5. Kept(kinds)
  BY DEF Kept, TypeOK
<1>6. Kept(Table(n))
  <2>1. \/ Table(n) = kinds \/ Table(n) = [kinds EXCEPT ![Global] = [@ EXCEPT ![n] = "var"]]
        \/ Table(n) = [kinds EXCEPT ![funct] = [@ EXCEPT ![n] = "undef"]]
    BY DEF Table, Kind
  <2> QED BY <1>1, <1>5, <2>1, KeptStep DEF InUseKinds
<1>7. Kept(Here(n, Table(n)))
  <2>1. \/ Here(n, Table(n)) = Table(n)
        \/ Here(n, Table(n)) = [Table(n) EXCEPT ![funct] = [@ EXCEPT ![n] = "var"]]
        \/ Here(n, Table(n)) = [Table(n) EXCEPT ![funct] = [@ EXCEPT ![n] = "function"]]
    <3>1. /\ DOMAIN Own = {"becoming", "unused", "unction"}
          /\ Own["becoming"] = "var" /\ Own["unused"] = "var" /\ Own["unction"] = "function"
      BY DEF Own
    <3> DEFINE table == Table(n)
    <3>2. CASE table[funct][n] \notin DOMAIN Own
      BY <3>2 DEF Here
    <3>3. CASE table[funct][n] \in DOMAIN Own
      <4>1. Here(n, table) = [table EXCEPT ![funct] = [@ EXCEPT ![n] = Own[table[funct][n]]]]
        BY <3>3 DEF Here
      <4>2. Own[table[funct][n]] \in {"var", "function"}
        BY <3>1, <3>3
      <4>3. Own[table[funct][n]] = "var" \/ Own[table[funct][n]] = "function"
        BY <4>2
      <4> QED BY <4>1, <4>3
    <3> QED BY <3>2, <3>3
  <2> QED BY <1>1, <1>6, <2>1, KeptStep DEF InUseKinds
<1>8. Kept(There(n, Table(n)))
  <2> DEFINE closed == [Table(n) EXCEPT ![Site(n)] = [@ EXCEPT ![n] = "closure"]]
  <2>1. \/ There(n, Table(n)) = Table(n)
        \/ There(n, Table(n)) = [Table(n) EXCEPT ![funct] = [@ EXCEPT ![n] = "undef"]]
        \/ There(n, Table(n)) = [closed EXCEPT ![funct] = [@ EXCEPT ![n] = "global"]]
        \/ There(n, Table(n)) = [closed EXCEPT ![funct] = [@ EXCEPT ![n] = "outer"]]
    <3>1. CASE Site(n) = Global
      BY <3>1 DEF There
    <3>2. CASE Site(n) # Global
      BY <3>2 DEF There
    <3> QED BY <3>1, <3>2
  <2>2. Kept(closed)
    BY <1>1, <1>6, KeptStep DEF InUseKinds
  <2> HIDE DEF closed
  <2> QED BY <1>1, <1>6, <2>1, <2>2, KeptStep DEF InUseKinds
<1>9. Kept(kinds')
  BY <1>7, <1>8 DEF Refer, Referred
<1>10. declared' \in [Functs -> [Names -> {"no", "early", "block", "body"}]]
  <2>1. declared' = declared \/ declared' = [declared EXCEPT ![funct] = [@ EXCEPT ![n] = "early"]]
    BY DEF Refer
  <2>2. declared \in [Functs -> [Names -> {"no", "early", "block", "body"}]]
    BY DEF TypeOK
  <2> QED BY <1>1, <2>1, <2>2
<1> QED BY <1>2, <1>9, <1>10 DEF Kept, InUseKinds

\* A new scope has no names.
LEMMA EmptyType == Empty \in Scopes /\ \A m \in Names : Empty[m].funct = 0
<1>1. NoVariable \in Entry /\ NoVariable.funct = 0
  BY NamesAssumption DEF NoVariable, Variable, Entry
<1> QED BY <1>1 DEF Empty, Scopes, Entry

\* What a step opens.
LEMMA OpenType ==
  ASSUME TypeOK, NEW kind \in Openers, NEW n \in Names \cup {NoName}, Open(kind, n)
  PROVE  /\ nest' = Append(nest, Opened(kind, n)) /\ Opened(kind, n) \in Openings
         /\ nest' \in Seq(Openings)
<1>1. funct \in Functs /\ Len(scope) \in Nat /\ nest \in Seq(Openings)
  BY DEF TypeOK
<1>2. Opened(kind, n) \in Openings
  BY <1>1 DEF Opened, Openings
<1>3. nest' = Append(nest, Opened(kind, n))
  BY DEF Open
<1> QED BY <1>1, <1>2, <1>3, AppendProperties

\* What is to be closed, and what its end restores.
LEMMA CloseType ==
  ASSUME TypeOK, Chain, Top # "global"
  PROVE  /\ nest # <<>> /\ Innermost \in Openings /\ Top = Innermost.kind
         /\ Innermost.depth \in 1 .. Len(scope)
         /\ Top = "var" => Innermost.depth = Len(scope)
         /\ Top \notin {"params", "function"} => Innermost.funct = funct
<1>1. nest # <<>> /\ Top = Innermost.kind
  BY DEF Top, Innermost
<1>2. Len(nest) \in Nat \ {0} /\ nest \in Seq(Openings)
  BY <1>1, EmptySeq DEF TypeOK
<1>3. Innermost \in Openings /\ Levels = Len(nest) + 1 /\ Levels \in Nat
  BY <1>2 DEF Innermost, Levels
<1>4. /\ Depths[Len(nest)] = Innermost.depth /\ Owners[Len(nest)] = Innermost.funct
      /\ Depths[Levels] = Len(scope) /\ Owners[Levels] = funct
  BY <1>2, <1>3 DEF Depths, Owners, Innermost
<1>5. Depths[Len(nest)] \in Nat \ {0} /\ Depths[Len(nest)] <= Depths[Levels]
  BY <1>2, <1>3 DEF Chain, Climbs
<1>6. /\ Innermost.kind = "var" => Depths[Levels] = Depths[Len(nest)]
      /\ Innermost.kind \notin {"params", "function"} => Owners[Levels] = Owners[Len(nest)]
  BY <1>2, <1>3 DEF Chain, Items, Innermost
<1>7. Len(scope) \in Nat
  BY DEF TypeOK
<1> QED BY <1>1, <1>3, <1>4, <1>5, <1>6, <1>7

\* What Close and a scope cut back to its depth leave.
LEMMA CloseStep ==
  ASSUME TypeOK, Chain, Top # "global", Close, funct' = Innermost.funct, scope' = SubSeq(scope, 1, Innermost.depth)
  PROVE  nest' \in Seq(Openings) /\ scope' \in Seq(Scopes) /\ funct' \in Functs /\ Chain'
<1>1. /\ nest # <<>> /\ Innermost \in Openings /\ Innermost.depth \in 0 .. Len(scope)
      /\ nest' = SubSeq(nest, 1, Len(nest) - 1)
  BY CloseType DEF Close
<1>2. scope \in Seq(Scopes) /\ nest \in Seq(Openings) /\ Len(nest) - 1 \in 0 .. Len(nest)
  BY <1>1, EmptySeq DEF TypeOK
<1>3. /\ scope' \in Seq(Scopes) /\ Len(scope') = Innermost.depth
      /\ \A j \in 1 .. Innermost.depth : scope'[j] = scope[j]
  BY ONLY <1>1, <1>2, scope' = SubSeq(scope, 1, Innermost.depth), Shorter
<1>4. nest' \in Seq(Openings)
  BY ONLY <1>1, <1>2, Shorter
<1>5. funct' \in Functs
  BY <1>1 DEF Openings
<1>6. Chain'
  BY <1>1, <1>3, ChainFalls
<1> QED BY <1>3, <1>4, <1>5, <1>6

(********************************* the steps ********************************)
IInv == TypeOK /\ Chain

\* The end of a block, a try, a catch clause or a labelled loop.
LEMMA EndBlockStep == ASSUME IInv, end_block PROVE IInv'
<1>1. Top # "global" /\ Innermost.funct = funct
  BY CloseType DEF IInv, end_block
<1>2. nest' \in Seq(Openings) /\ scope' \in Seq(Scopes) /\ funct' \in Functs /\ Chain'
  BY <1>1, CloseStep DEF IInv, end_block
<1>3. ReportTypeOK(Keys)'
  <2>1. <<>> \in Seq(Keys)
    OBVIOUS
  <2> QED BY <2>1, WarnTypes DEF IInv, TypeOK, end_block
<1> QED BY <1>2, <1>3 DEF IInv, TypeOK, end_block

\* The end of a function.
LEMMA EndFunctionStep == ASSUME IInv, end_function PROVE IInv'
<1>1. Top # "global"
  BY DEF end_function
<1>2. nest' \in Seq(Openings) /\ scope' \in Seq(Scopes) /\ funct' \in Functs /\ Chain'
  BY <1>1, CloseStep DEF IInv, end_function
<1>3. ReportTypeOK(Keys)'
  <2>1. <<>> \in Seq(Keys)
    OBVIOUS
  <2> QED BY <2>1, WarnTypes DEF IInv, TypeOK, end_function
<1> QED BY <1>2, <1>3 DEF IInv, TypeOK, end_function

\* The end of the initial value of a var.
LEMMA EndVarStep == ASSUME IInv, end_var PROVE IInv'
<1>1. Top # "global" /\ Innermost.funct = funct /\ Innermost.depth = Len(scope)
  BY CloseType DEF IInv, end_var
<1>2. scope' = SubSeq(scope, 1, Innermost.depth) /\ funct' = Innermost.funct
  BY <1>1, SubSeqFull DEF IInv, TypeOK, end_var
<1>3. nest' \in Seq(Openings) /\ scope' \in Seq(Scopes) /\ funct' \in Functs /\ Chain'
  BY <1>1, <1>2, CloseStep DEF IInv, end_var
<1>4. kinds' \in [Functs -> [Names -> Kinds]]
  <2>1. kinds' = kinds \/ \E n \in {Innermost.name} : kinds' = Kind(funct, n, "unused")
    BY DEF end_var
  <2>2. "unused" \in Kinds
    BY DEF Kinds
  <2> QED BY <2>1, <2>2, KindType DEF IInv, TypeOK
<1>5. ReportTypeOK(Keys)'
  <2>1. <<>> \in Seq(Keys)
    OBVIOUS
  <2> QED BY <2>1, WarnTypes DEF IInv, TypeOK, end_var
<1> QED BY <1>3, <1>4, <1>5 DEF IInv, TypeOK, end_var

\* The beginning of the body of a function, after its parameters.
LEMMA BodyStep == ASSUME IInv, body PROVE IInv'
<1>1. nest # <<>> /\ Innermost \in Openings /\ Innermost.kind = "params"
  BY CloseType DEF IInv, body
<1>2. Chain'
  BY <1>1, ChainWidens DEF IInv, body
<1>3. scope' \in Seq(Scopes)
  BY EmptyType, AppendProperties DEF IInv, TypeOK, body
<1>4. nest' \in Seq(Openings)
  <2>1. nest \in Seq(Openings) /\ Len(nest) \in Nat \ {0} /\ Len(nest) \in 1 .. Len(nest)
    BY <1>1, EmptySeq DEF IInv, TypeOK
  <2>2. [nest[Len(nest)] EXCEPT !.kind = "function"] \in Openings
    BY <1>1 DEF Innermost, Openings, Openers
  <2> QED BY <2>1, <2>2 DEF body
<1>5. ReportTypeOK(Keys)'
  <2>1. <<>> \in Seq(Keys)
    OBVIOUS
  <2> QED BY <2>1, WarnTypes DEF IInv, TypeOK, body
<1> QED BY <1>2, <1>3, <1>4, <1>5 DEF IInv, TypeOK, body

\* Steps that open a scope in which a name may be entered, after it was added to
\* the chain.
LEMMA ScopeStep ==
  ASSUME IInv, NEW kind \in Openers \ {"var", "params", "function"}, NEW n \in Names \cup {NoName}, Open(kind, n),
         funct' = funct,
         \/ scope' = Append(scope, Empty)
         \/ n \in Names /\ scope' = Labelled(Append(scope, Empty), n)
  PROVE  nest' \in Seq(Openings) /\ scope' \in Seq(Scopes) /\ Chain'
<1> DEFINE chain == Append(scope, Empty)
<1>1. /\ chain \in Seq(Scopes) /\ Len(chain) = Len(scope) + 1 /\ Len(scope) \in Nat \ {0}
      /\ \A j \in 1 .. Len(scope) : chain[j] = scope[j]
      /\ \A m \in Names : chain[Len(scope) + 1][m].funct = 0
  BY EmptyType, ChainOpen, AppendProperties DEF IInv, TypeOK
<1> HIDE DEF chain
<1>2. /\ scope' \in Seq(Scopes) /\ Len(scope') = Len(chain)
      /\ \A j \in 1 .. Len(chain) : \A m \in Names :
            \/ scope'[j][m] = chain[j][m]
            \/ j = 1 /\ scope'[j][m].funct = Global
            \/ j = Len(chain) /\ scope'[j][m].funct = funct
  <2>1. CASE scope' = chain
    BY <1>1, <2>1
  <2>2. CASE n \in Names /\ scope' = Labelled(chain, n)
    <3>1. Len(chain) >= 1 /\ "label" \in Kinds
      BY <1>1 DEF Kinds
    <3>2. /\ Labelled(chain, n) \in Seq(Scopes) /\ Len(Labelled(chain, n)) = Len(chain)
          /\ \A j \in 1 .. Len(chain) : \A m \in Names :
                \/ Labelled(chain, n)[j][m] = chain[j][m]
                \/ j = 1 /\ Labelled(chain, n)[j][m].funct = Global
                \/ j = Len(chain) /\ Labelled(chain, n)[j][m].funct = funct
      <4>1. TypeOK /\ n \in Names /\ chain \in Seq(Scopes)
        BY <1>1, <2>2 DEF IInv
      <4> QED BY ONLY <3>1, <4>1, LabelType
    <3> QED BY <2>2, <3>2
  <2> QED BY <2>1, <2>2 DEF chain
<1>3. nest' = Append(nest, Opened(kind, n)) /\ Opened(kind, n) \in Openings /\ nest' \in Seq(Openings)
  BY OpenType DEF IInv
<1>4. \A j \in 1 .. Len(scope) : \A m \in Names :
        scope'[j][m] = scope[j][m] \/ scope'[j][m].funct \in {0, Global}
  BY <1>1, <1>2
<1>5. \A j \in Len(scope) + 1 .. Len(scope') : \A m \in Names : scope'[j][m].funct \in {0, funct'}
  <2> SUFFICES ASSUME NEW j \in Len(scope) + 1 .. Len(scope'), NEW m \in Names
               PROVE  scope'[j][m].funct \in {0, funct'}
    OBVIOUS
  <2>1. j = Len(scope) + 1 /\ j \in 1 .. Len(chain) /\ j # 1 /\ chain[j][m].funct = 0
    BY <1>1, <1>2
  <2> QED BY <1>2, <2>1
<1>6. funct' \in Nat
  BY DEF IInv, TypeOK, Functs
<1>7. Len(scope') \in Nat /\ Len(scope') > Len(scope)
  BY <1>1, <1>2
<1>8. Chain'
  BY <1>1, <1>3, <1>4, <1>5, <1>6, <1>7, ChainGrows DEF IInv
<1> QED BY <1>2, <1>3, <1>8

\* The beginning of a block.
LEMMA BlockStep == ASSUME IInv, NEW kind \in {"block", "try"}, block(kind) PROVE IInv'
<1>1. nest' \in Seq(Openings) /\ scope' \in Seq(Scopes) /\ Chain'
  BY ScopeStep DEF block, Openers
<1>2. ReportTypeOK(Keys)'
  <2>1. <<>> \in Seq(Keys)
    OBVIOUS
  <2> QED BY <2>1, WarnTypes DEF IInv, TypeOK, block
<1> QED BY <1>1, <1>2 DEF IInv, TypeOK, block

\* The types of what add_label writes and says.
LEMMA AddLabelType ==
  ASSUME IInv, NEW n \in Names, NEW chain, NEW kind \in Kinds, add_label(chain, n, kind)
  PROVE  /\ kinds' \in [Functs -> [Names -> Kinds]] /\ scope' = Labelled(chain, n)
         /\ \A f \in Functs \ {funct} : kinds'[f] = kinds[f]
<1>1. LabelKind(n, kind) \in {kind, "var"} /\ "var" \in Kinds
  BY DEF LabelKind, Kinds
<1>2. kinds' = Kind(funct, n, LabelKind(n, kind)) /\ scope' = Labelled(chain, n)
  BY DEF add_label
<1>3. kinds' \in [Functs -> [Names -> Kinds]]
  BY <1>1, <1>2, KindType DEF IInv
<1>4. \A f \in Functs \ {funct} : kinds'[f] = kinds[f]
  BY <1>2 DEF IInv, TypeOK, Kind
<1> QED BY <1>2, <1>3, <1>4

\* The messages of a definition.
LEMMA LabelSaysType ==
  ASSUME IInv, NEW n \in Names
  PROVE  LabelSays(n) \in Seq(Keys) /\ <<"unexpected_label_a">> \in Seq(Keys)
<1>1. LabelSays(n) \in {<<"already_defined">>, <<>>}
  BY DEF LabelSays
<1>2. <<"already_defined">> \in Seq(Keys) /\ <<>> \in Seq(Keys) /\ <<"unexpected_label_a">> \in Seq(Keys)
  BY DEF Keys
<1> QED BY <1>1, <1>2

\* So is what is said of a function statement, which in a block is never silence.
LEMMA StatementSaysType ==
  ASSUME IInv, NEW n \in Names
  PROVE  StatementSays(n) \in Seq(Keys) /\ (StatementSays(n) = <<>> => LabelSays(n) = <<>>)
<1>1. CASE Top \in {"block", "label"}
  <2>1. StatementSays(n) = <<"function_block">> \o LabelSays(n)
    BY <1>1 DEF StatementSays
  <2>2. <<"function_block">> \in Seq(Keys)
    BY DEF Keys
  <2>3. LabelSays(n) \in Seq(Keys)
    BY LabelSaysType
  <2>4. <<"function_block">> \o LabelSays(n) \in Seq(Keys)
    BY <2>2, <2>3
  <2>5. Len(<<"function_block">> \o LabelSays(n)) = 1 + Len(LabelSays(n)) /\ Len(LabelSays(n)) \in Nat
    BY <2>2, <2>3
  <2>6. StatementSays(n) # <<>>
    BY <2>1, <2>5
  <2> QED BY <2>1, <2>4, <2>6
<1>2. CASE Top \notin {"block", "label"}
  <2>1. StatementSays(n) = <<>> \o LabelSays(n) /\ LabelSays(n) \in Seq(Keys)
    BY <1>2, LabelSaysType DEF StatementSays
  <2> QED BY <2>1
<1> QED BY <1>1, <1>2

\* A catch clause and its variable.
LEMMA CatchStep == ASSUME IInv, NEW n \in Names, catch(n) PROVE IInv'
<1>1. kinds' \in [Functs -> [Names -> Kinds]] /\ scope' = Labelled(Append(scope, Empty), n)
  BY AddLabelType DEF catch, Kinds
<1>2. nest' \in Seq(Openings) /\ scope' \in Seq(Scopes) /\ Chain'
  BY <1>1, ScopeStep DEF catch, Openers
<1>3. ReportTypeOK(Keys)'
  BY LabelSaysType, WarnTypes DEF IInv, TypeOK, catch
<1> QED BY <1>1, <1>2, <1>3 DEF IInv, TypeOK, catch

\* A label and its loop.
LEMMA LabelStep == ASSUME IInv, NEW n \in Names, label(n) PROVE IInv'
<1>1. kinds' \in [Functs -> [Names -> Kinds]] /\ scope' = Labelled(Append(scope, Empty), n)
  BY AddLabelType DEF label, Kinds
<1>2. nest' \in Seq(Openings) /\ scope' \in Seq(Scopes) /\ Chain'
  BY <1>1, ScopeStep DEF label, Openers
<1>3. ReportTypeOK(Keys)'
  BY LabelSaysType, WarnTypes, StopTypes DEF IInv, TypeOK, label
<1> QED BY <1>1, <1>2, <1>3 DEF IInv, TypeOK, label

\* The declarations with one more.
LEMMA DeclaredType ==
  ASSUME IInv, NEW n \in Names
  PROVE  Declared(n) \in [Functs -> [Names -> {"no", "early", "block", "body"}]]
<1>1. declared \in [Functs -> [Names -> {"no", "early", "block", "body"}]] /\ funct \in Functs
  BY DEF IInv, TypeOK
<1> QED BY <1>1 DEF Declared

\* What Labelled enters into the chain as it is.
LEMMA LabelledHere ==
  ASSUME IInv, NEW n \in Names
  PROVE  /\ Labelled(scope, n) \in Seq(Scopes) /\ Len(Labelled(scope, n)) = Len(scope)
         /\ \A j \in 1 .. Len(scope) : \A m \in Names :
              \/ Labelled(scope, n)[j][m] = scope[j][m] \/ Labelled(scope, n)[j][m].funct \in {0, Global}
              \/ j = Len(scope) /\ Labelled(scope, n)[j][m].funct = funct
<1>1. scope \in Seq(Scopes) /\ Len(scope) >= 1 /\ "var" \in Kinds
  BY ChainOpen DEF IInv, TypeOK, Kinds
<1> QED BY <1>1, LabelType DEF IInv

\* A name of a var statement.
LEMMA VarStep == ASSUME IInv, NEW n \in Names, var(n) PROVE IInv'
<1>1. kinds' \in [Functs -> [Names -> Kinds]] /\ scope' = Labelled(scope, n)
  BY AddLabelType DEF var, Kinds
<1>2. nest' = Append(nest, Opened("var", n)) /\ Opened("var", n) \in Openings /\ nest' \in Seq(Openings)
  BY OpenType DEF IInv, var, Openers
<1>3. /\ scope' \in Seq(Scopes) /\ Len(scope') = Len(scope) /\ Len(scope) \in Nat /\ funct \in Nat
      /\ \A j \in 1 .. Len(scope) : \A m \in Names :
           \/ scope'[j][m] = scope[j][m] \/ scope'[j][m].funct \in {0, Global}
           \/ j = Len(scope) /\ scope'[j][m].funct = funct
  BY <1>1, LabelledHere DEF IInv, TypeOK, Functs
<1>4. \A j \in Len(scope) + 1 .. Len(scope') : FALSE
  BY <1>3
<1>5. Chain'
  BY <1>2, <1>3, <1>4, ChainGrows DEF IInv, var
<1>6. ReportTypeOK(Keys)'
  BY LabelSaysType, WarnTypes DEF IInv, TypeOK, var
<1> QED BY <1>1, <1>2, <1>3, <1>5, <1>6, DeclaredType DEF IInv, TypeOK, var

\* A parameter.
LEMMA ParamsStep == ASSUME IInv, NEW n \in Names, function_params(n) PROVE IInv'
<1>1. kinds' \in [Functs -> [Names -> Kinds]] /\ scope' = Labelled(scope, n)
  BY AddLabelType DEF function_params, Kinds
<1>2. Chain' /\ scope' \in Seq(Scopes)
  BY <1>1, LabelledHere, ChainStays DEF IInv, function_params
<1>3. ReportTypeOK(Keys)'
  BY LabelSaysType, WarnTypes DEF IInv, TypeOK, function_params
<1> QED BY <1>1, <1>2, <1>3, DeclaredType DEF IInv, TypeOK, function_params

\* do_function, after entries into the table and the chain.
LEMMA FunctionStep ==
  ASSUME IInv, NEW n \in Names \cup {NoName}, NEW table \in [Functs -> [Names -> Kinds]], NEW chain \in Seq(Scopes),
         Len(chain) = Len(scope), do_function(n, table, chain),
         \A j \in 1 .. Len(scope) : \A m \in Names :
           \/ chain[j][m] = scope[j][m] \/ chain[j][m].funct \in {0, Global}
           \/ j = Len(scope) /\ chain[j][m].funct = funct
  PROVE  /\ kinds' \in [Functs -> [Names -> Kinds]] /\ context' \in [Functs -> 0 .. MaxFunctions]
         /\ scope' \in Seq(Scopes) /\ nest' \in Seq(Openings) /\ funct' \in Functs /\ last' \in Functs
         /\ predefined' = predefined /\ Chain'
         /\ \A f \in 1 .. last : kinds'[f] = table[f]
<1>1. /\ last + 1 \in Functs /\ last' = last + 1 /\ funct' = last + 1 /\ funct' \in Nat
      /\ predefined' = predefined /\ last \in Nat
  BY NamesAssumption DEF IInv, TypeOK, Functs, do_function
<1>2. kinds' \in [Functs -> [Names -> Kinds]] /\ \A f \in 1 .. last : kinds'[f] = table[f]
  <2>1. "function" \in Kinds
    BY DEF Kinds
  <2>2. kinds' = table \/ kinds' = [table EXCEPT ![last + 1] = [@ EXCEPT ![n] = "function"]]
    BY DEF do_function
  <2>3. \A f \in 1 .. last : f \in Functs /\ f # last + 1
    BY <1>1, NamesAssumption DEF Functs
  <2>4. kinds' \in [Functs -> [Names -> Kinds]]
    BY <1>1, <2>1, <2>2
  <2>5. \A f \in 1 .. last : kinds'[f] = table[f]
    BY <2>2, <2>3
  <2> QED BY <2>4, <2>5
<1>3. context' \in [Functs -> 0 .. MaxFunctions]
  <2>1. funct \in 0 .. MaxFunctions /\ context \in [Functs -> 0 .. MaxFunctions]
    BY NamesAssumption DEF IInv, TypeOK, Functs
  <2> QED BY <2>1 DEF do_function
<1>4. PICK own \in Scopes : /\ scope' = Append(chain, own)
                            /\ \A m \in Names : own[m].funct \in {0, funct'}
  <2>1. CASE n = NoName
    BY <2>1, EmptyType DEF do_function
  <2>2. CASE n # NoName
    <3> DEFINE v == Variable(last + 1, FALSE)
               own == [Empty EXCEPT ![n] = v]
    <3>1. v \in Entry /\ v.funct = last + 1
      BY <1>1, VariableType
    <3>2. Empty \in [Names -> Entry] /\ Scopes = [Names -> Entry]
      BY EmptyType DEF Scopes, Entry
    <3>3. scope' = Append(chain, own)
      BY <2>2 DEF do_function
    <3> HIDE DEF v
    <3>4. own \in Scopes /\ \A m \in Names : own[m] = v \/ own[m] = Empty[m]
      BY <3>1, <3>2
    <3>5. \A m \in Names : own[m].funct \in {0, funct'}
      BY <1>1, <3>1, <3>4, EmptyType
    <3> HIDE DEF own
    <3> QED BY <3>3, <3>4, <3>5
  <2> QED BY <2>1, <2>2
<1>5. /\ Len(scope) \in Nat \ {0} /\ scope' \in Seq(Scopes) /\ Len(scope') = Len(scope) + 1
      /\ \A j \in 1 .. Len(scope) : scope'[j] = chain[j]
      /\ scope'[Len(scope) + 1] = own
  BY <1>4, ChainOpen, AppendProperties DEF IInv
<1>6. /\ nest' = Append(nest, Opened("params", NoName)) /\ Opened("params", NoName) \in Openings
      /\ nest' \in Seq(Openings)
  BY OpenType DEF IInv, do_function, Openers
<1>7. Chain'
  <2>1. \A j \in 1 .. Len(scope) : \A m \in Names :
           \/ scope'[j][m] = scope[j][m] \/ scope'[j][m].funct \in {0, Global}
           \/ j = Len(scope) /\ scope'[j][m].funct = funct
    BY <1>5
  <2>2. \A j \in Len(scope) + 1 .. Len(scope') : \A m \in Names : scope'[j][m].funct \in {0, funct'}
    <3> SUFFICES ASSUME NEW j \in Len(scope) + 1 .. Len(scope'), NEW m \in Names
                 PROVE  scope'[j][m].funct \in {0, funct'}
      OBVIOUS
    <3>1. j = Len(scope) + 1
      BY <1>5
    <3> QED BY <1>4, <1>5, <3>1
  <2>3. Len(scope') \in Nat /\ Len(scope') > Len(scope)
    BY <1>5
  <2> QED BY <1>1, <1>6, <2>1, <2>2, <2>3, ChainGrows, SMTT(20) DEF IInv
<1> QED BY <1>1, <1>2, <1>3, <1>5, <1>6, <1>7

\* A function statement enters its name where it stands, then opens the function.
LEMMA FunctionStatementStep == ASSUME IInv, NEW n \in Names, function_statement(n) PROVE IInv'
<1> DEFINE table == Kind(funct, n, LabelKind(n, "unction"))
           chain == Labelled(scope, n)
<1>1. table \in [Functs -> [Names -> Kinds]]
  <2>1. LabelKind(n, "unction") \in Kinds
    BY DEF LabelKind, Kinds
  <2> QED BY <2>1, KindType DEF IInv
<1>2. /\ chain \in Seq(Scopes) /\ Len(chain) = Len(scope)
      /\ \A j \in 1 .. Len(scope) : \A m \in Names :
           \/ chain[j][m] = scope[j][m] \/ chain[j][m].funct \in {0, Global}
           \/ j = Len(scope) /\ chain[j][m].funct = funct
  BY LabelledHere
<1>3. do_function(n, table, chain)
  BY DEF function_statement
<1> HIDE DEF table, chain
<1>4. /\ kinds' \in [Functs -> [Names -> Kinds]] /\ context' \in [Functs -> 0 .. MaxFunctions]
      /\ scope' \in Seq(Scopes) /\ nest' \in Seq(Openings) /\ funct' \in Functs /\ last' \in Functs
      /\ predefined' = predefined /\ Chain'
  BY <1>1, <1>2, <1>3, FunctionStep
<1>5. declared' \in [Functs -> [Names -> {"no", "early", "block", "body"}]]
  <2>1. Declared(n) \in [Functs -> [Names -> {"no", "early", "block", "body"}]]
    BY DeclaredType
  <2> QED BY <2>1 DEF function_statement
<1>6. ReportTypeOK(Keys)'
  BY StatementSaysType, WarnTypes DEF IInv, TypeOK, function_statement
<1> QED BY <1>4, <1>5, <1>6 DEF IInv, TypeOK

\* A function expression enters nothing where it stands.
LEMMA FunctionExpressionStep == ASSUME IInv, NEW n \in Names \cup {NoName}, function_expression(n) PROVE IInv'
<1>1. /\ kinds' \in [Functs -> [Names -> Kinds]] /\ context' \in [Functs -> 0 .. MaxFunctions]
      /\ scope' \in Seq(Scopes) /\ nest' \in Seq(Openings) /\ funct' \in Functs /\ last' \in Functs
      /\ predefined' = predefined /\ Chain'
  <2>1. kinds \in [Functs -> [Names -> Kinds]] /\ scope \in Seq(Scopes)
    BY DEF IInv, TypeOK
  <2>2. do_function(n, kinds, scope)
    BY DEF function_expression
  <2> QED BY <2>1, <2>2, FunctionStep
<1>2. declared' \in [Functs -> [Names -> {"no", "early", "block", "body"}]]
  BY DEF IInv, TypeOK, function_expression
<1>3. ReportTypeOK(Keys)'
  <2>1. <<>> \in Seq(Keys)
    OBVIOUS
  <2> QED BY <2>1, WarnTypes DEF IInv, TypeOK, function_expression
<1> QED BY <1>1, <1>2, <1>3 DEF IInv, TypeOK

\* A use of a name, whatever is said of it.
LEMMA ReferInv == ASSUME IInv, NEW n \in Names, Refer(n), ReportTypeOK(Keys)' PROVE IInv'
<1>1. Chain'
  BY ReferStep, ChainStays DEF IInv, Refer
<1> QED BY <1>1, ReferStep DEF IInv, TypeOK, Refer

\* A use of a name, as an operand or to be assigned to.
LEMMA IdentifierStep == ASSUME IInv, NEW n \in Names, identifier(n) \/ plusplus(n) \/ assignop(n) PROVE IInv'
<1>1. ReportTypeOK(Keys)'
  BY SaysType, WarnTypes DEF IInv, TypeOK, identifier, plusplus, assignop
<1> QED BY <1>1, ReferInv DEF identifier, plusplus, assignop

\* Steps that leave the scopes alone.
LEMMA ForinStep == ASSUME IInv, NEW n \in Names, forin(n) PROVE IInv'
<1>1. Chain'
  BY ChainStays DEF IInv, forin
<1>2. kinds' \in [Functs -> [Names -> Kinds]]
  <2>1. kinds' = kinds \/ kinds' = Kind(funct, n, "var")
    BY DEF forin
  <2>2. "var" \in Kinds
    BY DEF Kinds
  <2> QED BY <2>1, <2>2, KindType DEF IInv, TypeOK
<1>3. ReportTypeOK(Keys)'
  <2>1. <<>> \in Seq(Keys) /\ <<"bad_in_a">> \in Seq(Keys)
    BY DEF Keys
  <2> QED BY <2>1, WarnTypes DEF IInv, TypeOK, forin, ForinSays
<1> QED BY <1>1, <1>2, <1>3 DEF IInv, TypeOK, forin

\* A break or continue with a label.
LEMMA JumpStep == ASSUME IInv, NEW n \in Names, jump(n) PROVE IInv'
<1>1. Chain'
  BY ChainStays DEF IInv, jump, names
<1>2. ReportTypeOK(Keys)'
  <2>1. <<>> \in Seq(Keys) /\ <<"not_a_label">> \in Seq(Keys) /\ <<"not_a_scope">> \in Seq(Keys)
    BY DEF Keys
  <2> QED BY <2>1, WarnTypes, StopTypes DEF IInv, TypeOK, jump
<1> QED BY <1>1, <1>2 DEF IInv, TypeOK, jump, names

\* The end of the text.
LEMMA EndStep == ASSUME IInv, end PROVE IInv'
<1>1. Chain'
  BY ChainStays DEF IInv, end, names
<1>2. ReportTypeOK(Keys)'
  <2>1. <<>> \in Seq(Keys)
    OBVIOUS
  <2> QED BY <2>1, WarnTypes DEF IInv, TypeOK, end
<1> QED BY <1>1, <1>2 DEF IInv, TypeOK, end, names

(******************************** the theorems ******************************)
\* Every step keeps the inductive invariant.
LEMMA InvStep == IInv /\ [Next \/ Done]_vars => IInv'
<1> SUFFICES ASSUME IInv, [Next \/ Done]_vars PROVE IInv'
  OBVIOUS
<1>1. CASE Done \/ UNCHANGED vars
  <2>1. /\ UNCHANGED <<predefined, kinds, last, context, funct, scope, nest, declared>>
        /\ UNCHANGED <<errors, warnings, status, maxerr>>
    BY <1>1 DEF Done, vars, names, report
  <2>2. Chain'
    BY <2>1, ChainStays DEF IInv
  <2> QED BY <2>1, <2>2 DEF IInv, TypeOK, ReportTypeOK
<1>2. ASSUME NEW n \in Names,
             catch(n) \/ label(n) \/ var(n) \/ function_statement(n) \/ function_params(n)
      PROVE  IInv'
  BY <1>2, CatchStep, LabelStep, VarStep, FunctionStatementStep, ParamsStep
<1>3. ASSUME NEW n \in Names, identifier(n) \/ plusplus(n) \/ assignop(n) \/ forin(n) \/ jump(n) PROVE IInv'
  BY <1>3, IdentifierStep, ForinStep, JumpStep
<1>4. ASSUME NEW n \in Names \cup {NoName}, function_expression(n) PROVE IInv'
  BY <1>4, FunctionExpressionStep
<1>5. CASE block("block") \/ block("try")
  BY <1>5, BlockStep
<1>6. CASE end_block \/ end_var \/ body \/ end_function \/ end
  BY <1>6, EndBlockStep, EndVarStep, BodyStep, EndFunctionStep, EndStep
<1> QED BY <1>1, <1>2, <1>3, <1>4, <1>5, <1>6 DEF Next

\* The inductive invariant holds at the beginning.
LEMMA InvInit == Init => IInv
<1> SUFFICES ASSUME Init PROVE IInv
  OBVIOUS
<1>1. Global \in Functs /\ Global \in Nat
  BY NamesAssumption DEF Global, Functs
<1>2. TypeOK
  <2>1. ReportTypeOK(Keys)
    BY MaxErrAssumption DEF Init, ReportInit, ReportTypeOK
  <2>2. scope \in Seq(Scopes)
    BY EmptyType DEF Init
  <2>3. nest \in Seq(Openings)
    BY DEF Init
  <2>4. /\ "none" \in Kinds /\ 0 \in 0 .. MaxFunctions
    BY NamesAssumption DEF Kinds
  <2> QED BY <1>1, <2>1, <2>2, <2>3, <2>4 DEF Init, TypeOK
<1>3. Levels = 1 /\ Len(nest) = 0 /\ Len(scope) = 1
  BY EmptySeq DEF Init, Levels
<1>4. Depths[1] = 1 /\ Owners[1] = Global
  BY <1>3 DEF Init, Depths, Owners
<1>5. Climbs(Levels, Depths, Owners)
  BY <1>1, <1>3, <1>4 DEF Climbs
<1>6. Known(Levels, Depths, Owners, scope)
  <2>1. scope[1] = Empty
    BY DEF Init
  <2> QED BY <1>3, <1>4, <2>1, EmptyType DEF Known
<1>7. Items
  BY <1>3 DEF Items
<1> QED BY <1>2, <1>5, <1>6, <1>7 DEF IInv, Chain

\* The inductive invariant: types, and that the levels of what is open climb and
\* know the functions around them only.
THEOREM Invariance == Spec => []IInv
<1> QED BY InvInit, InvStep, PTL DEF Spec

\* Every variable keeps its type.
THEOREM TypeCorrect == Spec => []TypeOK
<1>1. IInv => TypeOK
  BY DEF IInv
<1> QED BY <1>1, Invariance, PTL

\* However functions and blocks nest, scope and funct are restored.
THEOREM Restored == Spec => []ScopeRestored
<1>1. IInv => ScopeRestored
  BY ChainOpen DEF IInv
<1> QED BY <1>1, Invariance, PTL

\* Names resolve to functions that are open, and to no other.
THEOREM Resolved == Spec => []SitesOpen
<1>1. IInv => SitesOpen
  BY ChainOpen DEF IInv
<1> QED BY <1>1, Invariance, PTL

\* No step changes the kinds of a function that is not open.
LEMMA ClosedStep ==
  ASSUME IInv, [Next \/ Done]_vars, NEW f \in 1 .. last, f \notin OpenFuncts
  PROVE  kinds'[f] = kinds[f]
<1>1. f \in Functs /\ f # funct /\ funct \in Functs
  BY NamesAssumption DEF IInv, TypeOK, Functs, OpenFuncts
<1>2. \A n, kind : Kind(funct, n, kind)[f] = kinds[f]
  BY <1>1 DEF Kind, IInv, TypeOK
<1>3. CASE UNCHANGED kinds
  BY <1>3
<1>4. ASSUME NEW n \in Names, catch(n) \/ label(n) \/ var(n) \/ function_params(n)
      PROVE  kinds'[f] = kinds[f]
  <2>1. \E kind : kinds' = Kind(funct, n, kind)
    BY <1>4 DEF catch, label, var, function_params, add_label
  <2> QED BY <1>2, <2>1
<1>5. ASSUME NEW n \in Names, function_statement(n)
      PROVE  kinds'[f] = kinds[f]
  <2> DEFINE table == Kind(funct, n, LabelKind(n, "unction"))
  <2>1. kinds' = table \/ kinds' = [table EXCEPT ![last + 1] = [@ EXCEPT ![n] = "function"]]
    BY <1>5 DEF function_statement, do_function
  <2>2. f # last + 1
    BY DEF IInv, TypeOK, Functs
  <2>3. table[f] = kinds[f]
    BY <1>2
  <2>4. table \in [Functs -> [Names -> Kinds]]
    <3>1. LabelKind(n, "unction") \in Kinds
      BY DEF LabelKind, Kinds
    <3> QED BY <3>1, KindType DEF IInv
  <2> HIDE DEF table
  <2> QED BY <1>1, <2>1, <2>2, <2>3, <2>4
<1>6. ASSUME NEW n \in Names \cup {NoName}, function_expression(n)
      PROVE  kinds'[f] = kinds[f]
  <2>1. kinds' = kinds \/ kinds' = [kinds EXCEPT ![last + 1] = [@ EXCEPT ![n] = "function"]]
    BY <1>6 DEF function_expression, do_function
  <2>2. f # last + 1
    BY DEF IInv, TypeOK, Functs
  <2> QED BY <1>1, <2>1, <2>2 DEF IInv, TypeOK
<1>7. ASSUME NEW n \in Names, identifier(n) \/ plusplus(n) \/ assignop(n)
      PROVE  kinds'[f] = kinds[f]
  <2>1. Refer(n)
    BY <1>7 DEF identifier, plusplus, assignop
  <2> QED BY <1>1, <2>1, ReferStep DEF IInv
<1>8. ASSUME NEW n \in Names, forin(n)
      PROVE  kinds'[f] = kinds[f]
  <2>1. kinds' = kinds \/ kinds' = Kind(funct, n, "var")
    BY <1>8 DEF forin
  <2> QED BY <1>2, <2>1
<1>9. CASE end_var
  <2>1. kinds' = kinds \/ kinds' = Kind(funct, Innermost.name, "unused")
    BY <1>9 DEF end_var
  <2> QED BY <1>2, <2>1
<1>10. ASSUME block("block") \/ block("try") \/ end_block \/ body \/ end_function \/ end
              \/ Done \/ (UNCHANGED vars) \/ \E n \in Names : jump(n)
       PROVE  UNCHANGED kinds
  BY <1>10 DEF block, end_block, body, end_function, end, Done, jump, vars, names
<1> QED BY <1>3, <1>4, <1>5, <1>6, <1>7, <1>8, <1>9, <1>10 DEF Next

\* What JSLint knows of the names of a function is final when the function is over.
THEOREM Final == Spec => ClosedIsFinal
<1>1. IInv /\ [Next \/ Done]_vars => [\A f \in 1 .. last : f \notin OpenFuncts => kinds'[f] = kinds[f]]_vars
  BY ClosedStep
<1> QED BY <1>1, Invariance, PTL DEF Spec, ClosedIsFinal

\* A name that is entered without a complaint was not in use.
LEMMA AddedKind ==
  ASSUME IInv, NEW n \in Names, LabelSays(n) = <<>>, NEW kind \in Kinds,
         NEW f \in Functs \ {Global}, NEW m \in Names, kinds[f][m] \notin Unused \cup {"none"}
  PROVE  Kind(funct, n, LabelKind(n, kind))[f][m] \notin Unused
<1>1. /\ LabelKind(n, kind) \in Kinds
      /\ Kind(funct, n, LabelKind(n, kind))[f][m] = IF f = funct /\ m = n THEN LabelKind(n, kind) ELSE kinds[f][m]
  <2>1. LabelKind(n, kind) \in {kind, "var"} /\ "var" \in Kinds
    BY DEF LabelKind, Kinds
  <2> QED BY <2>1, KindType DEF IInv
<1>2. CASE f = funct /\ m = n
  <2>1. kinds[funct][n] = "undef"
    <3>1. <<"already_defined">> # <<>>
      OBVIOUS
    <3> QED BY <1>2, <3>1 DEF LabelSays
  <2>2. LabelKind(n, kind) = "var"
    BY <1>2, <2>1 DEF LabelKind
  <2> QED BY <1>1, <1>2, <2>2 DEF Unused
<1> QED BY <1>1, <1>2

\* No step without a complaint takes a name that is in use back to unused.
LEMMA OnceStep ==
  ASSUME IInv, [Next \/ Done]_vars, NEW f \in Functs \ {Global}, NEW m \in Names,
         kinds[f][m] \notin Unused \cup {"none"}, errors' = <<>>
  PROVE  kinds'[f][m] \notin Unused
<1>1. ReportTypeOK(Keys)
  BY DEF IInv, TypeOK
<1>2. CASE UNCHANGED kinds
  BY <1>2
<1>3. ASSUME NEW n \in Names, warn(LabelSays(n), "running")
      PROVE  LabelSays(n) = <<>>
  BY <1>1, <1>3, LabelSaysType, WarnSilent
<1>4. ASSUME NEW n \in Names, catch(n) \/ label(n) \/ var(n) \/ function_params(n)
      PROVE  kinds'[f][m] \notin Unused
  <2>1. warn(LabelSays(n), "running")
    <3>1. ~ stop(<<"unexpected_label_a">>)
      BY <1>1, LabelSaysType, StopLoud
    <3> QED BY <1>4, <3>1 DEF catch, label, var, function_params
  <2>2. \E kind \in Kinds : kinds' = Kind(funct, n, LabelKind(n, kind))
    BY <1>4 DEF catch, label, var, function_params, add_label, Kinds
  <2> QED BY <1>3, <2>1, <2>2, AddedKind
<1>5. ASSUME NEW n \in Names, function_statement(n)
      PROVE  kinds'[f][m] \notin Unused
  <2> DEFINE table == Kind(funct, n, LabelKind(n, "unction"))
  <2>1. kinds' = [table EXCEPT ![last + 1] = [@ EXCEPT ![n] = "function"]] \/ kinds' = table
    BY <1>5 DEF function_statement, do_function
  <2>2. table[f][m] \notin Unused /\ table \in [Functs -> [Names -> Kinds]]
    <3>1. LabelSays(n) = <<>>
      BY <1>1, <1>5, StatementSaysType, WarnSilent DEF function_statement
    <3>2. "unction" \in Kinds /\ LabelKind(n, "unction") \in Kinds
      BY DEF LabelKind, Kinds
    <3> QED BY <3>1, <3>2, AddedKind, KindType DEF IInv
  <2> HIDE DEF table
  <2>3. kinds'[f][m] = table[f][m] \/ kinds'[f][m] = "function"
    BY <2>1, <2>2
  <2> QED BY <2>2, <2>3 DEF Unused
<1>6. ASSUME NEW n \in Names \cup {NoName}, function_expression(n)
      PROVE  kinds'[f][m] \notin Unused
  <2>1. kinds' = kinds \/ kinds' = [kinds EXCEPT ![last + 1] = [@ EXCEPT ![n] = "function"]]
    BY <1>6 DEF function_expression, do_function
  <2>2. kinds \in [Functs -> [Names -> Kinds]]
    BY DEF IInv, TypeOK
  <2>3. kinds'[f][m] = kinds[f][m] \/ kinds'[f][m] = "function"
    BY <2>1, <2>2
  <2> QED BY <2>3 DEF Unused
<1>7. ASSUME NEW n \in Names, identifier(n) \/ plusplus(n) \/ assignop(n)
      PROVE  kinds'[f][m] \notin Unused
  <2>1. Refer(n)
    BY <1>7 DEF identifier, plusplus, assignop
  <2>2. kinds'[f][m] = kinds[f][m] \/ kinds'[f][m] \in InUseKinds
    BY <2>1, ReferStep DEF IInv, InUseKinds
  <2> QED BY <2>2 DEF Unused, InUseKinds
<1>8. ASSUME NEW n \in Names, forin(n)
      PROVE  kinds'[f][m] \notin Unused
  <2>1. kinds' = kinds \/ kinds' = Kind(funct, n, "var")
    BY <1>8 DEF forin
  <2>2. "var" \in Kinds /\ "var" \notin Unused
    BY DEF Kinds, Unused
  <2> QED BY <2>1, <2>2, KindType DEF IInv
<1>9. CASE end_var
  <2> DEFINE n == Innermost.name
  <2>1. kinds' = kinds \/ (kinds[funct][n] = "becoming" /\ kinds' = Kind(funct, n, "unused"))
    BY <1>9 DEF end_var
  <2>2. "unused" \in Kinds /\ "becoming" \in Unused
    BY DEF Kinds, Unused
  <2> HIDE DEF n
  <2> QED BY <2>1, <2>2, KindType DEF IInv
<1>10. ASSUME block("block") \/ block("try") \/ end_block \/ body \/ end_function \/ end
              \/ Done \/ (UNCHANGED vars) \/ \E n \in Names : jump(n)
       PROVE  UNCHANGED kinds
  BY <1>10 DEF block, end_block, body, end_function, end, Done, jump, vars, names
<1> QED BY <1>2, <1>4, <1>5, <1>6, <1>7, <1>8, <1>9, <1>10 DEF Next

\* Nothing that is in use is unused again, as long as nothing is complained of.
THEOREM UsedOnce == Spec => OnceUsed
<1>1. IInv /\ [Next \/ Done]_vars =>
        [\A f \in Functs \ {Global}, n \in Names :
           kinds[f][n] \notin Unused \cup {"none"} /\ errors' = <<>> => kinds'[f][n] \notin Unused]_vars
  BY OnceStep
<1> QED BY <1>1, Invariance, PTL DEF Spec, OnceUsed
=============================================================================
