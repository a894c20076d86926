------------------------- MODULE JavaScriptGrammar -------------------------
(* The reference the parser is compared with: the grammar of ECMAScript 5    *)
(* over tokens, and that of JSON, as the texts they derive. Each operator    *)
(* says whether the tokens i .. j of s are one phrase of its kind. It knows   *)
(* nothing of binding powers: an operator splits its phrase in two wherever   *)
(* both halves are phrases of the levels that the grammar asks for.          *)
EXTENDS Integers, Sequences
CONSTANTS Names, Numbers, Strings,
          Bindings,             \* what may be declared: a variable, a parameter, ...
          Members,              \* what may follow a period or be a property's name
          Lenient               \* may a switch alone be around a continue, a try around a function,
                                \* and a.b or a[b] follow an a++?

Constants == {"true", "null", "this"}
AssignOps == {"=", "+="}
Unary == {"+", "-", "!", "~", "typeof", "void", "delete", "++", "--"}
\* The levels of the operators, from ?: and || on: each takes itself to its
\* left and the next to its right. 13 is Unary, 14 Postfix, 15 LeftHandSide, and
\* 16 what of these can be assigned to.
Ops == <<{}, {}, {"||"}, {"&&"}, {"|"}, {"^"}, {"&"}, {"=="}, {"<", "instanceof", "in"}, {"<<"},
         {"+", "-"}, {"*", "/", "%"}>>
UnaryLevel == 13
LHSLevel == 15
ReferenceLevel == 16

RECURSIVE E(_, _, _, _), LHS(_, _, _), Items(_, _, _), Props(_, _, _), Stmt(_, _, _, _),
          Stmts(_, _, _, _), Cases(_, _, _, _), Decls(_, _, _), J(_, _, _)

At(s, i, t) == i \in 1 .. Len(s) /\ s[i] = t
In(s, i, ts) == i \in 1 .. Len(s) /\ s[i] \in ts
Between(s, i, j, a, b) == i < j /\ s[i] = a /\ s[j] = b

(******************************** expressions *******************************)
Reference(s, i, j) ==           \* with the pattern of an array
  \/ i = j /\ s[i] \in Names
  \/ Between(s, i, j, "(", ")") /\ LHS(s, i + 1, j - 1)
  \/ Between(s, i, j, "[", "]") /\ Items(s, i + 1, j - 1)
  \/ i < j /\ (In(s, j - 1, {"."}) \/ s[j] = "]") /\ LHS(s, i, j)
E(s, l, i, j) ==
  /\ i <= j
  /\ CASE l = 1 -> \/ E(s, 2, i, j)
                   \/ \E k \in i + 1 .. j - 1 : s[k] \in AssignOps /\ Reference(s, i, k - 1) /\ E(s, 1, k + 1, j)
       [] l = 2 -> \/ E(s, 3, i, j)
                   \/ \E p \in i + 1 .. j - 3 : s[p] = "?" /\ \E q \in p + 2 .. j - 1 :
                        s[q] = ":" /\ E(s, 3, i, p - 1) /\ E(s, 1, p + 1, q - 1) /\ E(s, 1, q + 1, j)
       [] l \in 3 .. 12 -> \/ E(s, l + 1, i, j)
                           \/ \E k \in i + 1 .. j - 1 : s[k] \in Ops[l] /\ E(s, l, i, k - 1) /\ E(s, l + 1, k + 1, j)
       [] l = UnaryLevel -> E(s, 14, i, j) \/ (s[i] \in Unary /\ E(s, 13, i + 1, j))
       [] l = ReferenceLevel -> Reference(s, i, j)
       [] OTHER -> LHS(s, i, j) \/ (l < LHSLevel /\ s[j] \in {"++", "--"} /\ Reference(s, i, j - 1))

\* The elements of an array, which may be missing, and the arguments of a call.
Items(s, i, j) == \/ j < i
                  \/ s[i] = "," /\ Items(s, i + 1, j)
                  \/ E(s, 1, i, j)
                  \/ \E k \in i + 1 .. j : s[k] = "," /\ E(s, 1, i, k - 1) /\ Items(s, k + 1, j)
Args(s, i, j) == Items(s, i, j) /\ (j < i \/ (s[i] # "," /\ s[j] # ","))
                 /\ \A k \in i .. j - 1 : ~(s[k] = "," /\ s[k + 1] = ",")
Props(s, i, j) ==
  \/ j < i
  \/ In(s, i, Members \cup Numbers \cup Strings) /\ At(s, i + 1, ":")
     /\ \/ E(s, 1, i + 2, j)
        \/ \E k \in i + 3 .. j : s[k] = "," /\ E(s, 1, i + 2, k - 1) /\ Props(s, k + 1, j)
Params(s, i, j) == /\ (j - i) % 2 = 0 \/ j < i
                   /\ \A k \in i .. j : IF (k - i) % 2 = 0 THEN s[k] \in Bindings ELSE s[k] = ","
\* Where a statement is: in a function, a loop, a switch; top where it may declare a function.
Global == [fn |-> FALSE, loop |-> FALSE, switch |-> FALSE, top |-> TRUE]
Looped(ctx) == [ctx EXCEPT !.loop = TRUE]
\* The parameters and the body, from the parenthesis on.
Closure(s, i, j) ==
  At(s, i, "(") /\ \E k \in i + 1 .. j - 2 :
    s[k] = ")" /\ Params(s, i + 1, k - 1) /\ Between(s, k + 1, j, "{", "}")
    /\ Stmts(s, k + 2, j - 1, [Global EXCEPT !.fn = TRUE])
Function(s, i, j) == At(s, i, "function") /\ (Closure(s, i + 1, j) \/ (In(s, i + 1, Bindings) /\ Closure(s, i + 2, j)))
Primary(s, i, j) ==
  \/ i = j /\ s[i] \in Names \cup Numbers \cup Strings \cup Constants
  \/ Between(s, i, j, "(", ")") /\ E(s, 1, i + 1, j - 1)
  \/ Between(s, i, j, "[", "]") /\ Items(s, i + 1, j - 1)
  \/ Between(s, i, j, "{", "}") /\ Props(s, i + 1, j - 1)
  \/ Function(s, i, j)
LHS(s, i, j) ==
  /\ i <= j
  /\ \/ Primary(s, i, j)
     \/ s[i] = "new" /\ LHS(s, i + 1, j)
     \/ Lenient /\ s[j] \in {"++", "--"} /\ Reference(s, i, j - 1)
     \/ i < j - 1 /\ s[j - 1] = "." /\ s[j] \in Members /\ LHS(s, i, j - 2)
     \/ s[j] = "]" /\ \E k \in i + 1 .. j - 2 : s[k] = "[" /\ LHS(s, i, k - 1) /\ E(s, 1, k + 1, j - 1)
     \/ s[j] = ")" /\ \E k \in i + 1 .. j - 1 : s[k] = "(" /\ LHS(s, i, k - 1) /\ Args(s, k + 1, j - 1)

(******************************** statements ********************************)
\* A condition in parentheses, and what follows it.
After(s, i, j, Rest(_)) == At(s, i, "(") /\ \E k \in i + 2 .. j : s[k] = ")" /\ E(s, 1, i + 1, k - 1) /\ Rest(k + 1)
Block(s, i, j, ctx) == Between(s, i, j, "{", "}") /\ Stmts(s, i + 1, j - 1, ctx)
Decls(s, i, j) ==
  /\ In(s, i, Bindings)
  /\ \/ i = j
     \/ At(s, i + 1, ",") /\ Decls(s, i + 2, j)
     \/ At(s, i + 1, "=") /\ (E(s, 1, i + 2, j) \/ \E k \in i + 3 .. j : s[k] = "," /\ E(s, 1, i + 2, k - 1) /\ Decls(s, k + 1, j))
\* The head of a for, from its parenthesis on.
ForHead(s, i, j) ==
  /\ Between(s, i, j, "(", ")")
  /\ \/ In(s, i + 1, Names) /\ At(s, i + 2, "in") /\ E(s, 1, i + 3, j - 1)
     \/ \E p \in i + 1 .. j - 2 : \E q \in p + 1 .. j - 1 :
          /\ s[p] = ";" /\ s[q] = ";"
          /\ Args(s, i + 1, p - 1) /\ (q = p + 1 \/ E(s, 1, p + 1, q - 1)) /\ Args(s, q + 1, j - 1)
Cases(s, i, j, ctx) ==          \* the cases, and the default at their end
  \/ j < i
  \/ /\ s[i] = "case" /\ \E k \in i + 2 .. j : s[k] = ":" /\ E(s, 1, i + 1, k - 1)
        /\ \E m \in k .. j : Stmts(s, k + 1, m, ctx) /\ Cases(s, m + 1, j, ctx)
  \/ s[i] = "default" /\ At(s, i + 1, ":") /\ Stmts(s, i + 2, j, ctx)
Guarded(s, i, j, ctx) == Block(s, i, j, [ctx EXCEPT !.top = Lenient])
Try(s, i, j, ctx) ==
  \E k \in i .. j : /\ Guarded(s, i, k, ctx)
                    /\ \/ At(s, k + 1, "finally") /\ Guarded(s, k + 2, j, ctx)
                       \/ /\ At(s, k + 1, "catch") /\ At(s, k + 2, "(") /\ In(s, k + 3, Bindings) /\ At(s, k + 4, ")")
                          /\ \/ Guarded(s, k + 5, j, ctx)
                             \/ \E m \in k + 5 .. j : /\ Guarded(s, k + 5, m, ctx) /\ At(s, m + 1, "finally")
                                                      /\ Guarded(s, m + 2, j, ctx)
Stmt(s, i, j, ctx) ==
  /\ i <= j
  /\ CASE s[i] = "{" -> Block(s, i, j, ctx)
       [] s[i] = ";" -> i = j
       [] s[i] = "var" -> s[j] = ";" /\ Decls(s, i + 1, j - 1)
       [] s[i] = "if" -> After(s, i + 1, j, LAMBDA k : \/ Stmt(s, k, j, ctx)
                                                       \/ \E m \in k + 1 .. j - 1 : /\ s[m] = "else"
                                                            /\ Stmt(s, k, m - 1, ctx) /\ Stmt(s, m + 1, j, ctx))
       [] s[i] = "while" -> After(s, i + 1, j, LAMBDA k : Stmt(s, k, j, Looped(ctx)))
       [] s[i] = "do" -> s[j] = ";" /\ \E m \in i + 1 .. j : /\ Stmt(s, i + 1, m - 1, Looped(ctx)) /\ s[m] = "while"
                                                             /\ After(s, m + 1, j - 1, LAMBDA k : k = j)
       [] s[i] = "for" -> \E k \in i + 1 .. j - 1 : ForHead(s, i + 1, k) /\ Stmt(s, k + 1, j, Looped(ctx))
       [] s[i] = "switch" -> After(s, i + 1, j, LAMBDA k : Between(s, k, j, "{", "}")
                                                           /\ Cases(s, k + 1, j - 1, [ctx EXCEPT !.switch = TRUE]))
       [] s[i] = "try" -> Try(s, i + 1, j, ctx)
       [] s[i] = "break" -> /\ s[j] = ";" /\ (ctx.loop \/ ctx.switch)
                            /\ j = i + 1 \/ (j = i + 2 /\ s[i + 1] \in Names)
       [] s[i] = "continue" -> /\ s[j] = ";" /\ (ctx.loop \/ (Lenient /\ ctx.switch))
                               /\ j = i + 1 \/ (j = i + 2 /\ s[i + 1] \in Names)
       [] s[i] = "return" -> s[j] = ";" /\ ctx.fn /\ (j = i + 1 \/ E(s, 1, i + 1, j - 1))
       [] s[i] = "throw" -> s[j] = ";" /\ E(s, 1, i + 1, j - 1)
       [] s[i] = "debugger" -> s[j] = ";" /\ j = i + 1
       [] s[i] \in Names /\ At(s, i + 1, ":") -> Stmt(s, i + 2, j, ctx)
       [] OTHER -> s[i] # "function" /\ s[j] = ";" /\ E(s, 1, i, j - 1)
\* Statements, and the functions that are declared among them.
Stmts(s, i, j, ctx) ==
  \/ j < i
  \/ \E k \in i .. j : /\ \/ Stmt(s, i, k, [ctx EXCEPT !.top = FALSE])
                          \/ ctx.top /\ s[i] = "function" /\ In(s, i + 1, Bindings) /\ Closure(s, i + 2, k)
                       /\ Stmts(s, k + 1, j, ctx)
Program(s) == Stmts(s, 1, Len(s), Global)

(*********************************** JSON ***********************************)
\* A value with its members, the keys of an object all different.
RECURSIVE Elements(_, _, _), Pairs(_, _, _, _)
Elements(s, i, j) == J(s, i, j) \/ \E k \in i + 1 .. j - 1 : s[k] = "," /\ J(s, i, k - 1) /\ Elements(s, k + 1, j)
Pairs(s, i, j, keys) ==
  /\ In(s, i, Strings \ keys) /\ At(s, i + 1, ":")
  /\ J(s, i + 2, j) \/ \E k \in i + 3 .. j - 1 : s[k] = "," /\ J(s, i + 2, k - 1) /\ Pairs(s, k + 1, j, keys \cup {s[i]})
J(s, i, j) ==
  \/ i = j /\ s[i] \in Numbers \cup Strings \cup {"true", "null"}
  \/ j = i + 1 /\ s[i] = "-" /\ s[j] \in Numbers
  \/ Between(s, i, j, "[", "]") /\ (j = i + 1 \/ Elements(s, i + 1, j - 1))
  \/ Between(s, i, j, "{", "}") /\ (j = i + 1 \/ Pairs(s, i + 1, j - 1, {}))
=============================================================================
