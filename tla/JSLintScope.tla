---------------------------- MODULE JSLintScope -----------------------------
(* What JSLint knows of names: funct, the table of the names of a function  *)
(* and what they are (kinds), and scope, the chain of the names that can be *)
(* seen here. A program is any nesting of functions, blocks, catch clauses, *)
(* labelled loops and var statements, each opened and closed by a step, and  *)
(* each use of a name a step; its syntax is JSLintStatements'. The options   *)
(* are those of Bullring: undef (a name may be used before it is defined),   *)
(* unparam and vars.                                                        *)
EXTENDS JSLintErrors, FiniteSets
CONSTANTS Names,
          Environments,         \* the names that are predefined, and whether to be written to
          NoName,               \* of what has none
          MaxFunctions,         \* bound: functions of a program, the global one among them
          MaxNest               \* bound: how deep its functions and blocks nest
ASSUME NamesAssumption ==
  /\ NoName \notin Names
  /\ \A env \in Environments : \E S \in SUBSET Names : env \in [S -> BOOLEAN]
  /\ MaxFunctions \in Nat \ {0} /\ MaxNest \in Nat

VARIABLES predefined,           \* the environment of this call
          kinds,                \* functions: of each, in the order they begin, what its names are
          last,                 \* how many there are
          context,              \* funct['(context)'] of each
          funct,                \* the function of the text that is read
          scope,                \* the scopes of the chain, global_scope first
          nest,                 \* what has been opened: its kind, name, and what to restore
          declared              \* of each function: how its text itself introduces a name
names == <<predefined, kinds, last, context, funct, scope, nest, declared>>
vars == <<names, report>>

Functs == 1 .. MaxFunctions
Global == 1                                                \* global_funct
Kinds == {"none", "becoming", "unused", "var", "parameter", "unction", "function", "exception",
          "label", "closure", "outer", "global", "undef"}
Openers == {"function", "params", "var", "block", "try", "catch", "label"}

Variable(f, w) == [funct |-> f, writeable |-> w]
NoVariable == Variable(0, TRUE)
Empty == [n \in Names |-> NoVariable]                      \* Object.create(scope)

Init ==
  /\ ReportInit /\ predefined \in Environments
  /\ kinds = [f \in Functs |-> [n \in Names |-> "none"]] /\ last = Global
  /\ context = [f \in Functs |-> 0] /\ funct = Global
  /\ scope = <<Empty>> /\ nest = <<>>
  /\ declared = [f \in Functs |-> [n \in Names |-> "no"]]

Top == IF nest = <<>> THEN "global" ELSE nest[Len(nest)].kind
Statement  == status = "running" /\ Top \notin {"var", "params"}
Expression == status = "running" /\ Top # "params"

\* What may be said of a name.
Keys == {"already_defined", "unexpected_label_a", "unexpected_a", "a_label", "a_scope", "read_only",
         "assign_exception", "bad_in_a", "not_a_label", "not_a_scope", "function_block"}

(******************************* add_label **********************************)
LabelKindAgain(n, kind) == IF funct = Global /\ kind = "becoming" THEN "var" ELSE kind
LabelKind(n, kind) == IF funct = Global THEN (IF kind = "becoming" THEN "var" ELSE kind)
                      ELSE IF kinds[funct][n] = "undef" THEN "var" ELSE kind
LabelSays(n) == IF funct # Global /\ kinds[funct][n] \notin {"none", "undef"}
                THEN <<"already_defined">> ELSE <<>>
Writeable(n) == IF n \in DOMAIN predefined THEN predefined[n] ELSE TRUE
LabelledWriteable(chain, n) ==  \* the environment not asked
  IF kinds[funct][n] # "none" THEN chain
  ELSE [chain EXCEPT ![IF funct = Global THEN 1 ELSE Len(chain)] = [@ EXCEPT ![n] = Variable(funct, TRUE)]]
Labelled(chain, n) ==
  IF kinds[funct][n] # "none" THEN chain
  ELSE IF funct = Global THEN [chain EXCEPT ![1] = [@ EXCEPT ![n] = Variable(Global, Writeable(n))]]
  ELSE [chain EXCEPT ![Len(chain)] = [@ EXCEPT ![n] = Variable(funct, TRUE)]]
Kind(f, n, kind) == [kinds EXCEPT ![f] = [@ EXCEPT ![n] = kind]]
add_label(chain, n, kind) ==
  /\ kinds' = Kind(funct, n, LabelKind(n, kind))
  /\ scope' = Labelled(chain, n)

\* How the text introduces a name in a function: "early" if it uses the name where
\* no scope has it; "block" if it declares it in a block, which JavaScript takes for
\* a declaration of the function; "body" if it does so at its beginning.
InBlock == Top \in {"block", "try", "catch", "label"}
Declared(n) ==
  LET was == declared[funct][n]
      now == IF was = "early" THEN was ELSE IF InBlock \/ was = "block" THEN "block" ELSE "body"
  IN [declared EXCEPT ![funct] = [@ EXCEPT ![n] = now]]

(********************************* nesting **********************************)
Opened(kind, n) == [kind |-> kind, name |-> n, funct |-> funct, depth |-> Len(scope)]
Open(kind, n) == Len(nest) < MaxNest /\ nest' = Append(nest, Opened(kind, n))
Innermost == nest[Len(nest)]
Close == nest' = SubSeq(nest, 1, Len(nest) - 1)

block(kind) ==                  \* "block" of an ordinary one, "try" of a try
  /\ Statement /\ Open(kind, NoName)
  /\ scope' = Append(scope, Empty)
  /\ warn(<<>>, "running") /\ UNCHANGED <<predefined, kinds, last, context, funct, declared>>
\* The catch clause of a try: a scope for its variable and that of its block, which
\* end together and are one here.
catch(n) ==
  /\ Statement /\ Open("catch", n)
  /\ add_label(Append(scope, Empty), n, "exception")
  /\ warn(LabelSays(n), "running") /\ UNCHANGED <<predefined, last, context, funct, declared>>
\* A label, a scope for it and for the block of its loop, and so for a loop alone.
label(n) ==
  /\ Statement /\ Open("label", n)
  /\ add_label(Append(scope, Empty), n, "label")
  /\ IF funct = Global THEN stop(<<"unexpected_label_a">>) ELSE warn(LabelSays(n), "running")
  /\ UNCHANGED <<predefined, last, context, funct, declared>>
LeakBlock ==                    \* scope not restored
  /\ status = "running" /\ Top \in {"block", "try", "catch", "label"}
  /\ Close /\ warn(<<>>, "running") /\ UNCHANGED <<predefined, scope, kinds, last, context, funct, declared>>
end_block ==
  /\ status = "running" /\ Top \in {"block", "try", "catch", "label"}
  /\ Close /\ scope' = SubSeq(scope, 1, Innermost.depth)
  /\ warn(<<>>, "running") /\ UNCHANGED <<predefined, kinds, last, context, funct, declared>>

\* var: the name is becoming while its initial value is read.
var(n) ==
  /\ Statement /\ Open("var", n)
  /\ add_label(scope, n, "becoming") /\ declared' = Declared(n)
  /\ warn(LabelSays(n), "running") /\ UNCHANGED <<predefined, last, context, funct>>
end_var ==
  /\ status = "running" /\ Top = "var" /\ Close
  /\ LET n == Innermost.name IN
     kinds' = IF kinds[funct][n] = "becoming" THEN Kind(funct, n, "unused") ELSE kinds
  /\ warn(<<>>, "running") /\ UNCHANGED <<predefined, last, context, funct, scope, declared>>

(******************************** functions *********************************)
\* do_function: a funct and a scope of its own, and in it its own name.
do_function(n, table, chain) ==
  /\ last < MaxFunctions /\ last' = last + 1 /\ UNCHANGED predefined
  /\ funct' = last + 1 /\ context' = [context EXCEPT ![last + 1] = funct]
  /\ kinds' = IF n = NoName THEN table ELSE [table EXCEPT ![last + 1] = [@ EXCEPT ![n] = "function"]]
  /\ scope' = Append(chain, IF n = NoName THEN Empty ELSE [Empty EXCEPT ![n] = Variable(last + 1, FALSE)])
  /\ Open("params", NoName)
StatementSays(n) == (IF Top \in {"block", "label"} THEN <<"function_block">> ELSE <<>>) \o LabelSays(n)
function_statement(n) ==
  /\ Statement
  /\ do_function(n, Kind(funct, n, LabelKind(n, "unction")), Labelled(scope, n))
  /\ declared' = [Declared(n) EXCEPT ![last + 1] = [@ EXCEPT ![n] = "body"]]
  /\ warn(StatementSays(n), "running")
function_expression(n) ==
  /\ Expression /\ do_function(n, kinds, scope)
  /\ declared' = IF n = NoName THEN declared ELSE [declared EXCEPT ![last + 1] = [@ EXCEPT ![n] = "body"]]
  /\ warn(<<>>, "running")
function_params(n) ==           \* one of them
  /\ status = "running" /\ Top = "params"
  /\ add_label(scope, n, "parameter") /\ declared' = Declared(n)
  /\ warn(LabelSays(n), "running") /\ UNCHANGED <<predefined, last, context, funct, nest>>
body ==
  /\ status = "running" /\ Top = "params"
  /\ nest' = [nest EXCEPT ![Len(nest)] = [@ EXCEPT !.kind = "function"]]
  /\ scope' = Append(scope, Empty)
  /\ warn(<<>>, "running") /\ UNCHANGED <<predefined, kinds, last, context, funct, declared>>
LeakFunction ==                 \* scope not restored
  /\ status = "running" /\ Top = "function" /\ Close /\ funct' = Innermost.funct
  /\ warn(<<>>, "running") /\ UNCHANGED <<predefined, kinds, last, context, scope, declared>>
end_function ==
  /\ status = "running" /\ Top = "function" /\ Close
  /\ funct' = Innermost.funct /\ scope' = SubSeq(scope, 1, Innermost.depth)
  /\ warn(<<>>, "running") /\ UNCHANGED <<predefined, kinds, last, context, declared>>

(******************************* identifiers ********************************)
\* scope[name]: the innermost scope of the chain that has the name.
Has(n) == {i \in 1 .. Len(scope) : scope[i][n].funct # 0}
Seen(n) == CHOOSE i \in Has(n) : \A j \in Has(n) : j <= i
Found(n) == Has(n) # {}
Environment(n) == ~Found(n) /\ n \in DOMAIN predefined
Undefined(n) == ~Found(n) /\ n \notin DOMAIN predefined
Site(n) == IF Found(n) THEN scope[Seen(n)][n].funct ELSE IF Environment(n) THEN Global ELSE funct
\* The entry that a name not in scope gets, in the environment or here.
Entered(n) == IF Environment(n) THEN [scope EXCEPT ![1] = [@ EXCEPT ![n] = Variable(Global, predefined[n])]]
              ELSE IF Undefined(n) THEN [scope EXCEPT ![Len(scope)] = [@ EXCEPT ![n] = Variable(funct, TRUE)]]
              ELSE scope
Table(n) == IF Environment(n) THEN Kind(Global, n, "var")
            ELSE IF Undefined(n) THEN Kind(funct, n, "undef") ELSE kinds

\* In the function of its own: used.
Own == [becoming |-> "var", unused |-> "var", unction |-> "function"]
Here(n, table) == IF table[funct][n] \in DOMAIN Own
                  THEN [table EXCEPT ![funct] = [@ EXCEPT ![n] = Own[table[funct][n]]]] ELSE table
HereSays(kind) == CASE kind = "becoming" -> <<"unexpected_a">> [] kind = "label" -> <<"a_label">> [] OTHER -> <<>>
\* In a function inside: closure there, outer or global here.
InUse == {"var", "function", "unused", "closure"}
Settled == InUse \cup {"label", "outer", "global"}
Closures == {"becoming", "closure", "function", "parameter", "unction", "unused", "var"}
ThereForgets(n, table) ==       \* the name at its site stays as it was
  IF table[funct][n] \in Settled \/ table[Site(n)][n] \notin Closures THEN table
  ELSE [table EXCEPT ![funct] = [@ EXCEPT ![n] = IF Site(n) = Global THEN "global" ELSE "outer"]]
There(n, table) ==
  IF table[funct][n] \in Settled THEN table
  ELSE IF table[Site(n)][n] \in Closures THEN
    LET closed == [table EXCEPT ![Site(n)] = [@ EXCEPT ![n] = "closure"]] IN
    [closed EXCEPT ![funct] = [@ EXCEPT ![n] = IF Site(n) = Global THEN "global" ELSE "outer"]]
  ELSE IF table[Site(n)][n] = "undef" THEN [table EXCEPT ![funct] = [@ EXCEPT ![n] = "undef"]]
  ELSE table
ThereSays(here, there) == CASE here \in InUse -> <<"a_scope">> [] here = "label" -> <<"a_label">>
                            [] here \notin Settled /\ there = "label" -> <<"a_label">> [] OTHER -> <<>>
Referred(n) == IF Site(n) = funct THEN Here(n, Table(n)) ELSE There(n, Table(n))
ReferSays(n) == IF Site(n) = funct THEN HereSays(Table(n)[funct][n])
                ELSE ThereSays(Table(n)[funct][n], Table(n)[Site(n)][n])

Refer(n) ==
  /\ kinds' = Referred(n) /\ scope' = Entered(n)
  /\ declared' = IF Undefined(n) THEN [declared EXCEPT ![funct] = [@ EXCEPT ![n] = "early"]] ELSE declared
  /\ UNCHANGED <<predefined, last, context, funct, nest>>
identifier(n) ==
  /\ Expression
  /\ Refer(n) /\ warn(ReferSays(n), "running")

\* ++ and --, before a name or after it: it is an operand, and may be one.
plusplus(n) ==
  /\ Expression
  /\ Refer(n) /\ warn(ReferSays(n), "running")

\* assignop, of a name: what is said of it after it was taken as an operand.
ReadOnly(n) == IF Found(n) THEN ~scope[Seen(n)][n].writeable ELSE ~Writeable(n)
AssignSays(n) == (IF ReadOnly(n) THEN <<"read_only">> ELSE <<>>)
                 \o (IF Referred(n)[funct][n] = "exception" THEN <<"assign_exception">> ELSE <<>>)
assignop(n) ==
  /\ Expression
  /\ Refer(n) /\ warn(ReferSays(n) \o AssignSays(n), "running")

\* for (n in ...): no operand, but a variable of this very function.
ForinSays(n) == IF kinds[funct][n] \in {"unused", "closure", "var"} THEN <<>> ELSE <<"bad_in_a">>
forin(n) ==
  /\ Statement
  /\ kinds' = IF kinds[funct][n] = "unused" THEN Kind(funct, n, "var") ELSE kinds
  /\ warn(ForinSays(n), "running")
  /\ UNCHANGED <<predefined, last, context, funct, scope, nest, declared>>

\* break and continue with a label, in a loop. A label that is over is in funct
\* still, and when no scope has its name scope[label].funct is a TypeError.
InLoop == \E i \in 1 .. Len(nest) : /\ nest[i].kind \in {"block", "label"} /\ nest[i].funct = funct
JumpsAnywhere(n) == kinds[funct][n] = "label"              \* scope not asked
Jumps(n) == kinds[funct][n] = "label" /\ Found(n) /\ Site(n) = funct
jump(n) ==
  /\ Statement /\ InLoop
  /\ \/ Jumps(n) /\ warn(<<>>, "running")
     \/ kinds[funct][n] # "label" /\ warn(<<"not_a_label">>, "running")
     \/ kinds[funct][n] = "label" /\ ~Found(n) /\ crash
     \/ kinds[funct][n] = "label" /\ Found(n) /\ Site(n) # funct /\ warn(<<"not_a_scope">>, "running")
  /\ UNCHANGED names

end == Statement /\ nest = <<>> /\ warn(<<>>, "ended") /\ UNCHANGED names

Next ==
  \/ \E n \in Names : \/ catch(n) \/ label(n) \/ var(n) \/ function_statement(n) \/ function_params(n)
                      \/ plusplus(n) \/ identifier(n) \/ assignop(n) \/ forin(n) \/ jump(n)
  \/ \E n \in Names \cup {NoName} : function_expression(n)
  \/ block("block") \/ block("try") \/ end_block \/ end_var \/ body \/ end_function \/ end
Done == status # "running" /\ UNCHANGED vars
Spec == Init /\ [][Next \/ Done]_vars

(******************************** properties ********************************)
\* Types.
Scopes == [Names -> [funct : 0 .. MaxFunctions, writeable : BOOLEAN]]
Openings == [kind : Openers, name : Names \cup {NoName}, funct : Functs, depth : Nat]
TypeOK ==
  /\ ReportTypeOK(Keys) /\ predefined \in Environments
  /\ kinds \in [Functs -> [Names -> Kinds]] /\ last \in Functs
  /\ context \in [Functs -> 0 .. MaxFunctions] /\ funct \in Functs
  /\ scope \in Seq(Scopes) /\ nest \in Seq(Openings)
  /\ declared \in [Functs -> [Names -> {"no", "early", "block", "body"}]]

\* However functions and blocks nest, when all that was opened is closed the
\* text goes on in the global function and in the global scope.
ScopeRestored == nest = <<>> => funct = Global /\ Len(scope) = 1

\* The functions around the one that is read, and itself.
OpenFuncts == {funct} \cup {nest[i].funct : i \in 1 .. Len(nest)}
\* No name resolves to a function that is over.
SitesOpen == \A i \in 1 .. Len(scope) : \A n \in Names : scope[i][n].funct \in OpenFuncts \cup {0}
\* What JSLint says of the names of a function is final when it has been read.
ClosedIsFinal == [][\A f \in 1 .. last : f \notin OpenFuncts => kinds'[f] = kinds[f]]_vars

\* The variable that JavaScript means by n here, by what has been declared: that
\* of the innermost function that declares it, or whose catch clause is open.
Binds(f, n) == \/ declared[f][n] \in {"block", "body"}
               \/ \E i \in 1 .. Len(nest) : nest[i].kind = "catch" /\ nest[i].name = n /\ nest[i].funct = f
Owner(n) == LET B == {f \in OpenFuncts : Binds(f, n)} IN
            IF B = {} THEN Global ELSE CHOOSE f \in B : \A g \in B : g <= f
\* Where variables are declared before their use and not in blocks, JSLint, who
\* has scopes for blocks, means the same variable.
Plain(n) == \A f \in OpenFuncts : declared[f][n] \in {"no", "body"}
SameVariable ==
  Expression /\ errors = <<>> =>
    \A n \in Names : ReferSays(n) = <<>> /\ ~Undefined(n) /\ Plain(n) => Site(n) = Owner(n)

\* What data() lists: unused, a name that nothing refers to. Nothing takes a name
\* that is used back to where it is unused, or becoming, but a second definition.
Unused == {"becoming", "unused", "unction"}
OnceUsed == [][\A f \in Functs \ {Global}, n \in Names :
                 kinds[f][n] \notin Unused \cup {"none"} /\ errors' = <<>> => kinds'[f][n] \notin Unused]_vars

\* Whoever has a name from outside has it from a function around it, which knows
\* that it is used there, or has itself used the name after the block with it.
Around == [f \in Functs |-> LET a[g \in 0 .. MaxFunctions] == IF g = 0 THEN {} ELSE {g} \cup a[context[g]] IN a[context[f]]]
OuterHasOwner ==
  errors = <<>> => \A f \in 1 .. last, n \in Names :
    /\ kinds[f][n] = "outer" => \E g \in Around[f] \ {Global} : kinds[g][n] = "closure" \/ declared[g][n] = "early"
    /\ kinds[f][n] = "global" => kinds[Global][n] # "none"

\* A jump that JSLint lets pass leads to a label that is around it, in its function.
LabelsEnclose ==
  errors = <<>> => \A n \in Names : Jumps(n) =>
    \E i \in 1 .. Len(nest) : nest[i].kind = "label" /\ nest[i].name = n /\ nest[i].funct = funct

\* What the environment keeps read-only is the left side of an assignment operator
\* without complaint only where the program has a name of its own for it, whoever
\* of predefined, scope and funct was asked first. It is not so of the other ways to
\* write to a name, ++, -- and for (n in ...): nobody is asked there.
AssignopHeard ==
  Expression /\ errors = <<>> =>
    \A n \in DOMAIN predefined :
      ~predefined[n] /\ ReferSays(n) \o AssignSays(n) = <<>> => Owner(n) # Global
=============================================================================
