-------------------------- MODULE JSLintStatements --------------------------
(* The statements of JSLint: statement, statements and block, the fud of     *)
(* every statement, json_value, and the function JSLINT around them. A       *)
(* statement is a node whose parts are joined as they are parsed; disrupt    *)
(* says that JSLint takes it for one that does not go on to the next.        *)
EXTENDS JSLintParser

(******************************** statements ********************************)
statements == Doing("statements") /\ Makes(0, List, <<>>, <<Do("sequence")>>)
\* The disruptor: the last statement, if it disrupts and nothing was said of it.
AfterDisrupt(list) == list.kids # <<>> /\ list.kids[Len(list.kids)].disrupt
sequence ==
  /\ Doing("sequence")
  /\ \/ next_token \in Postscript /\ Goes(<<>>, <<>>)
     \/ next_token = ";" /\ Goes(<<"unexpected_a">>, <<Adv(";"), Do("sequence")>>)
     \/ /\ next_token \notin Postscript \cup {";"}
        /\ Goes(If(AfterDisrupt(Val(0)), "unreachable_a_b"), <<Do("statement"), Do("append"), Do("sequence")>>)
Disrupts(list, v) == list.disrupt \/ v.disrupt
append == Doing("append") /\ Makes(2, [Joined EXCEPT !.disrupt = Disrupts(Val(1), Val(0))], <<>>, <<>>)

statement ==
  /\ Doing("statement")
  /\ \/ next_token = ";" /\ Makes(0, Undefined, <<"unexpected_a">>, <<Adv(";")>>)
     \/ Labelled /\ Goes(<<>>, <<Adv(""), Adv(":"), Do("label")>>)
     \/ next_token # ";" /\ ~Labelled /\ Goes(<<>>, <<First(0), Do("end_statement")>>)
label ==                        \* only of a loop or a switch, in a function
  /\ Doing("label")
  /\ \/ next_token \in {"while", "do", "for", "switch"} /\ Len(functs) > 1
        /\ Goes(<<>>, <<First(0), Do("end_statement")>>)
     \/ ~(next_token \in {"while", "do", "for", "switch"} /\ Len(functs) > 1)
        /\ Stops(<<"unexpected_label_a">>)
semicolon ==
  /\ Doing("semicolon")
  /\ Goes(If(next_token # ";", "expected_a_b"), IF next_token = ";" THEN <<Adv(";")>> ELSE <<>>)
\* The statements that end without one, and the expressions that are a statement.
Blocks == {"{", "if", "try", "while", "for", "switch", "function"}
ExpressionSays(v) ==
  IF v.id = "(" THEN If(v.kids[1].id = "new", "bad_new")
  ELSE If(v.id \notin AssignOps \cup {"delete", "++", "--"}, "assignment_function_expression")
end_statement ==
  /\ Doing("end_statement")
  /\ Goes(IF Val(0).arity = "statement" THEN <<>> ELSE ExpressionSays(Val(0)),
          IF Val(0).arity = "statement" /\ Val(0).id \in Blocks THEN <<>> ELSE <<Do("semicolon")>>)

\* block: in braces, or, of an ordinary one, a statement and a warning.
Ordinary == Say("block", "ordinary")
Body == Say("block", "body")
EndBlock == [do |-> "end_block", n |-> IF in_block THEN 1 ELSE 0, s |-> Head(stack).s]
block ==
  /\ Doing("block")
  /\ \/ next_token = "{" /\ Says(<<>>)
        /\ Then(<<Adv("{"), Do("statements"), Adv("}"), EndBlock>>)
     \/ next_token # "{" /\ Head(stack).s = "ordinary" /\ Says(<<"expected_a_b">>)
        /\ Then(<<Do("statement"), Do("single"), EndBlock>>)
     \/ next_token # "{" /\ Head(stack).s = "body" /\ stop(<<"expected_a_b">>) /\ UNCHANGED stack
  /\ in_block' = (Head(stack).s = "ordinary")
  /\ UNCHANGED <<text, source, at, vals, functs>>
single ==                       \* array[0].disrupt, of what may be undefined
  /\ Doing("single")
  /\ \/ Val(0).id = "undefined" /\ crash /\ UNCHANGED <<at, stack, vals>> /\ Same
     \/ Val(0).id # "undefined"
        /\ Makes(1, [List EXCEPT !.kids = <<Val(0)>>, !.disrupt = Val(0).disrupt], <<>>, <<>>)
end_block ==
  /\ Doing("end_block")
  /\ in_block' = (Head(stack).n = 1)
  /\ Says(If(Head(stack).s = "ordinary" /\ Val(0).kids = <<>>, "empty_block")) /\ Then(<<>>)
  /\ UNCHANGED <<text, source, at, vals, functs>>

(***************************** the fuds, by kind ****************************)
\* A statement's node, and the calls of its fud.
Stmt == [Node(at, "statement", at, <<>>) EXCEPT !.disrupt = token \in {"break", "continue", "return", "throw"}]
Begin(t) == Doing("first") /\ HasFud /\ token = t
Begins(t, ms, items) == Begin(t) /\ Makes(0, Stmt, ms, items)
\* A part of the statement below it: the condition of an if, a block, ...
join == Doing("join") /\ Makes(2, Joined, <<>>, <<>>)
Condition(kind) == <<Expr(0), Say("condition", kind), Do("join")>>
ConditionSays(kind, v) ==
  expected_relation(v) \o (CASE kind = "if" -> expected_condition(v, "weird_condition")
                             [] kind = "loop" /\ v.id = "true" -> <<>>
                             [] OTHER -> expected_condition(v, "unexpected_a"))
condition == Doing("condition") /\ Goes(ConditionSays(Head(stack).s, Val(0)), <<>>)

if == Begins("if", <<>>, <<Adv("(")>> \o Condition("if") \o <<Adv(")"), Ordinary, Do("join"), Do("else")>>)
else ==
  /\ Doing("else")
  /\ Goes(<<>>, IF next_token = "else" THEN <<Adv("else"), Do("alternative"), Do("join"), Do("end_if")>> ELSE <<>>)
alternative == Doing("alternative") /\ Goes(<<>>, IF next_token \in {"if", "switch"} THEN <<Do("statement")>>
                                                  ELSE <<Ordinary>>)
IfEither(v) == v.kids[2].disrupt \/ v.kids[3].disrupt      \* one of the two
IfDisrupts(v) == v.kids[2].disrupt /\ v.kids[3].disrupt
end_if == Doing("end_if") /\ Makes(1, [Val(0) EXCEPT !.disrupt = IfDisrupts(Val(0))], <<>>, <<>>)

try == Begins("try", <<>>, <<Body, Do("join"), Do("catch")>>)
catch ==
  /\ Doing("catch")
  /\ Goes(<<>>, IF next_token = "catch"
                THEN <<Adv("catch"), Adv("("), Do("exception"), Adv(")"), Body, Do("join"), Say("finally", "caught")>>
                ELSE <<Do("finally")>>)
exception ==
  /\ Doing("exception")
  /\ at' = at + 1 /\ Says(If(~Identifier(next_token), "expected_identifier_a") \o AdvanceSays(""))
  /\ Then(<<>>) /\ Return(vals) /\ Same
FinallyOptional == Doing("finally") /\ Goes(<<>>, IF next_token = "finally" THEN <<Adv("finally"), Body, Do("join")>> ELSE <<>>)
finally ==
  /\ Doing("finally")
  /\ \/ next_token = "finally" /\ Goes(<<>>, <<Adv("finally"), Body, Do("join")>>)
     \/ next_token # "finally" /\ Head(stack).s = "caught" /\ Goes(<<>>, <<>>)
     \/ next_token # "finally" /\ Head(stack).s = "" /\ Stops(<<"expected_a_b">>)

\* The loops count in their function, which break, continue and a function look at.
Counted(loops, by) == functs' = [functs EXCEPT ![1].breakage = @ + by, ![1].loopage = @ + (IF loops THEN by ELSE 0)]
LoopCalls == [while |-> <<Adv("(")>> \o Condition("loop") \o <<Adv(")"), Ordinary, Do("body"), Do("leave")>>,
              do    |-> <<Ordinary, Do("body"), Adv("while"), Adv("(")>> \o Condition("do") \o <<Adv(")"), Do("leave")>>,
              for   |-> <<Adv("("), Do("for"), Ordinary, Do("body"), Do("leave")>>]
loops ==
  /\ \E t \in DOMAIN LoopCalls : Begin(t) /\ Then(LoopCalls[t])
  /\ Return(Append(vals, Stmt)) /\ Counted(TRUE, 1) /\ Quiet
  /\ UNCHANGED <<text, source, at, in_block>>
body == Doing("body") /\ Makes(2, Joined, If(Val(0).disrupt, "strange_loop"), <<>>)
LeaveNone == Doing("leave") /\ Then(<<>>) /\ Quiet /\ UNCHANGED <<text, source, at, vals, functs, in_block>>
leave ==
  /\ Doing("leave")
  /\ Counted(TRUE, -1) /\ Then(<<>>) /\ Quiet
  /\ UNCHANGED <<text, source, at, vals, in_block>>
for ==
  /\ Doing("for")
  /\ \/ next_token = ";" /\ Goes(<<>>, <<Adv(";"), Adv(";"), Adv(")")>>)
     \/ next_token = "var" /\ Stops(<<"move_var">>)
     \/ /\ next_token \notin {";", "var"} /\ source[at + 2] = "in"
        /\ Goes(If(next_token \notin Names, "bad_in_a"), <<Adv(""), Adv("in"), Expr(20), Do("join"), Adv(")")>>)
     \/ /\ next_token \notin {";", "var"} /\ source[at + 2] # "in"
        /\ Goes(<<>>, <<Expr(0), Do("list"), Do("semicolon")>> \o Condition("loop")
                      \o <<Do("semicolon"), Do("third"), Adv(")")>>)
list == Doing("list") /\ Makes(2, Joined, <<>>, IF next_token = "," THEN <<Adv(","), Expr(0), Do("list")>> ELSE <<>>)
third ==
  /\ Doing("third")
  /\ \/ next_token = ";" /\ Stops(<<"expected_a_b">>)
     \/ next_token # ";" /\ Goes(<<>>, <<Expr(0), Do("list")>>)

\* A switch joins its condition, its case expressions and, of each group of
\* cases and of default, the list of statements.
Lists(v) == SelectSeq(v.kids, LAMBDA kid : kid.id = "list")
Cases(v) == SelectSeq(Tail(v.kids), LAMBDA kid : kid.id # "list")
EndsIn(stmts) == stmts.kids[Len(stmts.kids)]
\* find_duplicate_case, of an expression or, where a new group begins, of what
\* particular was left at: the last statement of the group before or its case.
Duplicates(v, particular) ==
  [i \in 1 .. Len(SelectSeq(Cases(v), LAMBDA e : Similar(particular, e))) |-> "duplicate_a"]
Particular(v) == LET stmts == v.kids[Len(v.kids)]
                 IN IF stmts.kids # <<>> THEN EndsIn(stmts) ELSE v.kids[Len(v.kids) - 1]
switch ==
  /\ Begin("switch")
  /\ Then(<<Adv("(")>> \o Condition("if") \o <<Adv(")"), Adv("{"), Do("switch")>>)
  /\ Return(Append(vals, Stmt)) /\ Counted(FALSE, 1) /\ Quiet
  /\ UNCHANGED <<text, source, at, in_block>>
open_switch ==
  /\ Doing("switch")
  /\ in_block' = TRUE /\ Then(<<Do("cases"), DoAt("end_switch", IF in_block THEN 1 ELSE 0)>>)
  /\ Quiet /\ UNCHANGED <<text, source, at, vals, functs>>
Case == <<Adv("case"), Expr(0), Do("case")>>
cases ==
  /\ Doing("cases")
  /\ IF next_token = "case"
     THEN Goes(IF Cases(Val(0)) = <<>> THEN <<>> ELSE Duplicates(Val(0), Particular(Val(0))), Case)
     ELSE Goes(If(Cases(Val(0)) = <<>>, "missing_a"),
               IF next_token = "default" THEN <<Adv("default"), Adv(":"), Do("statements"), Do("default")>> ELSE <<>>)
case ==
  Doing("case") /\ Makes(2, Joined, Duplicates(Val(1), Val(0)), <<Adv(":"), Do("more_cases")>>)
more_cases ==
  Doing("more_cases") /\ Goes(<<>>, IF next_token = "case" THEN Case ELSE <<Do("statements"), Do("end_case"), Do("cases")>>)
CaseSays(stmts) == IF stmts.kids = <<>> THEN <<"empty_case">> ELSE If(~EndsIn(stmts).disrupt, "missing_a_after_b")
end_case == Doing("end_case") /\ Makes(2, Joined, CaseSays(Val(0)), <<>>)
\* Where no case ends in a break, the switch disrupts if the default does.
EndsInBreak(stmts) == stmts.kids # <<>> /\ EndsIn(stmts).id = "break"
SwitchDisrupts(v, stmts) ==
  /\ \A i \in 1 .. Len(Lists(v)) : ~EndsInBreak(Lists(v)[i])
  /\ stmts.kids # <<>> /\ EndsIn(stmts).disrupt /\ EndsIn(stmts).id # "break"
default == Doing("default") /\ Makes(2, [Joined EXCEPT !.disrupt = SwitchDisrupts(Val(1), Val(0))], <<>>, <<>>)
end_switch ==
  /\ Doing("end_switch")
  /\ in_block' = (Head(stack).n = 1) /\ Counted(FALSE, -1) /\ Then(<<Adv("}")>>)
  /\ Quiet /\ UNCHANGED <<text, source, at, vals>>

debugger == Begins("debugger", <<>>, <<>>)
\* break and continue look at breakage, return at the function, and each takes
\* what follows it: a label, which the scope judges, or an expression.
jump ==
  /\ Begin("break") \/ Begin("continue")
  /\ Return(Append(vals, Stmt))
  /\ LET outside == If(functs[1].breakage = 0, "unexpected_a") IN
     \/ /\ Identifier(next_token) /\ at' = at + 1
        /\ Says(outside \o If(next_token \notin Names, "not_a_label") \o AdvanceSays(""))
     \/ ~Identifier(next_token) /\ Says(outside) /\ UNCHANGED at
  /\ Then(<<>>) /\ Same
return == Begins("return", If(Len(functs) = 1, "unexpected_a"),
                 IF next_token # ";" THEN <<Expr(20), Do("join"), Do("return")>> ELSE <<Do("return")>>)
returned ==
  Doing("return") /\ Goes(If(source[at + 2] = "}" /\ source[at + 3] = "else", "unexpected_else"), <<>>)
throw == Begins("throw", <<>>, <<Expr(20), Do("join")>>)

var == Begins("var", <<>>, <<Do("identifier"), Do("initial")>>)
initial == Doing("initial") /\ Goes(<<>>, IF next_token = "=" THEN <<Adv("="), Do("initializer"), Do("declared")>>
                                          ELSE <<Do("declared")>>)
initializer ==
  /\ Doing("initializer")
  /\ \/ source[at + 2] = "=" /\ Identifier(next_token) /\ Stops(<<"var_a_not">>)
     \/ ~(source[at + 2] = "=" /\ Identifier(next_token)) /\ Goes(<<>>, <<Expr(0), Do("join")>>)
declared == Doing("declared") /\ Goes(<<>>, IF next_token = "," THEN <<Adv(","), Do("identifier"), Do("initial")>> ELSE <<>>)

function == Begins("function", If(in_block, "function_block"),
                   <<Do("identifier"), Do("do_function"), Do("join"), Do("end_statement_function")>>)
function_stmt ==
  /\ Doing("end_statement_function")
  /\ \/ next_token = "(" /\ Stops(<<"function_statement">>)
     \/ next_token # "(" /\ Goes(<<>>, <<>>)

braces == Begins("{", <<"statement_block">>, <<Do("statements"), Do("braces"), Adv("}")>>)
end_braces == Doing("braces") /\ Makes(2, [Joined EXCEPT !.disrupt = Val(0).disrupt], <<>>, <<>>)

(*********************************** JSON ***********************************)
\* json_value; an object or array goes on in json_begin, _next and _end, which
\* know by its closing bracket which it is, and has its keys in vals.
json_value ==
  /\ Doing("json_value")
  /\ \/ next_token = "{" /\ Makes(0, List, <<>>, <<Adv("{"), Say("json_begin", "}")>>)
     \/ next_token = "[" /\ Makes(0, List, <<>>, <<Adv("["), Say("json_begin", "]")>>)
     \/ next_token \in {"true", "null"} \cup Numbers \cup Strings /\ Goes(<<>>, <<Adv("")>>)
     \/ next_token = "-" /\ Goes(<<>>, <<Adv("-"), Adv("(number)")>>)
     \/ /\ next_token \notin {"{", "[", "true", "null", "-"} \cup Numbers \cup Strings
        /\ Stops(<<"unexpected_a">>)
json_begin ==
  /\ Doing("json_begin")
  /\ LET closer == Head(stack).s IN
     Goes(<<>>, IF next_token \in {closer, "(end)"} THEN <<Say("json_end", closer)>> ELSE <<Say("json_member", closer)>>)
json_member ==
  /\ Doing("json_member")
  /\ LET closer == Head(stack).s
         rest == <<Do("json_value"), Say("json_next", closer)>>
         known == {Val(0).kids[i].string : i \in 1 .. Len(Val(0).kids)}
     IN \/ next_token = "," /\ Goes(<<"unexpected_a">>, <<Adv(","), Head(stack)>>)
        \/ next_token # "," /\ closer = "]" /\ Goes(<<>>, rest)
        \/ /\ next_token # "," /\ closer = "}"
           /\ at' = at + 1
           /\ Says(If(next_token \notin Strings, "expected_string_a") \o If(next_token \in known, "duplicate_a"))
           /\ Return(Append(Drop(1), [Val(0) EXCEPT !.kids = Append(@, Leaf(at + 1))]))
           /\ Then(<<Adv(":")>> \o rest) /\ Same
json_next ==
  /\ Doing("json_next")
  /\ LET closer == Head(stack).s IN
     Goes(<<>>, IF next_token = "," THEN <<Adv(","), Say("json_comma", closer)>> ELSE <<Say("json_end", closer)>>)
json_commaTrails ==             \* nothing is said of a comma before the closing bracket
  Doing("json_comma") /\ Goes(<<>>, IF next_token \in {Head(stack).s, "(end)"} THEN <<Say("json_end", Head(stack).s)>>
                                    ELSE <<Say("json_member", Head(stack).s)>>)
json_comma ==
  /\ Doing("json_comma")
  /\ LET closer == Head(stack).s IN
     Goes(If(next_token = closer, "unexpected_a"),
          IF next_token \in {closer, "(end)"} THEN <<Say("json_end", closer)>> ELSE <<Say("json_member", closer)>>)
json_end ==
  /\ Doing("json_end")
  /\ Return(Drop(1)) /\ Quiet /\ Then(<<Adv(Head(stack).s)>>) /\ UNCHANGED at /\ Same

(********************************** JSLINT **********************************)
Init ==
  /\ ReportInit /\ text \in Texts /\ maxerr = text.maxerr /\ source = <<>> /\ at = 0
  /\ stack = <<Do("main")>> /\ vals = <<>> /\ functs = <<NewFunct>> /\ in_block = FALSE

\* The kind of the text, by its first token; a text that begins as HTML is none
\* of these texts, and one that begins as CSS stops for want of a @charset.
CSS == {".", ":", "*"}
main ==
  /\ Doing("main")
  /\ \/ next_token \in Numbers /\ Stops(<<"unexpected_a">>)
     \/ next_token \in CSS /\ Stops(<<"css">>)
     \/ next_token \in {"{", "["} /\ Goes(<<>>, <<Do("json_value"), Do("end")>>)
     \/ /\ next_token \notin Numbers \cup CSS \cup {"{", "["}
        /\ Goes(<<>>, (IF next_token = ";" THEN <<Adv(";")>> ELSE <<>>) \o <<Do("statements"), Do("program"), Do("end")>>)
program == Doing("program") /\ Goes(If(Val(0).disrupt, "weird_program"), <<>>)
end ==
  /\ Doing("end")
  /\ at' = at + 1 /\ warn(AdvanceSays("(end)"), "ended") /\ Then(<<>>) /\ Return(vals) /\ Same

StatementSteps ==
  \/ statements \/ sequence \/ append \/ statement \/ label \/ semicolon \/ end_statement
  \/ block \/ single \/ end_block \/ join \/ condition
  \/ if \/ else \/ alternative \/ end_if \/ try \/ catch \/ exception \/ finally
  \/ loops \/ body \/ leave \/ for \/ list \/ third
  \/ switch \/ open_switch \/ cases \/ case \/ more_cases \/ end_case \/ default \/ end_switch
  \/ debugger \/ jump \/ return \/ returned \/ throw \/ var \/ initial \/ initializer \/ declared
  \/ function \/ function_stmt \/ braces \/ end_braces
vars == <<parsed, report>>
JSON == json_value \/ json_begin \/ json_member \/ json_next \/ json_comma \/ json_end
Done == status # "running" /\ UNCHANGED vars
Next == lex \/ main \/ program \/ end \/ JSON \/ StatementSteps \/ ExpressionSteps
Spec == Init /\ [][Next \/ Done]_vars
LiveSpec == Spec /\ WF_vars(Next)

(******************************** properties ********************************)
Words == {"true", "null", "this", "if", "try", "while", "switch", "debugger", "do", "for", "break",
          "continue", "return", "throw", "var", "function", "typeof", "void", "delete", "new", "in",
          "instanceof", "case", "catch", "default", "else", "finally"}
ECMAScript == INSTANCE JavaScriptGrammar WITH Bindings <- Names, Members <- Names \cup Words, Lenient <- FALSE
\* What the grammar becomes if a reserved word, and the brace that JSLint takes
\* for one, is a name, a continue belongs to a switch, a try is no block, and
\* an a++ can be refined.
Loose == INSTANCE JavaScriptGrammar
           WITH Bindings <- Names \cup Words \cup {"{"}, Members <- Names \cup Words \cup {"{"}, Lenient <- TRUE
Text == SelectSeq(source, LAMBDA t : t # "(end)")
IsJSON == Text # <<>> /\ Text[1] \in {"{", "["}

\* Stack, operands, counters and flags of every level are as they were, when a text has been read.
TypeOK ==
  /\ ReportTypeOK(STRING) /\ at \in 0 .. Len(source)
  /\ \A i \in 1 .. Len(functs) : functs[i].breakage >= functs[i].loopage /\ functs[i].loopage >= 0
  /\ status = "ended" => stack = <<>> /\ functs = <<NewFunct>> /\ ~in_block /\ Len(vals) <= 1

\* A text of which JSLint says nothing is a program: advance, expression and the
\* statements let nothing pass that the grammar does not derive.
AcceptsJavaScript == Verdict /\ ~IsJSON => Loose!Program(Text)

\* And its tree is the program's: what an operator took to its left and right
\* are phrases of the levels the grammar has there. Only relations, instanceof
\* and << next to each other are not kept apart as in JavaScript.
Level(op) == CHOOSE l \in 3 .. 12 : op \in ECMAScript!Ops[l]
OperandLevels(v) ==
  CASE v.arity = "infix" /\ v.id \in AssignOps -> <<ECMAScript!ReferenceLevel, 1>>
    [] v.arity = "infix" /\ v.id \in Infix \ {"in"} -> <<Level(v.id), Level(v.id) + 1>>
    [] v.arity = "ternary" -> <<3, 1, 1>>
    [] v.arity = "prefix" /\ v.id \in UnaryOps -> <<ECMAScript!UnaryLevel>>
    [] v.arity = "suffix" \/ (v.arity = "infix" /\ v.id \in {".", "[", "("}) -> <<ECMAScript!LHSLevel>>
    [] OTHER -> <<>>
NodeIsPhrase(v) == \A k \in DOMAIN OperandLevels(v) : Loose!E(Text, OperandLevels(v)[k], v.kids[k].from, v.kids[k].thru)
RECURSIVE Nodes(_)
Nodes(v) == {v} \cup UNION {Nodes(v.kids[i]) : i \in 1 .. Len(v.kids)}
Unmixed == \A t, u \in {"==", "<", "instanceof", "<<"} : (\E i, j \in 1 .. Len(Text) : Text[i] = t /\ Text[j] = u) => t = u
TreeIsJavaScript == Verdict /\ ~IsJSON /\ Unmixed => \A v \in Nodes(vals[1]) : NodeIsPhrase(v)

\* A text that begins with a brace or a bracket is accepted if and only if it is
\* JSON, and one that is stopped has no continuation that would be.
Continued == IF Len(source) > Len(Text) THEN {<<>>}
             ELSE UNION {[1 .. k -> text.tokens] : k \in 0 .. text.size - Len(Text)}
JSONExact ==
  /\ status = "ended" /\ IsJSON => (errors = <<>> <=> Loose!J(Text, 1, Len(Text)))
  /\ status = "stopped" /\ IsJSON => \A rest \in Continued : ~Loose!J(Text \o rest, 1, Len(Text) + Len(rest))

\* What JSLint takes for a statement that does not go on does not: no way
\* through it ends at the next statement. But a switch whose cases end without a
\* break can be left by one inside an if, which JSLint does not see.
RECURSIVE Breaks(_), GoesOn(_)
Breaks(v) == v.id = "break" \/ (v.id # "function" /\ \E i \in 1 .. Len(v.kids) : Breaks(v.kids[i]))
GoesOn(v) ==
  CASE v.id \in {"break", "continue", "return", "throw"} -> FALSE
    [] v.id \in {"list", "{"} -> \A i \in 1 .. Len(v.kids) : GoesOn(v.kids[i])
    [] v.id = "if" /\ Len(v.kids) = 3 -> GoesOn(v.kids[2]) \/ GoesOn(v.kids[3])
    [] v.id = "switch" -> Breaks(v) \/ GoesOn(v.kids[Len(v.kids)])
    [] OTHER -> TRUE
HiddenBreak(v) == \E w \in Nodes(v) : w.id = "switch" /\ w.disrupt /\ Breaks(w)
Abrupt(i) == vals[i].disrupt => ~GoesOn(vals[i])
DisruptIsAbrupt == \A i \in 1 .. Len(vals) : Abrupt(i) \/ HiddenBreak(vals[i])

\* JSLint comes to its end, or to a complaint that stops it: none of its loops
\* goes round without a token or a warning, not even at the end of the text.
Ends == <>(status # "running")
=============================================================================
