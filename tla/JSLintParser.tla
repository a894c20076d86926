---------------------------- MODULE JSLintParser ----------------------------
(* The Pratt parser that is the heart of JSLint: advance, expression, and   *)
(* the nud and led functions of the operators in the table syntax. A token  *)
(* stands for its text; its id is the text, but (identifier), (number) or   *)
(* (string). The calls that are under way are the items of stack: a step    *)
(* runs the first one up to its next call, and vals holds what the calls    *)
(* returned to the items that wait for it. Blanks and line breaks are left  *)
(* out, as the options of Bullring leave them to the writer (white): a text *)
(* is one row. What the scopes have to say of a name is JSLintScope's.      *)
EXTENDS JSLintErrors
CONSTANTS Texts,                \* families of texts: how they begin, go on, how long they
                                \* are, and the maxerr they are read with
          Names, Numbers, Strings
VARIABLES text,                 \* the family of this text
          source,               \* the tokens that lex has returned
          at,                   \* how many of them advance has consumed
          stack, vals,          \* the calls under way, their operands
          functs,               \* funct and the functions around it, innermost first
          in_block              \* is the statement in a block that is no function's body?
parsed == <<text, source, at, stack, vals, functs, in_block>>

token == source[at]
next_token == source[at + 1]

(***************************** the table syntax *****************************)
Relations == {"==", "<"}
AssignOps == {"=", "+="}
Arithmetic == {"+", "-", "*", "/", "%"}
Constants == {"true", "null", "this"}                      \* and NaN, undefined, arguments, ...
Statements == {"if", "try", "while", "switch", "debugger", "do", "for", "break", "continue",
               "return", "throw", "var", "function", "{"}
Prefixes == {"+", "-", "!", "~", "typeof", "void", "delete", "new", "++", "--", "(", "[", "{",
             "function"}
Reserved(t) == t \in Constants \cup Statements \cup {"typeof", "void", "delete", "new", "in",
                      "instanceof", "case", "catch", "default", "else", "finally"}
Identifier(t) == t \in Names \/ Reserved(t)                \* the brace among them
Postscript == {"(end)", "}", "case", "default"}
Fud(t) == t \in Statements
Nud(t) == t \in Names \cup Numbers \cup Strings \cup Constants \cup Prefixes

Id(t) == CASE t \in Names -> "(identifier)" [] t \in Numbers -> "(number)"
           [] t \in Strings -> "(string)" [] OTHER -> t

\* The left binding powers. A symbol that was a prefix first has 150, and no led.
LbpLoose(t) == CASE t \in AssignOps -> 20 [] t = "?" -> 30 [] t \in {"||", "&&"} -> 40
                 [] t \in Relations -> 100 [] t \in {"in", "instanceof", "<<"} -> 120
                 [] t \in {"+", "-", "*", "/", "%"} -> 130
                 [] t \in {"++", "--", "!", "~", "typeof", "void", "delete", "new", "{"} -> 150
                 [] t = "(" -> 160 [] t \in {".", "["} -> 170 [] OTHER -> 0
Lbp(t) == CASE t \in AssignOps -> 20 [] t = "?" -> 30 [] t = "||" -> 40 [] t = "&&" -> 50
            [] t = "|" -> 70 [] t = "&" -> 90 [] t \in Relations -> 100
            [] t \in {"in", "instanceof", "<<"} -> 120 [] t \in {"+", "-"} -> 130
            [] t \in {"*", "/", "%"} -> 140
            [] t \in {"++", "--", "!", "~", "typeof", "void", "delete", "new", "{"} -> 150
            [] t = "(" -> 160 [] t \in {".", "["} -> 170 [] OTHER -> 0

(************************** nodes and the machine ***************************)

\* A token as a node of the tree: its place, and those of the first and the
\* last token below it; paren of a node in parentheses, disrupt of a statement.
Value(n) == CASE source[n] = "0" -> 0 [] source[n] = "1" -> 1 [] OTHER -> 2
Node(n, arity, first, kids) ==
  [id |-> Id(source[n]), string |-> source[n], number |-> Value(n), arity |-> arity, at |-> n,
   from |-> first, thru |-> at, kids |-> kids, paren |-> FALSE, disrupt |-> FALSE]
LeafArity(t) == CASE t \in Numbers -> "number" [] t \in Strings -> "string" [] OTHER -> ""
Leaf(n) == [Node(n, LeafArity(source[n]), n, <<>>) EXCEPT !.thru = n]
\* What statements returns, and an array of operands.
List == [id |-> "list", string |-> "", number |-> 0, arity |-> "", at |-> at, from |-> at + 1,
         thru |-> at, kids |-> <<>>, paren |-> FALSE, disrupt |-> FALSE]

Val(k) == vals[Len(vals) - k]                              \* the k-th value below the last
Drop(k) == SubSeq(vals, 1, Len(vals) - k)

\* Items: what to do, a place or a power, a word.
Do(what) == [do |-> what, n |-> 0, s |-> ""]
DoAt(what, n) == [do |-> what, n |-> n, s |-> ""]
Say(what, s) == [do |-> what, n |-> 0, s |-> s]
Adv(id) == Say("advance", id)
Expr(rbp) == DoAt("expression", rbp)
First(rbp) == [do |-> "expression", n |-> rbp, s |-> "initial"]

\* The tokens that the call to be run next looks at: next_token, and with peek more.
Ahead == IF stack = <<>> THEN 0
         ELSE CASE Head(stack).do \in {"statement", "for", "initializer"} -> 2
                [] Head(stack).do = "return" -> 3 [] OTHER -> 1
Lexed == Len(source) >= at + Ahead
Doing(what) == stack # <<>> /\ stack[1].do = what /\ Lexed /\ status = "running"
Then(items) == stack' = items \o Tail(stack)
Return(v) == vals' = v
Quiet == UNCHANGED report
Says(ms) == warn(ms, "running")
If(c, m) == IF c THEN <<m>> ELSE <<>>
Same == UNCHANGED <<text, source, functs, in_block>>       \* what expressions leave alone
Undefined == [List EXCEPT !.id = "undefined"]              \* what a function without a value returns
Labelled == next_token \in Names /\ source[at + 2] = ":"
\* The last k operands become one node, with what is said of them.
Makes(k, node, ms, items) ==
  Return(Append(Drop(k), node)) /\ Says(ms) /\ Then(items) /\ UNCHANGED at /\ Same
\* The calls go on, with something said and nothing made.
Goes(ms, items) == Says(ms) /\ Then(items) /\ UNCHANGED <<at, vals>> /\ Same
Stops(ms) == stop(ms) /\ UNCHANGED <<at, stack, vals>> /\ Same
\* The last operand becomes a part of the node below it.
Joined == [Val(1) EXCEPT !.kids = Append(@, Val(0)), !.thru = at]

(* lex: the next token, when advance or peek has none: any that the family  *)
(* allows here.                                                             *)
Choices == IF Len(source) < Len(text.prefix) THEN {text.prefix[Len(source) + 1]}
           ELSE IF Len(source) > 0 /\ source[Len(source)] = "(end)" THEN {"(end)"}
           ELSE IF Len(source) >= text.size THEN {"(end)"} ELSE text.tokens \cup {"(end)"}
lex ==
  /\ status = "running" /\ ~Lexed
  /\ \E t \in Choices : source' = Append(source, t)
  /\ UNCHANGED <<text, at, stack, vals, functs, in_block, report>>

(********************************* advance **********************************)
Confused == at > 0 /\ \/ token = "-" /\ next_token \in {"-", "--"}
                      \/ token = "+" /\ next_token \in {"+", "++"}
AdvanceSays(id) ==
  If(at > 0 /\ token \in Numbers /\ next_token = ".", "trailing_decimal_a")
  \o If(Confused, "confusing_a")
  \o If(id # "" /\ Id(next_token) # id, "expected_a_b")

advance ==
  /\ Doing("advance")
  /\ at' = at + 1
  /\ Says(AdvanceSays(Head(stack).s))
  /\ Then(<<>>) /\ Return(vals) /\ Same

(******************************** expression ********************************)
expression ==
  /\ Doing("expression")
  /\ \/ /\ next_token = "(end)"
        /\ stop(<<"unexpected_a">>) /\ UNCHANGED <<at, stack, vals>>
     \/ /\ next_token # "(end)"
        /\ at' = at + 1
        /\ Says(AdvanceSays(""))
        /\ Then(<<[Head(stack) EXCEPT !.do = "first"]>>) /\ Return(vals)
  /\ Same

\* The token of an expression's first position: a statement, an operand, or none.
HasFud == Head(stack).s = "initial" /\ Fud(token)
NoOperand ==
  /\ Doing("first") /\ ~HasFud /\ ~Nud(token)
  /\ \/ /\ next_token \in Numbers /\ token = "."
        /\ at' = at + 1
        /\ Says(<<"leading_decimal_a">> \o AdvanceSays(""))
        /\ Return(Append(vals, Leaf(at))) /\ Then(<<>>)
     \/ /\ ~(next_token \in Numbers /\ token = ".")
        /\ stop(<<"expected_identifier_a">>) /\ UNCHANGED <<at, stack, vals>>
  /\ Same

\* while (rbp < next_token.lbp): an operator that binds tighter takes the left operand.
loop ==
  /\ Doing("loop")
  /\ \/ /\ Head(stack).n < Lbp(next_token)
        /\ at' = at + 1
        /\ Says(AdvanceSays(""))
        /\ Then(<<Do("led"), Head(stack)>>)
     \/ /\ Head(stack).n >= Lbp(next_token)
        /\ Then(<<>>) /\ Quiet /\ UNCHANGED at
  /\ Return(vals) /\ Same

(************************** what is said of operands ************************)
RECURSIVE Similar(_, _)
Similar(a, b) ==                \* are_similar
  IF a = b THEN TRUE
  ELSE IF a.id = "(number)" /\ b.id = "(number)" THEN a.number = b.number
  ELSE /\ a.arity = b.arity /\ a.string = b.string
       /\ CASE a.arity = "function" -> FALSE
            [] a.arity \in {"prefix", "suffix", "", "infix", "ternary"} ->
                 /\ a.id = b.id /\ Len(a.kids) = Len(b.kids)
                 /\ \A i \in 1 .. Len(a.kids) : Similar(a.kids[i], b.kids[i])
            [] OTHER -> TRUE
expected_relation(v) == If(v.id \in AssignOps, "conditional_assignment")
expected_condition(v, message) ==
  If(\/ v.id \in {"[", "-"} /\ v.arity # "infix"
     \/ v.id \in {"function", "null", "true", "void", "(number)", "(string)", "{"}, message)
check_relation(v) == CASE v.arity = "prefix" /\ v.id \in {"{", "["} -> <<"unexpected_a">>
                       [] v.arity = "prefix" /\ v.id = "!" -> <<"confusing_a">>
                       [] v.arity = "function" -> <<"unexpected_a">> [] OTHER -> <<>>
Assignable(v) == (Identifier(v.string) /\ ~Reserved(v.string)) \/ v.id \in {".", "["}
Zero(v) == v.id = "(number)" /\ v.number = 0
One(v)  == v.id = "(number)" /\ v.number = 1
Str(v)  == v.id = "(string)"
ArithmeticLeft(op, v) == If(CASE op = "+" -> Zero(v) [] op \in {"-", "/"} -> Zero(v) \/ Str(v)
                              [] OTHER -> Zero(v) \/ One(v) \/ Str(v), "unexpected_a")
ArithmeticRight(op, v) == If(CASE op = "+" -> Zero(v) [] op \in {"-", "%"} -> Zero(v) \/ Str(v)
                               [] OTHER -> Zero(v) \/ One(v) \/ Str(v), "unexpected_a")
Bang == Relations \cup Arithmetic
Literals(a, b) == a.id \in {"(string)", "(number)"} /\ b.id \in {"(string)", "(number)"}
And(v) == If(v.id = "&&" /\ ~v.paren, "and")               \* paren_check

(********************************* operands *********************************)
\* A nud: its calls, what it makes of what they return, then expression's loop.
Operand(tokens) == Doing("first") /\ ~HasFud /\ token \in tokens
Loop == DoAt("loop", Head(stack).n)

leaf == Operand(Names \cup Numbers \cup Strings \cup Constants) /\ Makes(0, Leaf(at), <<>>, <<Loop>>)

\* prefix, and those of its kind with a nud of their own: void, delete, ~, !, new.
UnaryOps == {"+", "-", "!", "~", "typeof", "void", "delete", "new", "++", "--"}
UnaryPower(op) == CASE op \in {"void", "delete"} -> 0 [] op = "new" -> 160 [] OTHER -> 150
UnarySays(op, v) ==
  CASE op \in {"++", "--"} -> If(~Assignable(v), "bad_operand")
    [] op = "!" -> expected_condition(v, "weird_condition")
                   \o If(v.id \in Bang \cup AssignOps, "confusing_a")
    [] op = "void" -> <<"expected_a_b">>
    [] op = "delete" -> If(v.id \notin {".", "["}, "deleted")
    [] op = "new" -> (IF v.id = "function" THEN <<"weird_new">>
                      ELSE If(~Identifier(v.string) /\ v.id \notin {".", "[", "("}, "bad_constructor"))
                     \o If(next_token # "(", "missing_a")
    [] OTHER -> <<>>
prefix == Operand(UnaryOps) /\ Goes(<<>>, <<Expr(UnaryPower(token)), DoAt("prefix", at), Loop>>)
prefixed ==
  /\ Doing("prefix")
  /\ LET n == Head(stack).n
         op == source[n]
         arity == IF op \in {"~", "delete", "new"} THEN "" ELSE "prefix"
     IN Makes(1, Node(n, arity, n, IF op = "~" THEN <<>> ELSE <<Val(0)>>), UnarySays(op, Val(0)), <<>>)

parenthesis == Operand({"("}) /\ Goes(<<>>, <<Expr(0), Adv(")"), DoAt("paren", at), Loop>>)
WrapSays(v) == IF v.id # "function" THEN <<>>
               ELSE CASE next_token = "(" -> <<"move_invocation">>
                      [] next_token \in {".", "["} -> <<"unexpected_a">> [] OTHER -> <<"bad_wrap">>
parenthesised ==
  /\ Doing("paren")
  /\ Makes(1, [Val(0) EXCEPT !.paren = TRUE, !.from = Head(stack).n, !.thru = at], WrapSays(Val(0)), <<>>)

\* An array: commas before an element are warned of, one before the end is not (es5).
Bracketed == Operand({"[", "{"})
             /\ Makes(0, Node(at, "prefix", at, <<>>), <<>>,
                      <<Do(IF token = "[" THEN "elements" ELSE "members"), Loop>>)
Close(id) == <<Adv(id), Do("close")>>
close == Doing("close") /\ Makes(1, [Val(0) EXCEPT !.thru = at], <<>>, <<>>)
elements ==
  /\ Doing("elements")
  /\ \/ next_token = "," /\ Goes(<<"unexpected_a">>, <<Adv(","), Say("elements", "after a comma")>>)
     \/ next_token = "]" /\ Goes(<<>>, Close("]"))
     \/ next_token = "(end)" /\ Head(stack).s = "" /\ Goes(<<>>, Close("]"))
     \/ /\ next_token \notin {",", "]"} /\ (next_token = "(end)" => Head(stack).s # "")
        /\ Goes(<<>>, <<Expr(10), Do("element")>>)
element == Doing("element") /\ Makes(2, Joined, <<>>, IF next_token = "," THEN <<Adv(","), Do("elements")>>
                                                      ELSE Close("]"))

\* An object: property_name takes an identifier, reserved or not, a string or a number.
members ==
  /\ Doing("members")
  /\ \/ next_token = "}" /\ Goes(<<>>, Close("}"))
     \/ /\ Identifier(next_token) \/ next_token \in Strings \cup Numbers
        /\ at' = at + 1 /\ Says(AdvanceSays(""))
        /\ Return(Append(vals, Leaf(at + 1))) /\ Then(<<Adv(":"), Expr(10), Do("member")>>) /\ Same
     \/ /\ next_token # "}" /\ ~(Identifier(next_token) \/ next_token \in Strings \cup Numbers)
        /\ Stops(<<"missing_property">>)
member ==
  /\ Doing("member")
  /\ LET object == Val(2)
         name == [Val(1) EXCEPT !.kids = <<Val(0)>>]
     IN Makes(3, [object EXCEPT !.kids = Append(@, name)],
              If(\E i \in 1 .. Len(object.kids) : object.kids[i].string = name.string, "duplicate_a"),
              IF next_token = "," THEN <<Adv(","), Do("commas")>> ELSE Close("}"))
commas == Doing("commas") /\ \/ next_token = "," /\ Goes(<<"unexpected_a">>, <<Adv(","), Do("commas")>>)
                             \/ next_token # "," /\ Goes(<<>>, <<Do("members")>>)

(******************************** functions *********************************)
identifier ==
  /\ Doing("identifier")
  /\ \/ Identifier(next_token) /\ at' = at + 1 /\ Says(AdvanceSays("")) /\ Then(<<>>) /\ Return(vals) /\ Same
     \/ ~Identifier(next_token) /\ Stops(<<"expected_identifier_a">>)

\* do_function: a funct of its own, with no loop or switch around it.
NewFunct == [breakage |-> 0, loopage |-> 0]
do_function ==
  /\ Doing("do_function")
  /\ functs' = <<NewFunct>> \o functs
  /\ Then(<<Adv("("), Do("function_params"), Say("block", "body"), Do("end_function")>>)
  /\ Quiet /\ UNCHANGED <<text, source, at, vals, in_block>>
function_params ==
  Doing("function_params") /\ Goes(<<>>, IF next_token = ")" THEN <<Adv(")")>>
                                         ELSE <<Do("identifier"), Do("more_params")>>)
ParamsStay ==                   \* the loop goes round without its comma(',')
  Doing("more_params") /\ Goes(<<>>, IF next_token = "," THEN <<Do("more_params")>> ELSE <<Adv(")")>>)
more_params ==
  Doing("more_params") /\ Goes(<<>>, IF next_token = "," THEN <<Adv(","), Do("identifier"), Do("more_params")>>
                                     ELSE <<Adv(")")>>)
end_function ==
  /\ Doing("end_function")
  /\ functs' = Tail(functs)
  /\ Then(<<>>) /\ Quiet /\ UNCHANGED <<text, source, at, vals, in_block>>

\* A function in an expression. immed: the parenthesis around it has nothing before it.
Immed == Len(stack) > 2 /\ stack[3].do = "paren" /\ stack[3].n = at - 1
function_nud ==
  /\ Operand({"function"})
  /\ vals' = Append(vals, [Node(at, "function", at, <<>>) EXCEPT !.paren = Immed])
  /\ \/ Identifier(next_token) /\ at' = at + 1 /\ Says(AdvanceSays(""))
     \/ ~Identifier(next_token) /\ UNCHANGED at /\ Quiet
  /\ Then(<<Do("do_function"), Do("function"), Loop>>) /\ Same
function_value ==
  /\ Doing("function")
  /\ LET looped == If(functs[1].loopage > 0, "function_loop") IN
     \/ next_token \in {";", "(", ")", ",", "]", "}", ":"} /\ Makes(2, Joined, looped, <<>>)
     \/ next_token = "." /\ Makes(2, Joined, looped \o <<"unexpected_a">>, <<>>)
     \/ next_token \notin {";", "(", ")", ",", "]", "}", ":", "."} /\ Stops(looped \o <<"unexpected_a">>)

(******************************** operators *********************************)
Left(tokens) == Doing("led") /\ token \in tokens

\* infix: what is said of the left operand, the right one, what is said of both.
Infix == {"||", "&&", "|", "&", "in", "instanceof", "<<"} \cup Relations \cup Arithmetic \cup AssignOps
RightPower(op) == CASE op = "in" -> 130 [] op \in AssignOps -> 19 [] OTHER -> Lbp(op)
AssignedSays(v) == If(v.id \notin {".", "["} /\ ~Identifier(v.string), "bad_assignment")
LeftSays(op, v) ==
  CASE op = "||" -> expected_relation(v) \o expected_condition(v, "weird_condition") \o And(v)
    [] op = "&&" -> expected_relation(v) \o expected_condition(v, "weird_condition")
    [] op \in Relations -> check_relation(v)
    [] op = "in" -> <<"infix_in">>
    [] op \in Arithmetic -> ArithmeticLeft(op, v)
    [] op \in AssignOps -> AssignedSays(v)
    [] OTHER -> <<>>
RightSays(op, u, v) ==
  CASE op \in {"||", "&&"} -> expected_relation(v) \o (IF op = "||" THEN And(v) ELSE <<>>)
                              \o If(Similar(u, v), "weird_condition")
    [] op \in Relations -> If(Similar(u, v) \/ Literals(u, v), "weird_relation") \o check_relation(v)
    [] op \in Arithmetic -> ArithmeticRight(op, v)
    [] op = "=" -> If(Similar(u, v), "weird_assignment")
    [] OTHER -> <<>>
\* Two numbers, or two strings to be concatenated, become one.
Folds(op, u, v) == op \in Arithmetic /\ u.id = v.id /\ (u.id = "(number)" \/ (op = "+" /\ u.id = "(string)"))
Quotient(a, b) == IF b = 0 THEN a ELSE a \div b            \* only of the numbers of a text
Folded(op, u, v) ==
  [u EXCEPT !.thru = v.thru,
            !.string = IF u.id = "(string)" THEN @ \o v.string ELSE @,
            !.number = CASE op = "+" -> @ + v.number [] op = "-" -> @ - v.number
                         [] op = "*" -> @ * v.number [] op = "/" -> Quotient(@, v.number)
                         [] OTHER -> @ - v.number * Quotient(@, v.number)]
infix ==
  /\ Left(Infix)
  /\ \/ /\ token \in AssignOps /\ Reserved(Val(0).string) /\ Stops(<<"read_only">>)
     \/ /\ ~(token \in AssignOps /\ Reserved(Val(0).string))
        /\ Goes(LeftSays(token, Val(0)), <<Expr(RightPower(token)), DoAt("infix", at)>>)
infixed ==
  /\ Doing("infix")
  /\ LET n == Head(stack).n
         op == source[n]
         u == Val(1)
         v == Val(0)
     IN Makes(2, IF Folds(op, u, v) THEN Folded(op, u, v)
                 ELSE Node(n, "infix", u.from, IF op = "in" THEN <<>> ELSE <<u, v>>), RightSays(op, u, v), <<>>)

conditional ==
  /\ Left({"?"})
  /\ Goes(expected_relation(Val(0)) \o expected_condition(Val(0), "weird_condition"),
          <<Expr(0), Adv(":"), Expr(10), DoAt("ternary", at)>>)
TernarySays(a, b, c) == IF Similar(b, c) THEN <<"weird_ternary">> ELSE If(Similar(a, b), "use_or")
ternary ==
  /\ Doing("ternary")
  /\ Makes(3, Node(Head(stack).n, "ternary", Val(2).from, <<Val(2), Val(1), Val(0)>>),
           TernarySays(Val(2), Val(1), Val(0)), <<>>)

suffix == Left({"++", "--"}) /\ Makes(1, Node(at, "suffix", Val(0).from, <<Val(0)>>),
                                      If(~Assignable(Val(0)), "bad_operand"), <<>>)

call ==
  /\ Left({"("})
  /\ Return(Append(vals, List)) /\ Says(If(Val(0).id = "function" /\ ~Val(0).paren, "wrap_immediate"))
  /\ Then(IF next_token = ")" THEN <<Adv(")"), DoAt("call", at)>>
          ELSE <<Expr(10), Do("argument"), DoAt("call", at)>>)
  /\ UNCHANGED at /\ Same
argument == Doing("argument") /\ Makes(2, Joined, <<>>, IF next_token = "," THEN <<Adv(","), Expr(10), Do("argument")>>
                                                        ELSE <<Adv(")")>>)
Callable(v) == Identifier(v.string) \/ v.id \in {".", "[", "(", "&&", "||", "?"}
called ==
  /\ Doing("call")
  /\ Makes(2, Node(Head(stack).n, "infix", Val(1).from, <<Val(1), Val(0)>>),
           If(~Callable(Val(1)), "bad_invocation"), <<>>)

refinement ==
  /\ Left({"."})
  /\ \/ /\ Identifier(next_token)
        /\ at' = at + 1 /\ Says(AdvanceSays("")) /\ Then(<<>>)
        /\ Return(Append(Drop(1), [Node(at, "infix", Val(0).from, <<Val(0), Leaf(at + 1)>>) EXCEPT !.thru = at + 1]))
        /\ Same
     \/ ~Identifier(next_token) /\ Stops(<<"expected_identifier_a">>)
subscript == Left({"["}) /\ Goes(<<>>, <<Expr(0), Adv("]"), DoAt("subscript", at)>>)
subscripted ==
  Doing("subscript") /\ Makes(2, Node(Head(stack).n, "infix", Val(1).from, <<Val(1), Val(0)>>), <<>>, <<>>)

\* A symbol that binds to what is before it but has no led.
NoOperator == Left({"!", "~", "typeof", "void", "delete", "new", "{"}) /\ Stops(<<"expected_operator_a">>)

ExpressionSteps ==
  \/ advance \/ expression \/ NoOperand \/ loop
  \/ leaf \/ prefix \/ prefixed \/ parenthesis \/ parenthesised
  \/ Bracketed \/ close \/ elements \/ element \/ members \/ member \/ commas
  \/ identifier \/ do_function \/ function_params \/ more_params \/ end_function
  \/ function_nud \/ function_value
  \/ infix \/ infixed \/ conditional \/ ternary \/ suffix \/ call \/ argument \/ called
  \/ refinement \/ subscript \/ subscripted \/ NoOperator
=============================================================================
