--------------------------- MODULE MCJSLintParser ---------------------------
(* The texts of the parser's run: for each part of the language, how a text  *)
(* begins, and every way it can go on over the tokens that matter there.     *)
EXTENDS JSLintStatements
CONSTANT More                   \* bound: how many tokens a text may have beyond its family's own

Family(first, tokens, size) == [prefix |-> first, tokens |-> tokens, size |-> Len(first) + size + More,
                                 maxerr |-> 1]
\* Texts that are read on after a warning, and after another.
Sloppy(first, tokens, size) == [Family(first, tokens, size) EXCEPT !.maxerr = 3]
InF == <<"function", "f", "(", ")", "{">>
IfA == <<"if", "(", "a", ")", "{">>
WhileA == <<"while", "(", "a", ")", "{">>
SwitchA == <<"switch", "(", "a", ")", "{">>

Operators == {
  Family(<<"a", "=">>, {"a", "+", "*", "-", "(", ")", ";"}, 5),
  Family(<<"a", "=">>, {"a", "!", "-", "++", "typeof", ";"}, 5),
  Family(<<"a", "=">>, {"a", "b", "||", "&&", "?", ":", ";"}, 6),
  Family(<<"a", "=">>, {"a", "b", "==", "<", "instanceof", "|", "<<", "in", ";"}, 5),
  Family(<<>>, {"a", "=", "+=", ".", "[", "]", ";"}, 6),
  Family(<<>>, {"a", "++", "delete", "~", ".", ";"}, 5),
  Family(<<>>, {"a", "(", ")", ",", ".", "new", ";"}, 6),
  Family(<<"a", "=">>, {"2", "0", "+", "/", "%", "'s'", "b", ";"}, 4) }
Literals_ == {
  Family(<<"a", "=">>, {"b", "[", "]", ",", ";"}, 6),
  Family(<<"a", "=", "{">>, {"b", "'s'", ":", ",", "if", "}", ";"}, 7),
  Family(<<"a", "=", "function">>, {"b", "(", ")", ",", "{", "}", ";", "."}, 7),
  Family(<<"(", "function", "(", ")", "{", "}">>, {"(", ")", ".", "a", ";"}, 5),
  Family(<<"{">>, {"'s'", "'t'", "1", ":", ",", "}"}, 8),
  Family(<<"[">>, {"'s'", "1", "-", "true", ",", "[", "]", "{", "}"}, 5) }
Blocks_ == {
  Family(InF \o IfA, {"return", ";", "}", "else", "{", "debugger"}, 8),
  Family(IfA \o <<"debugger", ";", "}", "else">>, {"if", "switch", "(", "a", ")", "{", "}", ";"}, 7),
  Family(<<"if", "(", "a", ")">>, {"debugger", ";", "{", "}", "else"}, 5),
  Family(<<"try", "{">>, {"}", "catch", "finally", "(", ")", "{", "b"}, 5),
  Family(<<"try", "{", "}", "catch", "(">>, {"b", "1", ")", "{", "}", "finally"}, 7),
  Family(<<"{">> , {"}"}, 1) ,
  Family(<<";">>, {"{", "}", "debugger", ";", "throw", "a", "return"}, 5),
  Family(<<"var">>, {"a", "b", "=", ",", ";", "if", "{"}, 6),
  Family(<<"function">>, {"a", "b", "(", ")", "{", "}", ",", "return", ";"}, 7),
  Family(IfA, {"function", "f", "(", ")", "{", "}"}, 7),
  Family(<<"try", "{">> \o InF \o <<"}", "}">>, {"finally", "{", "}", "function", "f", "(", ")"}, 3) }
Loops_ == {
  Family(InF \o WhileA, {"break", "continue", "return", ";", "}", "if"}, 6),
  Family(InF \o WhileA \o IfA, {"break", "continue", ";", "}", "debugger", "c"}, 6),
  Family(InF \o <<"c", ":">>, {"while", "do", "for", "switch", "(", "a", "debugger", "{"}, 3),
  Family(InF \o <<"c", ":">> \o WhileA \o IfA, {"break", "c", ";", "}"}, 6),
  Family(<<"c", ":">>, {"while"}, 1),
  Family(<<"do", "{">>, {"debugger", "break", ";", "}", "while", "(", "a", ")"}, 7),
  Family(<<"for", "(">>, {"a", "in", ";", "=", ",", ")", "{"}, 6),
  Family(<<"for", "(", "a", "in">>, {"a", ")", "{", "}", "debugger", ";"}, 6),
  Family(<<"for", "(", "a", "=", "1", ";", "a", ";">>, {"a", "=", ",", ")", "{", "}", "debugger", ";"}, 8),
  Family(<<"for", "(">>, {"var", "a", "'s'", "in", ";"}, 3),
  Family(WhileA \o <<"a", "=", "function", "(", ")", "{">>, {"break", "return", ";", "}"}, 7),
  Family(WhileA \o IfA \o <<"debugger", ";", "}", "}">>, {"break", ";", "debugger"}, 2),
  Family(SwitchA, {"case", "default", "b", ":", "break", ";", "}", "debugger"}, 9),
  Family(InF \o SwitchA \o <<"case", "b", ":">>, {"return", "case", "default", "b", ":", "break", ";", "}", "debugger"}, 7),
  Family(InF \o SwitchA \o <<"case", "b", ":">> \o IfA,
         {"break", "return", ";", "}", "default", ":"}, 11),
  Family(SwitchA \o <<"case", "b", ":", "break", ";", "}">>, {"break", ";", "continue"}, 2) }
Repairs == {
  Sloppy(<<"if", "(", "a", ")">>, {";", "debugger", "{", "}", "else"}, 3),
  Sloppy(<<"a", "=">>, {"[", "]", ",", "b", ";"}, 4),
  Sloppy(<<"a", "=">>, {"{", "}", ",", "b", ":"}, 4),
  Sloppy(<<"a", "=">>, {"2", "0", ".", "/", "%"}, 4),
  Sloppy(<<"a", "=">>, {"b", "&&", "||", "("}, 4),
  Sloppy(<<"{">>, {"'s'", ":", ",", "}"}, 4), Sloppy(<<"[">>, {"1", ",", "]"}, 4),
  Sloppy(<<"a", "=", "(", "function", "(", ")", "{", "}">>, {")", ".", "(", "[", ";"}, 3),
  Sloppy(WhileA \o <<"a", "=", "function", "(", ")", "{", "}">>, {";", ".", "+", "b", "}"}, 3),
  Sloppy(InF, {"return", ";", "debugger", "}"}, 5),
  Sloppy(SwitchA, {"case", "b", ":", "default", ";", "}"}, 6),
  Sloppy(SwitchA \o <<"case", "b", ":", "b", "(", ")", ";">>, {"case", "b", ":", "(", ")", "}"}, 6),
  Sloppy(<<"try", "{", "}">>, {"catch", "(", ")", "1", "{", "}", "finally"}, 5),
  Sloppy(<<"for", "(">>, {"1", "in", ";", "a", ")"}, 4),
  Family(<<>>, {"1", ".", ";"}, 2),
  Sloppy(<<>>, {"{", "}", "return", ";", "break", "case"}, 4) }
MCTexts == Operators \cup Literals_ \cup Blocks_ \cup Loops_ \cup Repairs
=============================================================================
