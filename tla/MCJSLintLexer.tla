--------------------------- MODULE MCJSLintLexer ---------------------------
(* The texts of the lexer's run: every text of a few characters over the     *)
(* characters that matter to one part of lex, for each part.                 *)
EXTENDS JSLintLexer
CONSTANTS Short, Long           \* bounds: the lengths of the texts beside 3 and 2

Row(chars, k)   == UNION {[1 .. j -> chars] : j \in 0 .. k}
OneRow(chars, k) == {<<r>> : r \in Row(chars, k)}
TwoRows(chars, j, k) == {<<r, s>> : r \in Row(chars, j), s \in Row(chars, k)}

Slashes   == OneRow({"a", "return", "4", ")", "(", "/", " "}, Short)
               \cup OneRow({"a", "case", "]", "/", "=", " "}, Short)
Braced    == OneRow({"a", "=", "{", "}", "/"}, Short)
Apart     == {<<r \o <<"/", "/">>, t>> : r \in Row({"a", "{", "/", "=", ")"}, 2),
                                        t \in Row({"a", "}", "/"}, Long - 1)}
Strings   == TwoRows({"a", "\"", "\\"}, Short, 2) \cup OneRow({"x", "4", "\"", "'", "\\", "{"}, Short)
Comments  == TwoRows({"/", "*", "a", " "}, 3, 3)
Numbers   == OneRow({"4", ".", "a", "+"}, Short)
Unlexable == OneRow({" ", "\\", "a"}, Short)
Regexps   == {<< <<"/">> \o r >> : r \in Row({"a", "(", ")", "[", "]", "/", "\\", "^"}, Long)
                                          \cup Row({"g", "?", ":", "(", "/", "|", " "}, Long)}
Braces3   == {<< <<"/", "a", "{">> \o r \o <<"/">> >> : r \in Row({"4", ",", "}", "?"}, Long)}

MCSources == Slashes \cup Braced \cup Apart \cup Strings \cup Comments \cup Numbers \cup Unlexable \cup Regexps \cup Braces3
=============================================================================
