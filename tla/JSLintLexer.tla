---------------------------- MODULE JSLintLexer ----------------------------
(* The lexical analysis of JSLint: lex.token, which advance calls for one   *)
(* token after the other, over the lines of a JavaScript or JSON text       *)
(* (xmode ''), under the options of Bullring. One action per token that a   *)
(* match gives, and one per turn of the loops of string, comment and regexp.*)
(* A character stands for its kind; "return" and "case" are the reserved    *)
(* words, each in one.                                                      *)
EXTENDS JSLintErrors
CONSTANTS Sources,              \* the texts, each a sequence of lines
          MaxCharacter          \* bound: a column beyond it is no longer counted

NoCharacter == "(none)"         \* what charAt gives beyond the end of a line
Characters == STRING \ {NoCharacter}
\* split gives at least one line; no line of a text reaches the bound.
ASSUME LexerAssumption ==
  /\ Sources \subseteq Seq(Seq(Characters)) \ {<<>>}
  /\ MaxCharacter \in Nat
  /\ \A t \in Sources : \A l \in 1 .. Len(t) : Len(t[l]) + 3 <= MaxCharacter

VARIABLES lines, line,          \* the text, and how many of its lines were begun
          source_row,           \* what is left of the line
          character,            \* the column, from 1, where source_row is taken to begin
          from,                 \* the column where the token begins
          mode,                 \* "token", or the loop that lex is in
          quote, pos,           \* string: its quote, and the index into source_row
          length, depth, bit,   \* regexp: the characters read, open groups, class state
          prereg,               \* may a slash begin a regular expression?
          begun,                \* the line on which the token or comment begins
          pieces                \* what was made of the text so far: tokens, comments

lexed == <<lines, line, source_row, character, from, mode, quote, pos, length, depth, bit,
           prereg, begun, pieces>>
vars == <<lexed, report>>

Reserved == {"return", "case"}
Letters == {"a", "g", "x"} \cup Reserved
Digits  == {"4"}
Blank       == " "
Comma       == ","
Semicolon   == ";"
LeftBrace   == "{"
RightBrace  == "}"
DoubleQuote == "\""
Quotes  == {"'", DoubleQuote}

Rest(s, k) == SubSeq(s, k + 1, Len(s))
At(s, k) == IF k \in 1 .. Len(s) THEN s[k] ELSE NoCharacter                \* charAt(k - 1)
Run(s, S) == CHOOSE k \in 0 .. Len(s) :
               (\A i \in 1 .. k : s[i] \in S) /\ At(s, k + 1) \notin S

\* The tokens of the regular expression tx that begin with c.
Pairs(c) == CASE c = "/" -> {"/", "*", "="} [] c = "*" -> {"/", "="} [] c = "|" -> {"|", "="}
              [] c = "^" -> {"="} [] OTHER -> {}
Number(s) == LET d == Run(s, Digits)
             IN  IF At(s, d + 1) = "." THEN d + 1 + Run(Rest(s, d + 1), Digits) ELSE d
Snippet(s) == CASE s[1] \in Letters -> Run(s, Letters \cup Digits)
                [] s[1] \in Digits -> Number(s)
                [] s[1] = "=" -> IF Run(s, {"="}) > 3 THEN 3 ELSE Run(s, {"="})
                [] s[1] = "+" -> IF At(s, 2) = "=" THEN 2 ELSE Run(s, {"+"})
                [] s[1] = "\\" -> 0
                [] OTHER -> IF At(s, 2) \in Pairs(s[1]) THEN 2 ELSE 1

\* The i-th piece is the last token before the j-th: only comments are between.
Precedes(i, j) == i < j /\ pieces[i].kind # "comment" /\ \A k \in i + 1 .. j - 1 : pieces[k].kind = "comment"
LastIs(text)   == \E i \in 1 .. Len(pieces) : /\ Precedes(i, Len(pieces) + 1)
                                             /\ pieces[i].kind = "punctuator" /\ pieces[i].text = text

\* A JSON text is one whose first token opens an object or an array.
json_mode == \E i \in 1 .. Len(pieces) :
               /\ pieces[i].kind = "punctuator" /\ pieces[i].text \in {<<LeftBrace>>, <<"[">>}
               /\ \A k \in 1 .. i - 1 : pieces[k].kind = "comment"

PreRegParen(kind, text) ==      \* a parenthesis that closes taken for one that opens
  \/ kind = "punctuator" /\ text[Len(text)] \in {"(", ")", Comma, "=", ":", "[", "!", "&", "|", "?",
                                                LeftBrace, RightBrace, Semicolon}
  \/ kind = "identifier" /\ text[1] \in Reserved

\* After these tokens it takes a slash for the beginning of a regular expression.
PreReg(kind, text) ==
  \/ kind = "punctuator" /\ text[Len(text)] \in {"(", Comma, "=", ":", "[", "!", "&", "|", "?",
                                                LeftBrace, RightBrace, Semicolon}
  \/ kind = "identifier" /\ text[1] \in Reserved

\* it(kind, text): the token ends where `character' then is.
it(kind, text) ==
  /\ pieces' = Append(pieces, [kind |-> kind, text |-> text, line |-> line, begun |-> begun',
                               from |-> from', thru |-> character'])
  /\ prereg' = PreReg(kind, text)

\* A comment is no token: it leaves prereg as it is. It is recorded to be found
\* among the pieces, thru the column after it.
Comment(thru) ==
  /\ pieces' = Append(pieces, [kind |-> "comment", text |-> <<>>, line |-> line,
                               begun |-> begun', from |-> from', thru |-> thru])
  /\ UNCHANGED prereg

Init ==
  /\ lines \in Sources
  /\ line = 1 /\ source_row = lines[1] /\ character = 1 /\ from = 1
  /\ mode = "token" /\ quote = NoCharacter /\ pos = 0 /\ length = 0 /\ depth = 0 /\ bit = FALSE
  /\ prereg = TRUE /\ begun = 1 /\ pieces = <<>>
  /\ ReportInit

next_line == line < Len(lines) /\ line' = line + 1
             /\ source_row' = lines[line + 1] /\ character' = 1

Quiet == UNCHANGED report
Idle == UNCHANGED <<quote, pos, length, depth, bit>>

(***************************** lex.token ***********************************)

\* The end of a line, and of the text.
EndOfRow ==
  /\ source_row = <<>> /\ next_line
  /\ Quiet /\ Idle /\ UNCHANGED <<lines, from, mode, prereg, begun, pieces>>

EndOfText ==
  /\ source_row = <<>> /\ line = Len(lines)
  /\ warn(<<>>, "ended")
  /\ UNCHANGED lexed

Blanks == Run(source_row, {Blank})
First  == Rest(source_row, Blanks)        \* what the regular expression tx looks at

\* Nothing but blanks, or a character that begins no token.
NoMatch ==
  /\ source_row # <<>>
  /\ \/ /\ First = <<>>
        /\ source_row' = <<>> /\ character' = character + 1
        /\ Quiet
     \/ /\ First # <<>> /\ Snippet(First) = 0 /\ source_row[1] = Blank
        /\ source_row' = <<>> /\ character' = character + 1
        /\ Quiet
     \/ /\ First # <<>> /\ Snippet(First) = 0 /\ source_row[1] # Blank
        /\ stop(<<"unexpected_a">>)
        /\ UNCHANGED <<source_row, character>>
  /\ Idle /\ UNCHANGED <<lines, line, from, mode, prereg, begun, pieces>>

\* match: the token is the first k characters of First.
Matches(k) == source_row # <<>> /\ First # <<>> /\ Snippet(First) = k /\ k > 0
matchNoBlanks(k) ==             \* the blanks before the token not counted
  /\ from' = character
  /\ character' = character + k
  /\ source_row' = Rest(First, k)
  /\ begun' = line
  /\ UNCHANGED <<lines, line>>

match(k) ==
  /\ from' = character + Blanks
  /\ character' = character + Blanks + k
  /\ source_row' = Rest(First, k)
  /\ begun' = line
  /\ UNCHANGED <<lines, line>>
Text(k) == SubSeq(First, 1, k)

Word(k) ==
  /\ Matches(k) /\ First[1] \in Letters
  /\ match(k) /\ it("identifier", Text(k))
  /\ Quiet /\ Idle /\ UNCHANGED mode

number(k) ==
  /\ Matches(k) /\ First[1] \in Digits
  /\ match(k) /\ it("number", Text(k))
  /\ warn((IF At(First, k + 1) \in Letters THEN <<"expected_space_a_b">> ELSE <<>>)
          \o (IF First[k] = "." THEN <<"trailing_decimal_a">> ELSE <<>>), "running")
  /\ Idle /\ UNCHANGED mode

\* A slash: after /= it is refused, unless the parser, which looks ahead after a
\* return, has not taken the /= yet; else prereg decides.
Slash(k) ==
  /\ Matches(k) /\ Text(k) = <<"/">> /\ match(k)
  /\ \/ /\ LastIs(<<"/", "=">>)
        /\ stop(<<"slash_equal">>)
        /\ Idle /\ UNCHANGED <<mode, prereg, pieces>>
     \/ /\ prereg
        /\ mode' = "regexp" /\ length' = 0 /\ depth' = 0
        /\ Quiet /\ UNCHANGED <<quote, pos, bit, prereg, pieces>>
     \/ /\ ~prereg
        /\ it("punctuator", Text(k))
        /\ Quiet /\ Idle /\ UNCHANGED mode

LineComment(k) ==
  /\ Matches(k) /\ Text(k) = <<"/", "/">>
  /\ from' = character + Blanks /\ character' = character + Blanks + k
  /\ source_row' = <<>> /\ begun' = line
  /\ Comment(character' + Len(First) - k)
  /\ Quiet /\ Idle /\ UNCHANGED <<lines, line, mode>>

OpenComment(k) ==
  /\ Matches(k) /\ Text(k) = <<"/", "*">>
  /\ match(k) /\ mode' = "comment"
  /\ Quiet /\ Idle /\ UNCHANGED <<prereg, pieces>>

OpenString(k) ==
  /\ Matches(k) /\ First[1] \in Quotes
  /\ match(k) /\ mode' = "string" /\ quote' = First[1] /\ pos' = 0
  /\ warn(IF json_mode /\ First[1] = "'" THEN <<"expected_a">> ELSE <<>>, "running")
  /\ UNCHANGED <<length, depth, bit, prereg, pieces>>

Punctuator(k) ==
  /\ Matches(k) /\ First[1] \notin Letters \cup Digits \cup Quotes
  /\ Text(k) \notin {<<"/">>, <<"/", "/">>, <<"/", "*">>}
  /\ match(k) /\ it("punctuator", Text(k))
  /\ Quiet /\ Idle /\ UNCHANGED mode

token ==
  /\ mode = "token"
  /\ \/ EndOfRow \/ EndOfText \/ NoMatch
     \/ \E k \in 1 .. Len(source_row) :
          \/ Word(k) \/ number(k) \/ Slash(k) \/ LineComment(k) \/ OpenComment(k)
          \/ OpenString(k) \/ Punctuator(k)

(**************************** /* comment *************************************)

\* The first */ or /* of what is left of the line, 0 if there is none.
StarSlash == LET found == {i \in 1 .. Len(source_row) - 1 :
                             <<source_row[i], source_row[i + 1]>> \in {<<"*", "/">>, <<"/", "*">>}}
             IN  IF found = {} THEN 0 ELSE CHOOSE i \in found : \A j \in found : i <= j

comment ==
  /\ mode = "comment"
  /\ \/ /\ StarSlash = 0 /\ next_line
        /\ Quiet /\ UNCHANGED <<mode, pieces, prereg>>
     \/ /\ StarSlash = 0 /\ line = Len(lines)
        /\ stop(<<"unclosed_comment">>)
        /\ UNCHANGED <<line, source_row, character, mode, pieces, prereg>>
     \/ /\ StarSlash # 0 /\ source_row[StarSlash] = "/"
        /\ character' = character + StarSlash + 1
        /\ stop(<<"nested_comment">>)
        /\ UNCHANGED <<line, source_row, mode, pieces, prereg>>
     \/ /\ StarSlash # 0 /\ source_row[StarSlash] = "*"
        /\ character' = character + StarSlash + 1
        /\ source_row' = Rest(source_row, StarSlash + 1)
        /\ mode' = "token" /\ UNCHANGED <<from, begun>> /\ Comment(character')
        /\ Quiet /\ UNCHANGED line
  /\ Idle /\ UNCHANGED <<lines, from, begun>>

(****************************** string *************************************)

\* hex(n) skips the n characters after the escape whatever they are, and
\* complains of a code that needs no escape: two digits that spell a letter.
Hex == {"4", "a"}
Printable == At(source_row, pos + 3) = "4" /\ At(source_row, pos + 4) \in Hex

\* The character after a backslash: how many characters more it takes, and
\* what is said of it.
EscapeLength(c) == CASE c = "x" -> 2 [] OTHER -> 0
EscapeWarns(c) == CASE c = "x" -> (IF json_mode THEN <<"unexpected_a">> ELSE <<>>)
                                  \o (IF Printable THEN <<"unexpected_a">> ELSE <<>>)
                    [] c = "'" -> IF json_mode THEN <<"unexpected_a">> ELSE <<>>
                    [] c \in {DoubleQuote, "\\", "/"} -> <<>>
                    [] OTHER -> IF c \in Digits THEN <<"octal_a">> ELSE <<"unexpected_a">>

Cap(column) == IF column > MaxCharacter THEN MaxCharacter ELSE column

ContinueLineStays ==            \* the line counted but not fetched
  /\ pos' = 0
  /\ \/ line < Len(lines) /\ line' = line + 1 /\ character' = 2 /\ UNCHANGED source_row
     \/ line = Len(lines) /\ character' = Cap(character + 2) /\ UNCHANGED <<line, source_row>>
  /\ Quiet

\* A backslash at the end of the line: the string goes on at the next one, if
\* there is one; what next_line returns is not looked at.
ContinueLine ==
  /\ pos' = 0
  /\ \/ line < Len(lines) /\ line' = line + 1 /\ source_row' = lines[line + 1] /\ character' = 2
     \/ line = Len(lines) /\ character' = Cap(character + 2) /\ UNCHANGED <<line, source_row>>
  /\ Quiet

string ==
  /\ mode = "string"
  /\ LET c == At(source_row, pos + 1)
         e == At(source_row, pos + 2)
     IN \/ /\ pos >= Len(source_row)
           /\ stop(<<"unclosed">>)
           /\ UNCHANGED <<line, source_row, character, pos, mode, pieces, prereg>>
        \/ /\ c = quote
           /\ character' = character + 1
           /\ source_row' = Rest(source_row, pos + 1)
           /\ UNCHANGED <<from, begun>> /\ it("string", SubSeq(source_row, 1, pos))
           /\ mode' = "token" /\ pos' = 0
           /\ Quiet /\ UNCHANGED line
        \/ /\ c = "\\" /\ e = NoCharacter
           /\ ContinueLine /\ UNCHANGED <<mode, pieces, prereg>>
        \/ /\ c = "\\" /\ e # NoCharacter
           /\ pos' = pos + 2 + EscapeLength(e)
           /\ character' = Cap(character + 2 + EscapeLength(e))
           /\ warn(EscapeWarns(e), "running")
           /\ UNCHANGED <<line, source_row, mode, pieces, prereg>>
        \/ /\ c \notin {NoCharacter, quote, "\\"}
           /\ pos' = pos + 1 /\ character' = Cap(character + 1)
           /\ Quiet /\ UNCHANGED <<line, source_row, mode, pieces, prereg>>
  /\ UNCHANGED <<lines, from, begun, quote, length, depth, bit>>

(****************************** regexp *************************************)

R(k) == At(source_row, k)

\* A repetition {low,high} that begins after k characters: its length and
\* its complaints; what follows the brace is skipped, a digit or not.
Braces(k) ==
  LET low   == Run(Rest(source_row, k + 1), Digits)
      d1    == k + 1 + (IF low = 0 THEN 1 ELSE low) + (IF low = 0 THEN Run(Rest(source_row, k + 2), Digits) ELSE 0)
      comma == R(d1 + 1) = Comma
      high  == IF comma THEN Run(Rest(source_row, d1 + 1), Digits) ELSE low
      d2    == IF comma THEN d1 + 1 + high ELSE d1
      shut  == IF R(d2 + 1) = RightBrace THEN d2 + 1 ELSE d2
  IN [length |-> IF R(shut + 1) = "?" THEN shut + 1 ELSE shut,
      said   |-> (IF low = 0 THEN <<"expected_number_a">> ELSE <<>>)
                 \o (IF shut = d2 THEN <<"expected_a_b">> ELSE <<>>)
                 \o (IF high # 0 /\ low > high THEN <<"not_greater">> ELSE <<>>)]

\* What may follow an atom that ends after k characters.
Repetition(k) ==
  CASE R(k + 1) \in {"?", "+", "*"} ->
         [length |-> IF R(k + 2) = "?" THEN k + 2 ELSE k + 1, said |-> <<>>]
    [] R(k + 1) = LeftBrace -> Braces(k)
    [] OTHER -> [length |-> k, said |-> <<>>]

\* The slash that ends it: flags, and what may not follow.
RegexpEnd ==
  /\ R(length + 1) = "/"
  /\ LET flags == IF R(length + 2) = "g" THEN 1 ELSE 0
         end   == length + 1 + flags
         said  == IF depth > 0 THEN <<"unescaped_a">> ELSE <<>>
     IN \/ /\ R(end + 1) \in Letters
           /\ stop(said \o <<"unexpected_a">>)
           /\ UNCHANGED <<source_row, character, mode, pieces, prereg>>
        \/ /\ R(end + 1) \notin Letters
           /\ character' = character + end
           /\ source_row' = Rest(source_row, end)
           /\ \/ /\ R(end + 1) \in {"/", "*"}
                 /\ stop(said \o <<"confusing_regexp">>)
                 /\ UNCHANGED <<mode, pieces, prereg>>
              \/ /\ R(end + 1) \notin {"/", "*"}
                 /\ UNCHANGED <<from, begun>> /\ it("regexp", SubSeq(source_row, 1, length))
                 /\ mode' = "token" /\ warn(said, "running")
  /\ UNCHANGED <<length, depth, bit>>

\* Every other character outside of a class: c is taken, with what belongs to it.
Spaces  == Run(Rest(source_row, length + 1), {Blank})
Special == R(length + 1) = "(" /\ R(length + 2) = "?"
TakenEscapeless(c) == CASE Special -> IF R(length + 3) \in {":", "="} THEN 3 ELSE 2
                        [] c = Blank -> 1 + Spaces
                        [] OTHER -> 1                \* a backslash does not escape
Taken(c) == CASE c = "\\" -> 2
              [] Special -> IF R(length + 3) \in {":", "="} THEN 3 ELSE 2
              [] c = Blank -> 1 + Spaces
              [] OTHER -> 1
RegexpChar ==
  LET c     == R(length + 1)
      taken == length + Taken(c)
      said  == CASE c = "\\" /\ R(length + 2) = NoCharacter -> <<"control_a">>
                 [] Special /\ taken = length + 2 -> <<"expected_a_b">>
                 [] c = ")" /\ depth = 0 -> <<"unescaped_a">>
                 [] c = Blank /\ Spaces > 0 -> <<"use_braces">>
                 [] c \in {"]", "?", LeftBrace, RightBrace, "+", "*"} -> <<"unescaped_a">>
                 [] OTHER -> <<>>
      after == IF c \in {"(", "|"} THEN [length |-> taken, said |-> <<>>] ELSE Repetition(taken)
  IN /\ c \notin {NoCharacter, "/", "["}
     /\ length' = after.length
     /\ depth' = IF c = "(" THEN depth + 1 ELSE IF c = ")" /\ depth > 0 THEN depth - 1 ELSE depth
     /\ warn(said \o after.said, "running")
     /\ UNCHANGED <<source_row, character, mode, pieces, prereg, bit>>

\* A class opens: a caret before it, and a bracket that would close it at once.
OpenClass ==
  LET c     == R(length + 2)
      caret == c = "^"
  IN /\ R(length + 1) = "["
     /\ \/ /\ caret /\ R(length + 3) = "]"
           /\ stop(<<"unescaped_a">>)
           /\ UNCHANGED <<length, bit, mode>>
        \/ /\ ~(caret /\ R(length + 3) = "]")
           /\ length' = length + (IF caret THEN 2 ELSE 1)
           /\ bit' = (c = "]")
           /\ mode' = "class"
           /\ warn(IF c = "]" THEN <<"empty_class">> ELSE <<>>, "running")
     /\ UNCHANGED <<source_row, character, depth, pieces, prereg>>

\* One character of a class. The bracket, or the end of the line, ends it.
klass ==
  LET c == R(length + 1)
      over == c \in {NoCharacter, "]"}
      taken == IF c = "\\" THEN length + 2 ELSE length + 1
      said == CASE c = "]" /\ ~bit -> <<"unescaped_a">>
                [] c \in {"[", "^", "/"} -> <<"unescaped_a">>
                [] c = "\\" /\ R(length + 2) = NoCharacter -> <<"control_a">>
                [] OTHER -> <<>>
      after == IF over THEN Repetition(taken) ELSE [length |-> taken, said |-> <<>>]
  IN /\ mode = "class"
     /\ length' = after.length
     /\ bit' = (~over \/ bit)
     /\ mode' = IF over THEN "regexp" ELSE "class"
     /\ warn(said \o after.said, "running")
     /\ UNCHANGED <<lines, line, source_row, character, from, quote, pos, depth, prereg, begun, pieces>>

Unclosed ==
  /\ R(length + 1) = NoCharacter
  /\ stop(<<"unclosed_regexp">>)
  /\ UNCHANGED <<source_row, character, mode, pieces, prereg, length, depth, bit>>

regexp ==
  /\ mode = "regexp"
  /\ RegexpEnd \/ RegexpChar \/ OpenClass \/ Unclosed
  /\ UNCHANGED <<lines, line, from, begun, quote, pos>>

(***************************************************************************)
Next == status = "running" /\ (token \/ comment \/ string \/ regexp \/ klass)
Done == status # "running" /\ UNCHANGED vars
Spec == Init /\ [][Next \/ Done]_vars
\* Once called, JSLint runs on until it returns.
LiveSpec == Spec /\ WF_vars(Next)

(******************************** properties ********************************)
\* On a line into which a string was continued the code counts one column too far:
\* next_line begins it at 1, and string adds one for the character it has not read.
Ahead(l) == IF \E i \in 1 .. Len(pieces) : pieces[i].line = l /\ pieces[i].begun < l
                                          /\ pieces[i].kind = "string"
            THEN 1 ELSE 0
Start(p, l) == IF p.begun < l THEN 1 ELSE p.from - Ahead(l)
Stop(p, l)  == IF p.line > l THEN Len(lines[l]) ELSE p.thru - 1 - Ahead(l)
Columns(p, l) == IF p.begun <= l /\ l <= p.line THEN Start(p, l) .. Stop(p, l) ELSE {}

\* A blank and then a character of no token: lex gives up the line there.
GivenUp(l) == \E c \in 1 .. Len(lines[l]) - 1 : lines[l][c] = Blank /\ lines[l][c + 1] = "\\"

\* Of a text read to its end every character, blanks apart, is in one token or comment
\* and in one only: the columns that match, string, comment and regexp count each
\* in their own way agree with the text, through lines, escapes, comments and
\* classes. The exceptions are built in: a line that is given up, and a line that
\* a string was continued into, where each column is exactly one too far (Ahead): a
\* message there names the wrong place.
PiecesTile ==
  status = "ended" =>
    /\ \A l \in 1 .. Len(lines), i \in 1 .. Len(pieces) :
         /\ \A j \in 1 .. i - 1 : Columns(pieces[i], l) \cap Columns(pieces[j], l) = {}
         /\ Columns(pieces[i], l) \subseteq 1 .. Len(lines[l])
    /\ \A l \in 1 .. Len(lines) : ~GivenUp(l) =>
         \A c \in 1 .. Len(lines[l]) :
           lines[l][c] # Blank => \E i \in 1 .. Len(pieces) : c \in Columns(pieces[i], l)
    /\ \A i \in 1 .. Len(pieces) :
         pieces[i].kind \in {"identifier", "number", "punctuator"} =>
           pieces[i].text = SubSeq(lines[pieces[i].line], Start(pieces[i], pieces[i].line),
                                   Stop(pieces[i], pieces[i].line))

\* A token that ends an operand, whatever is before it. After a brace that closes
\* lex always takes a slash for a regular expression, also where the brace ends an
\* operand, as in a = {} / 4, which is wrong: it is not among these. Nor are return and case,
\* which lex takes for the reserved words behind a dot too.
EndsOperand(p) ==
  \/ p.kind \in {"number", "string", "regexp"}
  \/ p.kind = "punctuator" /\ p.text \in {<<")">>, <<"]">>}
  \/ p.kind = "identifier" /\ p.text[1] \notin Reserved

\* After a number, a string, a regular expression, a name, a parenthesis or a bracket that closes,
\* lex does not begin a regular expression, which would hide the text up to the next
\* slash from every check, or stop for want of one; comments and lines between
\* change nothing.
NoDivisionSwallowed ==
  mode \in {"regexp", "class"} =>
    \A i \in 1 .. Len(pieces) : Precedes(i, Len(pieces) + 1) => ~EndsOperand(pieces[i])

\* The state the language is in after a character of a regular expression, and
\* after each number of characters of s.
RegexpStep(state, c) ==
  CASE state = "escape"      -> "body"
    [] state = "classEscape" -> "class"
    [] state = "class"       -> (CASE c = "\\" -> "classEscape" [] c = "]" -> "body" [] OTHER -> "class")
    [] OTHER                 -> (CASE c = "\\" -> "escape" [] c = "[" -> "class" [] c = "/" -> "over"
                                   [] OTHER -> "body")
RegexpStates(s) ==
  LET states[i \in 0 .. Len(s)] == IF i = 0 THEN "body" ELSE RegexpStep(states[i - 1], s[i])
  IN  states

\* A regular expression that raised no complaint ends where the language ends it:
\* at the first slash that is neither escaped nor in a class.
RegexpEndsAtItsSlash ==
  errors = <<>> =>
    \A i \in 1 .. Len(pieces) : pieces[i].kind = "regexp" =>
      LET states == RegexpStates(pieces[i].text)
      IN  /\ states[Len(pieces[i].text)] = "body"
          /\ \A k \in DOMAIN states : states[k] # "over"

\* The string on the last line whose last character is a backslash.
ContinuedAtTheEnd == mode = "string" /\ line = Len(lines) /\ At(lines[line], Len(lines[line])) = "\\"

\* lex comes to the end of every text or stops, however comments, strings, classes
\* and repetitions are left open in it; but see EndsAlways.
EndsUnlessContinued == <>(status # "running" \/ ContinuedAtTheEnd)

\* "token -- this is called by advance to get the next token": it always returns.
EndsAlways == <>(status # "running")
=============================================================================
