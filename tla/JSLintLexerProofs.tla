------------------------- MODULE JSLintLexerProofs -------------------------
(***************************************************************************)
(* Theorems about JSLintLexer, for any texts, of any number of lines and   *)
(* of any length, that the bound of the columns is beyond.                 *)
(***************************************************************************)
EXTENDS JSLintLexer, JSLintErrorsProofs, WellFoundedInduction

(*************************** lines and their rests **************************)

\* Numbers of a set have a least one.
LEMMA Least ==
  ASSUME NEW B \in SUBSET Nat, B # {}
  PROVE  \E m \in B : \A j \in B : m <= j
<1> DEFINE Less == OpToRel(<, Nat)
<1>1. IsWellFoundedOn(Less, Nat)
  BY NatLessThanWellFounded
<1>2. \A x, y \in Nat : y < x => <<y, x>> \in Less
  BY DEF OpToRel
<1> HIDE DEF Less
<1>3. PICK m \in B : \A y \in B : ~(<<y, m>> \in Less)
  BY <1>1, WFMin
<1>4. \A j \in B : j \in Nat /\ m \in Nat /\ ~(j < m)
  BY <1>2, <1>3
<1>5. \A j \in B : m <= j
  BY <1>4
<1> QED BY <1>5

\* What is left of a line after k characters.
LEMMA RestProperties ==
  ASSUME NEW s \in Seq(Characters), NEW k \in 0 .. Len(s)
  PROVE  /\ Rest(s, k) \in Seq(Characters) /\ Len(Rest(s, k)) = Len(s) - k
         /\ \A i \in 1 .. Len(s) - k : Rest(s, k)[i] = s[k + i]
<1>1. Len(s) \in Nat /\ \A i \in k + 1 .. Len(s) : s[i] \in Characters
  BY ElementOfSeq, LenProperties
<1>2. /\ SubSeq(s, k + 1, Len(s)) \in Seq(Characters)
      /\ Len(SubSeq(s, k + 1, Len(s))) = IF k + 1 <= Len(s) THEN Len(s) - (k + 1) + 1 ELSE 0
      /\ \A i \in 1 .. Len(s) - (k + 1) + 1 : SubSeq(s, k + 1, Len(s))[i] = s[k + 1 + i - 1]
  BY <1>1, SubSeqProperties
<1> QED BY <1>1, <1>2 DEF Rest

LEMMA RestOfRest ==
  ASSUME NEW s \in Seq(Characters), NEW k \in 0 .. Len(s), NEW j \in 0 .. Len(s) - k
  PROVE  Rest(Rest(s, k), j) = Rest(s, k + j)
<1>1. Rest(s, k) \in Seq(Characters) /\ Len(Rest(s, k)) = Len(s) - k
  BY RestProperties
<1>2. Rest(Rest(s, k), j) \in Seq(Characters) /\ Len(Rest(Rest(s, k), j)) = Len(s) - k - j
  BY <1>1, RestProperties
<1>n. Len(s) \in Nat /\ k + j \in 0 .. Len(s)
  BY LenProperties
<1>3. /\ Rest(s, k + j) \in Seq(Characters) /\ Len(Rest(s, k + j)) = Len(s) - (k + j)
      /\ \A i \in 1 .. Len(s) - (k + j) : Rest(s, k + j)[i] = s[(k + j) + i]
  BY <1>n, RestProperties
<1>4. ASSUME NEW i \in 1 .. Len(s) - k - j PROVE Rest(Rest(s, k), j)[i] = Rest(s, k + j)[i]
  <2>1. i \in 1 .. Len(Rest(s, k)) - j /\ j + i \in 1 .. Len(s) - k /\ i \in 1 .. Len(s) - (k + j)
    BY <1>1, <1>n
  <2>2. Rest(Rest(s, k), j)[i] = Rest(s, k)[j + i]
    BY <1>1, <2>1, RestProperties
  <2>3. Rest(s, k)[j + i] = s[k + (j + i)]
    BY <2>1, RestProperties
  <2>4. k + (j + i) = (k + j) + i
    BY <1>n
  <2> QED BY <1>3, <2>1, <2>2, <2>3, <2>4
<1>5. Len(s) - k - j = Len(s) - (k + j)
  BY <1>n
<1> QED BY <1>2, <1>3, <1>4, <1>5, SeqEqual

LEMMA RestWhole ==
  ASSUME NEW s \in Seq(Characters)
  PROVE  Rest(s, 0) = s
<1>1. Rest(s, 0) \in Seq(Characters) /\ Len(Rest(s, 0)) = Len(s) /\ \A i \in 1 .. Len(s) : Rest(s, 0)[i] = s[i]
  BY RestProperties
<1> QED BY <1>1, SeqEqual

\* The first characters of a rest are a part of the line.
LEMMA TextOfRest ==
  ASSUME NEW s \in Seq(Characters), NEW k \in 0 .. Len(s), NEW j \in 0 .. Len(s) - k
  PROVE  /\ SubSeq(Rest(s, k), 1, j) = SubSeq(s, k + 1, k + j)
         /\ SubSeq(Rest(s, k), 1, j) \in Seq(Characters) /\ Len(SubSeq(Rest(s, k), 1, j)) = j
<1> DEFINE r == Rest(s, k)
<1>1. r \in Seq(Characters) /\ Len(r) = Len(s) - k /\ \A i \in 1 .. Len(s) - k : r[i] = s[k + i]
  BY RestProperties
<1> HIDE DEF r
<1>2. /\ SubSeq(r, 1, j) \in Seq(Characters) /\ Len(SubSeq(r, 1, j)) = j
      /\ \A i \in 1 .. j : SubSeq(r, 1, j)[i] = r[i]
  <2>1. Len(s) \in Nat /\ \A i \in 1 .. j : r[i] \in Characters
    BY <1>1, ElementOfSeq, LenProperties
  <2>2. /\ SubSeq(r, 1, j) \in Seq(Characters) /\ Len(SubSeq(r, 1, j)) = IF 1 <= j THEN j - 1 + 1 ELSE 0
        /\ \A i \in 1 .. j - 1 + 1 : SubSeq(r, 1, j)[i] = r[1 + i - 1]
    BY <2>1, SubSeqProperties
  <2> QED BY <2>1, <2>2
<1>3. /\ SubSeq(s, k + 1, k + j) \in Seq(Characters) /\ Len(SubSeq(s, k + 1, k + j)) = j
      /\ \A i \in 1 .. j : SubSeq(s, k + 1, k + j)[i] = s[k + i]
  <2>1. Len(s) \in Nat /\ \A i \in k + 1 .. k + j : s[i] \in Characters
    BY ElementOfSeq, LenProperties
  <2>2. /\ SubSeq(s, k + 1, k + j) \in Seq(Characters)
        /\ Len(SubSeq(s, k + 1, k + j)) = IF k + 1 <= k + j THEN (k + j) - (k + 1) + 1 ELSE 0
        /\ \A i \in 1 .. (k + j) - (k + 1) + 1 : SubSeq(s, k + 1, k + j)[i] = s[(k + 1) + i - 1]
    BY <2>1, SubSeqProperties
  <2> QED BY <2>1, <2>2
<1>4. SubSeq(r, 1, j) = SubSeq(s, k + 1, k + j)
  <2>1. \A i \in 1 .. j : SubSeq(r, 1, j)[i] = SubSeq(s, k + 1, k + j)[i]
    <3> TAKE i \in 1 .. j
    <3>1. i \in 1 .. Len(s) - k
      OBVIOUS
    <3> QED BY <1>1, <1>2, <1>3, <3>1
  <2> QED BY <1>2, <1>3, <2>1, SeqEqual
<1> QED BY <1>2, <1>4 DEF r

LEMMA AtProperties ==
  ASSUME NEW s \in Seq(Characters), NEW k \in Int
  PROVE  /\ k \in 1 .. Len(s) => At(s, k) = s[k] /\ At(s, k) \in Characters /\ At(s, k) # NoCharacter
         /\ k \notin 1 .. Len(s) => At(s, k) = NoCharacter
<1>1. k \in 1 .. Len(s) => s[k] \in Characters
  BY ElementOfSeq
<1>2. k \in 1 .. Len(s) => At(s, k) = s[k]
  BY DEF At
<1>3. k \notin 1 .. Len(s) => At(s, k) = NoCharacter
  BY DEF At
<1>4. NoCharacter \notin Characters
  BY DEF Characters
<1> QED BY <1>1, <1>2, <1>3, <1>4

\* Run gives the characters of S that the line begins with.
LEMMA RunProperties ==
  ASSUME NEW s \in Seq(Characters), NEW S, NoCharacter \notin S
  PROVE  /\ Run(s, S) \in 0 .. Len(s)
         /\ \A i \in 1 .. Run(s, S) : s[i] \in S
         /\ At(s, Run(s, S) + 1) \notin S
<1> DEFINE B == {k \in Nat : At(s, k + 1) \notin S}
<1>1. Len(s) \in Nat
  BY LenProperties
<1>2. At(s, Len(s) + 1) = NoCharacter
  <2>1. Len(s) + 1 \in Int /\ Len(s) + 1 \notin 1 .. Len(s)
    BY <1>1
  <2> QED BY <2>1, AtProperties
<1>3. Len(s) \in B /\ B \in SUBSET Nat
  BY <1>1, <1>2
<1>4. PICK k \in B : \A j \in B : k <= j
  BY <1>3, Least
<1>5. k \in 0 .. Len(s) /\ At(s, k + 1) \notin S
  <2>1. k \in Nat /\ At(s, k + 1) \notin S
    OBVIOUS
  <2>2. k <= Len(s)
    BY <1>3, <1>4
  <2> QED BY <1>1, <2>1, <2>2
<1>6. \A j \in Nat : j < k => At(s, j + 1) \in S
  <2>1. \A j \in Nat : j < k => j \notin B
    BY <1>4, <1>5
  <2> QED BY <2>1
<1> HIDE DEF B
<1>7. ASSUME NEW i \in 1 .. k PROVE s[i] \in S
  <2>1. i - 1 \in Nat /\ i - 1 < k /\ (i - 1) + 1 = i /\ i \in 1 .. Len(s)
    BY <1>1, <1>5
  <2>2. At(s, i) \in S
    BY <1>6, <2>1
  <2>3. At(s, i) = s[i]
    BY <2>1, AtProperties
  <2> QED BY <2>2, <2>3
<1>8. \E n \in 0 .. Len(s) : (\A i \in 1 .. n : s[i] \in S) /\ At(s, n + 1) \notin S
  BY <1>5, <1>7
<1> QED BY <1>8 DEF Run

\* The character that stands for none is none of those that matter.
LEMMA OtherCharacters ==
  /\ NoCharacter \notin Letters \cup Digits \cup Quotes \cup {Blank, Comma, LeftBrace, RightBrace}
  /\ NoCharacter \notin {"=", "+", ".", "/", "*", "(", ")", "[", "]", "?", "^", ":", "|", "\\", "g"}
  /\ {Blank, Comma, Semicolon, LeftBrace, RightBrace, DoubleQuote} \cap
       {"a", "g", "x", "return", "case", "4", "=", "+", ".", "/", "*", "(", ")", "[", "]", "?", "^", ":", "|", "\\", "!",
        "&", "'"} = {}
  /\ \A c : NoCharacter \notin Pairs(c)
<1> DEFINE Plain == {"a", "g", "x", "return", "case", "4", "=", "+", ".", "/", "*", "(", ")", "[", "]", "?", "^", ":", "|",
                    "\\", "!", "&", "'", "(none)"}
<1>1. Blank \notin Plain
  BY Zenon DEF Blank
<1>2. Comma \notin Plain
  BY Zenon DEF Comma
<1>3. Semicolon \notin Plain
  BY Zenon DEF Semicolon
<1>4. LeftBrace \notin Plain
  BY Zenon DEF LeftBrace
<1>5. RightBrace \notin Plain
  BY Zenon DEF RightBrace
<1>6. DoubleQuote \notin Plain
  BY Zenon DEF DoubleQuote
<1>7. \A c : NoCharacter \notin Pairs(c)
  BY DEF NoCharacter, Pairs
<1> QED BY <1>1, <1>2, <1>3, <1>4, <1>5, <1>6, <1>7 DEF NoCharacter, Letters, Reserved, Digits, Quotes

\* The blanks before a token, and what follows them.
LEMMA FirstProperties ==
  ASSUME source_row \in Seq(Characters)
  PROVE  /\ Blanks \in 0 .. Len(source_row) /\ \A i \in 1 .. Blanks : source_row[i] = Blank
         /\ First \in Seq(Characters) /\ Len(First) = Len(source_row) - Blanks
         /\ \A i \in 1 .. Len(First) : First[i] = source_row[Blanks + i]
         /\ First # <<>> => First[1] # Blank
<1>1. /\ Blanks \in 0 .. Len(source_row) /\ \A i \in 1 .. Blanks : source_row[i] \in {Blank}
      /\ At(source_row, Blanks + 1) \notin {Blank}
  BY OtherCharacters, RunProperties DEF Blanks
<1>2. /\ First \in Seq(Characters) /\ Len(First) = Len(source_row) - Blanks
      /\ \A i \in 1 .. Len(source_row) - Blanks : First[i] = source_row[Blanks + i]
  BY <1>1, RestProperties DEF First
<1>3. ASSUME First # <<>> PROVE First[1] # Blank
  <2>1. Len(First) \in Nat \ {0}
    BY <1>2, <1>3, EmptySeq
  <2>2. 1 \in 1 .. Len(source_row) - Blanks /\ Blanks + 1 \in 1 .. Len(source_row)
    BY <1>1, <1>2, <2>1
  <2>3. At(source_row, Blanks + 1) = source_row[Blanks + 1]
    BY <2>2, AtProperties
  <2>4. First[1] = source_row[Blanks + 1]
    BY <1>2, <2>2
  <2> QED BY <1>1, <2>3, <2>4
<1> QED BY <1>1, <1>2, <1>3

\* A token has a length within its line; only a backslash begins none.
LEMMA SnippetProperties ==
  ASSUME NEW s \in Seq(Characters), s # <<>>
  PROVE  Snippet(s) \in 0 .. Len(s) /\ (Snippet(s) = 0 => s[1] = "\\")
<1>1. Len(s) \in Nat \ {0} /\ 1 \in 1 .. Len(s)
  BY EmptySeq, LenProperties
<1>2. /\ Run(s, Letters \cup Digits) \in 0 .. Len(s) /\ At(s, Run(s, Letters \cup Digits) + 1) \notin Letters \cup Digits
      /\ Run(s, Digits) \in 0 .. Len(s) /\ At(s, Run(s, Digits) + 1) \notin Digits
      /\ Run(s, {"="}) \in 0 .. Len(s) /\ At(s, Run(s, {"="}) + 1) \notin {"="}
      /\ Run(s, {"+"}) \in 0 .. Len(s) /\ At(s, Run(s, {"+"}) + 1) \notin {"+"}
  BY OtherCharacters, RunProperties
<1>3. At(s, 1) = s[1]
  BY <1>1, AtProperties
<1>4. ASSUME NEW c, At(s, 2) = c, c # NoCharacter PROVE Len(s) >= 2
  BY <1>1, <1>4, AtProperties
<1>5. s[1] \in Letters => Run(s, Letters \cup Digits) # 0
  BY <1>2, <1>3
<1>6. s[1] \in Digits => Run(s, Digits) # 0
  BY <1>2, <1>3
<1>7. s[1] = "=" => Run(s, {"="}) # 0
  BY <1>2, <1>3
<1>8. s[1] = "+" => Run(s, {"+"}) # 0
  BY <1>2, <1>3
<1>9. Run(s, Digits) <= Number(s) /\ Number(s) \in 0 .. Len(s)
  <2> DEFINE d == Run(s, Digits)
  <2>1. CASE At(s, d + 1) = "."
    <3>1. d \in 0 .. Len(s) /\ d + 1 \in Int
      BY <1>2
    <3>2. d + 1 \in 1 .. Len(s)
      BY <2>1, <3>1, AtProperties, OtherCharacters
    <3>3. Rest(s, d + 1) \in Seq(Characters) /\ Len(Rest(s, d + 1)) = Len(s) - (d + 1)
      BY <3>2, RestProperties
    <3>4. Run(Rest(s, d + 1), Digits) \in 0 .. Len(s) - (d + 1)
      BY <3>3, OtherCharacters, RunProperties
    <3>5. Number(s) = d + 1 + Run(Rest(s, d + 1), Digits)
      BY <2>1 DEF Number
    <3> HIDE DEF d
    <3> QED BY <1>1, <3>1, <3>2, <3>4, <3>5 DEF d
  <2>2. CASE At(s, d + 1) # "."
    BY <1>1, <1>2, <2>2 DEF Number
  <2> QED BY <2>1, <2>2
<1>x. Letters \cap Digits = {} /\ "=" \notin Letters \cup Digits /\ "+" \notin Letters \cup Digits /\ "\\" \notin Letters \cup Digits
  BY DEF Letters, Reserved, Digits
<1>10. CASE s[1] \in Letters
  BY <1>x, <1>2, <1>5, <1>10 DEF Snippet
<1>11. CASE s[1] \notin Letters /\ s[1] \in Digits
  BY <1>x, <1>1, <1>2, <1>6, <1>9, <1>11 DEF Snippet
<1>12. CASE s[1] \notin Letters \cup Digits /\ s[1] = "="
  BY <1>1, <1>2, <1>7, <1>12 DEF Snippet
<1>13. CASE s[1] \notin Letters \cup Digits /\ s[1] = "+"
  <2>1. At(s, 2) = "=" => Len(s) >= 2
    BY <1>4, OtherCharacters
  <2> QED BY <1>1, <1>2, <1>8, <1>13, <2>1 DEF Snippet
<1>14. CASE s[1] \notin Letters \cup Digits /\ s[1] = "\\"
  BY <1>1, <1>14 DEF Snippet
<1>15. CASE s[1] \notin Letters \cup Digits \cup {"=", "+", "\\"}
  <2>1. At(s, 2) \in Pairs(s[1]) => Len(s) >= 2
    BY <1>4, OtherCharacters
  <2>2. Snippet(s) = IF At(s, 2) \in Pairs(s[1]) THEN 2 ELSE 1
    BY <1>15 DEF Snippet
  <2> QED BY <1>1, <2>1, <2>2
<1> QED BY <1>10, <1>11, <1>12, <1>13, <1>14, <1>15

\* What match takes of the line.
LEMMA MatchProperties ==
  ASSUME source_row \in Seq(Characters), NEW k \in Nat, Matches(k)
  PROVE  /\ k >= 1 /\ Blanks + k \in 1 .. Len(source_row) /\ Len(First) - k = Len(source_row) - (Blanks + k)
         /\ Rest(First, k) = Rest(source_row, Blanks + k) /\ Rest(First, k) \in Seq(Characters)
         /\ Text(k) = SubSeq(source_row, Blanks + 1, Blanks + k) /\ Text(k) \in Seq(Characters) /\ Len(Text(k)) = k
<1>1. /\ Blanks \in 0 .. Len(source_row) /\ First \in Seq(Characters) /\ Len(First) = Len(source_row) - Blanks
  BY FirstProperties
<1>2. k >= 1 /\ k <= Len(First)
  BY <1>1, SnippetProperties DEF Matches
<1>3. k \in 0 .. Len(source_row) - Blanks
  BY <1>1, <1>2
<1>4. Rest(First, k) = Rest(source_row, Blanks + k) /\ Rest(First, k) \in Seq(Characters)
  <2>1. Rest(First, k) = Rest(source_row, Blanks + k)
    BY <1>1, <1>3, RestOfRest DEF First
  <2>2. Rest(First, k) \in Seq(Characters)
    BY <1>1, <1>3, RestProperties
  <2> QED BY <2>1, <2>2
<1>5. Text(k) = SubSeq(source_row, Blanks + 1, Blanks + k) /\ Text(k) \in Seq(Characters) /\ Len(Text(k)) = k
  BY <1>1, <1>3, TextOfRest DEF First, Text
<1> QED BY <1>1, <1>2, <1>4, <1>5
(***************************** the invariant ********************************)

\* The messages of lex.
Keys == {"confusing_regexp", "control_a", "empty_class", "expected_a", "expected_a_b", "expected_number_a",
         "expected_space_a_b", "nested_comment", "not_greater", "octal_a", "slash_equal", "trailing_decimal_a",
         "unclosed", "unclosed_comment", "unclosed_regexp", "unescaped_a", "unexpected_a", "use_braces"}

Kinds == {"identifier", "number", "punctuator", "string", "regexp", "comment"}
Piece == [kind : Kinds, text : Seq(Characters), line : Nat, begun : Nat, from : Nat, thru : Nat]

TypeOK ==
  /\ ReportTypeOK(Keys)
  /\ lines \in Sources /\ line \in 1 .. Len(lines) /\ begun \in 1 .. line
  /\ source_row \in Seq(Characters)
  /\ character \in Nat /\ from \in Nat /\ pos \in Nat /\ length \in Nat /\ depth \in Nat
  /\ mode \in {"token", "string", "comment", "regexp", "class"}
  /\ quote \in Quotes \cup {NoCharacter} /\ (mode = "string" => quote \in Quotes)
  /\ bit \in BOOLEAN /\ prereg \in BOOLEAN
  /\ pieces \in Seq(Piece)

\* Of the first n columns of a line, blanks apart, each is in a piece.
Covered(l, n) ==
  \A c \in 1 .. n : lines[l][c] # Blank => \E i \in 1 .. Len(pieces) : c \in Columns(pieces[i], l)
Dealt(l) == GivenUp(l) \/ Covered(l, Len(lines[l]))

\* The text up to the column counted as f of line b has been made into pieces,
\* and nothing beyond it.
UpTo(b, f) ==
  /\ f - Ahead(b) \in 1 .. Len(lines[b]) + 1
  /\ \A i \in 1 .. Len(pieces) : pieces[i].line < b \/ (pieces[i].line = b /\ pieces[i].thru <= f)
  /\ \A l \in 1 .. b - 1 : Dealt(l)
  /\ Covered(b, f - Ahead(b) - 1)

\* A piece lies in the text, begins where the one before it has ended, or
\* later, and has the text of its place.
Verbatim == {"identifier", "number", "punctuator"}
Placed(i) ==
  LET p == pieces[i]
  IN  /\ 1 <= p.begun /\ p.begun <= p.line /\ p.line <= Len(lines)
      /\ 1 <= p.from - Ahead(p.begun) /\ p.thru - 1 - Ahead(p.line) <= Len(lines[p.line])
      /\ \A j \in 1 .. i - 1 : \/ pieces[j].line < p.begun
                               \/ pieces[j].line = p.begun /\ pieces[j].thru <= p.from
      /\ p.kind \in Verbatim =>
           p.text = SubSeq(lines[p.line], Start(p, p.line), Stop(p, p.line))

AllPlaced == \A i \in 1 .. Len(pieces) : Placed(i)

\* source_row is what the line has from the column counted as `character'.
AtRow ==
  /\ character - Ahead(line) \in 1 .. Len(lines[line]) + 1
  /\ source_row = Rest(lines[line], character - Ahead(line) - 1)

\* In a string it is what the line had when the string, or the line, began.
StringRow ==
  IF line = begun
  THEN source_row = Rest(lines[line], from - Ahead(line)) /\ (pos <= Len(source_row) => character = from + 1 + pos)
  ELSE source_row = lines[line] /\ (pos <= Len(source_row) => character = 2 + pos)

\* The index to which string goes on from p; a backslash at the end of the last
\* line sends it back to the beginning, from where it comes by the same way.
Onward(p) ==
  LET c == At(source_row, p + 1)
      e == At(source_row, p + 2)
  IN  IF c # "\\" THEN p + 1 ELSE IF e = NoCharacter THEN 0 ELSE p + 2 + EscapeLength(e)
Passed(p) == p < Len(source_row) /\ At(source_row, p + 1) # quote
InString ==
  \E V \in SUBSET Nat :
    /\ 0 \in V /\ pos \in V
    /\ \A p \in V \ {pos} : Passed(p) /\ Onward(p) \in V
    /\ StringRow \/ (Passed(pos) /\ Onward(pos) \in V)

Position ==
  /\ mode = "token" /\ source_row = <<>> =>
       (\A l \in 1 .. line : Dealt(l)) /\ (\A i \in 1 .. Len(pieces) : pieces[i].line <= line)
  /\ mode = "token" /\ source_row # <<>> => UpTo(line, character) /\ AtRow
  /\ mode # "token" => UpTo(begun, from) /\ from - Ahead(begun) <= Len(lines[begun])
  /\ mode \in {"comment", "regexp", "class"} => AtRow /\ (line = begun => from <= character)
  /\ mode \in {"regexp", "class"} => begun = line
  /\ mode = "string" => InString

Tiling ==
  /\ AllPlaced
  /\ status # "stopped" => Position
  /\ status = "ended" => mode = "token" /\ source_row = <<>> /\ line = Len(lines)

\* prereg tells of the last token what PreReg says of it.
LastToken ==
  /\ \A i \in 1 .. Len(pieces) : Precedes(i, Len(pieces) + 1) => prereg = PreReg(pieces[i].kind, pieces[i].text)
  /\ mode \in {"regexp", "class"} => prereg

\* What has been read of a regular expression without a complaint leaves the
\* language inside it.
AsRead ==
  errors = <<>> /\ length <= Len(source_row) =>
    /\ mode = "regexp" => RegexpStates(source_row)[length] = "body"
    /\ mode = "class" => RegexpStates(source_row)[length] = "class"
    /\ mode \in {"regexp", "class"} => \A k \in 0 .. length : RegexpStates(source_row)[k] # "over"

(******************************* types **************************************)

\* One message, or none, is a sequence of messages, and so is one after another.
LEMMA Messages ==
  /\ <<>> \in Seq(Keys)
  /\ \A m \in Keys : <<m>> \in Seq(Keys)
  /\ \A ms, ns \in Seq(Keys) : ms \o ns \in Seq(Keys)
<1>1. <<>> \in Seq(Keys)
  BY EmptySeq
<1>2. \A m \in Keys : <<m>> \in Seq(Keys)
  <2> TAKE m \in Keys
  <2>1. Append(<<>>, m) \in Seq(Keys)
    BY <1>1, AppendProperties
  <2> QED BY <2>1
<1>3. \A ms, ns \in Seq(Keys) : ms \o ns \in Seq(Keys)
  BY ConcatProperties
<1> QED BY <1>1, <1>2, <1>3

LEMMA IfMessage ==
  ASSUME NEW said, NEW m \in Keys
  PROVE  (IF said THEN <<m>> ELSE <<>>) \in Seq(Keys)
BY Messages

\* What braces and other repetitions complain of, and how far they go.
LEMMA RepetitionTypes ==
  ASSUME source_row \in Seq(Characters), NEW k \in Nat
  PROVE  Repetition(k).length \in Nat /\ Repetition(k).length >= k /\ Repetition(k).said \in Seq(Keys)
<1>1. ASSUME NEW j \in Nat PROVE Run(Rest(source_row, j), Digits) \in Nat
  <2>1. CASE j <= Len(source_row)
    <3>1. Rest(source_row, j) \in Seq(Characters)
      BY <2>1, LenProperties, RestProperties
    <3> QED BY <3>1, OtherCharacters, RunProperties, LenProperties
  <2>2. CASE j > Len(source_row)
    <3>1. Rest(source_row, j) = <<>>
      BY <2>2, LenProperties, SubSeqEmpty DEF Rest
    <3>2. <<>> \in Seq(Characters) /\ Len(<<>>) = 0
      BY EmptySeq
    <3>3. Rest(source_row, j) \in Seq(Characters) /\ Len(Rest(source_row, j)) = 0
      BY <3>1, <3>2
    <3>4. Run(Rest(source_row, j), Digits) \in 0 .. Len(Rest(source_row, j))
      BY <3>3, OtherCharacters, RunProperties
    <3> QED BY <3>3, <3>4
  <2> QED BY <2>1, <2>2, LenProperties
<1>2. Braces(k).length \in Nat /\ Braces(k).length >= k /\ Braces(k).said \in Seq(Keys)
  <2> DEFINE low == Run(Rest(source_row, k + 1), Digits)
             d1 == k + 1 + (IF low = 0 THEN 1 ELSE low)
                         + (IF low = 0 THEN Run(Rest(source_row, k + 2), Digits) ELSE 0)
             comma == R(d1 + 1) = Comma
             high == IF comma THEN Run(Rest(source_row, d1 + 1), Digits) ELSE low
             d2 == IF comma THEN d1 + 1 + high ELSE d1
             shut == IF R(d2 + 1) = RightBrace THEN d2 + 1 ELSE d2
             m1 == IF low = 0 THEN <<"expected_number_a">> ELSE <<>>
             m2 == IF shut = d2 THEN <<"expected_a_b">> ELSE <<>>
             m3 == IF high # 0 /\ low > high THEN <<"not_greater">> ELSE <<>>
  <2>1. low \in Nat /\ Run(Rest(source_row, k + 2), Digits) \in Nat
    <3>1. k + 1 \in Nat /\ k + 2 \in Nat
      OBVIOUS
    <3>2. Run(Rest(source_row, k + 1), Digits) \in Nat /\ Run(Rest(source_row, k + 2), Digits) \in Nat
      BY <1>1, <3>1
    <3> QED BY <3>2
  <2>2. d1 \in Nat /\ d1 >= k
    BY <2>1
  <2>3. Run(Rest(source_row, d1 + 1), Digits) \in Nat
    <3>1. d1 + 1 \in Nat
      BY <2>2
    <3> HIDE DEF d1
    <3> QED BY <1>1, <3>1
  <2>4. d2 \in Nat /\ d2 >= k
    <3>1. high \in Nat
      BY <2>1, <2>3
    <3> HIDE DEF d1, high, comma
    <3> QED BY <2>2, <3>1
  <2>5. shut \in Nat /\ shut >= k
    BY <2>4
  <2>6. m1 \in Seq(Keys) /\ m2 \in Seq(Keys) /\ m3 \in Seq(Keys)
    <3>1. /\ "expected_number_a" \in Keys /\ "expected_a_b" \in Keys /\ "not_greater" \in Keys
      BY DEF Keys
    <3> HIDE DEF low, d1, comma, high, d2, shut
    <3> QED BY <3>1, IfMessage
  <2>7. m1 \o m2 \o m3 \in Seq(Keys)
    <3> HIDE DEF m1, m2, m3
    <3> QED BY <2>6, Messages
  <2>8. Braces(k) = [length |-> IF R(shut + 1) = "?" THEN shut + 1 ELSE shut, said |-> m1 \o m2 \o m3]
    BY Zenon DEF Braces
  <2> HIDE DEF low, d1, comma, high, d2, shut, m1, m2, m3
  <2> QED BY <2>5, <2>7, <2>8
<1>3. CASE R(k + 1) \in {"?", "+", "*"}
  <2>1. Repetition(k) = [length |-> IF R(k + 2) = "?" THEN k + 2 ELSE k + 1, said |-> <<>>]
    BY <1>3, OtherCharacters DEF Repetition
  <2> QED BY <2>1, Messages
<1>4. CASE R(k + 1) \notin {"?", "+", "*"} /\ R(k + 1) = LeftBrace
  <2>1. Repetition(k) = Braces(k)
    BY <1>4 DEF Repetition
  <2> QED BY <2>1, <1>2
<1>5. CASE R(k + 1) \notin {"?", "+", "*", LeftBrace}
  <2>1. Repetition(k) = [length |-> k, said |-> <<>>]
    BY <1>5 DEF Repetition
  <2> QED BY <2>1, Messages
<1> QED BY <1>3, <1>4, <1>5

\* A piece that is one: what it and Comment append.
LEMMA PieceType ==
  ASSUME TypeOK, NEW kind \in Kinds, NEW text \in Seq(Characters), NEW b \in Nat, NEW f \in Nat, NEW n \in Nat,
         pieces' = Append(pieces, [kind |-> kind, text |-> text, line |-> line, begun |-> b, from |-> f, thru |-> n])
  PROVE  pieces' \in Seq(Piece)
<1>1. [kind |-> kind, text |-> text, line |-> line, begun |-> b, from |-> f, thru |-> n] \in Piece
  BY LexerAssumption, LenProperties DEF TypeOK, Piece
<1> QED BY <1>1, AppendProperties DEF TypeOK

\* The lines of a text, and the next line.
LEMMA LinesType ==
  ASSUME TypeOK
  PROVE  /\ lines \in Seq(Seq(Characters)) /\ Len(lines) \in Nat \ {0} /\ line \in Nat
         /\ \A l \in 1 .. Len(lines) : /\ lines[l] \in Seq(Characters) /\ Len(lines[l]) \in Nat
                                       /\ Len(lines[l]) + 3 <= MaxCharacter
<1>1. lines \in Seq(Seq(Characters)) /\ lines # <<>>
  BY LexerAssumption DEF TypeOK, LexerAssumption
<1>2. Len(lines) \in Nat \ {0}
  BY <1>1, EmptySeq
<1>3. \A l \in 1 .. Len(lines) : lines[l] \in Seq(Characters)
  BY <1>1, ElementOfSeq
<1>4. \A l \in 1 .. Len(lines) : Len(lines[l]) \in Nat
  BY <1>3, LenProperties
<1>5. \A l \in 1 .. Len(lines) : Len(lines[l]) + 3 <= MaxCharacter
  BY LexerAssumption DEF TypeOK, LexerAssumption
<1> QED BY <1>1, <1>2, <1>3, <1>4, <1>5 DEF TypeOK

\* How many blanks follow one in a regular expression, and how far a character
\* and what belongs to it go.
LEMMA TakenType ==
  ASSUME TypeOK
  PROVE  Spaces \in Nat /\ Taken(R(length + 1)) \in Nat \ {0} /\ length + Taken(R(length + 1)) \in Nat
<1>1. Spaces \in Nat
  <2>1. CASE length + 1 <= Len(source_row)
    <3>1. Rest(source_row, length + 1) \in Seq(Characters)
      BY <2>1, LenProperties, RestProperties DEF TypeOK
    <3> QED BY <3>1, OtherCharacters, RunProperties, LenProperties DEF Spaces
  <2>2. CASE length + 1 > Len(source_row)
    <3>1. Rest(source_row, length + 1) = <<>>
      BY <2>2, LenProperties, SubSeqEmpty DEF Rest, TypeOK
    <3>2. <<>> \in Seq(Characters) /\ Len(<<>>) = 0
      BY EmptySeq
    <3>3. Rest(source_row, length + 1) \in Seq(Characters) /\ Len(Rest(source_row, length + 1)) = 0
      BY <3>1, <3>2
    <3>4. Run(Rest(source_row, length + 1), {Blank}) \in 0 .. Len(Rest(source_row, length + 1))
      BY <3>3, OtherCharacters, RunProperties
    <3> QED BY <3>3, <3>4 DEF Spaces
  <2> QED BY <2>1, <2>2, LenProperties DEF TypeOK
<1> DEFINE c == R(length + 1)
<1>2. Taken(c) \in Nat \ {0}
  <2>0. c = "\\" => ~Special /\ c # Blank
    BY OtherCharacters DEF Special
  <2>1. CASE c = "\\"
    BY <2>0, <2>1 DEF Taken
  <2>2. CASE c # "\\" /\ Special
    <3>1. c # Blank
      BY <2>2, OtherCharacters DEF Special
    <3> QED BY <2>2, <3>1 DEF Taken
  <2>3. CASE c # "\\" /\ ~Special /\ c = Blank
    BY <1>1, <2>3 DEF Taken
  <2>4. CASE c # "\\" /\ ~Special /\ c # Blank
    BY <2>4 DEF Taken
  <2> QED BY <2>1, <2>2, <2>3, <2>4
<1> QED BY <1>1, <1>2 DEF TypeOK

\* What an action says: nothing, or messages of lex, by warn or by stop.
Says == \/ UNCHANGED report
        \/ \E ms \in Seq(Keys) : stop(ms) \/ \E then \in {"running", "ended"} : warn(ms, then)

LEMMA EscapeMessages ==
  ASSUME NEW c
  PROVE  EscapeWarns(c) \in Seq(Keys)
<1>1. "unexpected_a" \in Keys /\ "octal_a" \in Keys
  BY DEF Keys
<1>2. /\ \A said : (IF said THEN <<"unexpected_a">> ELSE <<>>) \in Seq(Keys)
      /\ <<>> \in Seq(Keys) /\ <<"unexpected_a">> \in Seq(Keys) /\ <<"octal_a">> \in Seq(Keys)
  BY <1>1, IfMessage, Messages
<1>3. CASE c = "x"
  <2>1. EscapeWarns(c) = (IF json_mode THEN <<"unexpected_a">> ELSE <<>>) \o (IF Printable THEN <<"unexpected_a">> ELSE <<>>)
    BY <1>3, OtherCharacters DEF EscapeWarns
  <2> DEFINE m1 == IF json_mode THEN <<"unexpected_a">> ELSE <<>>
             m2 == IF Printable THEN <<"unexpected_a">> ELSE <<>>
  <2>2. m1 \in Seq(Keys) /\ m2 \in Seq(Keys)
    BY <1>2
  <2>3. EscapeWarns(c) = m1 \o m2
    BY <2>1
  <2> HIDE DEF m1, m2
  <2> QED BY <2>2, <2>3, Messages
<1>4. CASE c = "'"
  <2>1. EscapeWarns(c) = IF json_mode THEN <<"unexpected_a">> ELSE <<>>
    BY <1>4, OtherCharacters DEF EscapeWarns
  <2> QED BY <1>2, <2>1
<1>5. CASE c \in {DoubleQuote, "\\", "/"}
  <2>1. EscapeWarns(c) = <<>>
    BY <1>5, OtherCharacters DEF EscapeWarns
  <2> QED BY <1>2, <2>1
<1>6. CASE c \notin {"x", "'", DoubleQuote, "\\", "/"}
  <2>1. EscapeWarns(c) = IF c \in Digits THEN <<"octal_a">> ELSE <<"unexpected_a">>
    BY <1>6 DEF EscapeWarns
  <2> QED BY <1>2, <2>1
<1> QED BY <1>3, <1>4, <1>5, <1>6

LEMMA TokenSays ==
  ASSUME TypeOK, token
  PROVE  Says
<1> USE Messages
<1>1. ASSUME UNCHANGED report PROVE Says
  BY <1>1 DEF Says
<1>2. ASSUME NEW ms \in Seq(Keys), stop(ms) \/ (\E then \in {"running", "ended"} : warn(ms, then)) PROVE Says
  BY <1>2 DEF Says
<1>3. CASE EndOfRow
  BY <1>1, <1>3 DEF EndOfRow, Quiet
<1>4. CASE EndOfText
  <2>1. <<>> \in Seq(Keys) /\ warn(<<>>, "ended")
    BY <1>4 DEF EndOfText
  <2> QED BY <1>2, <2>1
<1>5. CASE NoMatch
  <2>1. <<"unexpected_a">> \in Seq(Keys)
    BY DEF Keys
  <2>2. Quiet \/ stop(<<"unexpected_a">>)
    BY <1>5 DEF NoMatch
  <2> QED BY <1>1, <1>2, <2>1, <2>2 DEF Quiet
<1>6. ASSUME NEW k, number(k) PROVE Says
  <2> DEFINE m1 == IF At(First, k + 1) \in Letters THEN <<"expected_space_a_b">> ELSE <<>>
             m2 == IF First[k] = "." THEN <<"trailing_decimal_a">> ELSE <<>>
  <2>1. "expected_space_a_b" \in Keys /\ "trailing_decimal_a" \in Keys
    BY DEF Keys
  <2>2. m1 \in Seq(Keys) /\ m2 \in Seq(Keys)
    BY <2>1, IfMessage
  <2>3. warn(m1 \o m2, "running")
    BY <1>6 DEF number
  <2> HIDE DEF m1, m2
  <2> QED BY <1>2, <2>2, <2>3
<1>7. ASSUME NEW k, Slash(k) PROVE Says
  <2>1. <<"slash_equal">> \in Seq(Keys)
    BY DEF Keys
  <2>2. Quiet \/ stop(<<"slash_equal">>)
    BY <1>7 DEF Slash
  <2> QED BY <1>1, <1>2, <2>1, <2>2 DEF Quiet
<1>8. ASSUME NEW k, OpenString(k) PROVE Says
  <2> DEFINE m == IF json_mode /\ First[1] = "'" THEN <<"expected_a">> ELSE <<>>
  <2>1. "expected_a" \in Keys
    BY DEF Keys
  <2>2. m \in Seq(Keys)
    BY <2>1, IfMessage
  <2>3. warn(m, "running")
    BY <1>8 DEF OpenString
  <2> HIDE DEF m
  <2> QED BY <1>2, <2>2, <2>3
<1>9. ASSUME NEW k, Word(k) \/ LineComment(k) \/ OpenComment(k) \/ Punctuator(k) PROVE Says
  BY <1>1, <1>9 DEF Word, LineComment, OpenComment, Punctuator, Quiet
<1> QED BY <1>3, <1>4, <1>5, <1>6, <1>7, <1>8, <1>9 DEF token

LEMMA StringSays ==
  ASSUME TypeOK, string
  PROVE  Says
<1> USE Messages
<1>1. ASSUME UNCHANGED report PROVE Says
  BY <1>1 DEF Says
<1>2. ASSUME NEW ms \in Seq(Keys), stop(ms) \/ (\E then \in {"running", "ended"} : warn(ms, then)) PROVE Says
  BY <1>2 DEF Says
<1>3. <<"unclosed">> \in Seq(Keys)
  BY DEF Keys
<1>4. stop(<<"unclosed">>) \/ Quiet \/ (\E e : warn(EscapeWarns(e), "running"))
  BY DEF string, ContinueLine
<1> QED BY <1>1, <1>2, <1>3, <1>4, EscapeMessages DEF Quiet

LEMMA CommentSays ==
  ASSUME TypeOK, comment
  PROVE  Says
<1>1. <<"unclosed_comment">> \in Seq(Keys) /\ <<"nested_comment">> \in Seq(Keys)
  BY Messages DEF Keys
<1>2. Quiet \/ stop(<<"unclosed_comment">>) \/ stop(<<"nested_comment">>)
  BY DEF comment
<1> QED BY <1>1, <1>2 DEF Says, Quiet

LEMMA RegexpSays ==
  ASSUME TypeOK, regexp
  PROVE  Says
<1>2. ASSUME NEW ms \in Seq(Keys), stop(ms) \/ (\E then \in {"running", "ended"} : warn(ms, then)) PROVE Says
  BY <1>2 DEF Says
<1>k. /\ "unescaped_a" \in Keys /\ "unexpected_a" \in Keys /\ "confusing_regexp" \in Keys /\ "control_a" \in Keys
      /\ "expected_a_b" \in Keys /\ "use_braces" \in Keys /\ "empty_class" \in Keys /\ "unclosed_regexp" \in Keys
  BY DEF Keys
<1>m. /\ <<"unescaped_a">> \in Seq(Keys) /\ <<"unexpected_a">> \in Seq(Keys) /\ <<"confusing_regexp">> \in Seq(Keys)
      /\ <<"control_a">> \in Seq(Keys) /\ <<"expected_a_b">> \in Seq(Keys) /\ <<"use_braces">> \in Seq(Keys)
      /\ <<"empty_class">> \in Seq(Keys) /\ <<"unclosed_regexp">> \in Seq(Keys) /\ <<>> \in Seq(Keys)
  BY <1>k, Messages
<1>3. CASE RegexpEnd
  <2> DEFINE said == IF depth > 0 THEN <<"unescaped_a">> ELSE <<>>
  <2>1. said \in Seq(Keys)
    BY <1>k, IfMessage
  <2>2. \/ stop(said \o <<"unexpected_a">>) \/ stop(said \o <<"confusing_regexp">>) \/ warn(said, "running")
    BY <1>3 DEF RegexpEnd
  <2> HIDE DEF said
  <2>3. said \o <<"unexpected_a">> \in Seq(Keys) /\ said \o <<"confusing_regexp">> \in Seq(Keys)
    BY <1>m, <2>1, Messages
  <2> QED BY <1>2, <2>1, <2>2, <2>3
<1>4. CASE RegexpChar
  <2> DEFINE c == R(length + 1)
             taken == length + Taken(c)
             said == CASE c = "\\" /\ R(length + 2) = NoCharacter -> <<"control_a">>
                       [] Special /\ taken = length + 2 -> <<"expected_a_b">>
                       [] c = ")" /\ depth = 0 -> <<"unescaped_a">>
                       [] c = Blank /\ Spaces > 0 -> <<"use_braces">>
                       [] c \in {"]", "?", LeftBrace, RightBrace, "+", "*"} -> <<"unescaped_a">>
                       [] OTHER -> <<>>
             after == IF c \in {"(", "|"} THEN [length |-> taken, said |-> <<>>] ELSE Repetition(taken)
  <2>1. said \in Seq(Keys)
    <3> HIDE DEF c, taken
    <3> QED BY <1>m
  <2>2. Repetition(taken).said \in Seq(Keys)
    <3>1. taken \in Nat
      BY TakenType
    <3> HIDE DEF taken
    <3> QED BY <3>1, RepetitionTypes DEF TypeOK
  <2>3. after.said \in Seq(Keys)
    BY <1>m, <2>2
  <2>4. warn(said \o after.said, "running")
    BY <1>4 DEF RegexpChar
  <2> HIDE DEF said, after
  <2>5. said \o after.said \in Seq(Keys)
    BY <2>1, <2>3, Messages
  <2> QED BY <1>2, <2>4, <2>5
<1>5. CASE OpenClass
  <2> DEFINE m == IF R(length + 2) = "]" THEN <<"empty_class">> ELSE <<>>
  <2>1. m \in Seq(Keys)
    BY <1>k, IfMessage
  <2>2. stop(<<"unescaped_a">>) \/ warn(m, "running")
    BY <1>5 DEF OpenClass
  <2> HIDE DEF m
  <2> QED BY <1>2, <1>m, <2>1, <2>2
<1>6. CASE Unclosed
  BY <1>2, <1>6, <1>m DEF Unclosed
<1> QED BY <1>3, <1>4, <1>5, <1>6 DEF regexp

LEMMA KlassSays ==
  ASSUME TypeOK, klass
  PROVE  Says
<1> DEFINE c == R(length + 1)
           over == c \in {NoCharacter, "]"}
           taken == IF c = "\\" THEN length + 2 ELSE length + 1
           said == CASE c = "]" /\ ~bit -> <<"unescaped_a">>
                     [] c \in {"[", "^", "/"} -> <<"unescaped_a">>
                     [] c = "\\" /\ R(length + 2) = NoCharacter -> <<"control_a">>
                     [] OTHER -> <<>>
           after == IF over THEN Repetition(taken) ELSE [length |-> taken, said |-> <<>>]
<1>1. <<"unescaped_a">> \in Seq(Keys) /\ <<"control_a">> \in Seq(Keys) /\ <<>> \in Seq(Keys)
  BY Messages DEF Keys
<1>2. said \in Seq(Keys)
  <2> HIDE DEF c
  <2> QED BY <1>1
<1>3. Repetition(taken).said \in Seq(Keys)
  <2>1. taken \in Nat
    BY DEF TypeOK
  <2> HIDE DEF taken
  <2> QED BY <2>1, RepetitionTypes DEF TypeOK
<1>4. after.said \in Seq(Keys)
  BY <1>1, <1>3
<1>5. warn(said \o after.said, "running")
  BY DEF klass
<1> HIDE DEF said, after
<1>6. said \o after.said \in Seq(Keys)
  BY <1>2, <1>4, Messages
<1> QED BY <1>5, <1>6 DEF Says

LEMMA SaysTypes ==
  ASSUME TypeOK, Says
  PROVE  ReportTypeOK(Keys)'
<1>1. CASE UNCHANGED report
  BY <1>1 DEF TypeOK, ReportTypeOK, report
<1>2. ASSUME NEW ms \in Seq(Keys), stop(ms) PROVE ReportTypeOK(Keys)'
  BY <1>2, StopTypes DEF TypeOK
<1>3. ASSUME NEW ms \in Seq(Keys), NEW then \in {"running", "ended"}, warn(ms, then) PROVE ReportTypeOK(Keys)'
  BY <1>3, WarnTypes DEF TypeOK
<1> QED BY <1>1, <1>2, <1>3 DEF Says

LEMMA PrefixProperties ==
  ASSUME NEW s \in Seq(Characters), NEW j \in 0 .. Len(s)
  PROVE  /\ SubSeq(s, 1, j) \in Seq(Characters) /\ Len(SubSeq(s, 1, j)) = j
         /\ \A i \in 1 .. j : SubSeq(s, 1, j)[i] = s[i]
<1>1. Len(s) \in Nat /\ \A i \in 1 .. j : s[i] \in Characters
  BY ElementOfSeq, LenProperties
<1>2. /\ SubSeq(s, 1, j) \in Seq(Characters) /\ Len(SubSeq(s, 1, j)) = IF 1 <= j THEN j - 1 + 1 ELSE 0
      /\ \A i \in 1 .. j - 1 + 1 : SubSeq(s, 1, j)[i] = s[1 + i - 1]
  BY <1>1, SubSeqProperties
<1> QED BY <1>1, <1>2

\* The end of a comment, or one in it, is within the line.
LEMMA StarSlashProperties ==
  ASSUME source_row \in Seq(Characters)
  PROVE  /\ StarSlash \in Nat
         /\ StarSlash # 0 => StarSlash \in 1 .. Len(source_row) - 1
<1> DEFINE found == {i \in 1 .. Len(source_row) - 1 :
                        <<source_row[i], source_row[i + 1]>> \in {<<"*", "/">>, <<"/", "*">>}}
<1>1. CASE found = {}
  BY <1>1 DEF StarSlash
<1>2. CASE found # {}
  <2>1. found \in SUBSET Nat /\ found \subseteq 1 .. Len(source_row) - 1
    BY LenProperties
  <2>2. StarSlash = CHOOSE i \in found : \A j \in found : i <= j
    BY <1>2 DEF StarSlash
  <2> HIDE DEF found
  <2>3. \E i \in found : \A j \in found : i <= j
    BY <1>2, <2>1, Least
  <2>4. StarSlash \in found
    BY <2>2, <2>3
  <2> QED BY <2>1, <2>4, LenProperties
<1> QED BY <1>1, <1>2

\* A token or comment that ends adds a piece.
LEMMA ItType ==
  ASSUME TypeOK, NEW kind \in Kinds, NEW text \in Seq(Characters), it(kind, text),
         begun' \in Nat, from' \in Nat, character' \in Nat
  PROVE  pieces' \in Seq(Piece) /\ prereg' \in BOOLEAN
<1>1. prereg' = PreReg(kind, text)
  BY DEF it
<1>2. PreReg(kind, text) \in BOOLEAN
  BY DEF PreReg
<1>3. pieces' = Append(pieces, [kind |-> kind, text |-> text, line |-> line, begun |-> begun', from |-> from',
                               thru |-> character'])
  BY DEF it
<1>4. pieces' \in Seq(Piece)
  BY <1>3, PieceType
<1> QED BY <1>1, <1>2, <1>4

LEMMA CommentType ==
  ASSUME TypeOK, NEW thru \in Nat, Comment(thru), begun' \in Nat, from' \in Nat
  PROVE  pieces' \in Seq(Piece) /\ prereg' \in BOOLEAN
<1>1. "comment" \in Kinds /\ <<>> \in Seq(Characters)
  BY EmptySeq DEF Kinds
<1>2. pieces' = Append(pieces, [kind |-> "comment", text |-> <<>>, line |-> line, begun |-> begun', from |-> from',
                               thru |-> thru])
  BY DEF Comment
<1>3. pieces' \in Seq(Piece)
  BY <1>1, <1>2, PieceType
<1> QED BY <1>3 DEF Comment, TypeOK

LEMMA MatchTypes ==
  ASSUME TypeOK, NEW k \in Nat, Matches(k), match(k)
  PROVE  /\ from' \in Nat /\ character' \in Nat /\ source_row' \in Seq(Characters)
         /\ lines' = lines /\ line' = line /\ begun' = line /\ line \in Nat
<1>1. Rest(First, k) \in Seq(Characters)
  BY MatchProperties DEF TypeOK
<1>2. Blanks \in Nat
  BY FirstProperties, LenProperties DEF TypeOK
<1>3. line \in Nat
  BY LinesType
<1> QED BY <1>1, <1>2, <1>3 DEF match, TypeOK

LEMMA NextLineTypes ==
  ASSUME TypeOK, next_line
  PROVE  /\ line' \in 1 .. Len(lines) /\ source_row' \in Seq(Characters) /\ character' \in Nat
         /\ begun \in 1 .. line'
<1>1. Len(lines) \in Nat \ {0} /\ line \in Nat /\ \A l \in 1 .. Len(lines) : lines[l] \in Seq(Characters)
  BY LinesType
<1>2. line' = line + 1 /\ line + 1 \in 1 .. Len(lines)
  BY <1>1 DEF next_line, TypeOK
<1>3. begun \in 1 .. line + 1
  BY <1>1 DEF TypeOK
<1> QED BY <1>1, <1>2, <1>3 DEF next_line

LEMMA TokenTypes ==
  ASSUME TypeOK, mode = "token", token
  PROVE  TypeOK'
<1>r. ReportTypeOK(Keys)'
  BY TokenSays, SaysTypes
<1>l. Len(lines) \in Nat \ {0} /\ line \in Nat
  BY LinesType
<1>s. <<>> \in Seq(Characters)
  BY EmptySeq
<1>k. \A k \in 1 .. Len(source_row) : k \in Nat
  BY LenProperties DEF TypeOK
<1>d. {"identifier", "number", "punctuator"} \subseteq Kinds
  BY DEF Kinds
<1>1. CASE EndOfRow
  <2>1. next_line /\ UNCHANGED <<quote, pos, length, depth, bit, lines, from, mode, prereg, begun, pieces>>
    BY <1>1 DEF EndOfRow, Idle
  <2> QED BY <1>r, <2>1, NextLineTypes DEF TypeOK
<1>2. CASE EndOfText
  BY <1>r, <1>2 DEF EndOfText, lexed, TypeOK
<1>3. CASE NoMatch
  <2>1. /\ UNCHANGED <<quote, pos, length, depth, bit, lines, line, from, mode, prereg, begun, pieces>>
        /\ \/ source_row' = <<>> /\ character' = character + 1
           \/ UNCHANGED <<source_row, character>>
    BY <1>3 DEF NoMatch, Idle
  <2>2. source_row' \in Seq(Characters) /\ character' \in Nat
    <3>1. source_row' \in {<<>>, source_row} /\ character' \in {character, character + 1}
      BY <2>1
    <3>2. character \in Nat /\ source_row \in Seq(Characters)
      BY DEF TypeOK
    <3>3. character' \in Nat
      BY <3>1, <3>2
    <3> QED BY <1>s, <3>1, <3>2, <3>3
  <2>3. UNCHANGED <<quote, pos, length, depth, bit, lines, line, from, mode, prereg, begun, pieces>>
    BY <2>1
  <2> QED BY <1>r, <2>2, <2>3 DEF TypeOK
<1>4. ASSUME NEW k \in Nat, NEW kind \in {"identifier", "number", "punctuator"},
             Matches(k), match(k), it(kind, Text(k)), Idle, UNCHANGED mode
      PROVE  TypeOK'
  <2>1. /\ from' \in Nat /\ character' \in Nat /\ source_row' \in Seq(Characters)
        /\ lines' = lines /\ line' = line /\ begun' = line /\ line \in Nat
    BY <1>4, MatchTypes
  <2>2. Text(k) \in Seq(Characters)
    BY <1>4, MatchProperties DEF TypeOK
  <2>3. pieces' \in Seq(Piece) /\ prereg' \in BOOLEAN
    BY <1>4, <1>d, <2>1, <2>2, ItType
  <2>4. UNCHANGED <<quote, pos, length, depth, bit, mode>>
    BY <1>4 DEF Idle
  <2> QED BY <1>r, <2>1, <2>3, <2>4 DEF TypeOK
<1>5. ASSUME NEW k \in Nat, Word(k) \/ number(k) \/ Punctuator(k) PROVE TypeOK'
  BY <1>4, <1>5 DEF Word, number, Punctuator
<1>6. ASSUME NEW k \in Nat, Slash(k) PROVE TypeOK'
  <2>1. Matches(k) /\ match(k)
    BY <1>6 DEF Slash
  <2>2. /\ from' \in Nat /\ character' \in Nat /\ source_row' \in Seq(Characters)
        /\ lines' = lines /\ line' = line /\ begun' = line /\ line \in Nat
    BY <2>1, MatchTypes
  <2>3. \/ UNCHANGED <<quote, pos, length, depth, bit, mode, prereg, pieces>>
        \/ mode' = "regexp" /\ length' = 0 /\ depth' = 0 /\ UNCHANGED <<quote, pos, bit, prereg, pieces>>
        \/ it("punctuator", Text(k)) /\ Idle /\ UNCHANGED mode
    BY <1>6 DEF Slash, Idle
  <2>4. CASE UNCHANGED <<quote, pos, length, depth, bit, mode, prereg, pieces>>
    BY <1>r, <2>2, <2>4 DEF TypeOK
  <2>5. CASE mode' = "regexp" /\ length' = 0 /\ depth' = 0 /\ UNCHANGED <<quote, pos, bit, prereg, pieces>>
    BY <1>r, <2>2, <2>5 DEF TypeOK
  <2>6. CASE it("punctuator", Text(k)) /\ Idle /\ UNCHANGED mode
    BY <1>4, <2>1, <2>6
  <2> QED BY <2>3, <2>4, <2>5, <2>6
<1>7. ASSUME NEW k \in Nat, LineComment(k) PROVE TypeOK'
  <2>1. /\ from' = character + Blanks /\ character' = character + Blanks + k /\ source_row' = <<>> /\ begun' = line
        /\ Comment(character' + Len(First) - k) /\ UNCHANGED <<quote, pos, length, depth, bit, lines, line, mode>>
    BY <1>7 DEF LineComment, Idle
  <2>2. Blanks \in Nat
    BY FirstProperties, LenProperties DEF TypeOK
  <2>3. Len(First) - k \in Nat
    <3>1. Matches(k)
      BY <1>7 DEF LineComment
    <3> QED BY <3>1, MatchProperties, LenProperties DEF TypeOK
  <2>4. from' \in Nat /\ character' \in Nat /\ character' + Len(First) - k \in Nat /\ begun' \in Nat
    <3>1. Len(First) \in Nat
      BY FirstProperties, LenProperties DEF TypeOK
    <3> QED BY <1>l, <2>1, <2>2, <2>3, <3>1 DEF TypeOK
  <2>5. pieces' \in Seq(Piece) /\ prereg' \in BOOLEAN
    BY <2>1, <2>4, CommentType
  <2> QED BY <1>r, <1>s, <1>l, <2>1, <2>4, <2>5 DEF TypeOK
<1>8. ASSUME NEW k \in Nat, OpenComment(k) PROVE TypeOK'
  <2>1. /\ Matches(k) /\ match(k) /\ mode' = "comment"
        /\ UNCHANGED <<quote, pos, length, depth, bit, prereg, pieces>>
    BY <1>8 DEF OpenComment, Idle
  <2>2. /\ from' \in Nat /\ character' \in Nat /\ source_row' \in Seq(Characters)
        /\ lines' = lines /\ line' = line /\ begun' = line /\ line \in Nat
    BY <2>1, MatchTypes
  <2> QED BY <1>r, <2>1, <2>2 DEF TypeOK
<1>9. ASSUME NEW k \in Nat, OpenString(k) PROVE TypeOK'
  <2>1. /\ Matches(k) /\ match(k) /\ mode' = "string" /\ quote' \in Quotes /\ pos' = 0
        /\ UNCHANGED <<length, depth, bit, prereg, pieces>>
    BY <1>9 DEF OpenString
  <2>2. /\ from' \in Nat /\ character' \in Nat /\ source_row' \in Seq(Characters)
        /\ lines' = lines /\ line' = line /\ begun' = line /\ line \in Nat
    BY <2>1, MatchTypes
  <2> QED BY <1>r, <2>1, <2>2 DEF TypeOK
<1> QED BY <1>k, <1>1, <1>2, <1>3, <1>5, <1>6, <1>7, <1>8, <1>9 DEF token

LEMMA CommentTypes ==
  ASSUME TypeOK, comment
  PROVE  TypeOK'
<1>r. ReportTypeOK(Keys)'
  BY CommentSays, SaysTypes
<1>i. UNCHANGED <<quote, pos, length, depth, bit, lines, from, begun>> /\ mode = "comment"
  BY DEF comment, Idle
<1>p. StarSlash \in Nat /\ (StarSlash # 0 => StarSlash \in 1 .. Len(source_row) - 1)
  BY StarSlashProperties DEF TypeOK
<1>1. CASE next_line /\ UNCHANGED <<mode, pieces, prereg>>
  BY <1>r, <1>i, <1>1, NextLineTypes DEF TypeOK
<1>2. CASE UNCHANGED <<line, source_row, mode, pieces, prereg>>
           /\ (UNCHANGED character \/ character' = character + StarSlash + 1)
  BY <1>r, <1>i, <1>p, <1>2 DEF TypeOK
<1>3. CASE /\ StarSlash # 0 /\ character' = character + StarSlash + 1
           /\ source_row' = Rest(source_row, StarSlash + 1) /\ mode' = "token" /\ Comment(character') /\ UNCHANGED line
  <2>1. StarSlash + 1 \in 0 .. Len(source_row) /\ character' \in Nat
    BY <1>p, <1>3, LenProperties DEF TypeOK
  <2>2. source_row' \in Seq(Characters)
    BY <1>3, <2>1, RestProperties DEF TypeOK
  <2>3. from' \in Nat /\ begun' \in Nat
    BY <1>i, LinesType DEF TypeOK
  <2>4. pieces' \in Seq(Piece) /\ prereg' \in BOOLEAN
    BY <1>3, <2>1, <2>3, CommentType
  <2> QED BY <1>r, <1>i, <1>3, <2>1, <2>2, <2>3, <2>4 DEF TypeOK
<1> QED BY <1>1, <1>2, <1>3 DEF comment

LEMMA StringTypes ==
  ASSUME TypeOK, string
  PROVE  TypeOK'
<1>r. ReportTypeOK(Keys)'
  BY StringSays, SaysTypes
<1>i. UNCHANGED <<lines, from, begun, quote, length, depth, bit>> /\ mode = "string" /\ quote \in Quotes
  BY DEF string, TypeOK
<1>c. \A n \in Nat : Cap(n) \in Nat
  BY LexerAssumption DEF Cap
<1>e. \A e : EscapeLength(e) \in {0, 2}
  BY DEF EscapeLength
<1>l. Len(lines) \in Nat \ {0} /\ line \in Nat /\ \A l \in 1 .. Len(lines) : lines[l] \in Seq(Characters)
  BY LinesType
<1> DEFINE c == At(source_row, pos + 1)
           e == At(source_row, pos + 2)
<1>1. CASE UNCHANGED <<line, source_row, character, pos, mode, pieces, prereg>>
  BY <1>r, <1>i, <1>1 DEF TypeOK
<1>2. CASE /\ c = quote /\ character' = character + 1 /\ source_row' = Rest(source_row, pos + 1)
           /\ it("string", SubSeq(source_row, 1, pos)) /\ mode' = "token" /\ pos' = 0 /\ UNCHANGED line
  <2>1. pos + 1 \in 1 .. Len(source_row)
    BY <1>i, <1>2, AtProperties, OtherCharacters DEF TypeOK
  <2>2. pos \in 0 .. Len(source_row) /\ pos + 1 \in 0 .. Len(source_row)
    BY <2>1, LenProperties DEF TypeOK
  <2>3. source_row' \in Seq(Characters) /\ SubSeq(source_row, 1, pos) \in Seq(Characters)
    BY <1>2, <2>2, RestProperties, PrefixProperties DEF TypeOK
  <2>4. from' \in Nat /\ begun' \in Nat /\ character' \in Nat /\ "string" \in Kinds
    BY <1>i, <1>2, LinesType DEF TypeOK, Kinds
  <2>5. pieces' \in Seq(Piece) /\ prereg' \in BOOLEAN
    BY <1>2, <2>3, <2>4, ItType
  <2> QED BY <1>r, <1>i, <1>2, <2>3, <2>4, <2>5 DEF TypeOK
<1>3. CASE ContinueLine /\ UNCHANGED <<mode, pieces, prereg>>
  <2>1. CASE line < Len(lines) /\ line' = line + 1 /\ source_row' = lines[line + 1] /\ character' = 2 /\ pos' = 0
    <3>1. line + 1 \in 1 .. Len(lines) /\ begun \in 1 .. line + 1
      BY <1>l, <2>1 DEF TypeOK
    <3> QED BY <1>r, <1>i, <1>l, <1>3, <2>1, <3>1 DEF TypeOK
  <2>2. CASE character' = Cap(character + 2) /\ UNCHANGED <<line, source_row>> /\ pos' = 0
    BY <1>r, <1>i, <1>c, <1>3, <2>2 DEF TypeOK
  <2> QED BY <1>3, <2>1, <2>2 DEF ContinueLine
<1>4. CASE /\ pos' = pos + 2 + EscapeLength(e) /\ character' = Cap(character + 2 + EscapeLength(e))
           /\ UNCHANGED <<line, source_row, mode, pieces, prereg>>
  <2>1. pos' \in Nat /\ character + 2 + EscapeLength(e) \in Nat
    <3>1. EscapeLength(e) \in Nat
      BY <1>e
    <3> HIDE DEF e
    <3> QED BY <1>4, <3>1 DEF TypeOK
  <2> HIDE DEF c, e
  <2>2. character' \in Nat
    BY <1>c, <1>4, <2>1
  <2> QED BY <1>r, <1>i, <1>4, <2>1, <2>2 DEF TypeOK
<1>5. CASE pos' = pos + 1 /\ character' = Cap(character + 1) /\ UNCHANGED <<line, source_row, mode, pieces, prereg>>
  BY <1>r, <1>i, <1>c, <1>5 DEF TypeOK
<1> QED BY <1>1, <1>2, <1>3, <1>4, <1>5 DEF string

\* The end of a regular expression, its flag with it, is within the line.
LEMMA RegexpEndProperties ==
  ASSUME TypeOK, R(length + 1) = "/"
  PROVE  /\ length \in 0 .. Len(source_row) /\ length + 1 \in 1 .. Len(source_row)
         /\ length + 1 + (IF R(length + 2) = "g" THEN 1 ELSE 0) \in 1 .. Len(source_row)
<1>1. length + 1 \in 1 .. Len(source_row)
  BY AtProperties, OtherCharacters DEF R, TypeOK
<1>2. R(length + 2) = "g" => length + 2 \in 1 .. Len(source_row)
  BY AtProperties, OtherCharacters DEF R, TypeOK
<1> QED BY <1>1, <1>2, LenProperties DEF TypeOK

LEMMA RegexpTypes ==
  ASSUME TypeOK, regexp
  PROVE  TypeOK'
<1>r. ReportTypeOK(Keys)'
  BY RegexpSays, SaysTypes
<1>i. UNCHANGED <<lines, line, from, begun, quote, pos>> /\ mode = "regexp"
  BY DEF regexp
<1>1. CASE RegexpEnd
  <2> DEFINE end == length + 1 + (IF R(length + 2) = "g" THEN 1 ELSE 0)
  <2>0. R(length + 1) = "/" /\ UNCHANGED <<length, depth, bit>>
    BY <1>1 DEF RegexpEnd
  <2>1. length \in 0 .. Len(source_row) /\ end \in 1 .. Len(source_row)
    BY <2>0, RegexpEndProperties
  <2>2. \/ UNCHANGED <<source_row, character, mode, pieces, prereg>>
        \/ /\ character' = character + end /\ source_row' = Rest(source_row, end)
           /\ \/ UNCHANGED <<mode, pieces, prereg>>
              \/ UNCHANGED <<from, begun>> /\ it("regexp", SubSeq(source_row, 1, length)) /\ mode' = "token"
    BY <1>1 DEF RegexpEnd
  <2> HIDE DEF end
  <2>3. CASE UNCHANGED <<source_row, character, mode, pieces, prereg>>
    BY <1>r, <1>i, <2>0, <2>3 DEF TypeOK
  <2>4. CASE character' = character + end /\ source_row' = Rest(source_row, end)
    <3>1. end \in 0 .. Len(source_row) /\ character' \in Nat
      BY <2>1, <2>4, LenProperties DEF TypeOK
    <3>2. source_row' \in Seq(Characters)
      BY <2>4, <3>1, RestProperties DEF TypeOK
    <3>3. CASE UNCHANGED <<mode, pieces, prereg>>
      BY <1>r, <1>i, <2>0, <3>1, <3>2, <3>3 DEF TypeOK
    <3>4. CASE it("regexp", SubSeq(source_row, 1, length)) /\ mode' = "token"
      <4>1. SubSeq(source_row, 1, length) \in Seq(Characters) /\ "regexp" \in Kinds
        BY <2>1, PrefixProperties DEF TypeOK, Kinds
      <4>2. from' \in Nat /\ begun' \in Nat
        BY <1>i, LinesType DEF TypeOK
      <4>3. pieces' \in Seq(Piece) /\ prereg' \in BOOLEAN
        BY <3>1, <3>4, <4>1, <4>2, ItType
      <4> QED BY <1>r, <1>i, <2>0, <3>1, <3>2, <3>4, <4>3 DEF TypeOK
    <3> QED BY <2>2, <2>3, <3>3, <3>4
  <2> QED BY <2>2, <2>3, <2>4
<1>2. CASE RegexpChar
  <2> DEFINE c == R(length + 1)
             taken == length + Taken(c)
  <2>1. taken \in Nat
    BY TakenType
  <2>2. Repetition(taken).length \in Nat
    <3> HIDE DEF taken
    <3> QED BY <2>1, RepetitionTypes DEF TypeOK
  <2>3. length' \in {taken, Repetition(taken).length}
    BY <1>2 DEF RegexpChar
  <2>4. depth' \in Nat
    <3>1. depth' = IF c = "(" THEN depth + 1 ELSE IF c = ")" /\ depth > 0 THEN depth - 1 ELSE depth
      BY <1>2 DEF RegexpChar
    <3> HIDE DEF c
    <3> QED BY <3>1 DEF TypeOK
  <2>5. UNCHANGED <<source_row, character, mode, pieces, prereg, bit>>
    BY <1>2 DEF RegexpChar
  <2> HIDE DEF taken
  <2>6. length' \in Nat
    BY <2>1, <2>2, <2>3
  <2> QED BY <1>r, <1>i, <2>4, <2>5, <2>6 DEF TypeOK
<1>3. CASE OpenClass
  <2>1. UNCHANGED <<source_row, character, depth, pieces, prereg>>
    BY <1>3 DEF OpenClass
  <2>2. \/ UNCHANGED <<length, bit, mode>>
        \/ length' \in {length + 1, length + 2} /\ bit' \in BOOLEAN /\ mode' = "class"
    BY <1>3 DEF OpenClass
  <2> QED BY <1>r, <1>i, <2>1, <2>2 DEF TypeOK
<1>4. CASE Unclosed
  BY <1>r, <1>i, <1>4 DEF TypeOK, Unclosed
<1> QED BY <1>1, <1>2, <1>3, <1>4 DEF regexp

LEMMA KlassTypes ==
  ASSUME TypeOK, klass
  PROVE  TypeOK'
<1>r. ReportTypeOK(Keys)'
  BY KlassSays, SaysTypes
<1> DEFINE taken == IF R(length + 1) = "\\" THEN length + 2 ELSE length + 1
<1>1. taken \in Nat
  BY DEF TypeOK
<1>2. Repetition(taken).length \in Nat
  <2> HIDE DEF taken
  <2> QED BY <1>1, RepetitionTypes DEF TypeOK
<1>3. length' \in {taken, Repetition(taken).length}
  BY DEF klass
<1>4. bit' \in BOOLEAN /\ mode' \in {"regexp", "class"}
  BY DEF klass
<1>5. UNCHANGED <<lines, line, source_row, character, from, quote, pos, depth, prereg, begun, pieces>>
  BY DEF klass
<1> HIDE DEF taken
<1>6. length' \in Nat
  BY <1>1, <1>2, <1>3
<1> QED BY <1>r, <1>4, <1>5, <1>6 DEF TypeOK

LEMMA InitTypes ==
  Init => TypeOK
<1> SUFFICES ASSUME Init PROVE TypeOK
  OBVIOUS
<1>1. lines \in Seq(Seq(Characters)) /\ lines # <<>>
  BY LexerAssumption DEF Init, LexerAssumption
<1>2. Len(lines) \in Nat \ {0} /\ lines[1] \in Seq(Characters)
  BY <1>1, EmptySeq, ElementOfSeq
<1>3. ReportTypeOK(Keys)
  BY MaxErrAssumption, EmptySeq DEF Init, ReportInit, ReportTypeOK
<1>4. pieces \in Seq(Piece)
  BY EmptySeq DEF Init
<1>5. /\ lines \in Sources /\ line = 1 /\ begun = 1 /\ source_row = lines[1] /\ character = 1 /\ from = 1
      /\ pos = 0 /\ length = 0 /\ depth = 0 /\ mode = "token" /\ quote = NoCharacter /\ bit = FALSE /\ prereg = TRUE
  BY DEF Init
<1>6. line \in 1 .. Len(lines) /\ begun \in 1 .. line
  BY <1>2, <1>5
<1> QED BY <1>2, <1>3, <1>4, <1>5, <1>6 DEF TypeOK

LEMMA NextTypes ==
  TypeOK /\ [Next \/ Done]_vars => TypeOK'
<1> SUFFICES ASSUME TypeOK, [Next \/ Done]_vars PROVE TypeOK'
  OBVIOUS
<1>1. CASE UNCHANGED vars
  BY <1>1 DEF vars, lexed, report, TypeOK, ReportTypeOK
<1>2. CASE token \/ comment \/ string \/ regexp \/ klass
  <2>1. token => mode = "token"
    BY DEF token
  <2> QED BY <1>2, <2>1, TokenTypes, CommentTypes, StringTypes, RegexpTypes, KlassTypes
<1> QED BY <1>1, <1>2 DEF Next, Done

(***************************** divisions ***********************************)

LEMMA AppendPieces ==
  ASSUME TypeOK, NEW p, pieces' = Append(pieces, p)
  PROVE  /\ Len(pieces) \in Nat /\ Len(pieces') = Len(pieces) + 1 /\ pieces'[Len(pieces) + 1] = p
         /\ \A i \in 1 .. Len(pieces) : pieces'[i] = pieces[i]
BY AppendProperties, LenProperties DEF TypeOK

\* What a step makes of the pieces: nothing, a token, or a comment.
Ends(kind, text) == it(kind, text) /\ mode' = "token" /\ (kind = "regexp" => mode = "regexp")
LEMMA PieceSteps ==
  ASSUME TypeOK, Next
  PROVE  \/ UNCHANGED <<pieces, prereg>> /\ (mode' \in {"regexp", "class"} => mode \in {"regexp", "class"} \/ prereg)
         \/ \E kind \in Kinds \ {"comment"} : \E text : Ends(kind, text)
         \/ \E thru : Comment(thru) /\ mode' = "token"
<1> DEFINE Goal == \/ UNCHANGED <<pieces, prereg>>
                      /\ (mode' \in {"regexp", "class"} => mode \in {"regexp", "class"} \/ prereg)
                   \/ \E kind \in Kinds \ {"comment"} : \E text : Ends(kind, text)
                   \/ \E thru : Comment(thru) /\ mode' = "token"
<1>1. ASSUME UNCHANGED <<pieces, prereg>>, mode' \in {"regexp", "class"} => mode \in {"regexp", "class"} \/ prereg
      PROVE  Goal
  BY <1>1
<1>2. ASSUME NEW kind \in Kinds \ {"comment"}, NEW text, Ends(kind, text) PROVE Goal
  BY <1>2
<1>3. ASSUME NEW thru, Comment(thru), mode' = "token" PROVE Goal
  BY <1>3
<1> SUFFICES Goal
  OBVIOUS
<1> HIDE DEF Goal
<1>k. {"identifier", "number", "punctuator", "string", "regexp"} \subseteq Kinds \ {"comment"}
  BY DEF Kinds
<1>4. CASE token
  <2>m. mode = "token"
    BY <1>4 DEF token
  <2>1. CASE EndOfRow \/ EndOfText \/ NoMatch
    <3>1. UNCHANGED <<pieces, prereg, mode>>
      BY <2>1 DEF EndOfRow, EndOfText, NoMatch, lexed
    <3> QED BY <1>1, <2>m, <3>1
  <2>2. ASSUME NEW k, Word(k) PROVE Goal
    <3>1. Ends("identifier", Text(k))
      BY <2>m, <2>2 DEF Word, Ends
    <3> QED BY <1>2, <1>k, <3>1
  <2>3. ASSUME NEW k, number(k) PROVE Goal
    <3>1. Ends("number", Text(k))
      BY <2>m, <2>3 DEF number, Ends
    <3> QED BY <1>2, <1>k, <3>1
  <2>4. ASSUME NEW k, Punctuator(k) PROVE Goal
    <3>1. Ends("punctuator", Text(k))
      BY <2>m, <2>4 DEF Punctuator, Ends
    <3> QED BY <1>2, <1>k, <3>1
  <2>5. ASSUME NEW k, Slash(k) PROVE Goal
    <3>1. \/ UNCHANGED <<mode, prereg, pieces>>
          \/ prereg /\ UNCHANGED <<prereg, pieces>>
          \/ it("punctuator", Text(k)) /\ UNCHANGED mode
      BY <2>5 DEF Slash
    <3>2. it("punctuator", Text(k)) /\ UNCHANGED mode => Ends("punctuator", Text(k))
      BY <2>m DEF Ends
    <3> QED BY <1>1, <1>2, <1>k, <2>m, <3>1, <3>2
  <2>6. ASSUME NEW k, LineComment(k) PROVE Goal
    BY <1>3, <2>m, <2>6 DEF LineComment
  <2>7. ASSUME NEW k, OpenComment(k) \/ OpenString(k) PROVE Goal
    BY <1>1, <2>7 DEF OpenComment, OpenString
  <2> QED BY <1>4, <2>1, <2>2, <2>3, <2>4, <2>5, <2>6, <2>7 DEF token
<1>5. CASE comment
  <2>1. UNCHANGED <<mode, pieces, prereg>> \/ (Comment(character') /\ mode' = "token")
    BY <1>5 DEF comment
  <2> QED BY <1>1, <1>3, <2>1
<1>6. CASE string
  <2>1. UNCHANGED <<mode, pieces, prereg>> \/ \E text : it("string", text) /\ mode' = "token"
    BY <1>6 DEF string
  <2>2. \A text : it("string", text) /\ mode' = "token" => Ends("string", text)
    BY DEF Ends
  <2> QED BY <1>1, <1>2, <1>k, <2>1, <2>2
<1>7. CASE regexp
  <2>m. mode = "regexp"
    BY <1>7 DEF regexp
  <2>1. UNCHANGED <<pieces, prereg>> \/ \E text : it("regexp", text) /\ mode' = "token"
    BY <1>7 DEF regexp, RegexpEnd, RegexpChar, OpenClass, Unclosed
  <2>2. \A text : it("regexp", text) /\ mode' = "token" => Ends("regexp", text)
    BY <2>m DEF Ends
  <2> QED BY <1>1, <1>2, <1>k, <2>m, <2>1, <2>2
<1>8. CASE klass
  BY <1>1, <1>8 DEF klass
<1> QED BY <1>4, <1>5, <1>6, <1>7, <1>8 DEF Next

\* prereg is what the last token says, from step to step.
LEMMA LastTokenKept ==
  ASSUME TypeOK, LastToken, Next
  PROVE  LastToken'
<1>1. CASE UNCHANGED <<pieces, prereg>> /\ (mode' \in {"regexp", "class"} => mode \in {"regexp", "class"} \/ prereg)
  BY <1>1 DEF LastToken, Precedes
<1>2. ASSUME NEW kind \in Kinds \ {"comment"}, NEW text, Ends(kind, text) PROVE LastToken'
  <2> DEFINE p == [kind |-> kind, text |-> text, line |-> line, begun |-> begun', from |-> from', thru |-> character']
             n == Len(pieces)
  <2>1. pieces' = Append(pieces, p) /\ prereg' = PreReg(kind, text) /\ mode' = "token"
    BY <1>2 DEF Ends, it
  <2>2. n \in Nat /\ Len(pieces') = n + 1 /\ pieces'[n + 1] = p
    BY <2>1, AppendPieces
  <2>3. ASSUME NEW i \in 1 .. Len(pieces'), Precedes(i, Len(pieces) + 1)'
        PROVE  prereg' = PreReg(pieces'[i].kind, pieces'[i].text)
    <3>1. i = n + 1
      <4>1. ASSUME i # n + 1 PROVE FALSE
        <5>1. n + 1 \in i + 1 .. Len(pieces') + 1 - 1
          BY <2>2, <4>1
        <5>2. pieces'[n + 1].kind = "comment"
          BY <2>3, <5>1 DEF Precedes
        <5> QED BY <2>2, <5>2
      <4> QED BY <4>1
    <3>2. pieces'[i].kind = kind /\ pieces'[i].text = text
      BY <2>2, <3>1
    <3> QED BY <2>1, <3>2
  <2> QED BY <2>1, <2>3 DEF LastToken
<1>3. ASSUME NEW thru, Comment(thru), mode' = "token" PROVE LastToken'
  <2> DEFINE p == [kind |-> "comment", text |-> <<>>, line |-> line, begun |-> begun', from |-> from', thru |-> thru]
             n == Len(pieces)
  <2>1. pieces' = Append(pieces, p) /\ UNCHANGED prereg
    BY <1>3 DEF Comment
  <2>2. n \in Nat /\ Len(pieces') = n + 1 /\ pieces'[n + 1] = p /\ \A i \in 1 .. n : pieces'[i] = pieces[i]
    BY <2>1, AppendPieces
  <2>3. ASSUME NEW i \in 1 .. Len(pieces'), Precedes(i, Len(pieces) + 1)'
        PROVE  prereg' = PreReg(pieces'[i].kind, pieces'[i].text)
    <3>1. i \in 1 .. n
      <4>1. pieces'[i].kind # "comment"
        BY <2>3 DEF Precedes
      <4>2. i # n + 1
        BY <2>2, <4>1
      <4> QED BY <2>2, <4>2
    <3>2. Precedes(i, n + 1)
      <4>1. pieces[i].kind # "comment" /\ i < n + 1
        BY <2>2, <2>3, <3>1 DEF Precedes
      <4>2. ASSUME NEW k \in i + 1 .. n + 1 - 1 PROVE pieces[k].kind = "comment"
        <5>1. k \in i + 1 .. Len(pieces') + 1 - 1 /\ k \in 1 .. n
          BY <2>2, <3>1
        <5>2. pieces'[k].kind = "comment"
          BY <2>3, <5>1 DEF Precedes
        <5> QED BY <2>2, <5>1, <5>2
      <4> QED BY <4>1, <4>2 DEF Precedes
    <3>3. prereg = PreReg(pieces[i].kind, pieces[i].text)
      BY <3>1, <3>2 DEF LastToken
    <3> QED BY <2>1, <2>2, <3>1, <3>3
  <2> QED BY <1>3, <2>3 DEF LastToken
<1> QED BY <1>1, <1>2, <1>3, PieceSteps

\* The tokens after which it takes a slash for a regular expression end no operand.
LEMMA PreRegEndsNoOperand ==
  ASSUME NEW p \in Piece, PreReg(p.kind, p.text)
  PROVE  ~EndsOperand(p)
<1>1. CASE p.kind = "identifier" /\ p.text[1] \in Reserved
  BY <1>1 DEF EndsOperand
<1>2. CASE p.kind = "punctuator" /\ p.text[Len(p.text)] \in {"(", Comma, "=", ":", "[", "!", "&", "|", "?",
                                                           LeftBrace, RightBrace, Semicolon}
  <2>1. p.text[Len(p.text)] \notin {")", "]"}
    BY <1>2, OtherCharacters
  <2>2. ASSUME NEW c, p.text = <<c>> PROVE c \notin {")", "]"}
    <3>1. Len(p.text) = 1 /\ p.text[1] = c
      BY <2>2
    <3> QED BY <2>1, <3>1
  <2>3. p.text \notin {<<")">>, <<"]">>}
    BY <2>2
  <2> QED BY <1>2, <2>3 DEF EndsOperand
<1> QED BY <1>1, <1>2 DEF PreReg

\* So lex is in a regular expression behind no operand.
LEMMA DivisionsFree ==
  ASSUME TypeOK, LastToken
  PROVE  NoDivisionSwallowed
<1> SUFFICES ASSUME mode \in {"regexp", "class"}, NEW i \in 1 .. Len(pieces), Precedes(i, Len(pieces) + 1)
             PROVE  ~EndsOperand(pieces[i])
  BY DEF NoDivisionSwallowed
<1>1. PreReg(pieces[i].kind, pieces[i].text)
  BY DEF LastToken
<1>2. pieces[i] \in Piece
  BY ElementOfSeq DEF TypeOK
<1> QED BY <1>1, <1>2, PreRegEndsNoOperand

(************************** regular expressions ****************************)

\* The recursion of RegexpStates defines a function.
LEMMA StatesExist ==
  ASSUME NEW s, NEW n \in Nat
  PROVE  \E g : g = [i \in 0 .. n |-> IF i = 0 THEN "body" ELSE RegexpStep(g[i - 1], s[i])]
<1> DEFINE Good(m) == \E g : g = [i \in 0 .. m |-> IF i = 0 THEN "body" ELSE RegexpStep(g[i - 1], s[i])]
           B == {m \in Nat : ~Good(m)}
<1>1. Good(0)
  <2> DEFINE g == [i \in 0 .. 0 |-> "body"]
  <2>1. g = [i \in 0 .. 0 |-> IF i = 0 THEN "body" ELSE RegexpStep(g[i - 1], s[i])]
    OBVIOUS
  <2> HIDE DEF g
  <2> QED BY <2>1
<1>2. ASSUME NEW m \in Nat, m # 0, Good(m - 1) PROVE Good(m)
  <2>1. PICK g : g = [i \in 0 .. m - 1 |-> IF i = 0 THEN "body" ELSE RegexpStep(g[i - 1], s[i])]
    BY <1>2
  <2> DEFINE h == [i \in 0 .. m |-> IF i = m THEN RegexpStep(g[m - 1], s[m]) ELSE g[i]]
             e == [i \in 0 .. m |-> IF i = 0 THEN "body" ELSE RegexpStep(h[i - 1], s[i])]
  <2>2. ASSUME NEW i \in 0 .. m PROVE h[i] = IF i = 0 THEN "body" ELSE RegexpStep(h[i - 1], s[i])
    <3>1. CASE i = m
      <4>1. h[i] = RegexpStep(g[m - 1], s[m]) /\ m - 1 \in 0 .. m /\ m - 1 # m
        BY <1>2, <3>1
      <4>2. h[m - 1] = g[m - 1]
        BY <4>1
      <4> QED BY <1>2, <3>1, <4>1, <4>2
    <3>2. CASE i # m /\ i = 0
      BY <1>2, <2>1, <3>2
    <3>3. CASE i # m /\ i # 0
      <4>1. i \in 0 .. m - 1 /\ i - 1 \in 0 .. m /\ i - 1 # m
        BY <3>3
      <4>2. h[i] = g[i] /\ h[i - 1] = g[i - 1]
        BY <3>3, <4>1
      <4>3. g[i] = RegexpStep(g[i - 1], s[i])
        BY <2>1, <3>3, <4>1
      <4> QED BY <3>3, <4>2, <4>3
    <3> QED BY <3>1, <3>2, <3>3
  <2>3. h = e
    <3>1. \A i \in 0 .. m : h[i] = e[i]
      BY <2>2
    <3>2. DOMAIN h = 0 .. m /\ DOMAIN e = 0 .. m
      OBVIOUS
    <3>3. h = [i \in DOMAIN h |-> h[i]] /\ e = [i \in DOMAIN e |-> e[i]]
      OBVIOUS
    <3> HIDE DEF h, e
    <3> QED BY <3>1, <3>2, <3>3
  <2>4. h = [i \in 0 .. m |-> IF i = 0 THEN "body" ELSE RegexpStep(h[i - 1], s[i])]
    BY <2>3
  <2> HIDE DEF h, e
  <2> QED BY <2>4
<1> HIDE DEF Good
<1>3. ASSUME B # {} PROVE FALSE
  <2>1. PICK m \in B : \A j \in B : m <= j
    BY <1>3, Least
  <2>2. m \in Nat /\ ~Good(m) /\ m # 0 /\ m - 1 \in Nat /\ ~(m <= m - 1)
    BY <1>1
  <2>3. Good(m - 1)
    BY <2>1, <2>2
  <2> QED BY <1>2, <2>2, <2>3
<1>4. Good(n)
  BY <1>3
<1> QED BY <1>4 DEF Good

LEMMA StatesProperties ==
  ASSUME NEW s \in Seq(Characters)
  PROVE  /\ DOMAIN RegexpStates(s) = 0 .. Len(s)
         /\ RegexpStates(s)[0] = "body"
         /\ \A i \in 1 .. Len(s) : RegexpStates(s)[i] = RegexpStep(RegexpStates(s)[i - 1], s[i])
<1>1. Len(s) \in Nat
  BY LenProperties
<1>2. RegexpStates(s) =
        CHOOSE g : g = [i \in 0 .. Len(s) |-> IF i = 0 THEN "body" ELSE RegexpStep(g[i - 1], s[i])]
  BY DEF RegexpStates
<1>3. \E g : g = [i \in 0 .. Len(s) |-> IF i = 0 THEN "body" ELSE RegexpStep(g[i - 1], s[i])]
  BY <1>1, StatesExist
<1> DEFINE f == RegexpStates(s)
<1>4. f = [i \in 0 .. Len(s) |-> IF i = 0 THEN "body" ELSE RegexpStep(f[i - 1], s[i])]
  BY <1>2, <1>3
<1> HIDE DEF f
<1>5. DOMAIN f = 0 .. Len(s)
  BY <1>4
<1>6. f[0] = "body"
  BY <1>1, <1>4
<1>7. ASSUME NEW i \in 1 .. Len(s) PROVE f[i] = RegexpStep(f[i - 1], s[i])
  <2>1. i \in 0 .. Len(s) /\ i # 0
    BY <1>1
  <2> QED BY <1>4, <2>1
<1> QED BY <1>5, <1>6, <1>7 DEF f

\* The states after the characters of a part are those after the same
\* characters of the whole.
LEMMA StatesOfPrefix ==
  ASSUME NEW s \in Seq(Characters), NEW n \in 0 .. Len(s), NEW k \in 0 .. n
  PROVE  RegexpStates(SubSeq(s, 1, n))[k] = RegexpStates(s)[k]
<1> DEFINE t == SubSeq(s, 1, n)
           B == {j \in Nat : j <= n /\ RegexpStates(t)[j] # RegexpStates(s)[j]}
<1>1. t \in Seq(Characters) /\ Len(t) = n /\ (\A i \in 1 .. n : t[i] = s[i]) /\ Len(s) \in Nat
  BY PrefixProperties, LenProperties
<1> HIDE DEF t
<1>2. /\ RegexpStates(s)[0] = "body" /\ RegexpStates(t)[0] = "body"
      /\ \A i \in 1 .. Len(s) : RegexpStates(s)[i] = RegexpStep(RegexpStates(s)[i - 1], s[i])
      /\ \A i \in 1 .. n : RegexpStates(t)[i] = RegexpStep(RegexpStates(t)[i - 1], t[i])
  BY <1>1, StatesProperties
<1>3. ASSUME B # {} PROVE FALSE
  <2>1. PICK m \in B : \A j \in B : m <= j
    BY <1>3, Least
  <2>2. m \in Nat /\ m <= n /\ RegexpStates(t)[m] # RegexpStates(s)[m] /\ m # 0
    BY <1>2
  <2>3. m - 1 \in Nat /\ m - 1 <= n /\ ~(m <= m - 1) /\ m \in 1 .. n /\ m \in 1 .. Len(s)
    BY <1>1, <2>2
  <2>4. RegexpStates(t)[m - 1] = RegexpStates(s)[m - 1]
    BY <2>1, <2>3
  <2> QED BY <1>1, <1>2, <2>2, <2>3, <2>4
<1>4. k \in Nat /\ k <= n
  OBVIOUS
<1>5. RegexpStates(t)[k] = RegexpStates(s)[k]
  BY <1>3, <1>4
<1> QED BY <1>5 DEF t

\* Characters that neither escape, nor open a class, nor end it leave the
\* language in the body.
Special3 == {"\\", "[", "/"}
LEMMA PlainKeepsBody ==
  ASSUME NEW s \in Seq(Characters), NEW a \in 0 .. Len(s), NEW b \in a .. Len(s),
         RegexpStates(s)[a] = "body", \A i \in a + 1 .. b : s[i] \notin Special3
  PROVE  \A i \in a .. b : RegexpStates(s)[i] = "body"
<1> DEFINE B == {j \in Nat : j \in a .. b /\ RegexpStates(s)[j] # "body"}
<1>1. Len(s) \in Nat /\ \A i \in 1 .. Len(s) : RegexpStates(s)[i] = RegexpStep(RegexpStates(s)[i - 1], s[i])
  BY StatesProperties, LenProperties
<1>2. ASSUME B # {} PROVE FALSE
  <2>1. PICK m \in B : \A j \in B : m <= j
    BY <1>2, Least
  <2>2. m \in Nat /\ m \in a .. b /\ RegexpStates(s)[m] # "body" /\ m # a
    OBVIOUS
  <2>3. m - 1 \in Nat /\ m - 1 \in a .. b /\ ~(m <= m - 1) /\ m \in 1 .. Len(s) /\ m \in a + 1 .. b
    BY <1>1, <2>2
  <2>4. RegexpStates(s)[m - 1] = "body"
    BY <2>1, <2>3
  <2>5. RegexpStep("body", s[m]) = "body"
    BY <2>3 DEF RegexpStep, Special3
  <2> QED BY <1>1, <2>2, <2>3, <2>4, <2>5
<1>3. \A i \in a .. b : i \in Nat
  BY <1>1
<1> QED BY <1>2, <1>3

\* What Repetition takes without a complaint is plain.
LEMMA RepetitionPlain ==
  ASSUME source_row \in Seq(Characters), NEW k \in Nat, Repetition(k).said = <<>>,
         Repetition(k).length <= Len(source_row)
  PROVE  \A i \in k + 1 .. Repetition(k).length : source_row[i] \notin Special3
<1>l. Len(source_row) \in Nat
  BY LenProperties
<1>a. \A j \in Nat : j + 1 <= Len(source_row) => R(j + 1) = source_row[j + 1]
  BY <1>l, AtProperties DEF R
<1>s. /\ {"?", "+", "*"} \cap Special3 = {} /\ LeftBrace \notin Special3 /\ RightBrace \notin Special3
      /\ Comma \notin Special3 /\ Digits \cap Special3 = {}
  BY OtherCharacters DEF Special3, Digits
<1>1. CASE R(k + 1) \in {"?", "+", "*"}
  <2>1. Repetition(k) = [length |-> IF R(k + 2) = "?" THEN k + 2 ELSE k + 1, said |-> <<>>]
    BY <1>1, OtherCharacters DEF Repetition
  <2>2. CASE R(k + 2) = "?"
    <3>1. Repetition(k).length = k + 2 /\ k + 1 + 1 = k + 2 /\ k + 1 \in Nat
      BY <2>1, <2>2
    <3>2. source_row[k + 1] = R(k + 1) /\ source_row[k + 2] = R(k + 2)
      BY <1>a, <1>l, <3>1
    <3>3. \A i \in k + 1 .. k + 2 : i = k + 1 \/ i = k + 2
      OBVIOUS
    <3> QED BY <1>s, <1>1, <2>2, <3>1, <3>2, <3>3
  <2>3. CASE R(k + 2) # "?"
    <3>1. Repetition(k).length = k + 1
      BY <2>1, <2>3
    <3>2. source_row[k + 1] = R(k + 1)
      BY <1>a, <1>l, <3>1
    <3> QED BY <1>s, <1>1, <3>1, <3>2
  <2> QED BY <2>2, <2>3
<1>2. CASE R(k + 1) \notin {"?", "+", "*"} /\ R(k + 1) = LeftBrace
  <2> DEFINE low == Run(Rest(source_row, k + 1), Digits)
             d1 == k + 1 + (IF low = 0 THEN 1 ELSE low)
                         + (IF low = 0 THEN Run(Rest(source_row, k + 2), Digits) ELSE 0)
             comma == R(d1 + 1) = Comma
             high == IF comma THEN Run(Rest(source_row, d1 + 1), Digits) ELSE low
             d2 == IF comma THEN d1 + 1 + high ELSE d1
             shut == IF R(d2 + 1) = RightBrace THEN d2 + 1 ELSE d2
             m1 == IF low = 0 THEN <<"expected_number_a">> ELSE <<>>
             m2 == IF shut = d2 THEN <<"expected_a_b">> ELSE <<>>
             m3 == IF high # 0 /\ low > high THEN <<"not_greater">> ELSE <<>>
             n == IF R(shut + 1) = "?" THEN shut + 1 ELSE shut
  <2>1. Braces(k) = [length |-> n, said |-> m1 \o m2 \o m3] /\ Repetition(k) = Braces(k)
    BY <1>2 DEF Braces, Repetition
  <2>k. "expected_number_a" \in Keys /\ "expected_a_b" \in Keys /\ "not_greater" \in Keys
    BY DEF Keys
  <2>2. m1 \in Seq(Keys) /\ m2 \in Seq(Keys) /\ m3 \in Seq(Keys)
    <3> HIDE DEF low, d1, comma, high, d2, shut, n
    <3> QED BY <2>k, IfMessage
  <2>3. m1 = <<>> /\ m2 = <<>>
    <3> HIDE DEF m1, m2, m3, n, low, d1, comma, high, d2, shut
    <3>1. m1 \o m2 \o m3 = <<>>
      BY <2>1
    <3>2. Len(m1 \o m2) = Len(m1) + Len(m2) /\ m1 \o m2 \in Seq(Keys)
      BY <2>2, ConcatProperties
    <3>3. Len((m1 \o m2) \o m3) = Len(m1 \o m2) + Len(m3)
      BY <2>2, <3>2, ConcatProperties
    <3>4. Len(m1) \in Nat /\ Len(m2) \in Nat /\ Len(m3) \in Nat /\ Len((m1 \o m2) \o m3) = 0
      BY <2>2, <3>1, LenProperties
    <3>5. Len(m1) = 0 /\ Len(m2) = 0
      BY <3>2, <3>3, <3>4
    <3> QED BY <2>2, <3>5, EmptySeq
  <2>4. low # 0
    <3> HIDE DEF low
    <3> QED BY <2>3
  <2>5. shut # d2
    <3> HIDE DEF shut, d2
    <3> QED BY <2>3
  <2>6. k + 1 \in 0 .. Len(source_row) /\ source_row[k + 1] = LeftBrace
    <3>1. k + 1 \in 1 .. Len(source_row)
      BY <1>2, AtProperties, OtherCharacters DEF R
    <3> QED BY <1>a, <1>l, <1>2, <3>1
  <2>7. low \in 0 .. Len(source_row) - (k + 1) /\ \A i \in 1 .. low : source_row[(k + 1) + i] \in Digits
    <3>1. /\ Rest(source_row, k + 1) \in Seq(Characters) /\ Len(Rest(source_row, k + 1)) = Len(source_row) - (k + 1)
          /\ \A i \in 1 .. Len(source_row) - (k + 1) : Rest(source_row, k + 1)[i] = source_row[(k + 1) + i]
      BY <2>6, RestProperties
    <3>2. low \in 0 .. Len(source_row) - (k + 1) /\ \A i \in 1 .. low : Rest(source_row, k + 1)[i] \in Digits
      BY <3>1, OtherCharacters, RunProperties
    <3> HIDE DEF low
    <3>3. \A i \in 1 .. low : i \in 1 .. Len(source_row) - (k + 1)
      BY <1>l, <3>2
    <3> QED BY <3>1, <3>2, <3>3
  <2>8. d1 = k + 1 + low
    <3>1. low \in Nat
      BY <1>l, <2>6, <2>7
    <3> HIDE DEF low
    <3> QED BY <2>4, <3>1
  <2>9. d1 \in Nat /\ d1 <= Len(source_row) /\ \A i \in k + 1 .. d1 : source_row[i] \notin Special3
    <3> HIDE DEF low, d1
    <3>1. d1 \in Nat /\ d1 <= Len(source_row)
      BY <1>l, <2>7, <2>8
    <3>2. ASSUME NEW i \in k + 1 .. d1, i # k + 1 PROVE source_row[i] \notin Special3
      <4>1. i - (k + 1) \in 1 .. low /\ (k + 1) + (i - (k + 1)) = i
        BY <2>7, <2>8, <3>2
      <4> QED BY <1>s, <2>7, <4>1
    <3> QED BY <1>s, <2>6, <3>1, <3>2
  <2>10. d2 \in Nat /\ d2 <= Len(source_row) /\ d2 >= d1 /\ \A i \in k + 1 .. d2 : source_row[i] \notin Special3
    <3>1. CASE ~comma
      <4> HIDE DEF low, d1
      <4> QED BY <2>9, <3>1
    <3>2. CASE comma
      <4> HIDE DEF low, d1
      <4>1. d1 + 1 \in 0 .. Len(source_row) /\ source_row[d1 + 1] = Comma
        <5>1. d1 + 1 \in 1 .. Len(source_row)
          BY <2>9, <3>2, AtProperties, OtherCharacters DEF R
        <5> QED BY <1>a, <1>l, <2>9, <3>2, <5>1
      <4>2. /\ Rest(source_row, d1 + 1) \in Seq(Characters)
            /\ Len(Rest(source_row, d1 + 1)) = Len(source_row) - (d1 + 1)
            /\ \A i \in 1 .. Len(source_row) - (d1 + 1) : Rest(source_row, d1 + 1)[i] = source_row[(d1 + 1) + i]
        BY <4>1, RestProperties
      <4>3. high = Run(Rest(source_row, d1 + 1), Digits) /\ d2 = d1 + 1 + high
        BY <3>2
      <4>4. high \in 0 .. Len(source_row) - (d1 + 1) /\ \A i \in 1 .. high : Rest(source_row, d1 + 1)[i] \in Digits
        <5>1. PICK t \in Seq(Characters) : t = Rest(source_row, d1 + 1)
          BY <4>2
        <5>2. Run(t, Digits) \in 0 .. Len(t) /\ \A i \in 1 .. Run(t, Digits) : t[i] \in Digits
          BY OtherCharacters, RunProperties
        <5> HIDE DEF high, d2, comma
        <5> QED BY <4>2, <4>3, <5>1, <5>2
      <4> HIDE DEF high, d2, comma
      <4>5. \A i \in 1 .. high : source_row[(d1 + 1) + i] \in Digits
        <5>1. \A i \in 1 .. high : i \in 1 .. Len(source_row) - (d1 + 1)
          BY <1>l, <2>9, <4>4
        <5> QED BY <4>2, <4>4, <5>1
      <4>6. d2 \in Nat /\ d2 <= Len(source_row) /\ d2 >= d1 /\ high \in Nat
        BY <1>l, <2>9, <4>3, <4>4
      <4>7. ASSUME NEW i \in k + 1 .. d2 PROVE source_row[i] \notin Special3
        <5>1. CASE i <= d1
          BY <2>9, <4>6, <5>1
        <5>2. CASE i = d1 + 1
          BY <1>s, <4>1, <5>2
        <5>3. CASE i > d1 + 1
          <6>1. i - (d1 + 1) \in 1 .. high /\ (d1 + 1) + (i - (d1 + 1)) = i
            BY <2>9, <4>3, <4>6, <5>3
          <6> QED BY <1>s, <4>5, <6>1
        <5> QED BY <2>9, <5>1, <5>2, <5>3
      <4> QED BY <4>6, <4>7
    <3> QED BY <3>1, <3>2
  <2>11. shut = d2 + 1 /\ R(d2 + 1) = RightBrace
    <3> HIDE DEF d2
    <3> QED BY <2>5
  <2> HIDE DEF low, d1, comma, high, d2, m1, m2, m3
  <2>12. Repetition(k).length = n /\ n \in {shut, shut + 1} /\ (n = shut + 1 => R(shut + 1) = "?")
    <3>1. Repetition(k).length = n
      BY <2>1
    <3> HIDE DEF shut
    <3>2. shut \in Nat
      BY <2>10, <2>11
    <3> QED BY <3>1, <3>2
  <2> HIDE DEF shut, n
  <2>13. n <= Len(source_row) /\ shut \in Nat /\ shut <= n /\ d2 + 1 <= Len(source_row)
    BY <1>l, <2>10, <2>11, <2>12
  <2>14. source_row[d2 + 1] = RightBrace
    BY <1>a, <2>10, <2>11, <2>13
  <2>15. n = shut + 1 => source_row[shut + 1] = "?"
    BY <1>a, <2>12, <2>13
  <2>16. ASSUME NEW i \in k + 1 .. n PROVE source_row[i] \notin Special3
    <3>1. CASE i <= d2
      BY <2>10, <2>12, <2>13, <3>1
    <3>2. CASE i = d2 + 1
      BY <1>s, <2>14, <3>2
    <3>3. CASE i = d2 + 2
      <4>1. n = shut + 1 /\ i = shut + 1
        BY <2>10, <2>11, <2>12, <2>13, <3>3
      <4> QED BY <1>s, <2>15, <4>1
    <3>4. i <= d2 \/ i = d2 + 1 \/ i = d2 + 2
      <4>1. PICK d \in Nat : d = d2
        BY <2>10
      <4>2. n \in {d + 1, d + 2} /\ i \in Int /\ i <= n
        BY <2>11, <2>12, <4>1
      <4>3. i <= d \/ i = d + 1 \/ i = d + 2
        BY <4>2
      <4> QED BY <4>1, <4>3
    <3> QED BY <3>1, <3>2, <3>3, <3>4
  <2> QED BY <2>12, <2>16
<1>3. CASE R(k + 1) \notin {"?", "+", "*", LeftBrace}
  <2>1. Repetition(k) = [length |-> k, said |-> <<>>]
    BY <1>3 DEF Repetition
  <2> QED BY <2>1
<1> QED BY <1>1, <1>2, <1>3

\* A step after which there are no errors has not stopped, and had none before.
LEMMA SaysSilent ==
  ASSUME TypeOK, Says, errors' = <<>>
  PROVE  errors = <<>>
<1>1. ASSUME NEW ms \in Seq(Keys), stop(ms) PROVE FALSE
  BY <1>1, StopLoud DEF TypeOK
<1>2. ASSUME NEW ms \in Seq(Keys), NEW then \in {"running", "ended"}, warn(ms, then) PROVE errors = <<>>
  BY <1>2, WarnSilent DEF TypeOK
<1>3. UNCHANGED report => errors' = errors
  BY DEF report
<1> QED BY <1>1, <1>2, <1>3 DEF Says

LEMMA NextSays ==
  ASSUME TypeOK, Next
  PROVE  Says
BY TokenSays, CommentSays, StringSays, RegexpSays, KlassSays DEF Next

\* Without a complaint, a character outside of a class takes with it what is
\* plain, or what it escapes.
LEMMA CharAsRead ==
  ASSUME TypeOK, AsRead, mode = "regexp", RegexpChar, errors' = <<>>, length' <= Len(source_row)
  PROVE  /\ \A k \in 0 .. length' : RegexpStates(source_row)[k] # "over"
         /\ RegexpStates(source_row)[length'] = "body"
<1> DEFINE c == R(length + 1)
           taken == length + Taken(c)
           said == CASE c = "\\" /\ R(length + 2) = NoCharacter -> <<"control_a">>
                     [] Special /\ taken = length + 2 -> <<"expected_a_b">>
                     [] c = ")" /\ depth = 0 -> <<"unescaped_a">>
                     [] c = Blank /\ Spaces > 0 -> <<"use_braces">>
                     [] c \in {"]", "?", LeftBrace, RightBrace, "+", "*"} -> <<"unescaped_a">>
                     [] OTHER -> <<>>
           after == IF c \in {"(", "|"} THEN [length |-> taken, said |-> <<>>] ELSE Repetition(taken)
           st == RegexpStates(source_row)
           L == Len(source_row)
<1>0. c \notin {NoCharacter, "/", "["} /\ length' = after.length /\ warn(said \o after.said, "running")
  BY DEF RegexpChar
<1>t. taken \in Nat /\ Spaces \in Nat /\ Taken(c) \in Nat \ {0}
  BY TakenType
<1>l. L \in Nat /\ length \in Nat /\ source_row \in Seq(Characters)
  BY LenProperties DEF TypeOK
<1>k. "control_a" \in Keys /\ "expected_a_b" \in Keys /\ "unescaped_a" \in Keys /\ "use_braces" \in Keys
  BY DEF Keys
<1>1. said \in Seq(Keys) /\ after.said \in Seq(Keys) /\ after.length >= taken /\ after.length \in Nat
  <2>1. said \in Seq(Keys)
    <3>1. /\ <<"unescaped_a">> \in Seq(Keys) /\ <<"control_a">> \in Seq(Keys) /\ <<"expected_a_b">> \in Seq(Keys)
          /\ <<"use_braces">> \in Seq(Keys) /\ <<>> \in Seq(Keys)
      BY <1>k, Messages
    <3> HIDE DEF c, taken
    <3> QED BY <3>1
  <2>2. Repetition(taken).said \in Seq(Keys) /\ Repetition(taken).length >= taken /\ Repetition(taken).length \in Nat
    <3> HIDE DEF taken
    <3> QED BY <1>t, <1>l, RepetitionTypes
  <2>3. <<>> \in Seq(Keys)
    BY Messages
  <2> HIDE DEF taken, said, c
  <2> QED BY <1>t, <2>1, <2>2, <2>3
<1>2. errors = <<>> /\ said = <<>> /\ after.said = <<>>
  <2> HIDE DEF said, after
  <2>1. said \o after.said \in Seq(Keys) /\ Len(said \o after.said) = Len(said) + Len(after.said)
    BY <1>1, ConcatProperties
  <2>2. errors = <<>> /\ said \o after.said = <<>>
    <3> DEFINE ms == said \o after.said
    <3>1. ms \in Seq(Keys) /\ warn(ms, "running") /\ ReportTypeOK(Keys)
      BY <1>0, <2>1 DEF TypeOK
    <3> HIDE DEF ms
    <3>2. errors = <<>> /\ ms = <<>>
      BY <3>1, WarnSilent
    <3> QED BY <3>2 DEF ms
  <2>3. Len(said) \in Nat /\ Len(after.said) \in Nat /\ Len(said \o after.said) = 0
    BY <1>1, <2>2, LenProperties
  <2>4. Len(said) = 0 /\ Len(after.said) = 0
    BY <2>1, <2>3
  <2> QED BY <1>1, <2>2, <2>4, EmptySeq
<1>3. length + 1 \in 1 .. L /\ source_row[length + 1] = c
  BY <1>0, <1>l, AtProperties DEF R
<1>4. st[length] = "body" /\ \A k \in 0 .. length : st[k] # "over"
  BY <1>2, <1>3, <1>l DEF AsRead
<1>5. taken <= L
  <2> HIDE DEF taken, after
  <2> QED BY <1>0, <1>1, <1>l, <1>t
<1>6. \A i \in 1 .. L : st[i] = RegexpStep(st[i - 1], source_row[i])
  BY <1>l, StatesProperties
<1>a. \A j \in 1 .. L : R(j) = source_row[j]
  BY <1>l, AtProperties DEF R
<1>7. st[taken] = "body" /\ \A k \in length .. taken : st[k] # "over"
  <2>1. CASE c = "\\"
    <3>1. taken = length + 2
      BY <2>1, OtherCharacters DEF Taken, Special
    <3>2. length + 1 \in 1 .. L /\ length + 2 \in 1 .. L /\ (length + 1) - 1 = length /\ (length + 2) - 1 = length + 1
      BY <1>l, <1>3, <1>5, <3>1
    <3>3. st[length + 1] = RegexpStep(st[length], source_row[length + 1])
      BY <1>6, <3>2
    <3>4. st[length + 2] = RegexpStep(st[length + 1], source_row[length + 2])
      BY <1>6, <3>2
    <3> HIDE DEF st, taken, L
    <3>5. st[length + 1] = "escape"
      BY <1>3, <1>4, <2>1, <3>3 DEF RegexpStep
    <3>6. st[length + 2] = "body"
      BY <3>4, <3>5 DEF RegexpStep
    <3>7. \A k \in length .. taken : k = length \/ k = length + 1 \/ k = length + 2
      BY <1>l, <3>1
    <3> QED BY <1>4, <3>1, <3>5, <3>6, <3>7
  <2>2. CASE c # "\\"
    <3>1. \A i \in length + 1 .. taken : source_row[i] \notin Special3
      <4>0. c \notin Special3
        BY <1>0, <2>2 DEF Special3
      <4>1. CASE Special
        <5>1. R(length + 1) = "(" /\ R(length + 2) = "?" /\ c # Blank
          BY <4>1, OtherCharacters DEF Special
        <5>2. Taken(c) = IF R(length + 3) \in {":", "="} THEN 3 ELSE 2
          BY <2>2, <4>1, <5>1 DEF Taken
        <5>3. taken # length + 2
          <6>1. ASSUME taken = length + 2 PROVE said # <<>>
            <7>1. c # ")" /\ c # "]"
              BY <5>1
            <7>2. c \notin {"]", "?", LeftBrace, RightBrace, "+", "*"}
              BY <5>1, OtherCharacters
            <7> HIDE DEF c, taken
            <7>3. said = <<"expected_a_b">>
              BY <2>2, <4>1, <5>1, <6>1, <7>1, <7>2
            <7> QED BY <7>3
          <6> QED BY <1>2, <6>1
        <5>4. taken = length + 3 /\ R(length + 3) \in {":", "="}
          BY <5>2, <5>3, <1>l
        <5>5. length + 2 \in 1 .. L /\ length + 3 \in 1 .. L
          BY <1>5, <1>l, <5>4
        <5>6. source_row[length + 2] = "?" /\ source_row[length + 3] \in {":", "="}
          BY <1>a, <5>1, <5>4, <5>5
        <5>7. \A i \in length + 1 .. length + 3 : i = length + 1 \/ i = length + 2 \/ i = length + 3
          BY <1>l
        <5> QED BY <1>3, <4>0, <5>4, <5>6, <5>7 DEF Special3
      <4>2. CASE ~Special
        <5>1. taken = length + 1
          <6>1. CASE c = Blank
            <7>1. c # ")" /\ c \notin {"]", "?", LeftBrace, RightBrace, "+", "*"} /\ Taken(c) = 1 + Spaces
              <8>1. Taken(c) = 1 + Spaces
                BY <2>2, <4>2, <6>1 DEF Taken
              <8>2. Blank \notin {LeftBrace, RightBrace}
                BY DEF Blank, LeftBrace, RightBrace
              <8> QED BY <6>1, <8>1, <8>2, OtherCharacters
            <7>2. Spaces > 0 => said = <<"use_braces">>
              <8> HIDE DEF c, taken
              <8> QED BY <2>2, <4>2, <6>1, <7>1
            <7>3. Spaces = 0
              <8> HIDE DEF said
              <8> QED BY <1>2, <1>t, <7>2
            <7> QED BY <1>l, <7>1, <7>3
          <6>2. CASE c # Blank
            BY <1>l, <2>2, <4>2, <6>2 DEF Taken
          <6> QED BY <6>1, <6>2
        <5> HIDE DEF taken
        <5>2. \A i \in length + 1 .. taken : i = length + 1
          BY <1>l, <5>1
        <5> QED BY <1>3, <4>0, <5>2
      <4> QED BY <4>1, <4>2
    <3>2. length \in 0 .. L /\ taken \in length .. L
      <4> DEFINE n == Taken(c)
      <4>1. n \in Nat \ {0} /\ length + n <= L
        BY <1>t, <1>5
      <4> HIDE DEF n
      <4>2. length + n \in length .. L
        BY <1>l, <4>1
      <4> QED BY <1>l, <1>3, <4>2 DEF n
    <3>3. \A i \in length .. taken : st[i] = "body"
      <4> HIDE DEF taken
      <4> QED BY <1>l, <1>4, <3>1, <3>2, PlainKeepsBody
    <3> HIDE DEF taken, st, L
    <3>4. taken \in length .. taken
      BY <1>l, <3>2
    <3> QED BY <3>3, <3>4
  <2> QED BY <2>1, <2>2
<1>8. \A i \in taken .. after.length : st[i] = "body"
  <2>1. CASE c \in {"(", "|"}
    <3>1. after.length = taken
      BY <2>1
    <3> HIDE DEF taken, after, st, c
    <3>2. \A i \in taken .. after.length : i = taken
      BY <1>t, <3>1
    <3> QED BY <1>7, <3>2
  <2>2. CASE c \notin {"(", "|"}
    <3>1. after = Repetition(taken)
      BY <2>2
    <3> HIDE DEF taken, after, c
    <3>2. \A i \in taken + 1 .. after.length : source_row[i] \notin Special3
      BY <1>0, <1>2, <1>l, <1>t, <3>1, RepetitionPlain
    <3>3. taken \in 0 .. Len(source_row) /\ after.length \in taken .. Len(source_row)
      BY <1>0, <1>1, <1>5, <1>l, <1>t
    <3> QED BY <1>7, <1>l, <3>2, <3>3, PlainKeepsBody
  <2> QED BY <2>1, <2>2
<1>9. \A k \in 0 .. after.length : k \in 0 .. length \/ k \in length .. taken \/ k \in taken .. after.length
  <2> HIDE DEF taken, after
  <2> QED BY <1>1, <1>l, <1>t
<1>10. after.length \in taken .. after.length
  <2> HIDE DEF taken, after
  <2> QED BY <1>1, <1>t
<1> HIDE DEF after, taken, st, c, L
<1>11. \A k \in 0 .. after.length : st[k] # "over"
  BY <1>4, <1>7, <1>8, <1>9
<1>12. st[after.length] = "body"
  BY <1>8, <1>10
<1> QED BY <1>0, <1>11, <1>12 DEF st

LEMMA OpenClassAsRead ==
  ASSUME TypeOK, AsRead, mode = "regexp", regexp, OpenClass, errors' = <<>>, length' <= Len(source_row)
  PROVE  /\ \A k \in 0 .. length' : RegexpStates(source_row)[k] # "over"
         /\ RegexpStates(source_row)[length'] = "class"
         /\ mode' = "class"
<1> DEFINE st == RegexpStates(source_row)
           L == Len(source_row)
           caret == R(length + 2) = "^"
<1>1. /\ R(length + 1) = "[" /\ length' = length + (IF caret THEN 2 ELSE 1) /\ mode' = "class"
  <2>1. <<"unescaped_a">> \in Seq(Keys)
    BY Messages DEF Keys
  <2>2. ~stop(<<"unescaped_a">>)
    BY <2>1, StopLoud DEF TypeOK
  <2> QED BY <2>2 DEF OpenClass
<1>2. errors = <<>>
  BY RegexpSays, SaysSilent
<1>l. L \in Nat /\ length \in Nat /\ source_row \in Seq(Characters)
  BY LenProperties DEF TypeOK
<1>3. length + 1 \in 1 .. L /\ source_row[length + 1] = "["
  BY <1>1, <1>l, AtProperties, OtherCharacters DEF R
<1>4. st[length] = "body" /\ \A k \in 0 .. length : st[k] # "over"
  BY <1>2, <1>3, <1>l DEF AsRead
<1>6. \A i \in 1 .. L : st[i] = RegexpStep(st[i - 1], source_row[i])
  BY <1>l, StatesProperties
<1>7. st[length + 1] = "class"
  <2>1. (length + 1) - 1 = length
    BY <1>l
  <2> HIDE DEF st
  <2>2. st[length + 1] = RegexpStep("body", "[")
    BY <1>3, <1>4, <1>6, <2>1
  <2> QED BY <2>2 DEF RegexpStep
<1>8. CASE caret
  <2>1. length' = length + 2 /\ length + 2 \in 1 .. L /\ (length + 2) - 1 = length + 1
    BY <1>1, <1>8, <1>l
  <2>2. source_row[length + 2] = "^"
    BY <1>8, <1>l, <2>1, AtProperties DEF R
  <2> HIDE DEF st
  <2>3. st[length + 2] = RegexpStep("class", "^")
    BY <1>6, <1>7, <2>1, <2>2
  <2>4. st[length + 2] = "class"
    BY <2>3 DEF RegexpStep
  <2>5. \A k \in 0 .. length + 2 : k \in 0 .. length \/ k = length + 1 \/ k = length + 2
    BY <1>l
  <2> QED BY <1>1, <1>4, <1>7, <2>1, <2>4, <2>5 DEF st
<1>9. CASE ~caret
  <2>1. length' = length + 1
    BY <1>1, <1>9
  <2> HIDE DEF st
  <2>2. \A k \in 0 .. length + 1 : k \in 0 .. length \/ k = length + 1
    BY <1>l
  <2> QED BY <1>1, <1>4, <1>7, <2>1, <2>2 DEF st
<1> QED BY <1>8, <1>9

LEMMA KlassAsRead ==
  ASSUME TypeOK, AsRead, klass, errors' = <<>>, length' <= Len(source_row)
  PROVE  /\ \A k \in 0 .. length' : RegexpStates(source_row)[k] # "over"
         /\ RegexpStates(source_row)[length'] = IF mode' = "regexp" THEN "body" ELSE "class"
<1> DEFINE c == R(length + 1)
           over == c \in {NoCharacter, "]"}
           taken == IF c = "\\" THEN length + 2 ELSE length + 1
           said == CASE c = "]" /\ ~bit -> <<"unescaped_a">>
                     [] c \in {"[", "^", "/"} -> <<"unescaped_a">>
                     [] c = "\\" /\ R(length + 2) = NoCharacter -> <<"control_a">>
                     [] OTHER -> <<>>
           after == IF over THEN Repetition(taken) ELSE [length |-> taken, said |-> <<>>]
           st == RegexpStates(source_row)
           L == Len(source_row)
<1>0. /\ mode = "class" /\ length' = after.length /\ warn(said \o after.said, "running")
      /\ mode' = IF over THEN "regexp" ELSE "class"
  BY DEF klass
<1>l. L \in Nat /\ length \in Nat /\ source_row \in Seq(Characters)
  BY LenProperties DEF TypeOK
<1>t. taken \in Nat /\ taken >= length + 1
  BY <1>l
<1>1. said \in Seq(Keys) /\ after.said \in Seq(Keys) /\ after.length >= taken /\ after.length \in Nat
  <2>1. said \in Seq(Keys)
    <3>1. <<"unescaped_a">> \in Seq(Keys) /\ <<"control_a">> \in Seq(Keys) /\ <<>> \in Seq(Keys)
      BY Messages DEF Keys
    <3> HIDE DEF c
    <3> QED BY <3>1
  <2>2. Repetition(taken).said \in Seq(Keys) /\ Repetition(taken).length >= taken /\ Repetition(taken).length \in Nat
    <3> HIDE DEF taken
    <3> QED BY <1>t, <1>l, RepetitionTypes
  <2>3. <<>> \in Seq(Keys)
    BY Messages
  <2> HIDE DEF taken, said, over
  <2> QED BY <1>t, <2>1, <2>2, <2>3
<1>2. errors = <<>> /\ said = <<>> /\ after.said = <<>>
  <2> HIDE DEF said, after
  <2>1. said \o after.said \in Seq(Keys) /\ Len(said \o after.said) = Len(said) + Len(after.said)
    BY <1>1, ConcatProperties
  <2>2. errors = <<>> /\ said \o after.said = <<>>
    <3> DEFINE ms == said \o after.said
    <3>1. ms \in Seq(Keys) /\ warn(ms, "running") /\ ReportTypeOK(Keys)
      BY <1>0, <2>1 DEF TypeOK
    <3> HIDE DEF ms
    <3>2. errors = <<>> /\ ms = <<>>
      BY <3>1, WarnSilent
    <3> QED BY <3>2 DEF ms
  <2>3. Len(said) \in Nat /\ Len(after.said) \in Nat /\ Len(said \o after.said) = 0
    BY <1>1, <2>2, LenProperties
  <2>4. Len(said) = 0 /\ Len(after.said) = 0
    BY <2>1, <2>3
  <2> QED BY <1>1, <2>2, <2>4, EmptySeq
<1>5. taken <= L
  <2> HIDE DEF taken, after
  <2> QED BY <1>0, <1>1, <1>l, <1>t
<1>3. length + 1 \in 1 .. L /\ source_row[length + 1] = c /\ c # NoCharacter
  <2>1. length + 1 \in 1 .. L
    <3> HIDE DEF taken
    <3> QED BY <1>5, <1>l, <1>t
  <2> QED BY <1>l, <2>1, AtProperties DEF R
<1>4. st[length] = "class" /\ \A k \in 0 .. length : st[k] # "over"
  BY <1>0, <1>2, <1>3, <1>l DEF AsRead
<1>6. \A i \in 1 .. L : st[i] = RegexpStep(st[i - 1], source_row[i])
  BY <1>l, StatesProperties
<1>7. st[length + 1] = RegexpStep("class", c)
  <2>1. (length + 1) - 1 = length
    BY <1>l
  <2> HIDE DEF st, c
  <2> QED BY <1>3, <1>4, <1>6, <2>1
<1>8. CASE c = "\\"
  <2>1. length' = length + 2 /\ mode' = "class" /\ taken = length + 2
    BY <1>0, <1>8, OtherCharacters
  <2>2. length + 2 \in 1 .. L /\ (length + 2) - 1 = length + 1
    BY <1>l, <1>5, <2>1
  <2> HIDE DEF st
  <2>3. st[length + 1] = "classEscape"
    BY <1>7, <1>8 DEF RegexpStep
  <2>4. st[length + 2] = RegexpStep("classEscape", source_row[length + 2])
    BY <1>6, <2>2, <2>3
  <2>5. st[length + 2] = "class"
    BY <2>4 DEF RegexpStep
  <2>6. \A k \in 0 .. length + 2 : k \in 0 .. length \/ k = length + 1 \/ k = length + 2
    BY <1>l
  <2> QED BY <1>4, <2>1, <2>3, <2>5, <2>6 DEF st
<1>9. CASE c = "]"
  <2>1. mode' = "regexp" /\ taken = length + 1 /\ after = Repetition(taken)
    BY <1>0, <1>9
  <2> HIDE DEF st, taken, after, c
  <2>2. st[taken] = "body"
    BY <1>7, <1>9, <2>1 DEF RegexpStep
  <2>3. \A i \in taken + 1 .. after.length : source_row[i] \notin Special3
    BY <1>0, <1>2, <1>l, <1>t, <2>1, RepetitionPlain
  <2>4. taken \in 0 .. L /\ after.length \in taken .. L
    BY <1>0, <1>1, <1>5, <1>l, <1>t
  <2>5. \A i \in taken .. after.length : st[i] = "body"
    BY <1>l, <2>2, <2>3, <2>4, PlainKeepsBody DEF st
  <2>6. \A k \in 0 .. after.length : k \in 0 .. length \/ k \in taken .. after.length
    BY <1>l, <2>1, <2>4
  <2>7. after.length \in taken .. after.length
    BY <1>l, <2>4
  <2>8. \A k \in 0 .. after.length : st[k] # "over"
    BY <1>4, <2>5, <2>6
  <2> QED BY <1>0, <2>1, <2>5, <2>7, <2>8 DEF st
<1>10. CASE c \notin {"\\", "]"}
  <2>1. length' = length + 1 /\ mode' = "class"
    BY <1>0, <1>3, <1>10
  <2> HIDE DEF st, c
  <2>2. st[length + 1] = "class"
    BY <1>7, <1>10 DEF RegexpStep
  <2>3. \A k \in 0 .. length + 1 : k \in 0 .. length \/ k = length + 1
    BY <1>l
  <2> QED BY <1>4, <2>1, <2>2, <2>3 DEF st
<1> QED BY <1>8, <1>9, <1>10

\* From step to step, what is read of a regular expression leaves the language inside it.
LEMMA AsReadKept ==
  ASSUME TypeOK, AsRead, Next
  PROVE  AsRead'
<1> SUFFICES ASSUME errors' = <<>>, length' <= Len(source_row'), mode' \in {"regexp", "class"}
             PROVE  /\ \A k \in 0 .. length' : RegexpStates(source_row')[k] # "over"
                    /\ RegexpStates(source_row')[length'] = IF mode' = "regexp" THEN "body" ELSE "class"
  BY DEF AsRead
<1>1. errors = <<>>
  BY NextSays, SaysSilent
<1>2. CASE token
  <2>m. mode = "token"
    BY <1>2 DEF token
  <2>1. mode' = "regexp" /\ length' = 0
    <3>1. CASE EndOfRow \/ EndOfText \/ NoMatch
      BY <2>m, <3>1 DEF EndOfRow, EndOfText, NoMatch, lexed
    <3>2. ASSUME NEW k, Word(k) \/ number(k) \/ Punctuator(k) \/ LineComment(k) \/ OpenComment(k) \/ OpenString(k)
          PROVE  FALSE
      BY <2>m, <3>2 DEF Word, number, Punctuator, LineComment, OpenComment, OpenString
    <3>3. ASSUME NEW k, Slash(k) PROVE mode' = "regexp" /\ length' = 0
      BY <2>m, <3>3 DEF Slash
    <3> QED BY <1>2, <3>1, <3>2, <3>3 DEF token
  <2>2. source_row' \in Seq(Characters)
    BY NextTypes DEF TypeOK
  <2>3. RegexpStates(source_row')[0] = "body"
    BY <2>2, StatesProperties
  <2> QED BY <2>1, <2>3
<1>3. CASE comment \/ string
  <2>1. mode \in {"comment", "string"} /\ mode' \in {mode, "token"}
    BY <1>3 DEF comment, string
  <2> QED BY <2>1
<1>4. CASE regexp
  <2>m. mode = "regexp" /\ Says
    BY <1>4, NextSays DEF regexp
  <2>1. CASE RegexpEnd
    <3> DEFINE ms == IF depth > 0 THEN <<"unescaped_a">> ELSE <<>>
    <3>1. stop(ms \o <<"unexpected_a">>) \/ stop(ms \o <<"confusing_regexp">>)
      BY <2>1 DEF RegexpEnd
    <3>2. "unescaped_a" \in Keys /\ <<"unexpected_a">> \in Seq(Keys) /\ <<"confusing_regexp">> \in Seq(Keys)
      BY Messages DEF Keys
    <3>3. ms \in Seq(Keys)
      BY <3>2, IfMessage
    <3> HIDE DEF ms
    <3>4. ms \o <<"unexpected_a">> \in Seq(Keys) /\ ms \o <<"confusing_regexp">> \in Seq(Keys)
      BY <3>2, <3>3, Messages
    <3>5. errors' # <<>>
      BY <3>1, <3>4, StopLoud DEF TypeOK
    <3> QED BY <3>5
  <2>2. CASE RegexpChar
    <3>1. UNCHANGED <<source_row, mode>>
      BY <2>2 DEF RegexpChar
    <3> QED BY <2>m, <2>2, <3>1, CharAsRead
  <2>3. CASE OpenClass
    <3>1. UNCHANGED source_row
      BY <2>3 DEF OpenClass
    <3> QED BY <1>4, <2>m, <2>3, <3>1, OpenClassAsRead
  <2>4. CASE Unclosed
    <3>1. <<"unclosed_regexp">> \in Seq(Keys) /\ stop(<<"unclosed_regexp">>)
      BY <2>4, Messages DEF Keys, Unclosed
    <3> QED BY <3>1, StopLoud DEF TypeOK
  <2> QED BY <1>4, <2>1, <2>2, <2>3, <2>4 DEF regexp
<1>5. CASE klass
  <2>1. UNCHANGED source_row
    BY <1>5 DEF klass
  <2> QED BY <1>5, <2>1, KlassAsRead
<1> QED BY <1>2, <1>3, <1>4, <1>5 DEF Next

\* A text read as a regular expression without a complaint is one to its end.
LEMMA TextAsRead ==
  ASSUME TypeOK, AsRead, errors = <<>>, mode = "regexp", length \in 0 .. Len(source_row)
  PROVE  LET text == SubSeq(source_row, 1, length)
             states == RegexpStates(text)
         IN  states[Len(text)] = "body" /\ \A k \in DOMAIN states : states[k] # "over"
<1> DEFINE text == SubSeq(source_row, 1, length)
<1>1. text \in Seq(Characters) /\ Len(text) = length /\ source_row \in Seq(Characters) /\ length <= Len(source_row)
  BY PrefixProperties, LenProperties DEF TypeOK
<1>2. DOMAIN RegexpStates(text) = 0 .. length
  BY <1>1, StatesProperties
<1>3. /\ RegexpStates(source_row)[length] = "body"
      /\ \A k \in 0 .. length : RegexpStates(source_row)[k] # "over"
  BY <1>1 DEF AsRead
<1>4. \A k \in 0 .. length : RegexpStates(text)[k] = RegexpStates(source_row)[k]
  BY <1>1, StatesOfPrefix
<1>5. length \in 0 .. length
  BY LenProperties DEF TypeOK
<1> QED BY <1>1, <1>2, <1>3, <1>4, <1>5

LEMMA RegexpsKept ==
  ASSUME TypeOK, AsRead, RegexpEndsAtItsSlash, Next
  PROVE  RegexpEndsAtItsSlash'
<1> SUFFICES ASSUME errors' = <<>>, NEW i \in 1 .. Len(pieces'), pieces'[i].kind = "regexp"
             PROVE  LET states == RegexpStates(pieces'[i].text)
                    IN  /\ states[Len(pieces'[i].text)] = "body"
                        /\ \A k \in DOMAIN states : states[k] # "over"
  BY DEF RegexpEndsAtItsSlash
<1>1. errors = <<>>
  BY NextSays, SaysSilent
<1>2. CASE i \in 1 .. Len(pieces) /\ pieces'[i] = pieces[i]
  BY <1>1, <1>2 DEF RegexpEndsAtItsSlash
<1>3. CASE UNCHANGED pieces
  BY <1>2, <1>3
<1>4. ASSUME NEW p, pieces' = Append(pieces, p),
             p.kind = "regexp" => mode = "regexp" /\ length \in 0 .. Len(source_row)
                                  /\ p.text = SubSeq(source_row, 1, length)
      PROVE  LET states == RegexpStates(pieces'[i].text)
             IN  /\ states[Len(pieces'[i].text)] = "body"
                 /\ \A k \in DOMAIN states : states[k] # "over"
  <2>1. /\ Len(pieces) \in Nat /\ Len(pieces') = Len(pieces) + 1 /\ pieces'[Len(pieces) + 1] = p
        /\ \A j \in 1 .. Len(pieces) : pieces'[j] = pieces[j]
    BY <1>4, AppendPieces
  <2>2. CASE i = Len(pieces) + 1
    <3>1. pieces'[i].text = SubSeq(source_row, 1, length) /\ mode = "regexp" /\ length \in 0 .. Len(source_row)
      BY <1>4, <2>1, <2>2
    <3> QED BY <1>1, <3>1, TextAsRead
  <2>3. CASE i # Len(pieces) + 1
    BY <1>2, <2>1, <2>3
  <2> QED BY <2>2, <2>3
<1>5. CASE regexp
  <2>1. \/ UNCHANGED pieces
        \/ RegexpEnd /\ it("regexp", SubSeq(source_row, 1, length))
    BY <1>5 DEF regexp, RegexpEnd, RegexpChar, OpenClass, Unclosed
  <2>2. CASE RegexpEnd /\ it("regexp", SubSeq(source_row, 1, length))
    <3> DEFINE p == [kind |-> "regexp", text |-> SubSeq(source_row, 1, length), line |-> line, begun |-> begun',
                     from |-> from', thru |-> character']
    <3>1. pieces' = Append(pieces, p)
      BY <2>2 DEF it
    <3>2. R(length + 1) = "/" /\ mode = "regexp"
      BY <1>5, <2>2 DEF RegexpEnd, regexp
    <3>3. length \in 0 .. Len(source_row)
      BY <3>2, RegexpEndProperties
    <3> QED BY <1>4, <3>1, <3>2, <3>3
  <2> QED BY <1>3, <2>1, <2>2
<1>6. CASE ~regexp
  <2>m. mode # "regexp"
    BY <1>6 DEF Next, token, comment, string, klass
  <2>1. ASSUME NEW kind \in Kinds \ {"comment"}, NEW text, Ends(kind, text)
        PROVE  LET states == RegexpStates(pieces'[i].text)
               IN  /\ states[Len(pieces'[i].text)] = "body"
                   /\ \A k \in DOMAIN states : states[k] # "over"
    <3> DEFINE p == [kind |-> kind, text |-> text, line |-> line, begun |-> begun', from |-> from', thru |-> character']
    <3>1. pieces' = Append(pieces, p) /\ p.kind # "regexp"
      BY <2>1, <2>m DEF Ends, it
    <3> QED BY <1>4, <3>1
  <2>2. ASSUME NEW thru, Comment(thru)
        PROVE  LET states == RegexpStates(pieces'[i].text)
               IN  /\ states[Len(pieces'[i].text)] = "body"
                   /\ \A k \in DOMAIN states : states[k] # "over"
    <3> DEFINE p == [kind |-> "comment", text |-> <<>>, line |-> line, begun |-> begun', from |-> from', thru |-> thru]
    <3>1. pieces' = Append(pieces, p) /\ p.kind # "regexp"
      BY <2>2 DEF Comment
    <3> QED BY <1>4, <3>1
  <2> QED BY <1>3, <2>1, <2>2, PieceSteps
<1> QED BY <1>5, <1>6

(***************************** the pieces ***********************************)

LEMMA AheadType ==
  \A l : Ahead(l) \in {0, 1}
BY DEF Ahead

LEMMA AheadNone ==
  ASSUME NEW l, \A i \in 1 .. Len(pieces) : pieces[i].line # l
  PROVE  Ahead(l) = 0
BY DEF Ahead

LEMMA PieceFields ==
  ASSUME TypeOK
  PROVE  \A i \in 1 .. Len(pieces) : /\ pieces[i] \in Piece
                                     /\ pieces[i].line \in Nat /\ pieces[i].begun \in Nat
                                     /\ pieces[i].from \in Nat /\ pieces[i].thru \in Nat
<1>1. \A i \in 1 .. Len(pieces) : pieces[i] \in Piece
  BY ElementOfSeq DEF TypeOK
<1> QED BY <1>1 DEF Piece

\* What a new piece changes of the columns: those of a line into which a string
\* is continued.
LEMMA AheadAppend ==
  ASSUME TypeOK, NEW p, pieces' = Append(pieces, p), NEW l
  PROVE  Ahead(l)' = IF p.line = l /\ p.begun < l /\ p.kind = "string" THEN 1 ELSE Ahead(l)
<1>1. /\ Len(pieces) \in Nat /\ Len(pieces') = Len(pieces) + 1 /\ pieces'[Len(pieces) + 1] = p
      /\ \A i \in 1 .. Len(pieces) : pieces'[i] = pieces[i]
  BY AppendPieces
<1> DEFINE Into(q) == q.line = l /\ q.begun < l /\ q.kind = "string"
           Old == \E i \in 1 .. Len(pieces) : Into(pieces[i])
           New == \E i \in 1 .. Len(pieces') : Into(pieces'[i])
<1>2. Ahead(l) = IF Old THEN 1 ELSE 0
  BY DEF Ahead
<1>3. Ahead(l)' = IF New THEN 1 ELSE 0
  BY DEF Ahead
<1>4. New <=> Old \/ Into(p)
  <2> HIDE DEF Into
  <2>1. ASSUME NEW i \in 1 .. Len(pieces'), Into(pieces'[i]) PROVE Old \/ Into(p)
    <3>1. i \in 1 .. Len(pieces) \/ i = Len(pieces) + 1
      BY <1>1
    <3> QED BY <1>1, <2>1, <3>1
  <2>2. ASSUME NEW i \in 1 .. Len(pieces), Into(pieces[i]) PROVE New
    <3>1. i \in 1 .. Len(pieces') /\ pieces'[i] = pieces[i]
      BY <1>1
    <3> QED BY <2>2, <3>1
  <2>3. ASSUME Into(p) PROVE New
    <3>1. Len(pieces) + 1 \in 1 .. Len(pieces')
      BY <1>1
    <3> QED BY <1>1, <2>3, <3>1
  <2> QED BY <2>1, <2>2, <2>3
<1> HIDE DEF Old, New
<1> QED BY <1>2, <1>3, <1>4

\* A new piece that begins where the others have ended leaves their columns where they are.
LEMMA ColumnsKeep ==
  ASSUME TypeOK, NEW p \in Piece, pieces' = Append(pieces, p), UNCHANGED lines
  PROVE  /\ \A l \in Nat : l <= p.begun => Ahead(l)' = Ahead(l)
         /\ \A q \in Piece, l \in Nat : q.line <= p.begun => Columns(q, l)' = Columns(q, l)
<1>1. \A l \in Nat : Ahead(l)' = IF p.line = l /\ p.begun < l /\ p.kind = "string" THEN 1 ELSE Ahead(l)
  BY AheadAppend
<1>2. p.line \in Nat /\ p.begun \in Nat
  BY DEF Piece
<1>3. \A l \in Nat : l <= p.begun => Ahead(l)' = Ahead(l)
  BY <1>1, <1>2
<1>4. ASSUME NEW q \in Piece, NEW l \in Nat, q.line <= p.begun PROVE Columns(q, l)' = Columns(q, l)
  <2>1. q.line \in Nat /\ q.begun \in Nat /\ q.from \in Nat /\ q.thru \in Nat
    BY DEF Piece
  <2>2. CASE l <= p.begun
    BY <1>3, <2>2 DEF Columns, Start, Stop
  <2>3. CASE l > p.begun
    BY <1>2, <1>4, <2>1, <2>3 DEF Columns
  <2> QED BY <1>2, <2>2, <2>3
<1> QED BY <1>3, <1>4

\* What was dealt with stays so.
LEMMA CoveredKeep ==
  ASSUME TypeOK, NEW p \in Piece, pieces' = Append(pieces, p), UNCHANGED lines,
         \A i \in 1 .. Len(pieces) : pieces[i].line <= p.begun
  PROVE  /\ \A l \in Nat, n \in Int : Covered(l, n) => Covered(l, n)'
         /\ \A l \in 1 .. Len(lines) : Dealt(l) => Dealt(l)'
<1>1. /\ Len(pieces) \in Nat /\ Len(pieces') = Len(pieces) + 1
      /\ \A i \in 1 .. Len(pieces) : pieces'[i] = pieces[i]
  BY AppendPieces
<1>2. \A i \in 1 .. Len(pieces), l \in Nat : Columns(pieces[i], l)' = Columns(pieces[i], l)
  <2>1. \A i \in 1 .. Len(pieces) : pieces[i] \in Piece
    BY PieceFields
  <2>2. ASSUME NEW i \in 1 .. Len(pieces), NEW l \in Nat PROVE Columns(pieces[i], l)' = Columns(pieces[i], l)
    <3>1. PICK q \in Piece : q = pieces[i]
      BY <2>1
    <3>2. Columns(q, l)' = Columns(q, l)
      BY <3>1, ColumnsKeep
    <3>3. pieces'[i] = q
      BY <1>1, <3>1
    <3> QED BY <3>1, <3>2, <3>3
  <2> QED BY <2>2
<1>3. ASSUME NEW l \in Nat, NEW n \in Int, Covered(l, n) PROVE Covered(l, n)'
  <2> SUFFICES ASSUME NEW c \in 1 .. n, lines[l][c] # Blank
               PROVE  \E i \in 1 .. Len(pieces') : c \in Columns(pieces[i], l)'
    BY DEF Covered
  <2>1. PICK i \in 1 .. Len(pieces) : c \in Columns(pieces[i], l)
    BY <1>3 DEF Covered
  <2>2. c \in Columns(pieces[i], l)' /\ i \in 1 .. Len(pieces')
    BY <1>1, <1>2, <2>1
  <2> QED BY <2>2
<1>4. ASSUME NEW l \in 1 .. Len(lines), Dealt(l) PROVE Dealt(l)'
  <2>1. GivenUp(l) => GivenUp(l)'
    BY DEF GivenUp
  <2>2. ASSUME Covered(l, Len(lines[l])) PROVE Covered(l, Len(lines[l]))'
    <3>1. PICK n \in Nat : n = Len(lines[l])
      BY LinesType
    <3>2. Covered(l, n)'
      BY <1>3, <2>2, <3>1
    <3> QED BY <3>1, <3>2
  <2> QED BY <1>4, <2>1, <2>2 DEF Dealt
<1> QED BY <1>3, <1>4

\* A piece that begins where the text was dealt with up to, and ends within its
\* line: the text is dealt with up to its end.
LEMMA AppendKeeps ==
  ASSUME TypeOK, AllPlaced,
         NEW b \in 1 .. Len(lines), NEW f \in Nat, UpTo(b, f),
         NEW p \in Piece, pieces' = Append(pieces, p), UNCHANGED lines,
         p.begun = b, p.from = f, p.line \in b .. Len(lines),
         p.line = b => f <= p.thru,
         p.thru - Ahead(p.line)' \in 1 .. Len(lines[p.line]) + 1,
         p.kind \in Verbatim =>
           p.line = b /\ p.text = SubSeq(lines[b], f - Ahead(b), p.thru - 1 - Ahead(b))
  PROVE  AllPlaced' /\ UpTo(p.line, p.thru)'
<1> DEFINE e == p.line
<1>n. PICK n \in Nat : n = Len(pieces)
  BY AppendPieces
<1>1. /\ n \in Nat /\ Len(pieces') = n + 1 /\ pieces'[n + 1] = p
      /\ \A i \in 1 .. n : pieces'[i] = pieces[i]
  BY <1>n, AppendPieces
<1>l. /\ Len(lines) \in Nat \ {0} /\ b \in Nat /\ e \in Nat /\ b <= e /\ e <= Len(lines) /\ 1 <= b /\ p.thru \in Nat
      /\ Len(lines[e]) \in Nat /\ Len(lines[b]) \in Nat
  <2>1. Len(lines) \in Nat \ {0} /\ \A l \in 1 .. Len(lines) : Len(lines[l]) \in Nat
    BY LinesType
  <2>2. e \in 1 .. Len(lines)
    BY <2>1
  <2> QED BY <2>1, <2>2 DEF Piece
<1>u. /\ f - Ahead(b) \in 1 .. Len(lines[b]) + 1
      /\ \A i \in 1 .. n : pieces[i].line < b \/ (pieces[i].line = b /\ pieces[i].thru <= f)
      /\ \A l \in 1 .. b - 1 : Dealt(l)
      /\ Covered(b, f - Ahead(b) - 1)
  BY <1>n DEF UpTo
<1>f. \A i \in 1 .. n : /\ pieces[i] \in Piece /\ pieces[i].line \in Nat /\ pieces[i].begun \in Nat
                       /\ pieces[i].from \in Nat /\ pieces[i].thru \in Nat
  BY <1>n, PieceFields
<1>b. \A i \in 1 .. n : pieces[i].line <= p.begun
  <2>1. ASSUME NEW i \in 1 .. n PROVE pieces[i].line <= b
    <3>1. pieces[i].line \in Nat /\ b \in Nat
      BY <1>f, <1>l
    <3>2. pieces[i].line < b \/ pieces[i].line = b
      BY <1>u
    <3> QED BY <3>1, <3>2
  <2>2. p.begun = b
    OBVIOUS
  <2> QED BY <2>1, <2>2
<1>s. \A l \in Nat : Ahead(l) \in {0, 1} /\ Ahead(l)' \in {0, 1} /\ (l <= b => Ahead(l)' = Ahead(l))
  <2>1. \A l \in Nat : l <= b => Ahead(l)' = Ahead(l)
    BY ColumnsKeep
  <2>2. \A l : Ahead(l)' \in {0, 1}
    BY DEF Ahead
  <2> QED BY <2>1, <2>2, AheadType
<1>2. ASSUME NEW i \in 1 .. n PROVE Placed(i)'
  <2>1. PICK q \in Piece : q = pieces[i]
    BY <1>f
  <2>2. /\ 1 <= q.begun /\ q.begun <= q.line /\ q.line <= Len(lines)
        /\ 1 <= q.from - Ahead(q.begun) /\ q.thru - 1 - Ahead(q.line) <= Len(lines[q.line])
        /\ \A j \in 1 .. i - 1 : \/ pieces[j].line < q.begun
                                 \/ pieces[j].line = q.begun /\ pieces[j].thru <= q.from
        /\ q.kind \in Verbatim =>
             q.text = SubSeq(lines[q.line], Start(q, q.line), Stop(q, q.line))
    BY <1>n, <2>1 DEF AllPlaced, Placed
  <2>3. q.line \in Nat /\ q.begun \in Nat /\ q.line <= b /\ q.begun <= b
    <3>1. q.line \in Nat /\ q.begun \in Nat /\ b \in Nat
      BY <1>f, <1>l, <2>1
    <3>2. q.line <= p.begun /\ p.begun = b
      BY <1>b, <2>1
    <3>3. q.line <= b
      BY <3>2
    <3> QED BY <2>2, <3>1, <3>3
  <2>4. pieces'[i] = q /\ \A j \in 1 .. i - 1 : pieces'[j] = pieces[j]
    BY <1>1, <2>1
  <2>5. Ahead(q.begun)' = Ahead(q.begun) /\ Ahead(q.line)' = Ahead(q.line)
    BY <1>s, <2>3
  <2>6. Start(q, q.line)' = Start(q, q.line) /\ Stop(q, q.line)' = Stop(q, q.line)
    BY <2>5 DEF Start, Stop
  <2> QED BY <2>2, <2>4, <2>5, <2>6 DEF Placed
<1>3. Placed(n + 1)'
  <2>1. 1 <= p.begun /\ p.begun <= e /\ e <= Len(lines)
    BY <1>l
  <2>2. Ahead(b)' = Ahead(b) /\ Ahead(e)' \in {0, 1} /\ Ahead(b) \in {0, 1}
    BY <1>l, <1>s
  <2>3. 1 <= p.from - Ahead(p.begun)' /\ p.thru - 1 - Ahead(e)' <= Len(lines[e])
    <3>1. 1 <= f - Ahead(b) /\ p.begun = b /\ p.from = f
      BY <1>u
    <3>2. PICK s \in {0, 1} : s = Ahead(e)'
      BY <2>2
    <3>3. PICK t \in Nat : t = p.thru
      BY <1>l
    <3>4. PICK m \in Nat : m = Len(lines[e])
      BY <1>l
    <3>5. t - s \in 1 .. m + 1
      BY <3>2, <3>3, <3>4
    <3>6. t - 1 - s <= m
      BY <3>5
    <3> QED BY <2>2, <3>1, <3>2, <3>3, <3>4, <3>6
  <2>4. \A j \in 1 .. n : \/ pieces'[j].line < p.begun
                          \/ pieces'[j].line = p.begun /\ pieces'[j].thru <= p.from
    BY <1>1, <1>u
  <2>5. ASSUME p.kind \in Verbatim PROVE p.text = SubSeq(lines[e], Start(p, e)', Stop(p, e)')
    <3>1. e = b /\ p.text = SubSeq(lines[b], f - Ahead(b), p.thru - 1 - Ahead(b))
      BY <2>5
    <3>2. Start(p, e)' = f - Ahead(b) /\ Stop(p, e)' = p.thru - 1 - Ahead(b)
      BY <1>l, <2>2, <3>1 DEF Start, Stop
    <3> QED BY <3>1, <3>2
  <2>6. pieces'[n + 1] = p /\ (n + 1) - 1 = n /\ lines' = lines
    BY <1>1
  <2> QED BY <2>1, <2>3, <2>4, <2>5, <2>6 DEF Placed
<1>4. \A i \in 1 .. Len(pieces') : Placed(i)'
  <2>1. \A i \in 1 .. Len(pieces') : i \in 1 .. n \/ i = n + 1
    BY <1>1
  <2> QED BY <1>2, <1>3, <2>1
<1>c. /\ \A l \in Nat, m \in Int : Covered(l, m) => Covered(l, m)'
      /\ \A l \in 1 .. Len(lines) : Dealt(l) => Dealt(l)'
  BY <1>b, <1>n, CoveredKeep
<1>p. /\ \A l \in Nat : b < l /\ l < e => Columns(p, l)' = 1 .. Len(lines[l])
      /\ b < e => Columns(p, b)' = f - Ahead(b) .. Len(lines[b])
      /\ b < e => Columns(p, e)' = 1 .. p.thru - 1 - Ahead(e)'
      /\ b = e => Columns(p, e)' = f - Ahead(b) .. p.thru - 1 - Ahead(e)'
  BY <1>l, <1>s DEF Columns, Start, Stop
<1>5. \A i \in 1 .. Len(pieces') : pieces'[i].line < e \/ (pieces'[i].line = e /\ pieces'[i].thru <= p.thru)
  <2>1. ASSUME NEW i \in 1 .. n PROVE pieces'[i].line < e \/ (pieces'[i].line = e /\ pieces'[i].thru <= p.thru)
    <3>1. pieces'[i] = pieces[i]
      BY <1>1
    <3>2. pieces[i].line \in Nat /\ b \in Nat /\ e \in Nat /\ b <= e
      BY <1>f, <1>l
    <3>3. pieces[i].line < b \/ (pieces[i].line = b /\ pieces[i].thru <= f)
      BY <1>u
    <3>4. pieces[i].thru \in Nat /\ p.thru \in Nat /\ (e = b => f <= p.thru)
      BY <1>f, <1>l
    <3> DEFINE k == pieces[i].line
               t == pieces[i].thru
    <3> HIDE DEF k, t, e
    <3>5. CASE b < e
      <4>1. k < e
        BY <3>2, <3>3, <3>5 DEF k
      <4> QED BY <3>1, <4>1 DEF k
    <3>6. CASE b = e
      <4>1. PICK m \in Nat : m = p.thru /\ f <= m
        BY <3>4, <3>6 DEF e
      <4>2. k < e \/ (k = e /\ t <= m)
        BY <3>2, <3>3, <3>4, <3>6, <4>1 DEF k, t
      <4>3. CASE k < e
        BY <3>1, <4>3 DEF k
      <4>4. CASE k = e /\ t <= m
        <5>1. pieces'[i].line = e /\ pieces'[i].thru = t /\ t <= p.thru
          BY <3>1, <4>1, <4>4 DEF k, t
        <5> QED BY <5>1
      <4> QED BY <4>2, <4>3, <4>4
    <3>7. b < e \/ b = e
      BY <3>2
    <3> QED BY <3>5, <3>6, <3>7
  <2>2. pieces'[n + 1].line = e /\ pieces'[n + 1].thru = p.thru
    BY <1>1
  <2>3. \A i \in 1 .. Len(pieces') : i \in 1 .. n \/ i = n + 1
    BY <1>1
  <2>4. p.thru <= p.thru
    BY <1>l
  <2> QED BY <2>1, <2>2, <2>3, <2>4
<1>i. \A l \in Nat, c \in Int : c \in Columns(p, l)' => \E i \in 1 .. Len(pieces') : c \in Columns(pieces[i], l)'
  <2> SUFFICES ASSUME NEW l \in Nat, NEW c \in Int, c \in Columns(p, l)'
               PROVE  \E i \in 1 .. Len(pieces') : c \in Columns(pieces[i], l)'
    OBVIOUS
  <2>1. n + 1 \in 1 .. Len(pieces') /\ pieces'[n + 1] = p
    BY <1>1
  <2>2. PICK k : k = n + 1
    OBVIOUS
  <2>3. k \in 1 .. Len(pieces') /\ c \in Columns(pieces[k], l)'
    BY <2>1, <2>2
  <2> QED BY <2>3
<1>6. ASSUME NEW l \in 1 .. e - 1 PROVE Dealt(l)'
  <2>0. l \in Nat /\ l \in 1 .. Len(lines)
    BY <1>l
  <2>1. CASE l < b
    <3>1. l \in 1 .. b - 1
      BY <1>l, <2>0, <2>1
    <3> QED BY <1>c, <1>u, <2>0, <3>1
  <2>2. CASE l = b
    <3>1. b < e /\ Columns(p, b)' = f - Ahead(b) .. Len(lines[b])
      BY <1>l, <1>p, <2>2
    <3>2. Covered(b, f - Ahead(b) - 1)'
      <4>1. PICK m \in Int : m = f - Ahead(b) - 1
        <5>1. Ahead(b) \in {0, 1}
          BY AheadType
        <5> QED BY <5>1
      <4>2. Covered(b, m)'
        BY <1>c, <1>l, <1>u, <4>1
      <4>3. Ahead(b)' = Ahead(b)
        BY <1>l, <1>s
      <4> QED BY <4>1, <4>2, <4>3
    <3>3. ASSUME NEW c \in 1 .. Len(lines[b]), lines[b][c] # Blank
          PROVE  \E i \in 1 .. Len(pieces') : c \in Columns(pieces[i], b)'
      <4>1. CASE c \in 1 .. f - Ahead(b) - 1
        <5>1. Ahead(b)' = Ahead(b)
          BY <1>l, <1>s
        <5> QED BY <3>2, <3>3, <4>1, <5>1 DEF Covered
      <4>2. CASE c \notin 1 .. f - Ahead(b) - 1
        <5>0. Ahead(b) \in {0, 1} /\ Len(lines[b]) \in Nat
          BY <1>l, AheadType
        <5>1. c \in f - Ahead(b) .. Len(lines[b]) /\ c \in Int
          BY <4>2, <5>0
        <5> QED BY <1>i, <1>l, <3>1, <5>1
      <4> QED BY <4>1, <4>2
    <3>4. Covered(b, Len(lines[b]))'
      BY <3>3 DEF Covered
    <3> QED BY <2>2, <3>4 DEF Dealt
  <2>3. CASE b < l
    <3>1. Columns(p, l)' = 1 .. Len(lines[l])
      <4>1. l < e
        BY <1>l
      <4> QED BY <1>p, <2>0, <2>3, <4>1
    <3>2. Covered(l, Len(lines[l]))'
      <4> SUFFICES ASSUME NEW c \in 1 .. Len(lines[l]) PROVE \E i \in 1 .. Len(pieces') : c \in Columns(pieces[i], l)'
        BY DEF Covered
      <4>1. c \in Int
        OBVIOUS
      <4> QED BY <1>i, <2>0, <3>1, <4>1
    <3> QED BY <3>2 DEF Dealt
  <2> QED BY <1>l, <2>0, <2>1, <2>2, <2>3
<1>7. Covered(e, p.thru - Ahead(e) - 1)'
  <2> SUFFICES ASSUME NEW c \in 1 .. p.thru - Ahead(e)' - 1, lines[e][c] # Blank
               PROVE  \E i \in 1 .. Len(pieces') : c \in Columns(pieces[i], e)'
    BY DEF Covered
  <2>0. c \in Int /\ 1 <= c /\ c <= p.thru - Ahead(e)' - 1 /\ Ahead(e)' \in {0, 1} /\ Ahead(b) \in {0, 1}
    BY <1>l, <1>s
  <2>1. CASE b < e
    <3>1. c \in Columns(p, e)'
      BY <1>l, <1>p, <2>0, <2>1
    <3> QED BY <1>i, <1>l, <2>0, <3>1
  <2>2. CASE b = e /\ c >= f - Ahead(b)
    <3>1. c \in Columns(p, e)'
      BY <1>l, <1>p, <2>0, <2>2
    <3> QED BY <1>i, <1>l, <2>0, <3>1
  <2>3. CASE b = e /\ ~(c >= f - Ahead(b))
    <3>1. PICK m \in Int : m = f - Ahead(b) - 1
      BY <2>0
    <3>2. c \in 1 .. m
      BY <2>0, <2>3, <3>1
    <3>3. Covered(b, m)'
      BY <1>c, <1>l, <1>u, <3>1
    <3> QED BY <2>3, <3>2, <3>3 DEF Covered
  <2>4. b < e \/ b = e
    BY <1>l
  <2> QED BY <2>1, <2>2, <2>3, <2>4
<1>8. p.thru - Ahead(e)' \in 1 .. Len(lines'[e]) + 1
  OBVIOUS
<1>9. UpTo(e, p.thru)'
  BY <1>5, <1>6, <1>7, <1>8 DEF UpTo
<1> QED BY <1>4, <1>9 DEF AllPlaced

\* A step that makes no piece.
LEMMA Unmoved ==
  ASSUME UNCHANGED <<lines, pieces>>
  PROVE  /\ \A l : Ahead(l)' = Ahead(l) /\ (Dealt(l)' <=> Dealt(l))
         /\ \A b, f : UpTo(b, f)' <=> UpTo(b, f)
         /\ AllPlaced => AllPlaced'
<1>1. \A l : Ahead(l)' = Ahead(l)
  BY DEF Ahead
<1>2. \A q, l : Columns(q, l)' = Columns(q, l) /\ Start(q, l)' = Start(q, l) /\ Stop(q, l)' = Stop(q, l)
  BY <1>1 DEF Columns, Start, Stop
<1>3. \A l, n : Covered(l, n)' <=> Covered(l, n)
  <2>1. lines' = lines /\ pieces' = pieces
    OBVIOUS
  <2> QED BY <1>2, <2>1 DEF Covered
<1>4. \A l : Dealt(l)' <=> Dealt(l)
  <2>1. \A l : GivenUp(l)' <=> GivenUp(l)
    BY DEF GivenUp
  <2>2. lines' = lines
    OBVIOUS
  <2> QED BY <1>3, <2>1, <2>2 DEF Dealt
<1>5. ASSUME NEW b, NEW f PROVE UpTo(b, f)' <=> UpTo(b, f)
  <2>1. lines' = lines /\ pieces' = pieces
    OBVIOUS
  <2>2. PICK m : m = f - Ahead(b) - 1
    OBVIOUS
  <2>3. Covered(b, m)' <=> Covered(b, m)
    BY <1>3
  <2>4. Covered(b, f - Ahead(b) - 1)' <=> Covered(b, f - Ahead(b) - 1)
    <3>1. m = f - Ahead(b)' - 1
      BY <1>1, <2>2
    <3> QED BY <2>2, <2>3, <3>1
  <2> QED BY <1>1, <1>4, <2>1, <2>4 DEF UpTo
<1>6. ASSUME NEW i PROVE Placed(i)' <=> Placed(i)
  <2>1. lines' = lines /\ pieces' = pieces
    OBVIOUS
  <2>2. PICK q : q = pieces[i]
    OBVIOUS
  <2>3. q = pieces'[i]
    BY <2>1, <2>2
  <2> QED BY <1>1, <1>2, <2>1, <2>2, <2>3 DEF Placed
<1>7. pieces' = pieces
  OBVIOUS
<1>8. AllPlaced => AllPlaced'
  BY <1>6, <1>7 DEF AllPlaced
<1> QED BY <1>1, <1>4, <1>5, <1>8

\* A line that no piece has reached yet.
LEMMA FreshLine ==
  ASSUME TypeOK, NEW l \in 1 .. Len(lines), \A i \in 1 .. Len(pieces) : pieces[i].line < l,
         \A k \in 1 .. l - 1 : Dealt(k)
  PROVE  Ahead(l) = 0 /\ UpTo(l, 1) /\ lines[l] = Rest(lines[l], 0)
<1>0. lines[l] \in Seq(Characters) /\ Len(lines[l]) \in Nat /\ l \in Nat
  BY LinesType
<1>1. Ahead(l) = 0
  <2>1. \A i \in 1 .. Len(pieces) : pieces[i].line # l
    BY <1>0, PieceFields
  <2> QED BY <2>1, AheadNone
<1>2. Covered(l, 1 - Ahead(l) - 1)
  BY <1>1 DEF Covered
<1>3. 1 - Ahead(l) \in 1 .. Len(lines[l]) + 1
  BY <1>0, <1>1
<1>4. UpTo(l, 1)
  BY <1>2, <1>3 DEF UpTo
<1>5. lines[l] = Rest(lines[l], 0)
  BY <1>0, RestWhole
<1> QED BY <1>1, <1>4, <1>5

\* What AtRow says of the characters that are left of the line.
Left == character - Ahead(line) - 1
LEMMA RowFacts ==
  ASSUME TypeOK, AtRow
  PROVE  /\ Left \in Nat /\ Len(source_row) = Len(lines[line]) - Left /\ Len(source_row) \in Nat
         /\ Len(lines[line]) \in Nat /\ Left + Len(source_row) = Len(lines[line])
         /\ \A i \in 1 .. Len(source_row) : source_row[i] = lines[line][Left + i]
         /\ \A k \in 0 .. Len(source_row) : Rest(source_row, k) = Rest(lines[line], Left + k)
         /\ \A k \in 0 .. Len(source_row) : \A j \in 0 .. Len(source_row) - k :
              SubSeq(source_row, k + 1, k + j) = SubSeq(lines[line], Left + k + 1, Left + k + j)
<1>0. lines[line] \in Seq(Characters) /\ Len(lines[line]) \in Nat /\ line \in Nat /\ source_row \in Seq(Characters)
  BY LinesType DEF TypeOK
<1> DEFINE s == lines[line]
           c == Left
<1>1. c \in 0 .. Len(s) /\ c \in Nat /\ source_row = Rest(s, c)
  <2>1. Ahead(line) \in {0, 1} /\ character \in Nat
    BY AheadType DEF TypeOK
  <2>2. character - Ahead(line) \in 1 .. Len(lines[line]) + 1 /\ source_row = Rest(lines[line], Left)
    BY DEF AtRow, Left
  <2>3. character - Ahead(line) - 1 \in 0 .. Len(lines[line])
    BY <1>0, <2>1, <2>2
  <2>4. Left \in 0 .. Len(lines[line]) /\ Left \in Nat
    BY <1>0, <2>3 DEF Left
  <2> QED BY <2>2, <2>4
<1> HIDE DEF s, c
<1>2. Len(source_row) = Len(s) - c /\ \A i \in 1 .. Len(s) - c : source_row[i] = s[c + i]
  BY <1>0, <1>1, RestProperties DEF s
<1>3. \A k \in 0 .. Len(source_row) : Rest(source_row, k) = Rest(s, c + k)
  BY <1>0, <1>1, <1>2, RestOfRest DEF s
<1>4. ASSUME NEW k \in 0 .. Len(source_row), NEW j \in 0 .. Len(source_row) - k
      PROVE  SubSeq(source_row, k + 1, k + j) = SubSeq(s, c + k + 1, c + k + j)
  <2>1. SubSeq(Rest(source_row, k), 1, j) = SubSeq(source_row, k + 1, k + j)
    BY <1>0, TextOfRest
  <2>2. c + k \in 0 .. Len(s) /\ j \in 0 .. Len(s) - (c + k)
    <3>1. Len(s) \in Nat
      BY <1>0 DEF s
    <3> QED BY <1>1, <1>2, <3>1
  <2>3. SubSeq(Rest(s, c + k), 1, j) = SubSeq(s, c + k + 1, c + k + j)
    BY <1>0, <2>2, TextOfRest DEF s
  <2> QED BY <1>3, <2>1, <2>3
<1>5. Len(s) \in Nat /\ Len(source_row) \in Nat /\ c + Len(source_row) = Len(s)
  <2>1. Len(s) \in Nat
    BY <1>0 DEF s
  <2> QED BY <1>1, <1>2, <2>1
<1> QED BY <1>1, <1>2, <1>3, <1>4, <1>5 DEF s, c

\* The blanks before a token need no piece.
LEMMA BlanksSkip ==
  ASSUME TypeOK, UpTo(line, character), AtRow
  PROVE  UpTo(line, character + Blanks) /\ character + Blanks \in Nat
<1>0. /\ Blanks \in 0 .. Len(source_row) /\ \A i \in 1 .. Blanks : source_row[i] = Blank
  BY FirstProperties DEF TypeOK
<1>r. /\ Left \in Nat /\ Len(source_row) \in Nat /\ Len(lines[line]) \in Nat
      /\ Left + Len(source_row) = Len(lines[line])
      /\ \A i \in 1 .. Len(source_row) : source_row[i] = lines[line][Left + i]
  BY RowFacts
<1>n. Blanks \in Nat /\ Blanks <= Len(source_row)
  BY <1>0, <1>r
<1>s. Ahead(line) \in {0, 1} /\ character \in Nat /\ Left = character - Ahead(line) - 1
  BY AheadType DEF TypeOK, Left
<1>1. character + Blanks - Ahead(line) - 1 = Left + Blanks
  BY <1>n, <1>s
<1>2. Left + Blanks + 1 \in 1 .. Len(lines[line]) + 1
  BY <1>n, <1>r
<1>u. /\ \A i \in 1 .. Len(pieces) : pieces[i].line < line \/ (pieces[i].line = line /\ pieces[i].thru <= character)
      /\ \A l \in 1 .. line - 1 : Dealt(l)
      /\ Covered(line, Left)
  <2>1. Left = character - Ahead(line) - 1
    BY DEF Left
  <2> QED BY <2>1 DEF UpTo
<1>3. Covered(line, Left + Blanks)
  <2> SUFFICES ASSUME NEW c \in 1 .. Left + Blanks, lines[line][c] # Blank
               PROVE  \E i \in 1 .. Len(pieces) : c \in Columns(pieces[i], line)
    BY DEF Covered
  <2>1. c <= Left
    <3> SUFFICES ASSUME ~(c <= Left) PROVE FALSE
      OBVIOUS
    <3>1. c - Left \in 1 .. Blanks /\ c - Left \in 1 .. Len(source_row) /\ Left + (c - Left) = c
      BY <1>n, <1>r
    <3>2. lines[line][c] = source_row[c - Left]
      BY <1>r, <3>1
    <3> QED BY <1>0, <3>1, <3>2
  <2>2. c \in 1 .. Left
    BY <1>r, <2>1
  <2> QED BY <1>u, <2>2 DEF Covered
<1>4. \A i \in 1 .. Len(pieces) : pieces[i].line < line \/ (pieces[i].line = line /\ pieces[i].thru <= character + Blanks)
  <2> TAKE i \in 1 .. Len(pieces)
  <2>1. pieces[i].line < line \/ (pieces[i].line = line /\ pieces[i].thru <= character)
    BY <1>u
  <2>2. PICK t \in Nat : t = pieces[i].thru
    BY PieceFields
  <2>3. t <= character => t <= character + Blanks
    BY <1>n, <1>s
  <2> QED BY <2>1, <2>2, <2>3
<1>5. UpTo(line, character + Blanks)
  <2>0. PICK f \in Nat : f = character + Blanks
    BY <1>n, <1>s
  <2>1. Covered(line, f - Ahead(line) - 1)
    <3>1. f - Ahead(line) - 1 = Left + Blanks
      BY <1>n, <1>s, <2>0
    <3> QED BY <1>3, <3>1
  <2>2. \A l \in 1 .. line - 1 : Dealt(l)
    BY <1>u
  <2>3. f - Ahead(line) \in 1 .. Len(lines[line]) + 1
    <3>1. f - Ahead(line) = Left + Blanks + 1
      BY <1>n, <1>s, <2>0
    <3> QED BY <1>2, <3>1
  <2>4. \A i \in 1 .. Len(pieces) : pieces[i].line < line \/ (pieces[i].line = line /\ pieces[i].thru <= f)
    BY <1>4, <2>0
  <2>5. UpTo(line, f)
    BY <2>1, <2>2, <2>3, <2>4 DEF UpTo
  <2> QED BY <2>0, <2>5
<1> QED BY <1>5, <1>n, <1>s

\* A text dealt with up to the end of a line.
LEMMA WholeRow ==
  ASSUME TypeOK', NEW b \in Nat, NEW f \in Nat, b \in 1 .. Len(lines'), UpTo(b, f)',
         f - Ahead(b)' - 1 = Len(lines'[b])
  PROVE  (\A l \in 1 .. b : Dealt(l)') /\ (\A i \in 1 .. Len(pieces') : pieces'[i].line <= b)
<1>u. /\ \A i \in 1 .. Len(pieces') : pieces'[i].line < b \/ (pieces'[i].line = b /\ pieces'[i].thru <= f)
      /\ \A l \in 1 .. b - 1 : Dealt(l)'
      /\ Covered(b, f - Ahead(b) - 1)'
  BY DEF UpTo
<1>1. Dealt(b)'
  BY <1>u DEF Dealt
<1>2. \A l \in 1 .. b : l \in 1 .. b - 1 \/ l = b
  OBVIOUS
<1>3. \A i \in 1 .. Len(pieces') : pieces'[i].line \in Nat
  <2>1. \A i \in 1 .. Len(pieces') : pieces'[i] \in Piece
    BY ElementOfSeq DEF TypeOK
  <2> QED BY <2>1 DEF Piece
<1>4. \A i \in 1 .. Len(pieces') : pieces'[i].line <= b
  <2> TAKE i \in 1 .. Len(pieces')
  <2>1. pieces'[i].line \in Nat
    BY <1>3
  <2>2. pieces'[i].line < b \/ pieces'[i].line = b
    BY <1>u
  <2> QED BY <2>1, <2>2
<1> QED BY <1>1, <1>2, <1>4, <1>u

\* At the end of a token or comment, and of a line: the position is kept.
LEMMA AtToken ==
  ASSUME TypeOK', mode' = "token", UpTo(line, character)', AtRow'
  PROVE  Position'
<1>1. CASE source_row' # <<>>
  BY <1>1 DEF Position
<1>2. CASE source_row' = <<>>
  <2>1. PICK b : b = line'
    OBVIOUS
  <2>2. PICK f : f = character'
    OBVIOUS
  <2>3. f \in Nat /\ b \in 1 .. Len(lines') /\ UpTo(b, f)'
    BY <2>1, <2>2 DEF TypeOK
  <2>4. b \in Nat /\ lines'[b] \in Seq(Characters) /\ Len(lines'[b]) \in Nat
    <3>1. lines' \in Seq(Seq(Characters))
      BY LexerAssumption DEF TypeOK, LexerAssumption
    <3>2. lines'[b] \in Seq(Characters)
      BY <2>3, <3>1, ElementOfSeq
    <3> QED BY <2>3, <3>1, <3>2, LenProperties
  <2>5. f - Ahead(b)' \in 1 .. Len(lines'[b]) + 1 /\ source_row' = Rest(lines'[b], f - Ahead(b)' - 1)
    BY <2>1, <2>2 DEF AtRow
  <2>6. f - Ahead(b)' - 1 \in 0 .. Len(lines'[b])
    <3>1. Ahead(b)' \in {0, 1}
      BY DEF Ahead
    <3> QED BY <2>3, <2>4, <2>5, <3>1
  <2>7. Len(source_row') = Len(lines'[b]) - (f - Ahead(b)' - 1) /\ Len(source_row') = 0
    BY <1>2, <2>4, <2>5, <2>6, RestProperties
  <2>8. f - Ahead(b)' - 1 = Len(lines'[b])
    BY <2>4, <2>6, <2>7
  <2>9. (\A l \in 1 .. b : Dealt(l)') /\ (\A i \in 1 .. Len(pieces') : pieces'[i].line <= b)
    BY <2>3, <2>4, <2>8, WholeRow
  <2> QED BY <1>2, <2>1, <2>9 DEF Position
<1> QED BY <1>1, <1>2

\* The token that match takes: where it is in the text.
LEMMA MatchPlace ==
  ASSUME TypeOK, Tiling, status = "running", mode = "token", NEW k \in Nat, Matches(k)
  PROVE  /\ AtRow /\ UpTo(line, character + Blanks) /\ character + Blanks \in Nat
         /\ Left \in Nat /\ Blanks \in Nat /\ k >= 1 /\ Left + Blanks + k <= Len(lines[line])
         /\ Len(lines[line]) \in Nat /\ Ahead(line) \in {0, 1}
         /\ character + Blanks - Ahead(line) = Left + Blanks + 1
         /\ Left + Blanks + Len(First) = Len(lines[line]) /\ Len(First) \in Nat
         /\ Rest(First, k) = Rest(lines[line], Left + Blanks + k)
         /\ Text(k) = SubSeq(lines[line], Left + Blanks + 1, Left + Blanks + k)
<1>1. AtRow /\ UpTo(line, character)
  BY DEF Matches, Tiling, Position
<1>2. UpTo(line, character + Blanks) /\ character + Blanks \in Nat
  BY <1>1, BlanksSkip
<1>r. /\ Left \in Nat /\ Len(source_row) \in Nat /\ Len(lines[line]) \in Nat
      /\ Left + Len(source_row) = Len(lines[line])
      /\ \A j \in 0 .. Len(source_row) : Rest(source_row, j) = Rest(lines[line], Left + j)
      /\ \A j \in 0 .. Len(source_row) : \A i \in 0 .. Len(source_row) - j :
              SubSeq(source_row, j + 1, j + i) = SubSeq(lines[line], Left + j + 1, Left + j + i)
  BY <1>1, RowFacts
<1>b. Blanks \in 0 .. Len(source_row) /\ Len(First) = Len(source_row) - Blanks
  BY FirstProperties DEF TypeOK
<1>m. /\ k >= 1 /\ Blanks + k \in 1 .. Len(source_row)
      /\ Rest(First, k) = Rest(source_row, Blanks + k)
      /\ Text(k) = SubSeq(source_row, Blanks + 1, Blanks + k)
  BY MatchProperties DEF TypeOK
<1>3. Blanks \in Nat /\ Left + Blanks + k <= Len(lines[line]) /\ Left + Blanks + Len(First) = Len(lines[line])
      /\ Len(First) \in Nat
  <2>1. Len(source_row) \in Nat /\ Left \in Nat /\ Left + Len(source_row) = Len(lines[line])
    BY <1>r
  <2>2. Blanks \in Nat /\ Blanks <= Len(source_row) /\ Len(First) = Len(source_row) - Blanks
    BY <1>b, <2>1
  <2>3. Blanks + k <= Len(source_row)
    BY <1>m, <2>1, <2>2
  <2> QED BY <2>1, <2>2, <2>3
<1>4. Rest(First, k) = Rest(lines[line], Left + Blanks + k)
  <2>1. Blanks + k \in 0 .. Len(source_row)
    BY <1>m, <1>r
  <2>2. Rest(source_row, Blanks + k) = Rest(lines[line], Left + (Blanks + k))
    BY <1>r, <2>1
  <2>3. Left + (Blanks + k) = Left + Blanks + k
    BY <1>3, <1>r
  <2> QED BY <1>m, <2>2, <2>3
<1>5. Text(k) = SubSeq(lines[line], Left + Blanks + 1, Left + Blanks + k)
  <2>0. Blanks \in Nat /\ Len(source_row) \in Nat /\ Blanks + k <= Len(source_row)
    BY <1>b, <1>m, <1>r
  <2>1. k \in 0 .. Len(source_row) - Blanks
    BY <2>0
  <2> QED BY <1>b, <1>m, <1>r, <2>1
<1>6. Ahead(line) \in {0, 1} /\ character + Blanks - Ahead(line) = Left + Blanks + 1
  <2>1. Ahead(line) \in {0, 1} /\ character \in Nat /\ Left = character - Ahead(line) - 1
    BY AheadType DEF TypeOK, Left
  <2> QED BY <1>3, <2>1
<1> QED BY <1>1, <1>2, <1>3, <1>4, <1>5, <1>6, <1>m, <1>r

\* A piece that begins where the text was dealt with up to and ends at the
\* position, where the row is what the line has from there.
LEMMA NewPiece ==
  ASSUME TypeOK, TypeOK', AllPlaced, mode' = "token", UNCHANGED lines, AtRow',
         NEW b \in 1 .. Len(lines), NEW f \in Nat, UpTo(b, f),
         NEW p \in Piece, pieces' = Append(pieces, p),
         p.begun = b, p.from = f, p.line \in b .. Len(lines), p.line = line', p.thru = character',
         p.line = b => f <= p.thru,
         p.kind \in Verbatim => p.line = b /\ p.text = SubSeq(lines[b], f - Ahead(b), p.thru - 1 - Ahead(b))
  PROVE  AllPlaced' /\ Position'
<1>1. p.thru - Ahead(p.line)' \in 1 .. Len(lines[p.line]) + 1
  <2>1. PICK e : e = line'
    OBVIOUS
  <2>2. character' - Ahead(e)' \in 1 .. Len(lines'[e]) + 1
    BY <2>1 DEF AtRow
  <2> QED BY <2>1, <2>2
<1>2. AllPlaced' /\ UpTo(p.line, p.thru)'
  BY <1>1, AppendKeeps
<1>3. UpTo(line, character)'
  BY <1>2
<1> QED BY <1>2, <1>3, AtToken

\* The same by columns: the line b, where the token begins in it as it is
\* counted, f, and as it is, c + 1.
LEMMA MatchAt ==
  ASSUME TypeOK, Tiling, status = "running", mode = "token", NEW k \in Nat, Matches(k)
  PROVE  \E b \in 1 .. Len(lines), f \in Nat, h \in {0, 1}, c \in Nat :
           /\ b = line /\ f = character + Blanks /\ h = Ahead(b) /\ f - h = c + 1
           /\ UpTo(b, f) /\ k >= 1 /\ c + k <= Len(lines[b]) /\ c + Len(First) = Len(lines[b])
           /\ Len(lines[b]) \in Nat /\ Len(First) \in Nat /\ b \in Nat
           /\ Rest(First, k) = Rest(lines[b], c + k)
           /\ Text(k) = SubSeq(lines[b], c + 1, c + k)
<1>m. /\ AtRow /\ UpTo(line, character + Blanks) /\ character + Blanks \in Nat
      /\ Left \in Nat /\ Blanks \in Nat /\ k >= 1 /\ Left + Blanks + k <= Len(lines[line])
      /\ Len(lines[line]) \in Nat /\ Ahead(line) \in {0, 1}
      /\ character + Blanks - Ahead(line) = Left + Blanks + 1
      /\ Left + Blanks + Len(First) = Len(lines[line]) /\ Len(First) \in Nat
      /\ Rest(First, k) = Rest(lines[line], Left + Blanks + k)
      /\ Text(k) = SubSeq(lines[line], Left + Blanks + 1, Left + Blanks + k)
  BY MatchPlace
<1>b. PICK b \in 1 .. Len(lines) : b = line
  BY DEF TypeOK
<1>f. PICK f \in Nat : f = character + Blanks
  BY <1>m
<1>h. PICK h \in {0, 1} : h = Ahead(line)
  BY <1>m
<1>c. PICK c \in Nat : c = Left + Blanks
  BY <1>m
<1>2. f - h = c + 1 /\ c + k <= Len(lines[b]) /\ Len(lines[b]) \in Nat /\ UpTo(b, f) /\ b \in Nat
  <2>1. f - h = c + 1
    <3>1. character + Blanks - Ahead(line) = Left + Blanks + 1
      BY <1>m
    <3>2. f - Ahead(line) = c + 1
      <4>1. Left \in Nat /\ Blanks \in Nat /\ Ahead(line) \in {0, 1} /\ character \in Nat
        BY <1>m DEF TypeOK
      <4> QED BY <3>1, <1>f, <1>c, <4>1
    <3> QED BY <3>2, <1>h
  <2>2. c + k <= Len(lines[b]) /\ Len(lines[b]) \in Nat
    <3>1. Left + Blanks + k <= Len(lines[line]) /\ Len(lines[line]) \in Nat
      BY <1>m
    <3> QED BY <3>1, <1>b, <1>c
  <2>3. UpTo(b, f)
    BY <1>m, <1>b, <1>f
  <2> QED BY <2>1, <2>2, <2>3, LinesType
<1>3. h = Ahead(b) /\ c + Len(First) = Len(lines[b]) /\ Len(First) \in Nat
  <2>1. Left + Blanks + Len(First) = Len(lines[line]) /\ Len(First) \in Nat
    BY <1>m
  <2> QED BY <2>1, <1>b, <1>c, <1>h
<1>4. Rest(First, k) = Rest(lines[b], c + k) /\ Text(k) = SubSeq(lines[b], c + 1, c + k) /\ k >= 1
  BY <1>m, <1>b, <1>c
<1> QED BY <1>b, <1>f, <1>2, <1>3, <1>4

\* A token that ends where its match ends.
LEMMA TokenPlaced ==
  ASSUME TypeOK, TypeOK', Tiling, status = "running", mode = "token", NEW k \in Nat, NEW kind \in Verbatim,
         Matches(k), match(k), it(kind, Text(k)), UNCHANGED mode
  PROVE  AllPlaced' /\ Position'
<1>1. /\ from' = character + Blanks /\ character' = character + Blanks + k /\ begun' = line
      /\ source_row' = Rest(First, k) /\ UNCHANGED <<lines, line>>
  BY DEF match
<1>2. PICK b \in 1 .. Len(lines), f \in Nat, h \in {0, 1}, c \in Nat :
        /\ b = line /\ f = character + Blanks /\ h = Ahead(b) /\ f - h = c + 1
        /\ UpTo(b, f) /\ k >= 1 /\ c + k <= Len(lines[b]) /\ c + Len(First) = Len(lines[b])
        /\ Len(lines[b]) \in Nat /\ Len(First) \in Nat /\ b \in Nat
        /\ Rest(First, k) = Rest(lines[b], c + k)
        /\ Text(k) = SubSeq(lines[b], c + 1, c + k)
  BY MatchAt
<1>n. f - h = c + 1 /\ c + k <= Len(lines[b]) /\ Len(lines[b]) \in Nat /\ k >= 1
  BY <1>2
<1>u. UpTo(b, f) /\ b \in Nat /\ b <= b
  BY <1>2
<1>t. PICK t \in Nat : t = f + k
  OBVIOUS
<1>p. PICK p : p = [kind |-> kind, text |-> Text(k), line |-> b, begun |-> b, from |-> f, thru |-> t]
  OBVIOUS
<1>3. pieces' = Append(pieces, p)
  <2>1. character' = t /\ from' = f /\ begun' = b /\ line = b
    BY <1>1, <1>2, <1>t
  <2> QED BY <1>p, <2>1 DEF it
<1>4. p \in Piece
  <2>1. Text(k) \in Seq(Characters) /\ kind \in Kinds
    BY MatchProperties DEF TypeOK, Verbatim, Kinds
  <2> QED BY <1>2, <1>p, <2>1 DEF Piece
<1>5. p.kind = kind /\ p.text = Text(k) /\ p.line = b /\ p.begun = b /\ p.from = f /\ p.thru = t
  BY <1>p
<1>6. Ahead(b)' = h
  <2>1. Ahead(b)' = Ahead(b)
    <3>1. lines' = lines
      BY <1>1
    <3> QED BY <1>u, <1>3, <1>4, <1>5, <3>1, ColumnsKeep
  <2> QED BY <1>2, <2>1
<1>7. Text(k) = SubSeq(lines[b], f - Ahead(b), t - 1 - Ahead(b))
  <2>1. f - h = c + 1 /\ t - 1 - h = c + k
    BY <1>n, <1>t
  <2>2. Text(k) = SubSeq(lines[b], c + 1, c + k)
    BY <1>2
  <2>3. Ahead(b) = h
    BY <1>2
  <2> QED BY <2>1, <2>2, <2>3
<1>8. AtRow'
  <2>1. line' = b /\ character' = t /\ lines' = lines /\ source_row' = Rest(lines[b], c + k)
    BY <1>1, <1>2, <1>t
  <2>2. t - h \in 1 .. Len(lines[b]) + 1 /\ t - h - 1 = c + k
    BY <1>n, <1>t
  <2> QED BY <1>6, <2>1, <2>2 DEF AtRow
<1>9. p.line \in b .. Len(lines) /\ p.line = line' /\ p.thru = character' /\ f <= p.thru
  <2>1. line' = b /\ character' = t
    BY <1>1, <1>2, <1>t
  <2>2. b \in b .. Len(lines) /\ f <= t
    BY LinesType, <1>t
  <2> QED BY <1>5, <2>1, <2>2
<1>10. AllPlaced /\ mode' = "token" /\ lines' = lines
  BY <1>1 DEF Tiling
<1>11. p.line = b /\ p.text = SubSeq(lines[b], f - Ahead(b), p.thru - 1 - Ahead(b))
  BY <1>5, <1>7
<1> QED BY <1>u, <1>3, <1>4, <1>5, <1>8, <1>9, <1>10, <1>11, NewPiece

\* The next line: nothing of it is read yet.
LEMMA EndOfRowPlaced ==
  ASSUME TypeOK, TypeOK', Tiling, status = "running", mode = "token", EndOfRow
  PROVE  AllPlaced' /\ Position'
<1>1. /\ source_row = <<>> /\ line < Len(lines) /\ line' = line + 1 /\ source_row' = lines[line + 1]
      /\ character' = 1 /\ UNCHANGED <<lines, pieces>> /\ mode' = "token"
  BY DEF EndOfRow, next_line
<1>2. /\ AllPlaced /\ \A l \in 1 .. line : Dealt(l)
      /\ \A i \in 1 .. Len(pieces) : pieces[i].line <= line
  BY <1>1 DEF Tiling, Position
<1>3. PICK b : b = line + 1
  OBVIOUS
<1>4. line \in Nat /\ b \in 1 .. Len(lines) /\ b \in Nat
  BY <1>1, <1>3, LinesType DEF TypeOK
<1>5. \A i \in 1 .. Len(pieces) : pieces[i].line < b
  <2> TAKE i \in 1 .. Len(pieces)
  <2>1. PICK e \in Nat : e = pieces[i].line
    BY PieceFields
  <2>2. e <= line
    BY <1>2, <2>1
  <2> QED BY <1>3, <1>4, <2>1, <2>2
<1>6. \A l \in 1 .. b - 1 : Dealt(l)
  BY <1>2, <1>3, <1>4
<1>7. Ahead(b) = 0 /\ UpTo(b, 1) /\ lines[b] = Rest(lines[b], 0)
  BY <1>4, <1>5, <1>6, FreshLine
<1>8. Ahead(b)' = 0 /\ UpTo(b, 1)' /\ AllPlaced'
  BY <1>1, <1>2, <1>7, Unmoved
<1>9. line' = b /\ lines' = lines /\ source_row' = Rest(lines[b], 0)
  BY <1>1, <1>3, <1>7
<1>10. UpTo(line, character)'
  BY <1>1, <1>8, <1>9
<1>11. AtRow'
  <2>1. 1 - 0 \in 1 .. Len(lines[b]) + 1 /\ 1 - 0 - 1 = 0
    BY <1>4, LinesType
  <2> QED BY <1>1, <1>8, <1>9, <2>1 DEF AtRow
<1> QED BY <1>1, <1>8, <1>10, <1>11, AtToken

\* The rest of a line that has no token: blanks, or given up.
LEMMA NoMatchPlaced ==
  ASSUME TypeOK, TypeOK', Tiling, status = "running", mode = "token", NoMatch
  PROVE  AllPlaced' /\ (status' # "stopped" => Position')
<1>1. UNCHANGED <<lines, pieces>> /\ line' = line /\ mode' = "token" /\ source_row # <<>>
  BY DEF NoMatch
<1>2. AllPlaced /\ UpTo(line, character) /\ AtRow
  BY <1>1 DEF Tiling, Position
<1>3. UpTo(line, character + Blanks) /\ character + Blanks \in Nat
  BY <1>2, BlanksSkip
<1>r. /\ Left \in Nat /\ Len(source_row) \in Nat /\ Len(lines[line]) \in Nat
      /\ Left + Len(source_row) = Len(lines[line])
      /\ \A i \in 1 .. Len(source_row) : source_row[i] = lines[line][Left + i]
  BY <1>2, RowFacts
<1>b. /\ Blanks \in 0 .. Len(source_row) /\ \A i \in 1 .. Blanks : source_row[i] = Blank
      /\ First \in Seq(Characters) /\ Len(First) = Len(source_row) - Blanks
      /\ \A i \in 1 .. Len(First) : First[i] = source_row[Blanks + i]
      /\ First # <<>> => First[1] # Blank
  BY FirstProperties DEF TypeOK
<1>4. ASSUME First = <<>> PROVE Dealt(line)
  <2>1. Len(First) = 0
    BY <1>4
  <2>2. Blanks = Len(source_row)
    BY <1>b, <1>r, <2>1
  <2>3. Left + Blanks = Len(lines[line])
    BY <1>r, <2>2
  <2>4. PICK f \in Nat : f = character + Blanks
    BY <1>3
  <2>5. f - Ahead(line) - 1 = Len(lines[line])
    <3>1. character \in Nat /\ Ahead(line) \in {0, 1} /\ Blanks \in Nat /\ Left = character - Ahead(line) - 1
      BY <1>r, <2>2, AheadType DEF Left, TypeOK
    <3>2. f - Ahead(line) - 1 = Left + Blanks
      BY <2>4, <3>1
    <3> QED BY <2>3, <3>2
  <2>6. Covered(line, f - Ahead(line) - 1)
    BY <1>3, <2>4 DEF UpTo
  <2> QED BY <2>5, <2>6 DEF Dealt
<1>5. ASSUME First # <<>>, Snippet(First) = 0, source_row[1] = Blank PROVE Dealt(line)
  <2>1. Len(First) \in Nat /\ Len(First) >= 1
    BY <1>b, <1>5, EmptySeq, LenProperties
  <2>2. First[1] = "\\" /\ First[1] # Blank
    BY <1>b, <1>5, SnippetProperties
  <2>3. First[1] = source_row[Blanks + 1] /\ Blanks \in Nat /\ Blanks + 1 \in 1 .. Len(source_row)
    BY <1>b, <1>r, <2>1
  <2>4. Blanks >= 1
    <3> SUFFICES ASSUME Blanks = 0 PROVE FALSE
      BY <2>3
    <3> QED BY <1>5, <2>2, <2>3
  <2>5. source_row[Blanks] = Blank /\ source_row[Blanks + 1] = "\\"
    BY <1>b, <2>2, <2>3, <2>4
  <2>6. lines[line][Left + Blanks] = Blank
    <3>1. Blanks \in 1 .. Len(source_row)
      BY <1>r, <2>3, <2>4
    <3> QED BY <1>r, <2>5, <3>1
  <2>7. lines[line][Left + Blanks + 1] = "\\"
    <3>1. Left + (Blanks + 1) = Left + Blanks + 1
      BY <1>r, <2>3
    <3>2. lines[line][Left + (Blanks + 1)] = source_row[Blanks + 1]
      BY <1>r, <2>3
    <3> QED BY <2>5, <3>1, <3>2
  <2>8. Left + Blanks \in 1 .. Len(lines[line]) - 1
    BY <1>r, <2>3, <2>4
  <2> QED BY <2>6, <2>7, <2>8 DEF Dealt, GivenUp
<1>6. ASSUME Dealt(line), source_row' = <<>> PROVE Position'
  <2>1. \A l \in 1 .. line - 1 : Dealt(l)
    BY <1>2 DEF UpTo
  <2>2. \A l \in 1 .. line : Dealt(l)'
    <3>1. line \in Nat
      BY LinesType DEF TypeOK
    <3>2. \A l \in 1 .. line : l \in 1 .. line - 1 \/ l = line
      BY <3>1
    <3> QED BY <1>1, <1>6, <2>1, <3>2, Unmoved
  <2>3. \A i \in 1 .. Len(pieces) : pieces[i].line <= line
    <3> TAKE i \in 1 .. Len(pieces)
    <3>1. pieces[i].line < line \/ pieces[i].line = line
      BY <1>2 DEF UpTo
    <3>2. PICK e \in Nat : e = pieces[i].line
      BY PieceFields
    <3>3. PICK b \in Nat : b = line
      BY LinesType DEF TypeOK
    <3>4. e <= b
      BY <3>1, <3>2, <3>3
    <3> QED BY <3>2, <3>3, <3>4
  <2>4. \A i \in 1 .. Len(pieces') : pieces'[i].line <= line
    <3>1. pieces' = pieces
      BY <1>1
    <3> QED BY <2>3, <3>1
  <2> QED BY <1>1, <1>6, <2>2, <2>4 DEF Position
<1>7. AllPlaced'
  BY <1>1, <1>2, Unmoved
<1>8. \/ First = <<>> /\ source_row' = <<>>
      \/ First # <<>> /\ Snippet(First) = 0 /\ source_row[1] = Blank /\ source_row' = <<>>
      \/ status' = "stopped"
  BY DEF NoMatch, stop
<1> QED BY <1>4, <1>5, <1>6, <1>7, <1>8

\* A comment up to the end of its line.
LEMMA LineCommentPlaced ==
  ASSUME TypeOK, TypeOK', Tiling, status = "running", mode = "token", NEW k \in Nat, LineComment(k)
  PROVE  AllPlaced' /\ Position'
<1>0. Matches(k)
  BY DEF LineComment
<1>1. /\ from' = character + Blanks /\ character' = character + Blanks + k /\ begun' = line
      /\ source_row' = <<>> /\ UNCHANGED <<lines, line>> /\ mode' = "token"
      /\ Comment(character' + Len(First) - k)
  BY DEF LineComment
<1>2. PICK b \in 1 .. Len(lines), f \in Nat, h \in {0, 1}, c \in Nat :
        /\ b = line /\ f = character + Blanks /\ h = Ahead(b) /\ f - h = c + 1
        /\ UpTo(b, f) /\ k >= 1 /\ c + k <= Len(lines[b]) /\ c + Len(First) = Len(lines[b])
        /\ Len(lines[b]) \in Nat /\ Len(First) \in Nat /\ b \in Nat
        /\ Rest(First, k) = Rest(lines[b], c + k)
        /\ Text(k) = SubSeq(lines[b], c + 1, c + k)
  BY <1>0, MatchAt
<1>n. /\ f - h = c + 1 /\ c + Len(First) = Len(lines[b]) /\ Len(lines[b]) \in Nat /\ Len(First) \in Nat
      /\ f = character + Blanks
  BY <1>2
<1>u. UpTo(b, f) /\ b \in Nat /\ b <= b
  BY <1>2
<1>t. PICK t \in Nat : t = f + Len(First)
  BY <1>n
<1>p. PICK p : p = [kind |-> "comment", text |-> <<>>, line |-> b, begun |-> b, from |-> f, thru |-> t]
  OBVIOUS
<1>3. pieces' = Append(pieces, p)
  <2>1. character' = f + k
    BY <1>1, <1>n
  <2>2. character' + Len(First) - k = t
    BY <1>n, <1>t, <2>1
  <2>3. from' = f /\ begun' = b /\ line = b
    BY <1>1, <1>2
  <2> QED BY <1>1, <1>p, <2>2, <2>3 DEF Comment
<1>4. p \in Piece
  <2>1. <<>> \in Seq(Characters) /\ "comment" \in Kinds
    BY DEF Kinds
  <2> QED BY <1>u, <1>p, <2>1 DEF Piece
<1>5. /\ p.kind = "comment" /\ p.text = <<>> /\ p.line = b /\ p.begun = b /\ p.from = f /\ p.thru = t
      /\ p.kind \notin Verbatim
  BY <1>p DEF Verbatim
<1>6. Ahead(b)' = h
  <2>1. Ahead(b)' = Ahead(b)
    <3>1. lines' = lines
      BY <1>1
    <3> QED BY <1>u, <1>3, <1>4, <1>5, <3>1, ColumnsKeep
  <2> QED BY <1>2, <2>1
<1>7. t - h \in 1 .. Len(lines[b]) + 1 /\ t - h - 1 = Len(lines[b]) /\ f <= t
  <2>1. PICK n \in Nat, w \in Nat : n = Len(First) /\ w = Len(lines[b])
    BY <1>n
  <2>2. t = f + n /\ c + n = w /\ f - h = c + 1
    BY <1>n, <1>t, <2>1
  <2>3. t - h \in 1 .. w + 1 /\ t - h - 1 = w /\ f <= t
    BY <2>2
  <2> QED BY <2>1, <2>3
<1>8. AllPlaced /\ lines' = lines /\ b \in b .. Len(lines)
  BY <1>1, LinesType DEF Tiling
<1>9. AllPlaced' /\ UpTo(b, t)'
  <2>1. p.thru - Ahead(p.line)' \in 1 .. Len(lines[p.line]) + 1
    BY <1>5, <1>6, <1>7
  <2>2. p.line \in b .. Len(lines) /\ (p.line = b => f <= p.thru)
    BY <1>5, <1>7, <1>8
  <2>3. AllPlaced' /\ UpTo(p.line, p.thru)'
    BY <1>u, <1>3, <1>4, <1>5, <1>8, <2>1, <2>2, AppendKeeps
  <2> QED BY <1>5, <2>3
<1>10. (\A l \in 1 .. b : Dealt(l)') /\ (\A i \in 1 .. Len(pieces') : pieces'[i].line <= b)
  <2>1. b \in 1 .. Len(lines') /\ t - Ahead(b)' - 1 = Len(lines'[b])
    BY <1>6, <1>7, <1>8
  <2> QED BY <1>u, <1>9, <2>1, WholeRow
<1>11. line' = b
  BY <1>1, <1>2
<1> QED BY <1>1, <1>9, <1>10, <1>11 DEF Position

\* A comment, string or regular expression begins: what comes before it stays dealt with.
LEMMA Opened ==
  ASSUME TypeOK, TypeOK', Tiling, status = "running", mode = "token", NEW k \in Nat,
         Matches(k), match(k), UNCHANGED pieces
  PROVE  /\ AllPlaced' /\ AtRow' /\ UpTo(begun, from)' /\ from' - Ahead(begun)' <= Len(lines'[begun'])
         /\ from' \in Nat /\ character' = from' + k /\ begun' = line' /\ from' <= character'
         /\ source_row' = Rest(lines'[line'], from' - Ahead(line)' - 1 + k)
<1>1. /\ from' = character + Blanks /\ character' = character + Blanks + k /\ begun' = line
      /\ source_row' = Rest(First, k) /\ UNCHANGED <<lines, line>>
  BY DEF match
<1>2. PICK b \in 1 .. Len(lines), f \in Nat, h \in {0, 1}, c \in Nat :
        /\ b = line /\ f = character + Blanks /\ h = Ahead(b) /\ f - h = c + 1
        /\ UpTo(b, f) /\ k >= 1 /\ c + k <= Len(lines[b]) /\ c + Len(First) = Len(lines[b])
        /\ Len(lines[b]) \in Nat /\ Len(First) \in Nat /\ b \in Nat
        /\ Rest(First, k) = Rest(lines[b], c + k)
        /\ Text(k) = SubSeq(lines[b], c + 1, c + k)
  BY MatchAt
<1>n. f - h = c + 1 /\ c + k <= Len(lines[b]) /\ Len(lines[b]) \in Nat /\ k >= 1
  BY <1>2
<1>3. begun' = b /\ line' = b /\ from' = f /\ character' = f + k /\ lines' = lines /\ source_row' = Rest(lines[b], c + k)
  BY <1>1, <1>2
<1>4. AllPlaced' /\ UpTo(b, f)' /\ Ahead(b)' = h
  <2>1. UNCHANGED <<lines, pieces>>
    BY <1>1
  <2> QED BY <1>2, <2>1, Unmoved DEF Tiling
<1>5. f + k - h \in 1 .. Len(lines[b]) + 1 /\ f + k - h - 1 = c + k /\ f - h <= Len(lines[b]) /\ f <= f + k
      /\ f - h - 1 + k = c + k
  BY <1>n
<1>6. AtRow'
  BY <1>3, <1>4, <1>5 DEF AtRow
<1>7. UpTo(begun, from)'
  BY <1>3, <1>4
<1>8. source_row' = Rest(lines'[line'], from' - Ahead(line)' - 1 + k) /\ from' - Ahead(begun)' <= Len(lines'[begun'])
  BY <1>3, <1>4, <1>5
<1> QED BY <1>3, <1>4, <1>5, <1>6, <1>7, <1>8

\* A quote is a token of one character.
LEMMA QuoteIsOne ==
  ASSUME NEW s, s[1] \in Quotes
  PROVE  Snippet(s) = 1
<1> DEFINE q == s[1]
<1>1. q = "'" \/ q = DoubleQuote
  BY DEF Quotes
<1>2. q \notin Letters /\ q \notin Digits /\ q \notin {"=", "+", "\\", "/", "*", "|", "^"}
  BY <1>1, OtherCharacters DEF Letters, Reserved, Digits
<1>3. Pairs(q) = {}
  BY <1>2 DEF Pairs
<1> HIDE DEF q
<1>4. Snippet(s) = IF At(s, 2) \in Pairs(q) THEN 2 ELSE 1
  BY <1>2 DEF Snippet, q
<1> QED BY <1>3, <1>4

\* Every action of token but the end of the text.
LEMMA TokenTiles ==
  ASSUME TypeOK, TypeOK', Tiling, status = "running", token, ~EndOfText
  PROVE  AllPlaced' /\ (status' # "stopped" => Position')
<1> DEFINE Goal == AllPlaced' /\ (status' # "stopped" => Position')
<1>m. mode = "token"
  BY DEF token
<1>0. (AllPlaced' /\ Position') => Goal
  OBVIOUS
<1> SUFFICES Goal
  OBVIOUS
<1>v. {"identifier", "number", "punctuator"} \subseteq Verbatim
  BY DEF Verbatim
<1>1. CASE EndOfRow
  BY <1>m, <1>1, EndOfRowPlaced
<1>2. CASE NoMatch
  BY <1>m, <1>2, NoMatchPlaced
<1> HIDE DEF Goal
<1>3. ASSUME NEW k \in Nat, Word(k) PROVE Goal
  <2>1. Matches(k) /\ match(k) /\ it("identifier", Text(k)) /\ UNCHANGED mode
    BY <1>3 DEF Word
  <2> QED BY <1>0, <1>m, <1>v, <2>1, TokenPlaced
<1>4. ASSUME NEW k \in Nat, number(k) PROVE Goal
  <2>1. Matches(k) /\ match(k) /\ it("number", Text(k)) /\ UNCHANGED mode
    BY <1>4 DEF number
  <2> QED BY <1>0, <1>m, <1>v, <2>1, TokenPlaced
<1>5. ASSUME NEW k \in Nat, Punctuator(k) PROVE Goal
  <2>1. Matches(k) /\ match(k) /\ it("punctuator", Text(k)) /\ UNCHANGED mode
    BY <1>5 DEF Punctuator
  <2> QED BY <1>0, <1>m, <1>v, <2>1, TokenPlaced
<1>6. ASSUME NEW k \in Nat, Slash(k) PROVE Goal
  <2>1. /\ Matches(k) /\ match(k)
        /\ \/ status' = "stopped" /\ UNCHANGED pieces
           \/ mode' = "regexp" /\ UNCHANGED pieces
           \/ it("punctuator", Text(k)) /\ UNCHANGED mode
    BY <1>6 DEF Slash, stop
  <2>2. CASE status' = "stopped" /\ UNCHANGED pieces
    <3>1. AllPlaced'
      BY <1>m, <2>1, <2>2, Opened
    <3> QED BY <2>2, <3>1 DEF Goal
  <2>3. CASE mode' = "regexp" /\ UNCHANGED pieces
    <3>1. /\ AllPlaced' /\ AtRow' /\ UpTo(begun, from)' /\ from' - Ahead(begun)' <= Len(lines'[begun'])
          /\ begun' = line' /\ from' <= character'
      BY <1>m, <2>1, <2>3, Opened
    <3>2. Position'
      BY <2>3, <3>1 DEF Position
    <3> QED BY <1>0, <3>1, <3>2
  <2>4. CASE it("punctuator", Text(k)) /\ UNCHANGED mode
    BY <1>0, <1>m, <1>v, <2>1, <2>4, TokenPlaced
  <2> QED BY <2>1, <2>2, <2>3, <2>4
<1>7. ASSUME NEW k \in Nat, LineComment(k) PROVE Goal
  BY <1>0, <1>m, <1>7, LineCommentPlaced
<1>8. ASSUME NEW k \in Nat, OpenComment(k) PROVE Goal
  <2>1. Matches(k) /\ match(k) /\ mode' = "comment" /\ UNCHANGED pieces
    BY <1>8 DEF OpenComment
  <2>2. /\ AllPlaced' /\ AtRow' /\ UpTo(begun, from)' /\ from' - Ahead(begun)' <= Len(lines'[begun'])
        /\ begun' = line' /\ from' <= character'
    BY <1>m, <2>1, Opened
  <2>3. Position'
    BY <2>1, <2>2 DEF Position
  <2> QED BY <1>0, <2>2, <2>3
<1>9. ASSUME NEW k \in Nat, OpenString(k) PROVE Goal
  <2>1. Matches(k) /\ match(k) /\ mode' = "string" /\ pos' = 0 /\ UNCHANGED pieces /\ First[1] \in Quotes
    BY <1>9 DEF OpenString
  <2>2. k = 1
    BY <2>1, QuoteIsOne DEF Matches
  <2>3. /\ AllPlaced' /\ UpTo(begun, from)' /\ from' - Ahead(begun)' <= Len(lines'[begun'])
        /\ from' \in Nat /\ character' = from' + k /\ begun' = line'
        /\ source_row' = Rest(lines'[line'], from' - Ahead(line)' - 1 + k)
    BY <1>m, <2>1, Opened
  <2>4. StringRow'
    <3>b. PICK b : b = line'
      OBVIOUS
    <3>f. PICK f \in Nat : f = from'
      BY <2>3
    <3>h. PICK h \in {0, 1} : h = Ahead(b)'
      BY DEF Ahead
    <3>1. f - h - 1 + 1 = f - h /\ f + 1 = f + 1 + 0
      OBVIOUS
    <3>2. begun' = b /\ source_row' = Rest(lines'[b], f - h) /\ character' = f + 1 + 0
      BY <2>2, <2>3, <3>b, <3>f, <3>h, <3>1
    <3> QED BY <2>1, <3>b, <3>f, <3>h, <3>2 DEF StringRow
  <2>5. InString'
    <3>1. {0} \in SUBSET Nat /\ 0 \in {0} /\ pos' \in {0}
      BY <2>1
    <3>2. {0} \ {pos'} = {}
      BY <2>1
    <3> QED BY <2>4, <3>1, <3>2 DEF InString
  <2>6. Position'
    BY <2>1, <2>3, <2>5 DEF Position
  <2> QED BY <1>0, <2>3, <2>6
<1>10. Len(source_row) \in Nat
  BY LenProperties DEF TypeOK
<1>11. \A k \in 1 .. Len(source_row) : k \in Nat
  BY <1>10
<1>12. \/ EndOfRow \/ NoMatch
       \/ \E k \in 1 .. Len(source_row) :
            Word(k) \/ number(k) \/ Slash(k) \/ LineComment(k) \/ OpenComment(k) \/ OpenString(k) \/ Punctuator(k)
  BY DEF token
<1> QED BY <1>1, <1>2, <1>3, <1>4, <1>5, <1>6, <1>7, <1>8, <1>9, <1>11, <1>12

\* A comment goes on over its lines, up to its end.
LEMMA CommentTiles ==
  ASSUME TypeOK, TypeOK', Tiling, status = "running", comment
  PROVE  AllPlaced' /\ (status' # "stopped" => Position')
<1>1. /\ mode = "comment" /\ UNCHANGED <<lines, from, begun>>
      /\ \/ UNCHANGED pieces /\ mode' = "comment" /\ next_line
         \/ UNCHANGED pieces /\ status' = "stopped"
         \/ /\ StarSlash # 0 /\ character' = character + StarSlash + 1 /\ source_row' = Rest(source_row, StarSlash + 1)
            /\ mode' = "token" /\ Comment(character') /\ line' = line
  BY DEF comment, stop
<1>2. /\ AllPlaced /\ UpTo(begun, from) /\ from - Ahead(begun) <= Len(lines[begun])
      /\ AtRow /\ (line = begun => from <= character)
  BY <1>1 DEF Tiling, Position
<1>b. PICK b \in Nat : b = begun
  BY DEF TypeOK
<1>e. PICK e \in Nat : e = line
  BY LinesType DEF TypeOK
<1>f. PICK f \in Nat : f = from
  BY DEF TypeOK
<1>3. b \in 1 .. Len(lines) /\ e \in 1 .. Len(lines) /\ b <= e /\ e \in b .. Len(lines)
  <2>1. e \in 1 .. Len(lines) /\ b \in 1 .. e /\ Len(lines) \in Nat
    BY <1>b, <1>e, LinesType DEF TypeOK
  <2> QED BY <2>1
<1>4. CASE UNCHANGED pieces /\ status' = "stopped"
  BY <1>1, <1>2, <1>4, Unmoved
<1>5. CASE UNCHANGED pieces /\ mode' = "comment" /\ next_line
  <2>1. e + 1 \in 1 .. Len(lines) /\ line' = e + 1 /\ source_row' = lines[e + 1] /\ character' = 1
    BY <1>3, <1>5, <1>e, LinesType DEF next_line
  <2>2. Ahead(e + 1) = 0
    <3>1. ASSUME NEW i \in 1 .. Len(pieces) PROVE pieces[i].line # e + 1
      <4>1. PICK l \in Nat : l = pieces[i].line
        BY PieceFields
      <4>2. l < b \/ l = b
        BY <1>2, <1>b, <4>1 DEF UpTo
      <4> QED BY <1>3, <4>1, <4>2
    <3> QED BY <3>1, AheadNone
  <2>3. Ahead(e + 1)' = 0 /\ AllPlaced' /\ UpTo(b, f)' /\ Ahead(b)' = Ahead(b)
    BY <1>1, <1>2, <1>5, <1>b, <1>f, <2>2, Unmoved
  <2>4. lines[e + 1] = Rest(lines[e + 1], 0) /\ Len(lines[e + 1]) \in Nat
    BY <2>1, LinesType, RestWhole
  <2>5. AtRow'
    <3>1. 1 - 0 \in 1 .. Len(lines[e + 1]) + 1 /\ 1 - 0 - 1 = 0
      BY <2>4
    <3>2. lines' = lines
      BY <1>1
    <3> QED BY <2>1, <2>3, <2>4, <3>1, <3>2 DEF AtRow
  <2>6. line' # begun'
    <3>1. e + 1 # b
      BY <1>3
    <3> QED BY <1>1, <1>b, <2>1, <3>1
  <2>7. UpTo(begun, from)' /\ from' - Ahead(begun)' <= Len(lines'[begun'])
    <3>1. begun' = b /\ from' = f /\ lines' = lines
      BY <1>1, <1>b, <1>f
    <3>2. f - Ahead(b) <= Len(lines[b])
      BY <1>2, <1>b, <1>f
    <3> QED BY <2>3, <3>1, <3>2
  <2>8. Position'
    BY <1>5, <2>5, <2>6, <2>7 DEF Position
  <2> QED BY <2>3, <2>8
<1>6. CASE /\ StarSlash # 0 /\ character' = character + StarSlash + 1 /\ source_row' = Rest(source_row, StarSlash + 1)
           /\ mode' = "token" /\ Comment(character') /\ line' = line
  <2>1. /\ Left \in Nat /\ Len(source_row) \in Nat /\ Len(lines[line]) \in Nat
        /\ Left + Len(source_row) = Len(lines[line])
        /\ \A j \in 0 .. Len(source_row) : Rest(source_row, j) = Rest(lines[line], Left + j)
    BY <1>2, RowFacts
  <2>s. PICK s \in Nat : s = StarSlash
    BY StarSlashProperties DEF TypeOK
  <2>2. s \in 1 .. Len(source_row) - 1 /\ s + 1 \in 0 .. Len(source_row)
    <3>1. s \in 1 .. Len(source_row) - 1
      BY <1>6, <2>s, StarSlashProperties DEF TypeOK
    <3> QED BY <2>1, <3>1
  <2>h. PICK h \in {0, 1} : h = Ahead(e)
    BY AheadType
  <2>c. PICK c \in Nat : c = Left
    BY <2>1
  <2>g. PICK g \in Nat : g = character
    BY DEF TypeOK
  <2>t. PICK t \in Nat : t = g + s + 1
    OBVIOUS
  <2>3. c = g - h - 1 /\ c + (s + 1) <= Len(lines[e]) /\ Len(lines[e]) \in Nat
    <3>1. c = g - h - 1
      BY <1>e, <2>c, <2>g, <2>h DEF Left
    <3>2. PICK n \in Nat, w \in Nat : n = Len(source_row) /\ w = Len(lines[e])
      BY <1>e, <2>1
    <3>3. c + n = w /\ s + 1 <= n
      BY <1>e, <2>1, <2>2, <2>c, <3>2
    <3> QED BY <3>1, <3>2, <3>3
  <2>4. t - h \in 1 .. Len(lines[e]) + 1 /\ t - h - 1 = c + (s + 1) /\ g <= t
    BY <2>3, <2>t
  <2>5. character' = t /\ source_row' = Rest(lines[e], c + (s + 1)) /\ line' = e /\ lines' = lines
    BY <1>1, <1>6, <1>e, <2>1, <2>2, <2>c, <2>g, <2>s, <2>t
  <2>p. PICK p : p = [kind |-> "comment", text |-> <<>>, line |-> e, begun |-> b, from |-> f, thru |-> t]
    OBVIOUS
  <2>6. pieces' = Append(pieces, p)
    <3>1. character' = t /\ begun' = b /\ from' = f /\ line = e
      BY <1>1, <1>b, <1>e, <1>f, <2>5
    <3> QED BY <1>6, <2>p, <3>1 DEF Comment
  <2>7. p \in Piece
    <3>1. <<>> \in Seq(Characters) /\ "comment" \in Kinds
      BY DEF Kinds
    <3> QED BY <2>p, <3>1 DEF Piece
  <2>8. /\ p.kind = "comment" /\ p.line = e /\ p.begun = b /\ p.from = f /\ p.thru = t
        /\ p.kind \notin Verbatim /\ p.kind # "string"
    BY <2>p DEF Verbatim
  <2>9. Ahead(e)' = h
    BY <2>6, <2>8, <2>h, AheadAppend
  <2>10. AtRow'
    BY <2>4, <2>5, <2>9 DEF AtRow
  <2>11. p.line \in b .. Len(lines) /\ p.line = line' /\ p.thru = character' /\ (p.line = b => f <= p.thru)
    <3>1. e = b => f <= g
      BY <1>2, <1>b, <1>e, <1>f, <2>g
    <3>2. e = b => f <= t
      BY <2>4, <3>1
    <3> QED BY <1>3, <2>5, <2>8, <3>2
  <2>12. UpTo(b, f) /\ lines' = lines /\ mode' = "token"
    BY <1>2, <1>6, <1>b, <1>f, <2>5
  <2> QED BY <1>2, <1>3, <2>6, <2>7, <2>8, <2>10, <2>11, <2>12, NewPiece
<1> QED BY <1>1, <1>4, <1>5, <1>6

\* Inside a regular expression nothing of the line is taken yet.
LEMMA InRegexp ==
  ASSUME TypeOK, Tiling, status = "running", mode \in {"regexp", "class"}, mode' \in {"regexp", "class"},
         UNCHANGED <<lines, line, source_row, character, from, begun, pieces>>
  PROVE  AllPlaced' /\ Position'
<1>1. /\ AllPlaced /\ UpTo(begun, from) /\ from - Ahead(begun) <= Len(lines[begun])
      /\ AtRow /\ (line = begun => from <= character) /\ begun = line
  BY DEF Tiling, Position
<1>2. AllPlaced' /\ UpTo(begun, from)' /\ Ahead(begun)' = Ahead(begun) /\ Ahead(line)' = Ahead(line)
  <2>1. PICK b, f, e : b = begun /\ f = from /\ e = line
    OBVIOUS
  <2>2. AllPlaced' /\ UpTo(b, f)' /\ Ahead(b)' = Ahead(b) /\ Ahead(e)' = Ahead(e)
    BY <1>1, <2>1, Unmoved
  <2>3. b = begun' /\ f = from' /\ e = line'
    BY <2>1
  <2> QED BY <2>1, <2>2, <2>3
<1>3. AtRow'
  BY <1>1, <1>2 DEF AtRow
<1> QED BY <1>1, <1>2, <1>3 DEF Position

\* A regular expression up to its end, its flag with it.
LEMMA RegexpTiles ==
  ASSUME TypeOK, TypeOK', Tiling, status = "running", regexp
  PROVE  AllPlaced' /\ (status' # "stopped" => Position')
<1> DEFINE end == length + 1 + (IF R(length + 2) = "g" THEN 1 ELSE 0)
<1>1. /\ mode = "regexp" /\ UNCHANGED <<lines, line, from, begun>>
      /\ \/ UNCHANGED pieces /\ status' = "stopped"
         \/ UNCHANGED <<source_row, character, pieces>> /\ mode' \in {"regexp", "class"}
         \/ /\ R(length + 1) = "/" /\ character' = character + end /\ source_row' = Rest(source_row, end)
            /\ mode' = "token" /\ it("regexp", SubSeq(source_row, 1, length))
  BY DEF regexp, RegexpEnd, RegexpChar, OpenClass, Unclosed, stop
<1>2. /\ AllPlaced /\ UpTo(begun, from) /\ AtRow /\ (line = begun => from <= character) /\ begun = line
  BY <1>1 DEF Tiling, Position
<1>3. CASE UNCHANGED pieces /\ status' = "stopped"
  BY <1>1, <1>2, <1>3, Unmoved
<1>4. CASE UNCHANGED <<source_row, character, pieces>> /\ mode' \in {"regexp", "class"}
  BY <1>1, <1>4, InRegexp
<1>5. CASE /\ R(length + 1) = "/" /\ character' = character + end /\ source_row' = Rest(source_row, end)
           /\ mode' = "token" /\ it("regexp", SubSeq(source_row, 1, length))
  <2>b. PICK b \in 1 .. Len(lines) : b = begun
    BY <1>2 DEF TypeOK
  <2>f. PICK f \in Nat : f = from
    BY DEF TypeOK
  <2>0. b = line /\ b \in Nat /\ b \in b .. Len(lines)
    BY <1>2, <2>b, LinesType
  <2>1. /\ Left \in Nat /\ Len(source_row) \in Nat /\ Len(lines[line]) \in Nat
        /\ Left + Len(source_row) = Len(lines[line])
        /\ \A j \in 0 .. Len(source_row) : Rest(source_row, j) = Rest(lines[line], Left + j)
    BY <1>2, RowFacts
  <2>2. length \in 0 .. Len(source_row) /\ end \in 1 .. Len(source_row)
    BY <1>5, RegexpEndProperties
  <2> HIDE DEF end
  <2>s. PICK s \in Nat : s = end
    BY <2>1, <2>2
  <2>h. PICK h \in {0, 1} : h = Ahead(b)
    BY AheadType
  <2>c. PICK c \in Nat : c = Left
    BY <2>1
  <2>g. PICK g \in Nat : g = character
    BY DEF TypeOK
  <2>t. PICK t \in Nat : t = g + s
    OBVIOUS
  <2>3. c = g - h - 1 /\ c + s <= Len(lines[b]) /\ Len(lines[b]) \in Nat
    <3>1. c = g - h - 1
      BY <2>0, <2>c, <2>g, <2>h DEF Left
    <3>2. PICK n \in Nat, w \in Nat : n = Len(source_row) /\ w = Len(lines[b])
      BY <2>0, <2>1
    <3>3. c + n = w /\ s <= n
      BY <2>0, <2>1, <2>2, <2>c, <2>s, <3>2
    <3> QED BY <3>1, <3>2, <3>3
  <2>4. t - h \in 1 .. Len(lines[b]) + 1 /\ t - h - 1 = c + s /\ g <= t
    BY <2>3, <2>t
  <2>5. character' = t /\ source_row' = Rest(lines[b], c + s) /\ line' = b /\ lines' = lines
    <3>1. s \in 0 .. Len(source_row)
      BY <2>1, <2>2, <2>s
    <3> QED BY <1>1, <1>5, <2>0, <2>1, <2>c, <2>g, <2>s, <2>t, <3>1
  <2>x. PICK x : x = SubSeq(source_row, 1, length)
    OBVIOUS
  <2>p. PICK p : p = [kind |-> "regexp", text |-> x, line |-> b, begun |-> b, from |-> f, thru |-> t]
    OBVIOUS
  <2>6. pieces' = Append(pieces, p)
    <3>1. character' = t /\ begun' = b /\ from' = f /\ line = b
      BY <1>1, <2>0, <2>5, <2>b, <2>f
    <3> QED BY <1>5, <2>p, <2>x, <3>1 DEF it
  <2>7. p \in Piece
    <3>1. x \in Seq(Characters) /\ "regexp" \in Kinds
      BY <2>2, <2>x, PrefixProperties DEF Kinds, TypeOK
    <3> QED BY <2>0, <2>p, <3>1 DEF Piece
  <2>8. /\ p.kind = "regexp" /\ p.line = b /\ p.begun = b /\ p.from = f /\ p.thru = t
        /\ p.kind \notin Verbatim /\ p.kind # "string"
    BY <2>p DEF Verbatim
  <2>9. Ahead(b)' = h
    BY <2>6, <2>8, <2>h, AheadAppend
  <2>10. AtRow'
    BY <2>4, <2>5, <2>9 DEF AtRow
  <2>11. p.line \in b .. Len(lines) /\ p.line = line' /\ p.thru = character' /\ f <= p.thru
    <3>1. f <= g
      BY <1>2, <2>f, <2>g
    <3>2. f <= t
      BY <2>4, <3>1
    <3> QED BY <2>0, <2>5, <2>8, <3>2
  <2>12. UpTo(b, f) /\ lines' = lines /\ mode' = "token"
    BY <1>2, <1>5, <2>5, <2>b, <2>f
  <2> QED BY <1>2, <2>6, <2>7, <2>8, <2>10, <2>11, <2>12, NewPiece
<1> HIDE DEF end
<1> QED BY <1>1, <1>3, <1>4, <1>5

LEMMA KlassTiles ==
  ASSUME TypeOK, Tiling, status = "running", klass
  PROVE  AllPlaced' /\ Position'
<1>1. /\ mode = "class" /\ mode' \in {"regexp", "class"}
      /\ UNCHANGED <<lines, line, source_row, character, from, begun, pieces>>
  BY DEF klass
<1> QED BY <1>1, InRegexp

\* The row of a string: where it begins in the line, o, and the column counted there, a.
LEMMA StringPlace ==
  ASSUME TypeOK, StringRow, UpTo(begun, from), from - Ahead(begun) <= Len(lines[begun])
  PROVE  \E o, a \in Nat :
           /\ source_row = Rest(lines[line], o) /\ o + Len(source_row) = Len(lines[line]) /\ a <= o + 2
           /\ pos <= Len(source_row) => character = a + pos
           /\ line = begun => o = from - Ahead(line) /\ a = from + 1
           /\ line # begun => o = 0 /\ a = 2
<1>0. lines[line] \in Seq(Characters) /\ Len(lines[line]) \in Nat /\ Len(source_row) \in Nat
  BY LinesType, LenProperties DEF TypeOK
<1>1. CASE line = begun
  <2>h. PICK h \in {0, 1} : h = Ahead(line)
    BY AheadType
  <2>f. PICK f \in Nat : f = from
    BY DEF TypeOK
  <2>n. PICK n \in Nat : n = Len(lines[line])
    BY <1>0
  <2>1. f - h <= n /\ f - h \in 1 .. n + 1
    <3>1. from - Ahead(begun) \in 1 .. Len(lines[begun]) + 1
      BY DEF UpTo
    <3> QED BY <1>1, <2>h, <2>f, <2>n, <3>1
  <2>o. PICK o \in Nat : o = f - h
    BY <2>1
  <2>2. o \in 0 .. n /\ f + 1 \in Nat /\ f + 1 <= o + 2
    BY <2>1, <2>o
  <2>3. source_row = Rest(lines[line], o) /\ (pos <= Len(source_row) => character = f + 1 + pos)
    BY <1>1, <2>h, <2>f, <2>o DEF StringRow
  <2>4. Len(source_row) = n - o
    BY <1>0, <2>2, <2>3, <2>n, RestProperties
  <2>5. o + Len(source_row) = Len(lines[line])
    BY <2>2, <2>4, <2>n
  <2> QED BY <1>1, <2>2, <2>3, <2>5, <2>f, <2>h, <2>o
<1>2. CASE line # begun
  <2>1. source_row = lines[line] /\ (pos <= Len(source_row) => character = 2 + pos)
    BY <1>2 DEF StringRow
  <2>2. source_row = Rest(lines[line], 0) /\ 0 + Len(source_row) = Len(lines[line])
    BY <1>0, <2>1, RestWhole
  <2> QED BY <1>2, <2>1, <2>2
<1> QED BY <1>1, <1>2

\* From an index to the next, where the column counts along with it.
LEMMA StringGoesOn ==
  ASSUME InString, UNCHANGED <<source_row, quote>>, Passed(pos), pos' = Onward(pos), pos' \in Nat,
         pos' # 0 /\ StringRow => StringRow'
  PROVE  InString'
<1>1. PICK V \in SUBSET Nat : /\ 0 \in V /\ pos \in V
                              /\ \A p \in V \ {pos} : Passed(p) /\ Onward(p) \in V
                              /\ StringRow \/ (Passed(pos) /\ Onward(pos) \in V)
  BY DEF InString
<1>2. \A p : (Passed(p)' <=> Passed(p)) /\ Onward(p)' = Onward(p)
  BY DEF Passed, Onward
<1>q. PICK q : q = pos'
  OBVIOUS
<1> DEFINE W == V \cup {q}
<1>3. W \in SUBSET Nat /\ 0 \in W /\ q \in W
  BY <1>1, <1>q
<1>4. ASSUME NEW p \in W \ {q} PROVE Passed(p) /\ Onward(p) \in W
  BY <1>1, <1>4, <1>q
<1>5. CASE q \in V
  <2>1. Passed(q) /\ Onward(q) \in W
    BY <1>1, <1>5, <1>q
  <2> HIDE DEF W
  <2> QED BY <1>2, <1>3, <1>4, <1>q, <2>1 DEF InString
<1>6. CASE q \notin V
  <2>1. StringRow'
    BY <1>1, <1>6, <1>q
  <2> HIDE DEF W
  <2> QED BY <1>2, <1>3, <1>4, <1>q, <2>1 DEF InString
<1> QED BY <1>5, <1>6

\* A character of a string, or an escape, is passed within the line.
LEMMA StringPasses ==
  ASSUME TypeOK, TypeOK', Tiling, status = "running", mode = "string", mode' = "string", NEW d \in Nat,
         UNCHANGED <<lines, line, source_row, from, begun, quote, pieces>>,
         Passed(pos), pos' = Onward(pos), pos' = pos + d, character' = Cap(character + d)
  PROVE  AllPlaced' /\ Position'
<1>1. /\ AllPlaced /\ UpTo(begun, from) /\ from - Ahead(begun) <= Len(lines[begun]) /\ InString
  BY DEF Tiling, Position
<1>2. AllPlaced' /\ UpTo(begun, from)' /\ Ahead(begun)' = Ahead(begun) /\ Ahead(line)' = Ahead(line)
  <2>1. PICK b, f, e : b = begun /\ f = from /\ e = line
    OBVIOUS
  <2>2. AllPlaced' /\ UpTo(b, f)' /\ Ahead(b)' = Ahead(b) /\ Ahead(e)' = Ahead(e)
    BY <1>1, <2>1, Unmoved
  <2>3. b = begun' /\ f = from' /\ e = line'
    BY <2>1
  <2> QED BY <2>1, <2>2, <2>3
<1>3. ASSUME StringRow PROVE StringRow'
  <2>1. PICK o \in Nat, a \in Nat :
           /\ source_row = Rest(lines[line], o) /\ o + Len(source_row) = Len(lines[line]) /\ a <= o + 2
           /\ pos <= Len(source_row) => character = a + pos
           /\ line = begun => o = from - Ahead(line) /\ a = from + 1
           /\ line # begun => o = 0 /\ a = 2
    BY <1>1, <1>3, StringPlace
  <2>n. PICK n \in Nat : n = Len(source_row)
    BY LenProperties DEF TypeOK
  <2>w. PICK w \in Nat : w = Len(lines[line])
    BY LinesType DEF TypeOK
  <2>2. pos \in Nat /\ MaxCharacter \in Nat /\ w + 3 <= MaxCharacter /\ o + n = w
    BY <2>1, <2>n, <2>w, LinesType, LexerAssumption DEF TypeOK, LexerAssumption
  <2>3. ASSUME pos' <= n PROVE character' = a + pos'
    <3>1. pos + d <= n /\ pos <= n
      BY <2>2, <2>3
    <3>2. character = a + pos
      BY <2>1, <2>n, <3>1
    <3>3. character + d = a + (pos + d) /\ a + (pos + d) <= MaxCharacter /\ a + (pos + d) \in Nat
      <4>1. a <= o + 2
        BY <2>1
      <4> QED BY <2>2, <3>1, <3>2, <4>1
    <3>4. Cap(character + d) = character + d
      BY <2>2, <3>3 DEF Cap
    <3> QED BY <3>3, <3>4
  <2>4. pos' <= Len(source_row') => character' = a + pos'
    BY <2>3, <2>n
  <2>5. CASE line = begun
    <3>1. a = from + 1 /\ source_row = Rest(lines[line], from - Ahead(line))
      BY <2>1, <2>5
    <3> QED BY <1>2, <2>4, <2>5, <3>1 DEF StringRow
  <2>6. CASE line # begun
    <3>1. a = 2 /\ source_row = lines[line]
      BY <1>3, <2>1, <2>6 DEF StringRow
    <3> QED BY <2>4, <2>6, <3>1 DEF StringRow
  <2> QED BY <2>5, <2>6
<1>4. InString'
  <2>1. pos' \in Nat
    BY DEF TypeOK
  <2> QED BY <1>1, <1>3, <2>1, StringGoesOn
<1> QED BY <1>1, <1>2, <1>4 DEF Position

\* The quote that ends a string is found in the row that the string is in, and
\* the columns counted after it are those of the text, one too far where the
\* string came from the line before.
LEMMA StringCloses ==
  ASSUME TypeOK, TypeOK', Tiling, status = "running", mode = "string", mode' = "token",
         UNCHANGED <<lines, line, from, begun>>,
         At(source_row, pos + 1) = quote, character' = character + 1, source_row' = Rest(source_row, pos + 1),
         it("string", SubSeq(source_row, 1, pos))
  PROVE  AllPlaced' /\ Position'
<1>1. /\ AllPlaced /\ UpTo(begun, from) /\ from - Ahead(begun) <= Len(lines[begun]) /\ InString
  BY DEF Tiling, Position
<1>2. pos \in Nat /\ Len(source_row) \in Nat /\ source_row \in Seq(Characters)
  BY LenProperties DEF TypeOK
<1>3. pos + 1 \in 1 .. Len(source_row)
  <2>1. quote # NoCharacter
    BY OtherCharacters DEF TypeOK
  <2> QED BY <1>2, <2>1, AtProperties
<1>4. StringRow
  <2>1. ~Passed(pos)
    BY DEF Passed
  <2> QED BY <1>1, <2>1 DEF InString
<1>5. PICK o \in Nat, a \in Nat :
         /\ source_row = Rest(lines[line], o) /\ o + Len(source_row) = Len(lines[line]) /\ a <= o + 2
         /\ pos <= Len(source_row) => character = a + pos
         /\ line = begun => o = from - Ahead(line) /\ a = from + 1
         /\ line # begun => o = 0 /\ a = 2
  BY <1>1, <1>4, StringPlace
<1>b. PICK b \in 1 .. Len(lines) : b = begun
  BY LinesType DEF TypeOK
<1>e. PICK e \in 1 .. Len(lines) : e = line
  BY DEF TypeOK
<1>f. PICK f \in Nat : f = from
  BY DEF TypeOK
<1>n. PICK n \in Nat, w \in Nat, k \in Nat : n = Len(source_row) /\ w = Len(lines[e]) /\ k = pos
  BY <1>2, LinesType
<1>t. PICK t \in Nat : t = a + k + 1
  OBVIOUS
<1>6. b \in Nat /\ e \in Nat /\ b <= e /\ e \in b .. Len(lines)
  <2>1. b \in 1 .. e /\ e \in 1 .. Len(lines) /\ Len(lines) \in Nat
    BY <1>b, <1>e, LinesType DEF TypeOK
  <2> QED BY <2>1
<1>7. o + n = w /\ k + 1 <= n /\ character = a + k /\ character' = t
  <2>1. k + 1 <= n /\ k <= n
    BY <1>3, <1>n
  <2>2. character = a + k
    BY <1>5, <1>n, <2>1
  <2> QED BY <1>5, <1>e, <1>n, <1>t, <2>1, <2>2
<1>8. source_row' = Rest(lines[e], o + (k + 1))
  <2>1. lines[e] \in Seq(Characters) /\ o \in 0 .. w /\ k + 1 \in 0 .. w - o
    BY <1>7, LinesType
  <2>2. Rest(Rest(lines[e], o), k + 1) = Rest(lines[e], o + (k + 1))
    BY <1>n, <2>1, RestOfRest
  <2> QED BY <1>5, <1>e, <1>n, <2>2
<1>x. PICK x : x = SubSeq(source_row, 1, pos)
  OBVIOUS
<1>p. PICK p : p = [kind |-> "string", text |-> x, line |-> e, begun |-> b, from |-> f, thru |-> t]
  OBVIOUS
<1>9. pieces' = Append(pieces, p)
  <2>1. character' = t /\ begun' = b /\ from' = f /\ line = e
    BY <1>7, <1>b, <1>e, <1>f
  <2> QED BY <1>p, <1>x, <2>1 DEF it
<1>10. p \in Piece
  <2>1. pos \in 0 .. Len(source_row)
    BY <1>2, <1>3
  <2>2. x \in Seq(Characters) /\ "string" \in Kinds
    BY <1>2, <1>x, <2>1, PrefixProperties DEF Kinds
  <2> QED BY <1>6, <1>p, <2>2 DEF Piece
<1>11. /\ p.kind = "string" /\ p.line = e /\ p.begun = b /\ p.from = f /\ p.thru = t
       /\ p.kind \notin Verbatim
  BY <1>p DEF Verbatim
<1>12. PICK h \in {0, 1} : h = Ahead(e)'
  BY DEF Ahead
<1>13. a = o + 1 + h /\ (e = b => f <= t)
  <2>1. CASE e = b
    <3>1. Ahead(e)' = Ahead(e)
      BY <1>9, <1>11, <2>1, <1>6, AheadAppend
    <3>2. o = f - h /\ a = f + 1
      BY <1>5, <1>12, <1>b, <1>e, <1>f, <2>1, <3>1
    <3> QED BY <1>t, <3>2
  <2>2. CASE e # b
    <3>1. b < e
      BY <1>6, <2>2
    <3>2. Ahead(e)' = 1
      BY <1>9, <1>11, <3>1, AheadAppend
    <3>3. o = 0 /\ a = 2
      BY <1>5, <1>b, <1>e, <2>2
    <3> QED BY <1>12, <2>2, <3>2, <3>3
  <2> QED BY <2>1, <2>2
<1>14. t - h \in 1 .. w + 1 /\ t - h - 1 = o + (k + 1)
  BY <1>7, <1>13, <1>t
<1>15. AtRow'
  <2>1. line' = e /\ character' = t /\ lines' = lines
    BY <1>7, <1>e
  <2> QED BY <1>8, <1>12, <1>14, <1>n, <2>1 DEF AtRow
<1>16. p.line \in b .. Len(lines) /\ p.line = line' /\ p.thru = character' /\ (p.line = b => f <= p.thru)
  BY <1>6, <1>7, <1>11, <1>13, <1>e
<1>17. UpTo(b, f) /\ lines' = lines
  BY <1>1, <1>b, <1>f
<1> QED BY <1>1, <1>9, <1>10, <1>11, <1>15, <1>16, <1>17, NewPiece

\* A backslash at the end of the line: the string goes on in the next, or, in the
\* last, comes back to where it began.
LEMMA StringContinues ==
  ASSUME TypeOK, TypeOK', Tiling, status = "running", mode = "string", mode' = "string",
         UNCHANGED <<lines, from, begun, quote, pieces>>,
         At(source_row, pos + 1) = "\\", At(source_row, pos + 2) = NoCharacter, ContinueLine
  PROVE  AllPlaced' /\ Position'
<1>1. /\ AllPlaced /\ UpTo(begun, from) /\ from - Ahead(begun) <= Len(lines[begun]) /\ InString
  BY DEF Tiling, Position
<1>2. AllPlaced' /\ UpTo(begun, from)' /\ Ahead(begun)' = Ahead(begun)
  <2>1. PICK b, f : b = begun /\ f = from
    OBVIOUS
  <2>2. AllPlaced' /\ UpTo(b, f)' /\ Ahead(b)' = Ahead(b)
    BY <1>1, <2>1, Unmoved
  <2>3. b = begun' /\ f = from'
    BY <2>1
  <2> QED BY <2>1, <2>2, <2>3
<1>3. CASE line' = line + 1 /\ source_row' = lines[line + 1] /\ character' = 2 /\ pos' = 0
  <2>1. line' # begun'
    <3>1. PICK b \in Nat, e \in Nat : b = begun /\ e = line
      BY LinesType DEF TypeOK
    <3>2. b <= e
      BY <3>1 DEF TypeOK
    <3>3. e + 1 # b
      BY <3>2
    <3> QED BY <1>3, <3>1, <3>3
  <2>2. source_row' = lines'[line'] /\ character' = 2 + pos'
    BY <1>3
  <2>3. StringRow'
    BY <2>1, <2>2 DEF StringRow
  <2>4. InString'
    <3>1. {0} \in SUBSET Nat /\ 0 \in {0} /\ pos' \in {0}
      BY <1>3
    <3>2. {0} \ {pos'} = {}
      BY <1>3
    <3> QED BY <2>3, <3>1, <3>2 DEF InString
  <2> QED BY <1>1, <1>2, <2>4 DEF Position
<1>4. CASE UNCHANGED <<line, source_row>> /\ pos' = 0
  <2>1. Passed(pos)
    <3>1. pos + 1 \in 1 .. Len(source_row)
      BY AtProperties, OtherCharacters DEF TypeOK
    <3>2. quote # "\\"
      BY OtherCharacters DEF TypeOK, Quotes
    <3>3. pos \in Nat /\ Len(source_row) \in Nat
      BY LenProperties DEF TypeOK
    <3>4. pos < Len(source_row)
      BY <3>1, <3>3
    <3> QED BY <3>2, <3>4 DEF Passed
  <2>2. pos' = Onward(pos)
    BY <1>4 DEF Onward
  <2>3. InString'
    BY <1>1, <1>4, <2>1, <2>2, StringGoesOn
  <2> QED BY <1>1, <1>2, <2>3 DEF Position
<1> QED BY <1>3, <1>4 DEF ContinueLine

\* Every turn of the loop of string.
LEMMA StringTiles ==
  ASSUME TypeOK, TypeOK', Tiling, status = "running", string
  PROVE  AllPlaced' /\ (status' # "stopped" => Position')
<1> DEFINE c == At(source_row, pos + 1)
           e == At(source_row, pos + 2)
<1>1. mode = "string" /\ UNCHANGED <<lines, from, begun, quote>>
  BY DEF string
<1>2. pos \in Nat /\ Len(source_row) \in Nat /\ source_row \in Seq(Characters) /\ quote \in Quotes
  BY <1>1, LenProperties DEF TypeOK
<1>3. ASSUME c # NoCharacter PROVE pos < Len(source_row)
  <2>1. pos + 1 \in 1 .. Len(source_row)
    BY <1>2, <1>3, AtProperties
  <2> QED BY <1>2, <2>1
<1>4. CASE UNCHANGED <<line, pieces>> /\ status' = "stopped"
  <2>1. AllPlaced
    BY DEF Tiling
  <2> QED BY <1>1, <1>4, <2>1, Unmoved
<1>5. CASE /\ c = quote /\ character' = character + 1 /\ source_row' = Rest(source_row, pos + 1)
           /\ it("string", SubSeq(source_row, 1, pos)) /\ mode' = "token" /\ UNCHANGED line
  BY <1>1, <1>5, StringCloses
<1>6. CASE c = "\\" /\ e = NoCharacter /\ ContinueLine /\ UNCHANGED <<mode, pieces>>
  BY <1>1, <1>6, StringContinues
<1>7. CASE /\ c = "\\" /\ e # NoCharacter /\ pos' = pos + 2 + EscapeLength(e)
           /\ character' = Cap(character + 2 + EscapeLength(e)) /\ UNCHANGED <<line, source_row, mode, pieces>>
  <2>1. PICK d \in Nat : d = 2 + EscapeLength(e)
    BY DEF EscapeLength
  <2>2. EscapeLength(e) \in Nat /\ character \in Nat
    BY DEF EscapeLength, TypeOK
  <2>3. Passed(pos)
    <3>1. c # quote /\ c # NoCharacter
      BY <1>2, <1>7, OtherCharacters DEF Quotes
    <3> QED BY <1>3, <3>1 DEF Passed
  <2>4. pos' = Onward(pos)
    BY <1>7 DEF Onward
  <2> HIDE DEF e, c
  <2>5. pos' = pos + d /\ character' = Cap(character + d)
    <3>1. pos + 2 + EscapeLength(e) = pos + d /\ character + 2 + EscapeLength(e) = character + d
      BY <1>2, <2>1, <2>2
    <3> QED BY <1>7, <3>1
  <2> QED BY <1>1, <1>7, <2>3, <2>4, <2>5, StringPasses
<1>8. CASE /\ c \notin {NoCharacter, quote, "\\"} /\ pos' = pos + 1 /\ character' = Cap(character + 1)
           /\ UNCHANGED <<line, source_row, mode, pieces>>
  <2>1. Passed(pos)
    BY <1>3, <1>8 DEF Passed
  <2>2. pos' = Onward(pos)
    BY <1>8 DEF Onward
  <2>3. 1 \in Nat /\ pos' = pos + 1 /\ character' = Cap(character + 1) /\ mode' = "string"
    BY <1>1, <1>8
  <2> HIDE DEF c, e
  <2> QED BY <1>1, <1>8, <2>1, <2>2, <2>3, StringPasses
<1> HIDE DEF c, e
<1>9. \/ UNCHANGED <<line, pieces>> /\ status' = "stopped"
      \/ /\ c = quote /\ character' = character + 1 /\ source_row' = Rest(source_row, pos + 1)
         /\ it("string", SubSeq(source_row, 1, pos)) /\ mode' = "token" /\ UNCHANGED line
      \/ c = "\\" /\ e = NoCharacter /\ ContinueLine /\ UNCHANGED <<mode, pieces>>
      \/ /\ c = "\\" /\ e # NoCharacter /\ pos' = pos + 2 + EscapeLength(e)
         /\ character' = Cap(character + 2 + EscapeLength(e)) /\ UNCHANGED <<line, source_row, mode, pieces>>
      \/ /\ c \notin {NoCharacter, quote, "\\"} /\ pos' = pos + 1 /\ character' = Cap(character + 1)
         /\ UNCHANGED <<line, source_row, mode, pieces>>
  BY DEF string, stop, c, e
<1> QED BY <1>4, <1>5, <1>6, <1>7, <1>8, <1>9

\* The text ends at the end of its last line, and nowhere else.
LEMMA EndsOnly ==
  ASSUME TypeOK, Next, ~(mode = "token" /\ EndOfText)
  PROVE  status' # "ended"
<1>r. status = "running"
  BY DEF Next
<1>1. ASSUME Quiet PROVE status' # "ended"
  BY <1>r, <1>1 DEF Quiet, report
<1>2. ASSUME NEW ms, stop(ms) PROVE status' # "ended"
  BY <1>2 DEF stop
<1>3. ASSUME NEW ms, warn(ms, "running") PROVE status' # "ended"
  BY <1>3 DEF warn
<1>4. CASE token
  <2>1. mode = "token"
    BY <1>4 DEF token
  <2>2. CASE EndOfRow \/ NoMatch
    BY <1>1, <1>2, <2>2 DEF EndOfRow, NoMatch
  <2>3. ASSUME NEW k, Word(k) \/ LineComment(k) \/ OpenComment(k) \/ Punctuator(k) PROVE status' # "ended"
    BY <1>1, <2>3 DEF Word, LineComment, OpenComment, Punctuator
  <2>4. ASSUME NEW k, Slash(k) PROVE status' # "ended"
    BY <1>1, <1>2, <2>4 DEF Slash
  <2>5. ASSUME NEW k, number(k) PROVE status' # "ended"
    <3>1. \E ms : warn(ms, "running")
      BY <2>5 DEF number
    <3> QED BY <1>3, <3>1
  <2>6. ASSUME NEW k, OpenString(k) PROVE status' # "ended"
    <3>1. \E ms : warn(ms, "running")
      BY <2>6 DEF OpenString
    <3> QED BY <1>3, <3>1
  <2> QED BY <1>4, <2>1, <2>2, <2>3, <2>4, <2>5, <2>6 DEF token
<1>5. CASE comment
  BY <1>1, <1>2, <1>5 DEF comment
<1>6. CASE string
  <2>1. Quiet \/ (\E ms : stop(ms)) \/ (\E ms : warn(ms, "running"))
    BY <1>6 DEF string, ContinueLine
  <2> QED BY <1>1, <1>2, <1>3, <2>1
<1>7. CASE regexp
  <2>1. CASE RegexpEnd
    <3>1. (\E ms : stop(ms)) \/ (\E ms : warn(ms, "running"))
      BY <2>1 DEF RegexpEnd
    <3> QED BY <1>2, <1>3, <3>1
  <2>2. CASE RegexpChar
    <3>1. \E ms : warn(ms, "running")
      BY <2>2 DEF RegexpChar
    <3> QED BY <1>3, <3>1
  <2>3. CASE OpenClass
    <3>1. (\E ms : stop(ms)) \/ (\E ms : warn(ms, "running"))
      BY <2>3 DEF OpenClass
    <3> QED BY <1>2, <1>3, <3>1
  <2>4. CASE Unclosed
    BY <1>2, <2>4 DEF Unclosed
  <2> QED BY <1>7, <2>1, <2>2, <2>3, <2>4 DEF regexp
<1>8. CASE klass
  <2>1. \E ms : warn(ms, "running")
    BY <1>8 DEF klass
  <2> QED BY <1>3, <2>1
<1> QED BY <1>4, <1>5, <1>6, <1>7, <1>8 DEF Next

\* From step to step the pieces tile what was read.
LEMMA TilingKept ==
  ASSUME TypeOK, TypeOK', Tiling, Next
  PROVE  Tiling'
<1>r. status = "running"
  BY DEF Next
<1>1. CASE mode = "token" /\ EndOfText
  <2>1. /\ UNCHANGED <<lines, pieces, line, mode, source_row>> /\ source_row = <<>> /\ line = Len(lines)
        /\ mode = "token"
    BY <1>1 DEF EndOfText, lexed
  <2>2. AllPlaced /\ (\A l \in 1 .. line : Dealt(l)) /\ (\A i \in 1 .. Len(pieces) : pieces[i].line <= line)
    BY <1>r, <2>1 DEF Tiling, Position
  <2>3. AllPlaced' /\ \A l \in 1 .. line : Dealt(l)'
    BY <2>1, <2>2, Unmoved
  <2>4. Position'
    BY <2>1, <2>2, <2>3 DEF Position
  <2> QED BY <2>1, <2>3, <2>4 DEF Tiling
<1>2. CASE ~(mode = "token" /\ EndOfText)
  <2>1. status' # "ended"
    BY <1>2, EndsOnly
  <2>2. token => ~EndOfText
    BY <1>2 DEF token
  <2>3. AllPlaced' /\ (status' # "stopped" => Position')
    BY <1>r, <2>2, TokenTiles, CommentTiles, StringTiles, RegexpTiles, KlassTiles DEF Next
  <2> QED BY <2>1, <2>3 DEF Tiling
<1> QED BY <1>1, <1>2

\* The first line: nothing of it is read yet.
LEMMA InitTiling ==
  Init => Tiling /\ LastToken /\ AsRead /\ NoDivisionSwallowed /\ RegexpEndsAtItsSlash
<1> SUFFICES ASSUME Init PROVE Tiling /\ LastToken /\ AsRead /\ NoDivisionSwallowed /\ RegexpEndsAtItsSlash
  OBVIOUS
<1>1. TypeOK
  BY InitTypes
<1>2. /\ pieces = <<>> /\ Len(pieces) = 0 /\ mode = "token" /\ line = 1 /\ source_row = lines[1] /\ character = 1
      /\ status = "running"
  BY DEF Init, ReportInit
<1>3. Len(lines) \in Nat \ {0} /\ 1 \in 1 .. Len(lines) /\ Len(lines[1]) \in Nat
  <2>1. Len(lines) \in Nat \ {0}
    BY <1>1, LinesType
  <2>2. 1 \in 1 .. Len(lines)
    BY <2>1
  <2> QED BY <1>1, <2>1, <2>2, LinesType
<1>4. AllPlaced
  BY <1>2 DEF AllPlaced
<1>5. Ahead(1) = 0 /\ UpTo(1, 1) /\ lines[1] = Rest(lines[1], 0)
  <2>1. \A i \in 1 .. Len(pieces) : pieces[i].line < 1
    BY <1>2
  <2>2. \A k \in 1 .. 1 - 1 : Dealt(k)
    OBVIOUS
  <2> QED BY <1>1, <1>3, <2>1, <2>2, FreshLine
<1>6. Position
  <2>1. AtRow
    <3>1. 1 - 0 \in 1 .. Len(lines[1]) + 1 /\ 1 - 0 - 1 = 0
      BY <1>3
    <3> QED BY <1>2, <1>5, <3>1 DEF AtRow
  <2>2. CASE source_row # <<>>
    BY <1>2, <1>5, <2>1, <2>2 DEF Position
  <2>3. CASE source_row = <<>>
    <3>1. Len(lines[1]) = 0
      BY <1>2, <2>3
    <3>2. Dealt(1)
      BY <3>1 DEF Dealt, Covered
    <3>3. \A l \in 1 .. 1 : Dealt(l)
      BY <3>2
    <3> QED BY <1>2, <2>3, <3>3 DEF Position
  <2> QED BY <2>2, <2>3
<1>7. Tiling
  BY <1>2, <1>4, <1>6 DEF Tiling
<1>8. LastToken
  BY <1>2 DEF LastToken, Precedes
<1>9. AsRead
  BY <1>2 DEF AsRead
<1>10. NoDivisionSwallowed
  BY <1>2 DEF NoDivisionSwallowed
<1>11. RegexpEndsAtItsSlash
  BY <1>2 DEF RegexpEndsAtItsSlash
<1> QED BY <1>7, <1>8, <1>9, <1>10, <1>11

\* Where pieces are placed so, no column is in two of them, nor beyond the line.
LEMMA ColumnsApart ==
  ASSUME TypeOK, AllPlaced, NEW i \in 1 .. Len(pieces), NEW l \in 1 .. Len(lines)
  PROVE  /\ \A j \in 1 .. i - 1 : Columns(pieces[i], l) \cap Columns(pieces[j], l) = {}
         /\ Columns(pieces[i], l) \subseteq 1 .. Len(lines[l])
<1>0. l \in Nat /\ Len(lines[l]) \in Nat /\ Len(pieces) \in Nat
  BY LinesType, LenProperties DEF TypeOK
<1>p. PICK p \in Piece : p = pieces[i]
  BY PieceFields
<1>1. /\ 1 <= p.from - Ahead(p.begun) /\ p.thru - 1 - Ahead(p.line) <= Len(lines[p.line])
      /\ \A j \in 1 .. i - 1 : \/ pieces[j].line < p.begun
                               \/ pieces[j].line = p.begun /\ pieces[j].thru <= p.from
  BY <1>p DEF AllPlaced, Placed
<1>2. p.line \in Nat /\ p.begun \in Nat /\ p.from \in Nat /\ p.thru \in Nat
  BY DEF Piece
<1>h. PICK h \in {0, 1} : h = Ahead(l)
  BY AheadType
<1>3. ASSUME NEW c \in Columns(p, l)
      PROVE  /\ p.begun <= l /\ l <= p.line /\ c \in Int
             /\ (p.begun = l => p.from - h <= c) /\ 1 <= c /\ c <= Len(lines[l])
  <2>1. p.begun <= l /\ l <= p.line /\ c \in Start(p, l) .. Stop(p, l)
    BY <1>3 DEF Columns
  <2>2. (p.begun < l /\ Start(p, l) = 1) \/ (p.begun = l /\ Start(p, l) = p.from - h)
    BY <1>0, <1>2, <1>h, <2>1 DEF Start
  <2>3. (l < p.line /\ Stop(p, l) = Len(lines[l])) \/ (l = p.line /\ Stop(p, l) = p.thru - 1 - h)
    BY <1>0, <1>2, <1>h, <2>1 DEF Stop
  <2>4. p.begun = l => 1 <= p.from - h
    BY <1>1, <1>h
  <2>5. p.line = l => p.thru - 1 - h <= Len(lines[l])
    BY <1>1, <1>h
  <2>6. Start(p, l) \in Int /\ Stop(p, l) \in Int
    BY <1>0, <1>2, <2>2, <2>3
  <2>7. c \in Int /\ Start(p, l) <= c /\ c <= Stop(p, l)
    BY <2>1, <2>6
  <2>8. 1 <= Start(p, l) /\ (p.begun = l => p.from - h = Start(p, l))
    BY <1>0, <1>2, <2>2, <2>4
  <2>9. Stop(p, l) <= Len(lines[l])
    BY <1>0, <1>2, <2>3, <2>5
  <2>10. 1 <= c /\ c <= Len(lines[l])
    BY <1>0, <2>6, <2>7, <2>8, <2>9
  <2> QED BY <2>1, <2>7, <2>8, <2>10
<1>4. Columns(p, l) \subseteq 1 .. Len(lines[l])
  BY <1>0, <1>3
<1>5. ASSUME NEW j \in 1 .. i - 1, NEW c \in Columns(p, l), c \in Columns(pieces[j], l) PROVE FALSE
  <2>q. PICK q \in Piece : q = pieces[j]
    <3>1. j \in 1 .. Len(pieces)
      BY <1>0
    <3> QED BY <3>1, PieceFields
  <2>1. q.line \in Nat /\ q.begun \in Nat /\ q.thru \in Nat
    BY DEF Piece
  <2>2. q.line < p.begun \/ (q.line = p.begun /\ q.thru <= p.from)
    BY <1>1, <2>q
  <2>3. l <= q.line /\ c \in Start(q, l) .. Stop(q, l)
    BY <1>5, <2>q DEF Columns
  <2>4. p.begun <= l
    BY <1>3
  <2>5. q.line = l /\ p.begun = l /\ q.thru <= p.from
    BY <1>0, <1>2, <2>1, <2>2, <2>3, <2>4
  <2>6. Stop(q, l) = q.thru - 1 - h
    BY <1>0, <1>h, <2>5 DEF Stop
  <2>7. c \in Int /\ p.from - h <= c
    BY <1>3, <2>5
  <2>8. c <= q.thru - 1 - h
    BY <2>3, <2>6, <2>7
  <2> QED BY <1>2, <2>1, <2>5, <2>7, <2>8
<1>6. \A j \in 1 .. i - 1 : Columns(p, l) \cap Columns(pieces[j], l) = {}
  BY <1>5
<1> QED BY <1>4, <1>6, <1>p

LEMMA TilingTiles ==
  TypeOK /\ Tiling => PiecesTile
<1> SUFFICES ASSUME TypeOK, Tiling, status = "ended"
             PROVE  /\ \A l \in 1 .. Len(lines), i \in 1 .. Len(pieces) :
                         /\ \A j \in 1 .. i - 1 : Columns(pieces[i], l) \cap Columns(pieces[j], l) = {}
                         /\ Columns(pieces[i], l) \subseteq 1 .. Len(lines[l])
                    /\ \A l \in 1 .. Len(lines) : ~GivenUp(l) =>
                         \A c \in 1 .. Len(lines[l]) :
                           lines[l][c] # Blank => \E i \in 1 .. Len(pieces) : c \in Columns(pieces[i], l)
                    /\ \A i \in 1 .. Len(pieces) :
                         pieces[i].kind \in {"identifier", "number", "punctuator"} =>
                           pieces[i].text = SubSeq(lines[pieces[i].line], Start(pieces[i], pieces[i].line),
                                                   Stop(pieces[i], pieces[i].line))
  BY DEF PiecesTile
<1>1. AllPlaced /\ \A l \in 1 .. Len(lines) : Dealt(l)
  BY DEF Tiling, Position
<1>2. \A l \in 1 .. Len(lines), i \in 1 .. Len(pieces) :
        /\ \A j \in 1 .. i - 1 : Columns(pieces[i], l) \cap Columns(pieces[j], l) = {}
        /\ Columns(pieces[i], l) \subseteq 1 .. Len(lines[l])
  BY <1>1, ColumnsApart
<1>3. \A l \in 1 .. Len(lines) : ~GivenUp(l) =>
        \A c \in 1 .. Len(lines[l]) : lines[l][c] # Blank => \E i \in 1 .. Len(pieces) : c \in Columns(pieces[i], l)
  BY <1>1 DEF Dealt, Covered
<1>4. \A i \in 1 .. Len(pieces) :
        pieces[i].kind \in {"identifier", "number", "punctuator"} =>
          pieces[i].text = SubSeq(lines[pieces[i].line], Start(pieces[i], pieces[i].line),
                                  Stop(pieces[i], pieces[i].line))
  BY <1>1 DEF AllPlaced, Placed, Verbatim
<1> QED BY <1>2, <1>3, <1>4

(****************************** the theorems ********************************)

IInv == TypeOK /\ Tiling /\ LastToken /\ AsRead /\ RegexpEndsAtItsSlash

LEMMA Invariance ==
  Spec => []IInv
<1>1. Init => IInv
  BY InitTypes, InitTiling DEF IInv
<1>2. IInv /\ [Next \/ Done]_vars => IInv'
  <2> SUFFICES ASSUME IInv, [Next \/ Done]_vars PROVE IInv'
    OBVIOUS
  <2>1. TypeOK'
    BY NextTypes DEF IInv
  <2>2. CASE Next
    BY <2>1, <2>2, TilingKept, LastTokenKept, AsReadKept, RegexpsKept DEF IInv
  <2>3. CASE UNCHANGED vars
    <3>1. /\ UNCHANGED <<lines, line, source_row, character, from, mode, quote, pos, length>>
          /\ UNCHANGED <<prereg, begun, pieces, errors, status>>
      BY <2>3 DEF vars, lexed, report
    <3>2. Tiling'
      <4>1. AllPlaced' /\ (Position => Position')
        <5>1. AllPlaced'
          BY <3>1, Unmoved DEF IInv, Tiling
        <5>2. Position => Position'
          <6>1. /\ \A l : Ahead(l)' = Ahead(l) /\ (Dealt(l)' <=> Dealt(l))
                /\ \A b, f : UpTo(b, f)' <=> UpTo(b, f)
            BY <3>1, Unmoved
          <6>2. PICK b, f, e, c : b = begun /\ f = from /\ e = line /\ c = character
            OBVIOUS
          <6>3. b = begun' /\ f = from' /\ e = line' /\ c = character'
            BY <3>1, <6>2
          <6>4. (UpTo(begun, from)' <=> UpTo(begun, from)) /\ (UpTo(line, character)' <=> UpTo(line, character))
            BY <6>1, <6>2, <6>3
          <6>5. Ahead(begun)' = Ahead(begun) /\ Ahead(line)' = Ahead(line)
            BY <6>1, <6>2, <6>3
          <6>6. (AtRow' <=> AtRow) /\ (StringRow' <=> StringRow)
            BY <3>1, <6>5 DEF AtRow, StringRow
          <6>7. \A p : (Passed(p)' <=> Passed(p)) /\ Onward(p)' = Onward(p)
            BY <3>1 DEF Passed, Onward
          <6>8. InString => InString'
            BY <3>1, <6>6, <6>7 DEF InString
          <6>9. (\A l \in 1 .. line : Dealt(l)) => \A l \in 1 .. line' : Dealt(l)'
            BY <3>1, <6>1
          <6> QED BY <3>1, <6>4, <6>5, <6>6, <6>8, <6>9 DEF Position
        <5> QED BY <5>1, <5>2
      <4> QED BY <3>1, <4>1 DEF IInv, Tiling
    <3>3. LastToken' /\ AsRead'
      BY <3>1 DEF IInv, LastToken, AsRead, Precedes
    <3>4. RegexpEndsAtItsSlash'
      BY <3>1 DEF IInv, RegexpEndsAtItsSlash
    <3> QED BY <2>1, <3>2, <3>3, <3>4 DEF IInv
  <2> QED BY <2>2, <2>3 DEF Done
<1> QED BY <1>1, <1>2, PTL DEF Spec

\* lex stays within the text: its indices, its line, its pieces and its
\* messages are those that token, string, comment and regexp may have.
THEOREM LexerTypes == Spec => []TypeOK
<1>1. IInv => TypeOK
  BY DEF IInv
<1> QED BY <1>1, Invariance, PTL

\* Of every text read to its end each character but the blanks, and but those of a
\* line that lex gives up, is in one token or comment and in one only: where its line
\* and column say, but for a line that a string was continued into, on which every
\* column is one too far. The tokens that match takes have the text of that place.
THEOREM Tiled == Spec => []PiecesTile
<1>1. IInv => PiecesTile
  BY TilingTiles DEF IInv
<1> QED BY <1>1, Invariance, PTL

\* After a number, a string, a regular expression, a name, a closing parenthesis or
\* bracket, whatever comments are between, lex begins no regular expression. Nothing
\* is said of a closing brace.
THEOREM DivisionsStay == Spec => []NoDivisionSwallowed
<1>1. IInv => NoDivisionSwallowed
  BY DivisionsFree DEF IInv
<1> QED BY <1>1, Invariance, PTL

\* A regular expression that lex has no complaint of ends where the language ends it.
THEOREM RegexpsEnd == Spec => []RegexpEndsAtItsSlash
<1>1. IInv => RegexpEndsAtItsSlash
  BY DEF IInv
<1> QED BY <1>1, Invariance, PTL
=============================================================================
