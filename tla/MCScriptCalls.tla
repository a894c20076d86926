--------------------------- MODULE MCScriptCalls ---------------------------
(* A small instance of ScriptCalls: a slow library, one that throws and one *)
(* that ends in a NameError, and the texts of up to TextLength characters,  *)
(* of every kind.                                                           *)
EXTENDS ScriptCalls
CONSTANTS lib1, lib2, lib3, TextLength

Chars     == {"x", "BS", "DQ", "SQ", "LF", "CR", "LS"}
MCSources == UNION {[1 .. k -> Chars] : k \in 0 .. TextLength}
KindOfText(s) == IF s = <<>> THEN "value"
                 ELSE CASE s[1] = "x" -> "throwsText" [] s[1] = "BS" -> "throwsObject"
                        [] s[1] \in {"DQ", "CR"} -> "slow" [] s[1] = "LF" -> "nameError"
                        [] OTHER -> "value"
MCKindOf  == [x \in {lib1, lib2, lib3} \cup MCSources |->
                IF x = lib1 THEN "slow" ELSE IF x = lib2 THEN "throwsText"
                ELSE IF x = lib3 THEN "nameError" ELSE KindOfText(x)]
=============================================================================
