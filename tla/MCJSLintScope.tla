--------------------------- MODULE MCJSLintScope ----------------------------
(* Small instances of JSLintScope. No step looks at two names, so that one   *)
(* is enough: not predefined, or predefined and to be written to or not.   *)
EXTENDS JSLintScope, TLC
CONSTANT x
MCEnvironments == {<<>>, x :> FALSE, x :> TRUE}
=============================================================================
