--------------------------- MODULE MCUndoHistory ---------------------------
(* A shell and a page inside it.                                              *)
EXTENDS UndoHistory, TLC

CONSTANTS shell, inner

TwoPages == {shell, inner}
ShellOf == (shell :> {}) @@ (inner :> {shell})
=============================================================================
