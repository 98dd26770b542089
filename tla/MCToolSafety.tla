---------------------------- MODULE MCToolSafety ----------------------------
(* ToolSafety with a threshold of 300 cents.  The numbers lie on both      *)
(* sides of it, on it, and on both sides of it once dollars are turned     *)
(* into cents: 3 dollars are 300 cents, 4 dollars are 400.                 *)
EXTENDS ToolSafety

SmallNumbers == {-5, 0, 3, 4, 300, 301}
=============================================================================
