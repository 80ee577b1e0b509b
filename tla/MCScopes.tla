------------------------------ MODULE MCScopes ------------------------------
(***************************************************************************)
(* Small instances of Scopes for TLC.                                      *)
(***************************************************************************)
EXTENDS Scopes

OneFunction  == {"f"}
TwoFunctions == {"f", "g"}
OneWord      == {1}
TwoWords     == {2}
XY           == {"x", "y"}
X            == {"x"}
=============================================================================
