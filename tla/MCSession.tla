----------------------------- MODULE MCSession ------------------------------
(***************************************************************************)
(* Small instances of Session.                                             *)
(***************************************************************************)
EXTENDS Session, TLC

CONSTANTS c1, c2, w1, w2

\* Browsers are interchangeable, and so are the web tasks.
Symmetry == Permutations({c1, c2}) \union Permutations({w1, w2})
=============================================================================
