------------------------------- MODULE MCSignIn -------------------------------
(***************************************************************************)
(* The instance of SignIn that TLC checks: two browsers, two user names,   *)
(* one of them also the e-mail of the account "ann".                       *)
(***************************************************************************)
EXTENDS SignIn, TLC

CONSTANTS c1, c2

MCEmail  == [s \in {"ann", "bob", "eve"} |-> s]
MCGroups == [s \in {"ann", "bob", "eve"} |-> IF s = "bob" THEN {"ops"} ELSE {"dev"}]

Symmetry == Permutations(Clients)
=============================================================================
