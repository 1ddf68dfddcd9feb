------------------------- MODULE MCDomainController -------------------------
(* Instances of DomainController for TLC. *)
EXTENDS DomainController, TLC

CONSTANTS d1, d2

\* The Domain that is created first need not have the first name.
ByName == d1 :> 1 @@ d2 :> 2
=============================================================================
