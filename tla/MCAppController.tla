--------------------------- MODULE MCAppController ---------------------------
(* Instances of AppController for TLC. *)
EXTENDS AppController

\* Names that sort the other way round than creation.
Descending == [n \in Ids |-> MaxBuilds - n]
=============================================================================
