------------------------- MODULE MCBuildController -------------------------
(* Instances of BuildController for TLC. *)
EXTENDS BuildController

\* One Build with many failures, a lagging Job informer and foreign Jobs; and a
\* name used twice by Builds whose Jobs users delete.
TwoWorlds ==
    {[builds |-> 1, faults |-> 3, ops |-> {"foreign"}, informer |-> "lagging"],
     [builds |-> 2, faults |-> 2, ops |-> {"delete"}, informer |-> "current"]}
=============================================================================
