----------------------------- MODULE MCDispatch -----------------------------
(* Instances of Dispatch for TLC. *)
EXTENDS Dispatch, TLC

CONSTANTS a1, a2, a3, r1, z1, c1, c2, p1, p2, m1

Short == c1 :> "c1c1" @@ c2 :> "c2c2"

\* Where the Apps' sources come from.
BothR1 == a1 :> r1 @@ a2 :> r1
MonorepoAndUpload == a1 :> r1 @@ a2 :> r1 @@ a3 :> z1

\* What the delivery ids are about.
BothPushR1 == p1 :> r1 @@ p2 :> r1
OnePush == p1 :> r1
ManualA3 == m1 :> a3
NoManual == [m \in {} |-> a1]
=============================================================================
