---------------------------- MODULE BuildRecord ----------------------------
(***************************************************************************)
(* What a Build promises those who watch it (api/v1alpha1/build_types.go): *)
(* a record of one build that is opened under a new identity, moves        *)
(* forward through its phases, is closed by a verdict that then stands,    *)
(* and is removed as a whole.  BuildController implements it.              *)
(***************************************************************************)
EXTENDS Naturals

VARIABLES
    phase,     \* the record's phase, "absent" if there is no record
    id,        \* its identity, 0 if there is no record
    last       \* the identity used last

Stage == [New |-> 0, Pending |-> 1, Running |-> 2, Succeeded |-> 3, Failed |-> 3]

Closed == {"Succeeded", "Failed"}

Init == phase = "absent" /\ id = 0 /\ last = 0

Open ==
    /\ phase = "absent"
    /\ phase' = "New" /\ id' = last + 1 /\ last' = last + 1

Move(to) ==
    /\ phase \in DOMAIN Stage \ Closed
    /\ Stage[phase] <= Stage[to]
    /\ phase' = to
    /\ UNCHANGED <<id, last>>

Remove ==
    /\ phase # "absent"
    /\ phase' = "absent" /\ id' = 0
    /\ UNCHANGED last

Next == Open \/ Remove \/ \E to \in DOMAIN Stage : Move(to)

Spec == Init /\ [][Next]_<<phase, id, last>>

=============================================================================
