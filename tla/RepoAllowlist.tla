--------------------------- MODULE RepoAllowlist ---------------------------
(***************************************************************************)
(* The dashboard's editor of the repository allow-list                     *)
(* (dashboard/internal/server/repo_allowlist.go): an admin loads the list  *)
(* with the ConfigMap's resourceVersion, and a later request replaces it,  *)
(* between an audit entry that announces the change and one that tells its *)
(* outcome.  Replies of the API server get lost, audit entries fail to be  *)
(* stored, the dashboard restarts, and kubectl edits the same ConfigMap.   *)
(*                                                                         *)
(* A list is the set of its entries as they are spelled, blank lines left  *)
(* out: "R1" is another spelling of the repository r1, and "?" is an entry *)
(* Normalize refuses.                                                      *)
(***************************************************************************)
EXTENDS Naturals, FiniteSets

CONSTANTS
    Edits,            \* the edits, one request each
    Lists,            \* the lists an edit asks for
    MaxMishaps        \* lost replies, failed writes, restarts and kubectl edits

ASSUME ListsAreSpelled == Lists \subseteq SUBSET {"r1", "R1", "r2", "?"} /\ MaxMishaps \in Nat

VARIABLES
    configMap,        \* the ConfigMap orkano-repo-allowlist
    edit,             \* edit -> where its request is
    trail,            \* edit -> the outcomes of its audit entries
    mishaps           \* how many mishaps there have been

allowlistVars == <<configMap, edit, trail, mishaps>>

-----------------------------------------------------------------------------

Valid(list) == "?" \notin list

\* Normalize: lower case, no duplicates.
Normalize(list) == {IF r = "R1" THEN "r1" ELSE r : r \in list}

\* loadRepoAllowlistSnapshot refuses a ConfigMap whose list is not valid.
Readable == Valid(configMap.raw)

\* inForce, saw, over and at are what the properties compare.
Edit == [pc : {"closed", "open", "attempt", "get", "update", "resolve",
               "record", "done"},
         list : SUBSET {"r1", "r2"}, outcome : {"none", "success", "failure",
                                                "indeterminate"},
         seen : Nat, saw : SUBSET {"r1", "r2"}, over : SUBSET {"r1", "R1", "r2"},
         at : Nat, inForce : BOOLEAN]

NoEdit == [pc |-> "closed", list |-> {}, outcome |-> "none", seen |-> 0,
           saw |-> {}, over |-> {}, at |-> 0, inForce |-> FALSE]

AllowlistInit ==
    /\ configMap = [rv |-> 1, raw |-> {"R1"}]
    /\ edit = [e \in Edits |-> NoEdit]
    /\ trail = [e \in Edits |-> {}]
    /\ mishaps = 0

\* Something goes wrong, as often as MaxMishaps allows.
Mishap == mishaps < MaxMishaps /\ mishaps' = mishaps + 1

Fine == UNCHANGED mishaps

\* An edit under way whose policy is in force once the ConfigMap is cm.
Observe(cm, edits) ==
    [e \in Edits |->
       [edits[e] EXCEPT !.inForce =
          \/ @
          \/ /\ edits[e].pc \in {"update", "resolve", "record"}
             /\ Valid(cm.raw)
             /\ Normalize(cm.raw) = edits[e].list]]

Becomes(cm, e, new) ==
    /\ configMap' = cm
    /\ edit' = Observe(cm, [edit EXCEPT ![e] = new])

-----------------------------------------------------------------------------

\* handleGetRepoAllowlist, or the setup status that carries the same snapshot.
LoadAllowlist(e) ==
    /\ edit[e].pc = "closed"
    /\ Readable
    /\ edit' = [edit EXCEPT ![e].pc = "open", ![e].seen = configMap.rv,
                            ![e].saw = Normalize(configMap.raw)]
    /\ UNCHANGED <<configMap, trail, mishaps>>

\* handleUpdateRepoAllowlist: a body that does not decode or a list that is not
\* valid is audited as a failure and nothing else happens.
Submit(e, list) ==
    /\ edit[e].pc = "open"
    /\ edit' = [edit EXCEPT ![e] =
                  IF Valid(list)
                  THEN [@ EXCEPT !.pc = "attempt", !.list = Normalize(list)]
                  ELSE [@ EXCEPT !.pc = "record", !.outcome = "failure"]]
    /\ UNCHANGED <<configMap, trail, mishaps>>

Appended(e, outcome) == trail' = [trail EXCEPT ![e] = @ \union {outcome}]

\* Mutant of Unannounced: an announcement that was not stored is only logged.
Unannounced_Goes == "get"

\* Where a request whose announcement could not be stored goes: nowhere.
Unannounced == "done"

\* The announcement must be stored before anything is changed.
Announce(e) ==
    /\ edit[e].pc = "attempt"
    /\ \/ Fine /\ Appended(e, "attempt") /\ edit' = [edit EXCEPT ![e].pc = "get"]
       \/ Mishap /\ UNCHANGED trail /\ edit' = [edit EXCEPT ![e].pc = Unannounced]
    /\ UNCHANGED configMap

\* Mutant of StillSeen: the version the admin saw is not compared.
StillSeen_Any(e) == TRUE

StillSeen(e) == configMap.rv = edit[e].seen

\* The read before the update; one that fails is a failure, and so is a version
\* other than the one the request names.
GetForUpdate(e) ==
    /\ edit[e].pc = "get"
    /\ \/ /\ Fine
          /\ Becomes(configMap, e,
               IF StillSeen(e)
               THEN [edit[e] EXCEPT !.pc = "update", !.seen = configMap.rv]
               ELSE [edit[e] EXCEPT !.pc = "record", !.outcome = "failure"])
       \/ /\ Mishap
          /\ Becomes(configMap, e, [edit[e] EXCEPT !.pc = "record", !.outcome = "failure"])
    /\ UNCHANGED trail

\* The API server leaves the version of an object alone that does not change.
Write(raw) ==
    IF raw = configMap.raw THEN configMap
    ELSE [rv |-> configMap.rv + 1, raw |-> raw]

\* Update carries the version of the read, so it conflicts with any write since.
\* What it did is known from the reply alone: the reply may be lost, and so may
\* the request.
Update(e) ==
    /\ edit[e].pc = "update"
    /\ \/ /\ configMap.rv = edit[e].seen
          /\ \E pc \in {"record", "resolve"} :
               /\ IF pc = "record" THEN Fine ELSE Mishap
               /\ Becomes(Write(edit[e].list), e,
                    [edit[e] EXCEPT !.pc = pc, !.over = configMap.raw,
                                    !.at = Write(edit[e].list).rv,
                                    !.outcome = IF pc = "record" THEN "success"
                                                                 ELSE "none"])
       \/ /\ IF configMap.rv # edit[e].seen THEN Fine ELSE Mishap
          /\ Becomes(configMap, e, [edit[e] EXCEPT !.pc = "resolve"])
    /\ UNCHANGED trail

\* Mutant of ReadBack: an update whose reply was lost counts as one that failed.
ReadBack_Failed(e) == "failure"

\* Mutant of ReadBack: an update whose reply was lost counts as one that worked.
ReadBack_Success(e) == "success"

\* resolveRepoAllowlistUpdate compares what is in force now with what was asked.
ReadBack(e) ==
    CASE ~Readable -> "indeterminate"
      [] Readable /\ Normalize(configMap.raw) = edit[e].list -> "success"
      [] OTHER -> "failure"

ResolveUpdate(e) ==
    /\ edit[e].pc = "resolve"
    /\ \/ Fine /\ Becomes(configMap, e,
                    [edit[e] EXCEPT !.pc = "record", !.outcome = ReadBack(e)])
       \/ Mishap /\ Becomes(configMap, e,
                      [edit[e] EXCEPT !.pc = "record", !.outcome = "indeterminate"])
    /\ UNCHANGED trail

\* The entry about the outcome.  One that fails to be stored costs a success its
\* answer (503), and is only logged otherwise; either way the request is over.
Record(e) ==
    /\ edit[e].pc = "record"
    /\ \/ Fine /\ Appended(e, edit[e].outcome)
       \/ Mishap /\ UNCHANGED trail
    /\ edit' = [edit EXCEPT ![e].pc = "done"]
    /\ UNCHANGED configMap

\* The dashboard restarts: the requests under way are gone, pages stay open.
RestartDashboard ==
    /\ \E e \in Edits : edit[e].pc \notin {"closed", "open", "done"}
    /\ Mishap
    /\ edit' = [e \in Edits |-> IF edit[e].pc \in {"closed", "open"} THEN edit[e]
                                ELSE [edit[e] EXCEPT !.pc = "done"]]
    /\ UNCHANGED <<configMap, trail>>

\* kubectl, with any content.
EditByHand(raw) ==
    /\ raw # configMap.raw
    /\ Mishap
    /\ configMap' = Write(raw)
    /\ edit' = Observe(Write(raw), edit)
    /\ UNCHANGED trail

AllowlistNext ==
    \/ \E e \in Edits : \/ LoadAllowlist(e) \/ Announce(e) \/ GetForUpdate(e)
                        \/ Update(e) \/ ResolveUpdate(e) \/ Record(e)
                        \/ \E list \in Lists : Submit(e, list)
    \/ RestartDashboard
    \/ \E raw \in Lists : EditByHand(raw)

-----------------------------------------------------------------------------

AllowlistTypeOK ==
    /\ configMap.rv \in Nat /\ configMap.raw \subseteq {"r1", "R1", "r2", "?"}
    /\ edit \in [Edits -> Edit]
    /\ \A e \in Edits : trail[e] \subseteq {"attempt", "success", "failure", "indeterminate"}
    /\ mishaps \in 0..MaxMishaps

\* No change of the allow-list without an audit entry that announced it, however
\* the store and the API server fail (handleUpdateRepoAllowlist appends "attempt"
\* first and gives up when it cannot).
ChangeAnnounced ==
    \A e \in Edits : edit[e].at > 0 => "attempt" \in trail[e]

\* An edit replaces only the policy its author was shown: not one that another
\* admin or kubectl put in its place after the page was loaded.
OnlySeenReplaced ==
    \A e \in Edits : edit[e].at > 0 => Normalize(edit[e].over) = edit[e].saw

\* An edit audited as a success: its policy was in force at some time since it
\* was sent to the API server, even where the reply was lost and read back.
SuccessIsTrue ==
    \A e \in Edits : "success" \in trail[e] => edit[e].inForce

\* An edit audited as a failure is not what is in force now: if its update did
\* take place, another one has replaced it since.
FailureIsTrue ==
    \A e \in Edits :
      "failure" \in trail[e] /\ edit[e].at > 0 => configMap.rv > edit[e].at

=============================================================================
