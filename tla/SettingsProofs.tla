--------------------------- MODULE SettingsProofs ---------------------------
(***************************************************************************)
(* The two settings, for any number of edits, connects, callers and        *)
(* failures: the audit trail of the allow-list tells the truth, a connect  *)
(* that was answered as connected is real, a token outlives the call that  *)
(* uses it, a push is dropped for a reason, and a mint is shared.          *)
(*                                                                         *)
(* The allow-list rests on what a version stands for: while the ConfigMap  *)
(* has the version an edit saw or wrote, it has the list that went with it *)
(* (Sound).  The App rests on who is between the two Secrets               *)
(* (Connecting), the tokens on what is left of a token at each step of a   *)
(* call and on the mutex (Calling).                                        *)
(***************************************************************************)
EXTENDS Settings, TLAPS

(***************************************************************************)
(* The allow-list.                                                         *)
(***************************************************************************)

Spellings  == {"r1", "R1", "r2", "?"}
Entries    == {"attempt", "success", "failure", "indeterminate"}
ConfigMaps == [rv : Nat \ {0}, raw : SUBSET Spellings]

\* An edit r with the audit entries t when the ConfigMap is cm; f: its policy has
\* been in force.
Sound(r, t, cm, f) ==
    /\ r.pc # "closed" => r.seen > 0
    /\ r.seen <= cm.rv
    /\ (r.seen > 0 /\ r.seen = cm.rv) => Valid(cm.raw) /\ Normalize(cm.raw) = r.saw
    /\ r.pc \in {"get", "update", "resolve"} => "attempt" \in t
    /\ r.at > 0 => /\ r.pc \in {"resolve", "record", "done"} /\ "attempt" \in t
                   /\ Normalize(r.over) = r.saw
                   /\ r.at <= cm.rv /\ (r.at = cm.rv => cm.raw = r.list)
    /\ r.pc = "record" => /\ r.outcome # "none" /\ (r.outcome = "success" => f)
                          /\ (r.outcome = "failure" /\ r.at > 0) => cm.rv > r.at
    /\ "success" \in t => f
    /\ "failure" \in t => r.pc = "done" /\ (r.at > 0 => cm.rv > r.at)

AuditInv ==
    /\ configMap \in ConfigMaps /\ edit \in [Edits -> Edit]
    /\ trail \in [Edits -> SUBSET Entries] /\ mishaps \in 0..MaxMishaps
    /\ \A e \in Edits : Sound(edit[e], trail[e], configMap, edit[e].inForce)

\* What Normalize makes of a list.
LEMMA Normalized ==
    ASSUME NEW l \in SUBSET Spellings, Valid(l)
    PROVE  l \in SUBSET {"r1", "R1", "r2"} /\ Normalize(l) \in SUBSET {"r1", "r2"}
BY Zenon DEF Spellings, Valid, Normalize

LEMMA NormalForm ==
    ASSUME NEW l \in SUBSET {"r1", "r2"}
    PROVE  l \in SUBSET Spellings /\ Valid(l) /\ Normalize(l) = l
<1>1. \A r \in l : r # "R1" /\ r # "?"
  OBVIOUS
<1>2. QED
  BY <1>1, Zenon DEF Spellings, Valid, Normalize

LEMMA EditFields ==
    ASSUME NEW r \in Edit
    PROVE  /\ r.list \in SUBSET {"r1", "r2"} /\ r.seen \in Nat /\ r.at \in Nat
           /\ r.inForce \in BOOLEAN /\ r.saw \in SUBSET {"r1", "r2"}
           /\ r.outcome \in {"none", "success", "failure", "indeterminate"}
BY Zenon DEF Edit

\* An edit stays sound when the ConfigMap gets a new version.
LEMMA LaterSound ==
    ASSUME NEW r \in Edit, NEW t, NEW cm \in ConfigMaps, NEW cn \in ConfigMaps, NEW f,
           cn = cm \/ cn.rv = cm.rv + 1, Sound(r, t, cm, f)
    PROVE  Sound(r, t, cn, f)
<1>1. r.seen \in Nat /\ r.at \in Nat /\ cm.rv \in Nat /\ cn.rv \in Nat
  BY EditFields, Zenon DEF ConfigMaps
<1>2. CASE cn = cm
  BY <1>2, Zenon
<1>3. CASE cn.rv = cm.rv + 1
  <2>1. /\ r.seen <= cm.rv => r.seen <= cn.rv /\ r.seen # cn.rv
        /\ r.at <= cm.rv => r.at <= cn.rv /\ r.at # cn.rv
        /\ cm.rv > r.at => cn.rv > r.at
    BY <1>1, <1>3
  <2>2. QED
    BY <2>1, Zenon DEF Sound
<1>4. QED
  BY <1>2, <1>3, Zenon

\* The policy of r is in force once the ConfigMap is cm.
Matches(r, cm) ==
    r.pc \in {"update", "resolve", "record"} /\ Valid(cm.raw) /\ Normalize(cm.raw) = r.list

\* What Observe notes of an edit leaves the rest of it alone.
LEMMA ObservedSound ==
    ASSUME NEW r \in Edit, NEW t, NEW cm, Sound(r, t, cm, r.inForce \/ Matches(r, cm)),
           NEW y, y = [r EXCEPT !.inForce = r.inForce \/ Matches(r, cm)]
    PROVE  y \in Edit /\ Sound(y, t, cm, y.inForce)
<1> DEFINE f == r.inForce \/ Matches(r, cm)
<1>1. f \in BOOLEAN
  BY EditFields, Zenon DEF Matches
<1>2. y = [r EXCEPT !.inForce = f]
  BY Zenon
<1>3. Sound(r, t, cm, f)
  BY Zenon
<1> HIDE DEF f
<1>4. /\ y \in Edit /\ y.inForce = f /\ y.pc = r.pc /\ y.list = r.list /\ y.outcome = r.outcome
      /\ y.seen = r.seen /\ y.saw = r.saw /\ y.over = r.over /\ y.at = r.at
  BY <1>1, <1>2, Zenon DEF Edit
<1>5. QED
  BY <1>3, <1>4, Zenon DEF Sound

\* A step that ends in Observe keeps every edit sound, if the edit it is about is.
LEMMA ObserveKeeps ==
    ASSUME AuditInv, NEW cm \in ConfigMaps, cm = configMap \/ cm.rv = configMap.rv + 1,
           NEW edits \in [Edits -> Edit], edit' = Observe(cm, edits), configMap' = cm, UNCHANGED trail,
           \A e \in Edits : edits[e] = edit[e]
                            \/ Sound(edits[e], trail[e], cm, edits[e].inForce \/ Matches(edits[e], cm))
    PROVE  /\ edit' \in [Edits -> Edit] /\ configMap' \in ConfigMaps /\ trail' \in [Edits -> SUBSET Entries]
           /\ \A e \in Edits : Sound(edit'[e], trail'[e], configMap', edit'[e].inForce)
<1>1. edit' = [e \in Edits |-> [edits[e] EXCEPT !.inForce = edits[e].inForce \/ Matches(edits[e], cm)]]
  BY Zenon DEF Observe, Matches
<1>2. ASSUME NEW e \in Edits
      PROVE  edit'[e] \in Edit /\ Sound(edit'[e], trail[e], cm, edit'[e].inForce)
  <2>1. edits[e] \in Edit /\ edit'[e] = [edits[e] EXCEPT !.inForce = edits[e].inForce \/ Matches(edits[e], cm)]
    BY <1>1, Zenon
  <2>2. edits[e] = edit[e] => Sound(edits[e], trail[e], cm, edits[e].inForce)
    BY <2>1, LaterSound, Zenon DEF AuditInv
  <2>3. Sound(edits[e], trail[e], cm, edits[e].inForce \/ Matches(edits[e], cm))
    <3> DEFINE f == edits[e].inForce
               g == f \/ Matches(edits[e], cm)
    <3>1. f => g
      BY Zenon
    <3>2. Sound(edits[e], trail[e], cm, f) => Sound(edits[e], trail[e], cm, g)
      <4> HIDE DEF f, g
      <4>1. QED
        BY <3>1, Zenon DEF Sound
    <3>3. QED
      BY <2>2, <3>2, Zenon
  <2>4. QED
    BY <2>1, <2>3, ObservedSound, Zenon
<1>3. edit' \in [Edits -> Edit]
  BY <1>1, <1>2, Zenon
<1>4. QED
  BY <1>2, <1>3, Zenon DEF AuditInv

\* A step of one edit that leaves the ConfigMap alone and ends without Observe.
LEMMA EditKeeps ==
    ASSUME AuditInv, NEW e \in Edits, NEW y \in Edit, edit' = [edit EXCEPT ![e] = y], UNCHANGED configMap,
           NEW t \in SUBSET Entries, trail' = [trail EXCEPT ![e] = t], mishaps' \in 0..MaxMishaps,
           Sound(y, t, configMap, y.inForce)
    PROVE  AuditInv'
<1>1. edit' \in [Edits -> Edit] /\ edit'[e] = y /\ \A d \in Edits \ {e} : edit'[d] = edit[d]
  BY Zenon DEF AuditInv
<1>2. trail' \in [Edits -> SUBSET Entries] /\ trail'[e] = t /\ \A d \in Edits \ {e} : trail'[d] = trail[d]
  BY Zenon DEF AuditInv
<1>3. QED
  BY <1>1, <1>2, Zenon DEF AuditInv

\* A step of one edit that ends in Observe.
LEMMA BecomesKeeps ==
    ASSUME AuditInv, NEW e \in Edits, NEW y \in Edit, NEW cm \in ConfigMaps,
           cm = configMap \/ cm.rv = configMap.rv + 1,
           Becomes(cm, e, y), UNCHANGED trail, mishaps' \in 0..MaxMishaps,
           Sound(y, trail[e], cm, y.inForce \/ Matches(y, cm))
    PROVE  AuditInv'
<1> DEFINE edits == [edit EXCEPT ![e] = y]
<1>1. edits \in [Edits -> Edit] /\ edits[e] = y /\ \A d \in Edits \ {e} : edits[d] = edit[d]
  BY Zenon DEF AuditInv
<1>2. edit' = Observe(cm, edits) /\ configMap' = cm
  BY Zenon DEF Becomes
<1> HIDE DEF edits
<1>3. \A d \in Edits : edits[d] = edit[d]
                       \/ Sound(edits[d], trail[d], cm, edits[d].inForce \/ Matches(edits[d], cm))
  BY <1>1, Zenon
<1>4. /\ edit' \in [Edits -> Edit] /\ configMap' \in ConfigMaps /\ trail' \in [Edits -> SUBSET Entries]
      /\ \A d \in Edits : Sound(edit'[d], trail'[d], configMap', edit'[d].inForce)
  BY <1>1, <1>2, <1>3, ObserveKeeps, Zenon
<1>5. QED
  BY <1>4, Zenon DEF AuditInv

LEMMA MishapTypes ==
    ASSUME AuditInv, Fine \/ Mishap
    PROVE  mishaps' \in 0..MaxMishaps
<1>1. mishaps \in 0..MaxMishaps /\ MaxMishaps \in Nat
  BY ListsAreSpelled, Zenon DEF AuditInv
<1>2. QED
  BY <1>1 DEF Fine, Mishap

\* The version a write makes.
LEMMA Written ==
    ASSUME AuditInv, NEW raw \in SUBSET Spellings
    PROVE  /\ Write(raw) \in ConfigMaps /\ Write(raw).raw = raw
           /\ Write(raw) = configMap \/ Write(raw).rv = configMap.rv + 1
           /\ Write(raw).rv > 0
<1>1. configMap.rv \in Nat /\ configMap.rv > 0 /\ configMap \in ConfigMaps
  <2>1. configMap.rv \in Nat \ {0}
    BY Zenon DEF AuditInv, ConfigMaps
  <2>2. configMap.rv > 0
    BY <2>1
  <2>3. QED
    BY <2>1, <2>2, Zenon DEF AuditInv
<1>2. CASE raw = configMap.raw
  BY <1>1, <1>2, Zenon DEF Write
<1>3. CASE raw # configMap.raw
  <2> DEFINE n == configMap.rv + 1
  <2>1. n \in Nat \ {0} /\ n > 0
    BY <1>1
  <2>2. Write(raw) = [rv |-> n, raw |-> raw]
    BY <1>3, Zenon DEF Write
  <2> HIDE DEF n
  <2>3. Write(raw) \in ConfigMaps /\ Write(raw).raw = raw /\ Write(raw).rv = n
    BY <2>1, <2>2 DEF ConfigMaps
  <2>4. QED
    BY <2>1, <2>3, Zenon DEF n
<1>4. QED
  BY <1>2, <1>3, Zenon

LEMMA LoadKeeps ==
    ASSUME AuditInv, NEW e \in Edits, LoadAllowlist(e)
    PROVE  AuditInv'
<1> DEFINE r == edit[e]
           saw == Normalize(configMap.raw)
           y == [r EXCEPT !.pc = "open", !.seen = configMap.rv, !.saw = saw]
<1>1. /\ r \in Edit /\ configMap.rv \in Nat /\ configMap.rv > 0 /\ configMap.raw \in SUBSET Spellings
      /\ configMap.rv <= configMap.rv
  <2>1. r \in Edit /\ configMap.rv \in Nat \ {0} /\ configMap.raw \in SUBSET Spellings
    BY Zenon DEF AuditInv, ConfigMaps
  <2>2. QED
    BY <2>1
<1>2. saw \in SUBSET {"r1", "r2"} /\ Valid(configMap.raw)
  BY <1>1, Normalized, Zenon DEF LoadAllowlist, Readable
<1>3. edit' = [edit EXCEPT ![e] = y]
  BY DEF LoadAllowlist, AuditInv
<1>4. r.pc = "closed" /\ UNCHANGED <<configMap, trail, mishaps>> /\ Sound(r, trail[e], configMap, r.inForce)
  BY Zenon DEF LoadAllowlist, AuditInv
<1>5. trail' = [trail EXCEPT ![e] = trail[e]] /\ trail[e] \in SUBSET Entries
  BY <1>4, Zenon DEF AuditInv
<1> HIDE DEF saw
<1>6. /\ y \in Edit /\ y.pc = "open" /\ y.seen = configMap.rv /\ y.saw = saw
      /\ y.at = r.at /\ y.inForce = r.inForce
  BY <1>1, <1>2, Zenon DEF Edit
<1>7. ~(r.at > 0) /\ "failure" \notin trail[e]
  BY <1>4 DEF Sound
<1> HIDE DEF y
<1>8. /\ y.pc # "closed" /\ y.pc \notin {"get", "update", "resolve"} /\ y.pc # "record"
      /\ ~(y.at > 0)
  BY <1>6, <1>7
<1>9. Sound(y, trail[e], configMap, y.inForce)
  BY <1>1, <1>2, <1>4, <1>6, <1>7, <1>8, Zenon DEF Sound, saw
<1>10. mishaps' \in 0..MaxMishaps
  BY <1>4, Zenon DEF AuditInv
<1>11. QED
  BY <1>3, <1>4, <1>5, <1>6, <1>9, <1>10, EditKeeps, Zenon

\* An edit that goes on to another step.
LEMMA Moved ==
    ASSUME NEW r \in Edit, NEW p \in {"open", "attempt", "get", "update", "resolve", "record", "done"},
           NEW y, y = [r EXCEPT !.pc = p]
    PROVE  /\ y \in Edit /\ y.pc = p /\ y.list = r.list /\ y.outcome = r.outcome /\ y.seen = r.seen
           /\ y.saw = r.saw /\ y.over = r.over /\ y.at = r.at /\ y.inForce = r.inForce
BY Zenon DEF Edit

\* What is known of an edit, by where it is.
LEMMA Facts ==
    ASSUME AuditInv, NEW e \in Edits
    PROVE  /\ edit[e] \in Edit /\ trail[e] \in SUBSET Entries /\ configMap \in ConfigMaps
           /\ configMap.raw \in SUBSET Spellings
           /\ Sound(edit[e], trail[e], configMap, edit[e].inForce)
           /\ edit[e].pc # "done" => "failure" \notin trail[e]
           /\ edit[e].pc \in {"open", "attempt", "get", "update"} => ~(edit[e].at > 0)
<1>1. /\ edit[e] \in Edit /\ trail[e] \in SUBSET Entries /\ configMap \in ConfigMaps
      /\ configMap.raw \in SUBSET Spellings
      /\ Sound(edit[e], trail[e], configMap, edit[e].inForce)
  BY Zenon DEF AuditInv, ConfigMaps
<1>2. edit[e].pc # "done" => "failure" \notin trail[e]
  BY <1>1, Zenon DEF Sound
<1>3. edit[e].pc \in {"open", "attempt", "get", "update"} => ~(edit[e].at > 0)
  BY <1>1 DEF Sound
<1>4. QED
  BY <1>1, <1>2, <1>3, Zenon

\* A failure of an edit that has written nothing.
LEMMA FailedEarly ==
    ASSUME AuditInv, NEW e \in Edits, edit[e].pc \in {"open", "get"},
           NEW y, y = [edit[e] EXCEPT !.pc = "record", !.outcome = "failure"]
    PROVE  y \in Edit /\ Sound(y, trail[e], configMap, y.inForce)
<1> DEFINE r == edit[e]
<1>1. /\ r \in Edit /\ Sound(r, trail[e], configMap, r.inForce)
      /\ ~(r.at > 0) /\ "failure" \notin trail[e] /\ r.pc # "closed"
  <2>1. r.pc # "closed" /\ r.pc # "done" /\ r.pc \in {"open", "attempt", "get", "update"}
    OBVIOUS
  <2>2. QED
    BY <2>1, Facts, Zenon
<1>2. /\ y \in Edit /\ y.pc = "record" /\ y.list = r.list /\ y.outcome = "failure" /\ y.seen = r.seen
      /\ y.saw = r.saw /\ y.over = r.over /\ y.at = r.at /\ y.inForce = r.inForce
  BY <1>1, Zenon DEF Edit
<1>3. y.pc \notin {"get", "update", "resolve"} /\ y.outcome # "none" /\ y.outcome # "success"
  BY <1>2
<1>4. QED
  BY <1>1, <1>2, <1>3, Zenon DEF Sound

LEMMA SubmitKeeps ==
    ASSUME AuditInv, NEW e \in Edits, NEW l \in Lists, Submit(e, l)
    PROVE  AuditInv'
<1> DEFINE r == edit[e]
<1>1. /\ r.pc = "open" /\ UNCHANGED <<configMap, trail, mishaps>> /\ l \in SUBSET Spellings
      /\ mishaps' \in 0..MaxMishaps /\ trail' = [trail EXCEPT ![e] = trail[e]]
  BY ListsAreSpelled, Zenon DEF Submit, Spellings, AuditInv
<1>2. CASE ~Valid(l)
  <2> DEFINE y == [r EXCEPT !.pc = "record", !.outcome = "failure"]
  <2>1. edit' = [edit EXCEPT ![e] = y]
    BY <1>2, Zenon DEF Submit
  <2> HIDE DEF y
  <2>2. y \in Edit /\ Sound(y, trail[e], configMap, y.inForce)
    BY <1>1, FailedEarly, Zenon DEF y
  <2>3. QED
    BY <1>1, <2>1, <2>2, Facts, EditKeeps, Zenon
<1>3. CASE Valid(l)
  <2> DEFINE n == Normalize(l)
             y == [r EXCEPT !.pc = "attempt", !.list = n]
  <2>1. edit' = [edit EXCEPT ![e] = y]
    BY <1>3, Zenon DEF Submit
  <2>2. n \in SUBSET {"r1", "r2"}
    BY <1>1, <1>3, Normalized, Zenon
  <2>3. /\ r \in Edit /\ Sound(r, trail[e], configMap, r.inForce)
        /\ ~(r.at > 0) /\ "failure" \notin trail[e] /\ r.pc # "closed"
    <3>1. r.pc # "closed" /\ r.pc # "done" /\ r.pc \in {"open", "attempt", "get", "update"}
      BY <1>1
    <3>2. QED
      BY <3>1, Facts, Zenon
  <2> HIDE DEF n
  <2>4. /\ y \in Edit /\ y.pc = "attempt" /\ y.seen = r.seen /\ y.saw = r.saw /\ y.at = r.at
        /\ y.inForce = r.inForce
    BY <2>2, <2>3, Zenon DEF Edit
  <2> HIDE DEF y
  <2>5. y.pc \notin {"get", "update", "resolve"} /\ y.pc # "record"
    BY <2>4
  <2>6. Sound(y, trail[e], configMap, y.inForce)
    BY <2>3, <2>4, <2>5, Zenon DEF Sound
  <2>7. QED
    BY <1>1, <2>1, <2>4, <2>6, Facts, EditKeeps, Zenon
<1>4. QED
  BY <1>2, <1>3, Zenon

LEMMA AnnounceKeeps ==
    ASSUME AuditInv, NEW e \in Edits, Announce(e)
    PROVE  AuditInv'
<1> DEFINE r == edit[e]
<1>1. /\ r.pc = "attempt" /\ UNCHANGED configMap /\ mishaps' \in 0..MaxMishaps
  BY MishapTypes, Zenon DEF Announce
<1>2. /\ r \in Edit /\ Sound(r, trail[e], configMap, r.inForce) /\ trail[e] \in SUBSET Entries
      /\ ~(r.at > 0) /\ "failure" \notin trail[e] /\ r.pc # "closed"
  <2>1. r.pc # "closed" /\ r.pc # "done" /\ r.pc \in {"open", "attempt", "get", "update"}
    BY <1>1
  <2>2. QED
    BY <2>1, Facts, Zenon
<1>3. ASSUME NEW p \in {"get", "done"}, NEW t \in SUBSET Entries, edit' = [edit EXCEPT ![e].pc = p],
             trail' = [trail EXCEPT ![e] = t], p = "get" => "attempt" \in t,
             "success" \in t => "success" \in trail[e], "failure" \in t => "failure" \in trail[e]
      PROVE  AuditInv'
  <2> DEFINE y == [r EXCEPT !.pc = p]
  <2>1. edit' = [edit EXCEPT ![e] = y]
    BY <1>3, Zenon
  <2> HIDE DEF y
  <2>2. /\ y \in Edit /\ y.pc = p /\ y.seen = r.seen /\ y.saw = r.saw /\ y.at = r.at
        /\ y.inForce = r.inForce
    BY <1>2, <1>3, Moved DEF y
  <2>3. (y.pc \in {"get", "update", "resolve"} => "attempt" \in t) /\ y.pc # "record"
    BY <1>3, <2>2
  <2>4. Sound(y, t, configMap, y.inForce)
    BY <1>2, <1>3, <2>2, <2>3, Zenon DEF Sound
  <2>5. QED
    BY <1>1, <1>3, <2>1, <2>2, <2>4, EditKeeps, Zenon
<1>4. CASE Appended(e, "attempt") /\ edit' = [edit EXCEPT ![e].pc = "get"]
  <2> DEFINE t == trail[e] \union {"attempt"}
  <2>1. t \in SUBSET Entries /\ "attempt" \in t /\ trail' = [trail EXCEPT ![e] = t]
    BY <1>2, <1>4, Zenon DEF Entries, Appended
  <2>2. ("success" \in t => "success" \in trail[e]) /\ ("failure" \in t => "failure" \in trail[e])
    OBVIOUS
  <2> HIDE DEF t
  <2>3. QED
    BY <1>3, <1>4, <2>1, <2>2, Zenon
<1>5. CASE UNCHANGED trail /\ edit' = [edit EXCEPT ![e].pc = "done"]
  <2>1. trail' = [trail EXCEPT ![e] = trail[e]]
    BY <1>5, Zenon DEF AuditInv
  <2>2. "done" # "get"
    OBVIOUS
  <2>3. QED
    BY <1>2, <1>3, <1>5, <2>1, <2>2, Zenon
<1>6. QED
  BY <1>4, <1>5, Zenon DEF Announce, Unannounced

LEMMA GetKeeps ==
    ASSUME AuditInv, NEW e \in Edits, GetForUpdate(e)
    PROVE  AuditInv'
<1> DEFINE r == edit[e]
           y == [r EXCEPT !.pc = "record", !.outcome = "failure"]
           z == [r EXCEPT !.pc = "update", !.seen = configMap.rv]
<1>1. r.pc = "get" /\ UNCHANGED trail /\ mishaps' \in 0..MaxMishaps
  BY MishapTypes, Zenon DEF GetForUpdate
<1>2. r.pc \in {"open", "get"}
  BY <1>1, Zenon
<1>3. CASE Becomes(configMap, e, y)
  <2>1. y \in Edit /\ Sound(y, trail[e], configMap, y.inForce)
    BY <1>2, FailedEarly, Zenon
  <2> HIDE DEF y
  <2>2. Sound(y, trail[e], configMap, y.inForce \/ Matches(y, configMap))
    BY <2>1, Zenon DEF Sound
  <2>3. configMap \in ConfigMaps
    BY Facts, Zenon
  <2>4. QED
    BY <1>1, <1>3, <2>1, <2>2, <2>3, BecomesKeeps, Zenon
<1>4. CASE StillSeen(e) /\ Becomes(configMap, e, z)
  <2>1. r \in Edit /\ Sound(r, trail[e], configMap, r.inForce) /\ configMap \in ConfigMaps /\ r.seen = configMap.rv
    BY <1>4, Facts, Zenon DEF StillSeen
  <2>2. /\ z \in Edit /\ z.pc = "update" /\ z.seen = r.seen /\ z.saw = r.saw /\ z.at = r.at
        /\ z.inForce = r.inForce
    BY <2>1 DEF Edit
  <2> HIDE DEF z
  <2>3. /\ z.pc # "closed" /\ z.pc # "record" /\ r.pc # "closed" /\ r.pc \in {"get", "update", "resolve"}
        /\ r.pc # "done" /\ r.pc \in {"open", "attempt", "get", "update"}
    BY <1>1, <2>2
  <2>4. ~(z.at > 0) /\ "failure" \notin trail[e] /\ "attempt" \in trail[e]
    BY <2>1, <2>2, <2>3, Facts, Zenon DEF Sound
  <2>5. Sound(z, trail[e], configMap, z.inForce \/ Matches(z, configMap))
    BY <2>1, <2>2, <2>3, <2>4, Zenon DEF Sound
  <2>6. QED
    BY <1>1, <1>4, <2>1, <2>2, <2>5, BecomesKeeps, Zenon
<1>5. QED
  BY <1>3, <1>4, Zenon DEF GetForUpdate

LEMMA UpdateKeeps ==
    ASSUME AuditInv, NEW e \in Edits, Update(e)
    PROVE  AuditInv'
<1> DEFINE r == edit[e]
           cm == Write(r.list)
<1>1. r.pc = "update" /\ UNCHANGED trail /\ mishaps' \in 0..MaxMishaps
  BY MishapTypes, Zenon DEF Update
<1>2. /\ r \in Edit /\ Sound(r, trail[e], configMap, r.inForce) /\ configMap \in ConfigMaps
      /\ r.seen > 0 /\ ~(r.at > 0) /\ "failure" \notin trail[e] /\ "attempt" \in trail[e]
      /\ configMap.raw \in SUBSET Spellings
  <2>1. /\ r.pc # "closed" /\ r.pc # "done" /\ r.pc \in {"get", "update", "resolve"}
        /\ r.pc \in {"open", "attempt", "get", "update"}
    BY <1>1
  <2>2. QED
    BY <2>1, Facts, Zenon DEF Sound
<1>3. ASSUME NEW p \in {"record", "resolve"}, configMap.rv = r.seen,
             Becomes(cm, e, [r EXCEPT !.pc = p, !.over = configMap.raw, !.at = cm.rv,
                                      !.outcome = IF p = "record" THEN "success" ELSE "none"])
      PROVE  AuditInv'
  <2> DEFINE o == IF p = "record" THEN "success" ELSE "none"
             y == [r EXCEPT !.pc = p, !.over = configMap.raw, !.at = cm.rv, !.outcome = o]
  <2>1. Becomes(cm, e, y) /\ o \in {"success", "none"} /\ (p = "record" => o = "success")
    BY <1>3, Zenon
  <2> HIDE DEF o
  <2>2. Valid(configMap.raw) /\ Normalize(configMap.raw) = r.saw
    BY <1>2, <1>3, Zenon DEF Sound
  <2>3. configMap.raw \in SUBSET {"r1", "R1", "r2"}
    BY <1>2, <2>2, Normalized, Zenon
  <2>4. r.list \in SUBSET {"r1", "r2"} /\ r.list \in SUBSET Spellings /\ Valid(r.list) /\ Normalize(r.list) = r.list
    BY <1>2, EditFields, NormalForm, Zenon
  <2>5. /\ cm \in ConfigMaps /\ cm.raw = r.list /\ cm.rv > 0
        /\ cm = configMap \/ cm.rv = configMap.rv + 1
    BY <2>4, Written, Zenon
  <2> HIDE DEF cm
  <2>6. cm.rv \in Nat
    BY <2>5, Zenon DEF ConfigMaps
  <2>7. /\ y \in Edit /\ y.pc = p /\ y.list = r.list /\ y.outcome = o /\ y.seen = r.seen
        /\ y.saw = r.saw /\ y.over = configMap.raw /\ y.at = cm.rv /\ y.inForce = r.inForce
    BY <1>2, <2>1, <2>3, <2>6 DEF Edit
  <2> HIDE DEF y
  <2>8. Sound(r, trail[e], cm, r.inForce)
    BY <1>2, <2>5, LaterSound, Zenon
  <2>9. /\ y.pc \in {"update", "resolve", "record"} /\ y.pc \in {"resolve", "record", "done"} /\ y.pc # "closed"
        /\ (y.pc = "record" => y.outcome # "none" /\ y.outcome # "failure") /\ cm.rv <= cm.rv
    BY <1>3, <2>1, <2>6, <2>7
  <2>10. Matches(y, cm)
    BY <2>4, <2>5, <2>7, <2>9, Zenon DEF Matches
  <2>11. Sound(y, trail[e], cm, y.inForce \/ Matches(y, cm))
    BY <1>2, <2>2, <2>5, <2>7, <2>8, <2>9, <2>10, Zenon DEF Sound
  <2>12. QED
    BY <1>1, <2>1, <2>5, <2>7, <2>11, BecomesKeeps, Zenon
<1>4. CASE Becomes(configMap, e, [r EXCEPT !.pc = "resolve"])
  <2> DEFINE y == [r EXCEPT !.pc = "resolve"]
  <2>1. /\ y \in Edit /\ y.pc = "resolve" /\ y.seen = r.seen /\ y.saw = r.saw /\ y.at = r.at
        /\ y.inForce = r.inForce
    BY <1>2, Zenon DEF Edit
  <2>2. Becomes(configMap, e, y)
    BY <1>4, Zenon
  <2> HIDE DEF y
  <2>3. y.pc # "closed" /\ y.pc # "record"
    BY <2>1
  <2>4. Sound(y, trail[e], configMap, y.inForce \/ Matches(y, configMap))
    BY <1>2, <2>1, <2>3, Zenon DEF Sound
  <2>5. QED
    BY <1>1, <1>2, <2>1, <2>2, <2>4, BecomesKeeps, Zenon
<1>5. QED
  BY <1>3, <1>4, Zenon DEF Update

LEMMA ResolveKeeps ==
    ASSUME AuditInv, NEW e \in Edits, ResolveUpdate(e)
    PROVE  AuditInv'
<1> DEFINE r == edit[e]
<1>1. r.pc = "resolve" /\ UNCHANGED trail /\ mishaps' \in 0..MaxMishaps
  BY MishapTypes, Zenon DEF ResolveUpdate
<1>2. /\ r \in Edit /\ Sound(r, trail[e], configMap, r.inForce) /\ configMap \in ConfigMaps
      /\ "failure" \notin trail[e] /\ r.pc # "closed"
  <2>1. r.pc # "closed" /\ r.pc # "done"
    BY <1>1
  <2>2. QED
    BY <2>1, Facts, Zenon
<1>3. ASSUME NEW o \in {"success", "failure", "indeterminate"},
             Becomes(configMap, e, [r EXCEPT !.pc = "record", !.outcome = o]),
             o = "success" => Valid(configMap.raw) /\ Normalize(configMap.raw) = r.list,
             o = "failure" => Normalize(configMap.raw) # r.list
      PROVE  AuditInv'
  <2> DEFINE y == [r EXCEPT !.pc = "record", !.outcome = o]
  <2>1. /\ y \in Edit /\ y.pc = "record" /\ y.list = r.list /\ y.outcome = o /\ y.seen = r.seen
        /\ y.saw = r.saw /\ y.over = r.over /\ y.at = r.at /\ y.inForce = r.inForce
    BY <1>2, <1>3, Zenon DEF Edit
  <2>2. Becomes(configMap, e, y)
    BY <1>3, Zenon
  <2> HIDE DEF y
  <2>3. y.outcome # "none" /\ y.pc # "closed" /\ y.pc \notin {"get", "update", "resolve"}
        /\ y.pc \in {"resolve", "record", "done"} /\ y.pc \in {"update", "resolve", "record"}
    BY <1>3, <2>1
  <2>4. o = "success" => Matches(y, configMap)
    BY <1>3, <2>1, <2>3, Zenon DEF Matches
  \* The ConfigMap has another list than the edit's, so not the version it wrote.
  <2>5. (o = "failure" /\ r.at > 0) => configMap.rv > r.at
    <3>1. ASSUME o = "failure", r.at > 0
          PROVE  r.at <= configMap.rv /\ r.at # configMap.rv
      <4>1. r.list \in SUBSET {"r1", "r2"}
        BY <1>2, EditFields, Zenon
      <4>2. Normalize(r.list) = r.list
        BY <4>1, NormalForm, Zenon
      <4>3. QED
        BY <1>2, <1>3, <3>1, <4>2, Zenon DEF Sound
    <3>2. r.at \in Nat /\ configMap.rv \in Nat
      BY <1>2, EditFields, Zenon DEF ConfigMaps
    <3> HIDE DEF r
    <3>3. QED
      BY <3>1, <3>2
  <2>6. Sound(y, trail[e], configMap, y.inForce \/ Matches(y, configMap))
    BY <1>2, <2>1, <2>3, <2>4, <2>5, Zenon DEF Sound
  <2>7. QED
    BY <1>1, <1>2, <2>1, <2>2, <2>6, BecomesKeeps, Zenon
<1>4. /\ ReadBack(e) \in {"success", "failure", "indeterminate"}
      /\ ReadBack(e) = "success" => Valid(configMap.raw) /\ Normalize(configMap.raw) = r.list
      /\ ReadBack(e) = "failure" => Normalize(configMap.raw) # r.list
  BY DEF ReadBack, Readable
<1>5. CASE Becomes(configMap, e, [r EXCEPT !.pc = "record", !.outcome = ReadBack(e)])
  BY <1>3, <1>4, <1>5, Zenon
<1>6. CASE Becomes(configMap, e, [r EXCEPT !.pc = "record", !.outcome = "indeterminate"])
  BY <1>3, <1>6, Zenon
<1>7. QED
  BY <1>5, <1>6, Zenon DEF ResolveUpdate

LEMMA RecordKeeps ==
    ASSUME AuditInv, NEW e \in Edits, Record(e)
    PROVE  AuditInv'
<1> DEFINE r == edit[e]
           y == [r EXCEPT !.pc = "done"]
<1>1. /\ r.pc = "record" /\ UNCHANGED configMap /\ mishaps' \in 0..MaxMishaps
      /\ edit' = [edit EXCEPT ![e] = y]
  BY MishapTypes, Zenon DEF Record
<1>2. r \in Edit /\ Sound(r, trail[e], configMap, r.inForce) /\ trail[e] \in SUBSET Entries
  BY Facts, Zenon
<1>3. r.outcome \in {"success", "failure", "indeterminate"}
  <2>1. r.outcome # "none"
    BY <1>1, <1>2, Zenon DEF Sound
  <2>2. r.outcome \in {"none", "success", "failure", "indeterminate"}
    BY <1>2, EditFields, Zenon
  <2>3. QED
    BY <2>1, <2>2, Zenon
<1>4. /\ y \in Edit /\ y.pc = "done" /\ y.list = r.list /\ y.seen = r.seen
      /\ y.saw = r.saw /\ y.over = r.over /\ y.at = r.at /\ y.inForce = r.inForce
  BY <1>2, Zenon DEF Edit
<1> HIDE DEF y
<1>5. /\ y.pc # "closed" /\ y.pc # "record" /\ y.pc \notin {"get", "update", "resolve"} /\ r.pc # "closed"
      /\ y.pc \in {"resolve", "record", "done"}
  BY <1>1, <1>4
<1>6. ASSUME NEW t \in {trail[e], trail[e] \union {r.outcome}}, trail' = [trail EXCEPT ![e] = t]
      PROVE  AuditInv'
  <2>1. /\ t \in SUBSET Entries
        /\ "attempt" \in trail[e] => "attempt" \in t
        /\ "success" \in t => "success" \in trail[e] \/ r.outcome = "success"
        /\ "failure" \in t => "failure" \in trail[e] \/ r.outcome = "failure"
    BY <1>2, <1>3, <1>6, Zenon DEF Entries
  <2>2. Sound(y, t, configMap, y.inForce)
    BY <1>1, <1>2, <1>4, <1>5, <2>1, Zenon DEF Sound
  <2>3. QED
    BY <1>1, <1>4, <1>6, <2>1, <2>2, EditKeeps, Zenon
<1>7. trail' = [trail EXCEPT ![e] = trail[e] \union {r.outcome}] \/ trail' = [trail EXCEPT ![e] = trail[e]]
  BY Zenon DEF Record, Appended, AuditInv
<1>8. QED
  BY <1>6, <1>7, Zenon

LEMMA RestartKeeps ==
    ASSUME AuditInv, RestartDashboard
    PROVE  AuditInv'
<1>1. UNCHANGED <<configMap, trail>> /\ mishaps' \in 0..MaxMishaps
  BY MishapTypes, Zenon DEF RestartDashboard
<1>2. ASSUME NEW e \in Edits
      PROVE  edit'[e] \in Edit /\ Sound(edit'[e], trail[e], configMap, edit'[e].inForce)
  <2> DEFINE r == edit[e]
             y == [r EXCEPT !.pc = "done"]
  <2>1. edit'[e] = r \/ (r.pc # "closed" /\ edit'[e] = y)
    BY Zenon DEF RestartDashboard
  <2>2. r \in Edit /\ Sound(r, trail[e], configMap, r.inForce)
    BY Facts, Zenon
  <2>3. /\ y \in Edit /\ y.pc = "done" /\ y.list = r.list /\ y.seen = r.seen
        /\ y.saw = r.saw /\ y.over = r.over /\ y.at = r.at /\ y.inForce = r.inForce
    BY <2>2, Zenon DEF Edit
  <2> HIDE DEF y
  <2>4. /\ y.pc # "closed" /\ y.pc # "record" /\ y.pc \notin {"get", "update", "resolve"}
        /\ y.pc \in {"resolve", "record", "done"}
    BY <2>3
  <2>5. r.pc # "closed" => Sound(y, trail[e], configMap, y.inForce)
    BY <2>2, <2>3, <2>4, Zenon DEF Sound
  <2>6. QED
    BY <2>1, <2>2, <2>3, <2>5, Zenon
<1>3. edit' \in [Edits -> Edit]
  BY <1>2, Zenon DEF RestartDashboard
<1>4. QED
  BY <1>1, <1>2, <1>3, Zenon DEF AuditInv

LEMMA ByHandKeeps ==
    ASSUME AuditInv, NEW raw \in Lists, EditByHand(raw)
    PROVE  AuditInv'
<1>1. raw \in SUBSET Spellings /\ mishaps' \in 0..MaxMishaps /\ UNCHANGED trail
  BY ListsAreSpelled, MishapTypes, Zenon DEF EditByHand, Spellings
<1>2. Write(raw) \in ConfigMaps /\ (Write(raw) = configMap \/ Write(raw).rv = configMap.rv + 1)
  BY <1>1, Written, Zenon
<1>3. edit \in [Edits -> Edit] /\ edit' = Observe(Write(raw), edit) /\ configMap' = Write(raw)
  BY Zenon DEF EditByHand, AuditInv
<1>4. /\ edit' \in [Edits -> Edit] /\ configMap' \in ConfigMaps /\ trail' \in [Edits -> SUBSET Entries]
      /\ \A e \in Edits : Sound(edit'[e], trail'[e], configMap', edit'[e].inForce)
  BY <1>1, <1>2, <1>3, ObserveKeeps, Zenon
<1>5. QED
  BY <1>1, <1>4, Zenon DEF AuditInv

LEMMA AuditInductive ==
    /\ Init => AuditInv
    /\ AuditInv /\ [Next]_vars => AuditInv'
<1>1. ASSUME Init
      PROVE  AuditInv
  <2>1. AllowlistInit
    BY <1>1, Zenon DEF Init
  <2>2. 1 \in Nat \ {0} /\ 0 \in Nat /\ 0 <= 1 /\ ~(0 > 0) /\ mishaps \in 0..MaxMishaps
    BY <2>1, ListsAreSpelled DEF AllowlistInit
  <2>3. configMap \in ConfigMaps /\ configMap.rv = 1
    BY <2>1, <2>2, Zenon DEF AllowlistInit, ConfigMaps, Spellings
  <2>4. NoEdit \in Edit /\ NoEdit.pc = "closed" /\ NoEdit.seen = 0 /\ NoEdit.at = 0
    BY <2>2 DEF NoEdit, Edit
  <2>5. NoEdit.pc # "record" /\ NoEdit.pc \notin {"get", "update", "resolve"}
    BY <2>4
  <2>6. Sound(NoEdit, {}, configMap, NoEdit.inForce)
    BY <2>2, <2>3, <2>4, <2>5, Zenon DEF Sound
  <2>7. QED
    BY <2>1, <2>2, <2>3, <2>4, <2>6, Zenon DEF AuditInv, AllowlistInit
<1>2. ASSUME AuditInv, [Next]_vars
      PROVE  AuditInv'
  <2>1. CASE UNCHANGED allowlistVars
    BY <1>2, <2>1, Zenon DEF allowlistVars, AuditInv
  <2>2. CASE AllowlistNext
    BY <1>2, <2>2, LoadKeeps, SubmitKeeps, AnnounceKeeps, GetKeeps, UpdateKeeps, ResolveKeeps, RecordKeeps,
       RestartKeeps, ByHandKeeps, Zenon DEF AllowlistNext
  <2>3. QED
    BY <1>2, <2>1, <2>2, Zenon DEF Next, vars
<1>3. QED
  BY <1>1, <1>2, Zenon

\* AuditIsTrue for any number of edits and mishaps: no change of the allow-list
\* without an announcement in the audit trail before it, none over a policy its
\* author did not see, and an outcome on the trail is what happened, also where
\* the API server's reply was lost and resolveRepoAllowlistUpdate read it back.
THEOREM AuditStaysTrue == Spec => []AuditIsTrue
<1>1. AuditInv => AuditIsTrue
  <2>1. ASSUME AuditInv, NEW e \in Edits
        PROVE  /\ edit[e].at > 0 => "attempt" \in trail[e] /\ Normalize(edit[e].over) = edit[e].saw
               /\ "success" \in trail[e] => edit[e].inForce
               /\ ("failure" \in trail[e] /\ edit[e].at > 0) => configMap.rv > edit[e].at
    BY <2>1, Zenon DEF AuditInv, Sound
  <2>2. QED
    BY <2>1, Zenon DEF AuditIsTrue, ChangeAnnounced, OnlySeenReplaced, SuccessIsTrue, FailureIsTrue
<1>2. QED
  BY <1>1, AuditInductive, PTL DEF Spec

(***************************************************************************)
(* The connects.                                                           *)
(***************************************************************************)

\* Both Secrets are written.
BothWritten == {"slug", "id", "at", "connected"}

\* A connect that nothing overlapped: once it has written both Secrets it has
\* both or its credential is gone; and while another is between its two, its
\* credential is not there.
Connecting ==
    \A f \in Flows : ~flow[f].overlapped =>
        /\ flow[f].pc \in BothWritten /\ secret.app = f => secret.hook = f
        /\ \A g \in Flows \ {f} :
              flow[g].pc = "hook" /\ flow[f].pc \in BothWritten \union {"hook"} => secret.app # f

ConnectInv ==
    /\ cookie \in AppOrNone /\ flow \in [Flows -> Flow]
    /\ secret \in [app : AppOrNone, hook : AppOrNone]
    /\ settings \in [slug : AppOrNone, id : AppOrNone, at : AppOrNone]
    /\ Connecting

FlowSteps == {"idle", "github", "exchange", "app", "hook", "slug", "id", "at", "connected", "failed"}

\* A flow goes from one step to another, and the Secrets stay as they are.
LEMMA FlowKeeps ==
    ASSUME ConnectInv, NEW f \in Flows, NEW p \in FlowSteps, flow' = [flow EXCEPT ![f].pc = p],
           cookie' \in AppOrNone, UNCHANGED secret,
           settings' \in [slug : AppOrNone, id : AppOrNone, at : AppOrNone],
           p # "hook", p \in BothWritten => flow[f].pc \in BothWritten
    PROVE  ConnectInv'
<1> DEFINE y == [flow[f] EXCEPT !.pc = p]
<1>1. y \in Flow /\ y.pc = p /\ y.overlapped = flow[f].overlapped
  BY Zenon DEF ConnectInv, Flow, FlowSteps
<1>2. flow' = [flow EXCEPT ![f] = y]
  BY Zenon
<1> HIDE DEF y
<1>3. flow' \in [Flows -> Flow] /\ flow'[f] = y /\ \A g \in Flows \ {f} : flow'[g] = flow[g]
  BY <1>1, <1>2, Zenon DEF ConnectInv
<1>4. \A g \in Flows : /\ flow'[g].overlapped = flow[g].overlapped
                       /\ flow'[g].pc = "hook" => flow[g].pc = "hook"
                       /\ flow'[g].pc \in BothWritten => flow[g].pc \in BothWritten
  BY <1>1, <1>3, Zenon
<1>5. Connecting'
  BY <1>4, Zenon DEF ConnectInv, Connecting
<1>6. QED
  BY <1>3, <1>5, Zenon DEF ConnectInv

LEMMA ToKeeps ==
    ASSUME ConnectInv, NEW f \in Flows, NEW p \in FlowSteps, To(f, p), UNCHANGED secret,
           settings' \in [slug : AppOrNone, id : AppOrNone, at : AppOrNone],
           p # "hook", p \in BothWritten => flow[f].pc \in BothWritten
    PROVE  ConnectInv'
<1>1. flow' = [flow EXCEPT ![f].pc = p] /\ cookie' \in AppOrNone
  BY Zenon DEF To, ConnectInv, AppOrNone
<1>2. QED
  BY <1>1, FlowKeeps, Zenon

LEMMA WriteAppKeeps ==
    ASSUME ConnectInv, NEW f \in Flows, WriteApp(f)
    PROVE  ConnectInv'
<1>1. PICK ok \in BOOLEAN, done \in BOOLEAN :
         /\ ok => done
         /\ secret' = IF done THEN [secret EXCEPT !.app = f] ELSE secret
         /\ cookie' = IF ok THEN cookie ELSE "none"
         /\ flow' = [g \in Flows |->
                       [flow[g] EXCEPT !.pc = IF g # f THEN @
                                              ELSE IF ok THEN "hook" ELSE "failed",
                                       !.overlapped = @ \/ (g \in Between(f))
                                                        \/ (g = f /\ Between(f) # {})]]
  BY Zenon DEF WriteApp
<1>2. settings' = settings /\ flow[f].pc = "app"
  BY Zenon DEF WriteApp
<1>3. ASSUME NEW g \in Flows
      PROVE  /\ flow'[g] \in Flow
             /\ flow'[g].pc = IF g # f THEN flow[g].pc ELSE IF ok THEN "hook" ELSE "failed"
             /\ flow'[g].overlapped = (flow[g].overlapped \/ (g \in Between(f)) \/ (g = f /\ Between(f) # {}))
  <2> DEFINE p == IF g # f THEN flow[g].pc ELSE IF ok THEN "hook" ELSE "failed"
             v == flow[g].overlapped \/ (g \in Between(f)) \/ (g = f /\ Between(f) # {})
  <2>1. flow[g] \in Flow /\ flow'[g] = [flow[g] EXCEPT !.pc = p, !.overlapped = v]
    BY <1>1, Zenon DEF ConnectInv
  <2>2. p \in FlowSteps /\ v \in BOOLEAN
    BY <2>1, Zenon DEF Flow, FlowSteps
  <2> HIDE DEF p, v
  <2>3. flow'[g] \in Flow /\ flow'[g].pc = p /\ flow'[g].overlapped = v
    BY <2>1, <2>2, Zenon DEF Flow, FlowSteps
  <2>4. QED
    BY <2>3, Zenon DEF p, v
<1>4. flow' \in [Flows -> Flow]
  BY <1>1, <1>3, Zenon
<1>5. /\ secret' \in [app : AppOrNone, hook : AppOrNone] /\ secret'.hook = secret.hook
      /\ secret'.app = (IF done THEN f ELSE secret.app)
  BY <1>1, Zenon DEF ConnectInv, AppOrNone
<1>6. cookie' \in AppOrNone
  BY <1>1, Zenon DEF ConnectInv, AppOrNone
<1>7. flow'[f].pc \notin BothWritten /\ (flow'[f].pc = "hook" => ok)
  BY <1>3 DEF BothWritten
<1>8. ASSUME NEW h \in Flows, ~flow'[h].overlapped
      PROVE  /\ flow'[h].pc \in BothWritten /\ secret'.app = h => secret'.hook = h
             /\ \A g \in Flows \ {h} :
                   flow'[g].pc = "hook" /\ flow'[h].pc \in BothWritten \union {"hook"} => secret'.app # h
  <2>1. ~flow[h].overlapped /\ h \notin Between(f) /\ (h = f => Between(f) = {})
    BY <1>3, <1>8, Zenon
  <2>2. CASE h = f
    <3>1. \A g \in Flows \ {f} : flow'[g].pc # "hook"
      BY <1>3, <2>1, <2>2, Zenon DEF Between
    <3>2. QED
      BY <1>7, <2>2, <3>1, Zenon
  <2>3. CASE h # f
    <3>1. flow'[h].pc = flow[h].pc /\ (secret'.app = h => secret.app = h)
      <4>1. flow'[h].pc = flow[h].pc
        BY <1>3, <2>3
      <4>2. secret'.app = h => secret.app = h
        BY <1>5, <2>3
      <4>3. QED
        BY <4>1, <4>2, Zenon
    <3>2. ASSUME NEW g \in Flows \ {h}, flow'[g].pc = "hook", flow'[h].pc \in BothWritten \union {"hook"}
          PROVE  secret'.app # h
      <4>1. CASE g = f
        BY <1>1, <1>5, <1>7, <2>3, <3>2, <4>1, Zenon
      <4>2. CASE g # f
        <5>1. flow[g].pc = "hook"
          BY <1>3, <3>2, <4>2, Zenon
        <5>2. QED
          BY <2>1, <3>1, <3>2, <5>1, Zenon DEF ConnectInv, Connecting
      <4>3. QED
        BY <4>1, <4>2, Zenon
    <3>3. QED
      BY <1>5, <2>1, <3>1, <3>2, Zenon DEF ConnectInv, Connecting
  <2>4. QED
    BY <2>2, <2>3, Zenon
<1>9. Connecting'
  BY <1>8, Zenon DEF Connecting
<1>10. QED
  BY <1>2, <1>4, <1>5, <1>6, <1>9, Zenon DEF ConnectInv

LEMMA WriteHookKeeps ==
    ASSUME ConnectInv, NEW f \in Flows, WriteHook(f)
    PROVE  ConnectInv'
<1>1. PICK ok \in BOOLEAN, done \in BOOLEAN :
         /\ ok => done
         /\ secret' = IF done THEN [secret EXCEPT !.hook = f] ELSE secret
         /\ To(f, AfterHook(ok))
  BY Zenon DEF WriteHook
<1>2. settings' = settings /\ flow[f].pc = "hook"
  BY Zenon DEF WriteHook
<1> DEFINE p == AfterHook(ok)
           y == [flow[f] EXCEPT !.pc = p]
<1>3. p \in FlowSteps /\ p # "hook" /\ (p \in BothWritten => ok)
  BY DEF AfterHook, FlowSteps, BothWritten
<1>4. flow' = [flow EXCEPT ![f] = y] /\ cookie' \in AppOrNone
  BY <1>1, Zenon DEF To, ConnectInv, AppOrNone
<1> HIDE DEF p
<1>5. y \in Flow /\ y.pc = p /\ y.overlapped = flow[f].overlapped
  BY <1>3, Zenon DEF ConnectInv, Flow, FlowSteps
<1> HIDE DEF y
<1>6. flow' \in [Flows -> Flow] /\ flow'[f] = y /\ \A g \in Flows \ {f} : flow'[g] = flow[g]
  BY <1>4, <1>5, Zenon DEF ConnectInv
<1>7. /\ secret' \in [app : AppOrNone, hook : AppOrNone] /\ secret'.app = secret.app
      /\ secret'.hook \in {secret.hook, f} /\ (done => secret'.hook = f)
  BY <1>1, Zenon DEF ConnectInv, AppOrNone
<1>8. ASSUME NEW h \in Flows, ~flow'[h].overlapped
      PROVE  /\ flow'[h].pc \in BothWritten /\ secret'.app = h => secret'.hook = h
             /\ \A g \in Flows \ {h} :
                   flow'[g].pc = "hook" /\ flow'[h].pc \in BothWritten \union {"hook"} => secret'.app # h
  <2>1. ~flow[h].overlapped
    BY <1>5, <1>6, <1>8, Zenon
  <2>2. ASSUME NEW g \in Flows \ {h}, flow'[g].pc = "hook", flow'[h].pc \in BothWritten \union {"hook"}
        PROVE  secret'.app # h
    <3>1. flow[g].pc = "hook" /\ flow[h].pc \in BothWritten \union {"hook"}
      BY <1>2, <1>3, <1>5, <1>6, <2>2, Zenon
    <3>2. QED
      BY <1>7, <2>1, <3>1, Zenon DEF ConnectInv, Connecting
  <2>3. ASSUME flow'[h].pc \in BothWritten, secret'.app = h
        PROVE  secret'.hook = h
    <3>1. CASE h = f
      BY <1>1, <1>3, <1>5, <1>6, <1>7, <2>3, <3>1, Zenon
    \* f was between its Secrets, so the credential is not h's.
    <3>2. CASE h # f
      BY <1>2, <1>6, <1>7, <2>1, <2>3, <3>2, Zenon DEF ConnectInv, Connecting
    <3>3. QED
      BY <3>1, <3>2, Zenon
  <2>4. QED
    BY <2>2, <2>3, Zenon
<1>9. Connecting'
  BY <1>8, Zenon DEF Connecting
<1>10. QED
  BY <1>2, <1>4, <1>6, <1>7, <1>9, Zenon DEF ConnectInv

LEMMA UpsertKeeps ==
    ASSUME ConnectInv, NEW f \in Flows, RecordConnected(f)
    PROVE  ConnectInv'
<1>1. ASSUME NEW k \in {"slug", "id", "at"}, NEW p \in {"id", "at", "connected"}, Upsert(f, k, p)
      PROVE  ConnectInv'
  <2>1. settings' = settings \/ settings' = [settings EXCEPT ![k] = f]
    BY <1>1, Zenon DEF Upsert
  <2>2. f \in AppOrNone /\ settings \in [slug : AppOrNone, id : AppOrNone, at : AppOrNone]
    BY Zenon DEF AppOrNone, ConnectInv
  <2>3. settings' \in [slug : AppOrNone, id : AppOrNone, at : AppOrNone]
    <3>1. CASE k = "slug"
      BY <2>1, <2>2, <3>1
    <3>2. CASE k = "id"
      BY <2>1, <2>2, <3>2
    <3>3. CASE k = "at"
      BY <2>1, <2>2, <3>3
    <3>4. QED
      BY <1>1, <3>1, <3>2, <3>3, Zenon
  <2>4. p \in FlowSteps /\ p # "hook" /\ k \in BothWritten
    BY <1>1 DEF FlowSteps, BothWritten
  <2>5. To(f, p) /\ UNCHANGED secret /\ flow[f].pc \in BothWritten
    BY <1>1, <2>4, Zenon DEF Upsert
  <2>6. QED
    BY <2>3, <2>4, <2>5, ToKeeps, Zenon
<1>2. QED
  BY <1>1, Zenon DEF RecordConnected

LEMMA ConnectKeeps ==
    ASSUME ConnectInv, ConnectNext
    PROVE  ConnectInv'
<1>1. PICK f \in Flows : \/ StartManifest(f) \/ Callback(f) \/ Exchange(f)
                         \/ WriteApp(f) \/ WriteHook(f) \/ RecordConnected(f)
  BY Zenon DEF ConnectNext
<1>2. settings \in [slug : AppOrNone, id : AppOrNone, at : AppOrNone]
  BY Zenon DEF ConnectInv
<1>3. \A p \in {"github", "exchange", "app", "failed"} : p \in FlowSteps /\ p # "hook" /\ p \notin BothWritten
  BY DEF FlowSteps, BothWritten
<1>4. CASE StartManifest(f)
  <2>1. cookie' \in AppOrNone /\ flow' = [flow EXCEPT ![f].pc = "github"] /\ UNCHANGED <<secret, settings>>
    BY <1>4, Zenon DEF StartManifest, SetCookie, AppOrNone
  <2>2. QED
    BY <1>2, <1>3, <2>1, FlowKeeps, Zenon
<1>5. CASE Callback(f) \/ Exchange(f)
  <2>1. PICK p \in {"exchange", "app", "failed"} : To(f, p) /\ UNCHANGED <<secret, settings>>
    BY <1>5, Zenon DEF Callback, Exchange
  <2>2. QED
    BY <1>2, <1>3, <2>1, ToKeeps, Zenon
<1>6. QED
  BY <1>1, <1>4, <1>5, WriteAppKeeps, WriteHookKeeps, UpsertKeeps, Zenon

LEMMA ConnectInit ==
    ASSUME Init
    PROVE  ConnectInv
<1>1. cookie \in AppOrNone /\ "none" \in AppOrNone /\ First \in AppOrNone /\ Flows \subseteq AppOrNone
  BY GitHubConstants, Zenon DEF Init, GitHubRest, AppOrNone
<1>2. CASE ConnectStory
  <2>1. /\ flow \in [Flows -> Flow] /\ \A f \in Flows : flow[f].pc = "idle"
    BY <1>2 DEF ConnectStory, Flow
  <2>2. \A f \in Flows : flow[f].pc \notin BothWritten /\ flow[f].pc # "hook"
    BY <2>1 DEF BothWritten
  <2>3. /\ secret \in [app : AppOrNone, hook : AppOrNone]
        /\ settings \in [slug : AppOrNone, id : AppOrNone, at : AppOrNone]
    BY <1>1, <1>2, Zenon DEF ConnectStory
  <2>4. QED
    BY <1>1, <2>1, <2>2, <2>3, Zenon DEF ConnectInv, Connecting
<1>3. CASE ResolveStory
  <2>1. /\ flow \in [Flows -> Flow] /\ \A f \in Flows : flow[f].pc = IF f = First THEN "connected" ELSE "app"
    BY <1>3 DEF ResolveStory, Flow
  <2>2. \A f \in Flows : (flow[f].pc \in BothWritten => f = First) /\ flow[f].pc # "hook"
    BY <2>1 DEF BothWritten
  <2>3. /\ secret \in [app : AppOrNone, hook : AppOrNone] /\ secret.hook = First
        /\ settings \in [slug : AppOrNone, id : AppOrNone, at : AppOrNone]
    BY <1>1, <1>3, Zenon DEF ResolveStory
  <2>4. QED
    BY <1>1, <2>1, <2>2, <2>3, Zenon DEF ConnectInv, Connecting
<1>4. QED
  BY <1>2, <1>3, Zenon DEF Init

(***************************************************************************)
(* The calls.                                                              *)
(***************************************************************************)

\* The steps at which a call knows its installation, and those in the mutex.
Located == {"lock", "credentials", "mint", "branch", "commit"}
Inside  == {"credentials", "mint"}

\* A call v when GitHub is g, the cache ca and the time t: a token lasts for the
\* requests that are left; in the mutex there is no cached token that would do;
\* and it has noted whether its App's installation or the branch was missing.
CallOK(v, g, ca, t) ==
    /\ v.pc = "read" => v.app = "none"
    /\ v.pc \in {"read", "lookup"} => v.of.n = 0
    /\ v.pc = "lookup" => v.app \in Flows
    /\ v.pc \in Located => v.of \in Installations
    /\ v.pc \in Inside => ~(t + ExpiryGuard < ca[v.of])
    /\ v.pc = "branch" => t + (IF v.tick THEN 1 ELSE 2) < v.expires
    /\ v.pc = "commit" => t + (IF v.tick THEN 0 ELSE 1) < v.expires
    /\ (v.pc \in Active /\ NoWay(g, About(v))) => v.why
    /\ v.pc = "unresolvable" => v.why

GitHubs == [on : [Flows -> BOOLEAN], n : [Flows -> 0..(MaxTroubles + 1)], ref : BOOLEAN]

Calling ==
    /\ github \in GitHubs /\ \A f \in Flows : github.on[f] => github.n[f] \in 1..(MaxTroubles + 1)
    /\ caller \in [Callers -> Caller] /\ lock \in Callers \union {"none"}
    /\ cache \in [Installations -> Nat] /\ clock \in Nat
    /\ \A c \in Callers : caller[c].pc \in Inside <=> lock = c
    /\ \A c \in Callers : CallOK(caller[c], github, cache, clock)

\* A step of one call: it changes the mutex only for itself, and the cache only
\* when it has the mutex.
LEMMA CallKeeps ==
    ASSUME Calling, NEW c \in Callers, NEW y \in Caller, caller' = [caller EXCEPT ![c] = y],
           UNCHANGED <<github, clock>>,
           lock' = lock \/ (lock \in {"none", c} /\ lock' \in {"none", c}), y.pc \in Inside <=> lock' = c,
           cache' \in [Installations -> Nat], cache' = cache \/ lock = c,
           CallOK(y, github, cache', clock)
    PROVE  Calling'
<1>1. caller' \in [Callers -> Caller] /\ caller'[c] = y /\ \A d \in Callers \ {c} : caller'[d] = caller[d]
  BY Zenon DEF Calling
<1>2. lock' \in Callers \union {"none"}
  BY Zenon DEF Calling
<1>3. ASSUME NEW d \in Callers \ {c}
      PROVE  (caller'[d].pc \in Inside <=> lock' = d) /\ CallOK(caller'[d], github, cache', clock)
  <2>1. d # "none" /\ d # c /\ caller'[d] = caller[d]
    BY <1>1, <1>3, GitHubConstants, Zenon
  <2>2. caller'[d].pc \in Inside <=> lock' = d
    BY <2>1, Zenon DEF Calling
  <2>3. CallOK(caller[d], github, cache, clock)
    BY <1>3, Zenon DEF Calling
  <2>4. cache' = cache \/ caller[d].pc \notin Inside
    BY <2>1, Zenon DEF Calling
  <2>5. QED
    BY <2>1, <2>2, <2>3, <2>4, Zenon DEF CallOK
<1>4. QED
  BY <1>1, <1>2, <1>3, Zenon DEF Calling

LEMMA NoCallerOK ==
    /\ NoCaller \in Caller /\ NoCaller.pc = "off" /\ NoCaller.pc \notin Inside
    /\ \A g, ca, t : CallOK(NoCaller, g, ca, t)
<1>1. NoCaller \in Caller /\ NoCaller.pc = "off"
  BY DEF NoCaller, Caller
<1>2. /\ NoCaller.pc \notin Inside /\ NoCaller.pc \notin Located /\ NoCaller.pc \notin Active
      /\ NoCaller.pc \notin {"read", "lookup", "branch", "commit", "unresolvable"}
  BY <1>1 DEF Inside, Located, Active, Requesting
<1>3. QED
  BY <1>1, <1>2, Zenon DEF CallOK

\* A call that is over, and out of the mutex.
LEMMA EndKeeps ==
    ASSUME Calling, NEW c \in Callers, caller' = Ended(c), UNCHANGED <<github, clock, cache>>,
           (lock' = lock /\ lock # c) \/ (lock = c /\ lock' = "none")
    PROVE  Calling'
<1>1. caller' = [caller EXCEPT ![c] = NoCaller] /\ c # "none"
  BY GitHubConstants, Zenon DEF Ended
<1>2. cache' \in [Installations -> Nat] /\ cache' = cache
  BY Zenon DEF Calling
<1>3. lock' # c /\ (lock' = lock \/ (lock \in {"none", c} /\ lock' \in {"none", c}))
  BY <1>1, Zenon
<1>4. QED
  BY <1>1, <1>2, <1>3, NoCallerOK, CallKeeps, Zenon

\* A call that drops the push.
LEMMA DropKeeps ==
    ASSUME Calling, NEW c \in Callers, caller' = Unresolvable(c), UNCHANGED <<github, clock, cache, lock>>,
           lock # c, caller[c].why
    PROVE  Calling'
<1> DEFINE y == [NoCaller EXCEPT !.pc = "unresolvable", !.why = caller[c].why]
<1>1. caller' = [caller EXCEPT ![c] = y] /\ caller[c].why \in BOOLEAN
  BY Zenon DEF Unresolvable, Calling, Caller
<1>2. y \in Caller /\ y.pc = "unresolvable" /\ y.why = caller[c].why
  BY <1>1, NoCallerOK, Zenon DEF Caller
<1> HIDE DEF y
<1>3. /\ y.pc \notin Inside /\ y.pc \notin Located /\ y.pc \notin Active
      /\ y.pc \notin {"read", "lookup", "branch", "commit"}
  BY <1>2 DEF Inside, Located, Active, Requesting
<1>4. CallOK(y, github, cache', clock)
  BY <1>2, <1>3, Zenon DEF CallOK
<1>5. cache' \in [Installations -> Nat] /\ cache' = cache
  BY Zenon DEF Calling
<1>6. QED
  BY <1>1, <1>2, <1>3, <1>4, <1>5, CallKeeps, Zenon

\* Where a call is, and what follows.
LEMMA At ==
    ASSUME Calling, NEW c \in Callers
    PROVE  /\ caller[c] \in Caller /\ CallOK(caller[c], github, cache, clock)
           /\ caller[c].pc \in Inside <=> lock = c
           /\ cache \in [Installations -> Nat] /\ c # "none"
BY GitHubConstants, Zenon DEF Calling

LEMMA StartKeeps ==
    ASSUME Calling, NEW c \in Callers, ResolveCommit(c)
    PROVE  Calling'
<1> DEFINE y == [NoCaller EXCEPT !.pc = "read"]
<1>1. /\ caller' = [caller EXCEPT ![c] = y] /\ UNCHANGED <<github, lock, cache, clock>>
      /\ caller[c].pc = "off"
  BY Zenon DEF ResolveCommit
<1>2. y \in Caller /\ y.pc = "read" /\ y.app = "none" /\ y.of = [app |-> "none", n |-> 0]
  BY DEF NoCaller, Caller
<1> HIDE DEF y
<1>3. /\ y.pc \notin Inside /\ y.pc \notin Located /\ caller[c].pc \notin Inside
      /\ y.pc \notin {"lookup", "branch", "commit", "unresolvable"}
  BY <1>1, <1>2 DEF Inside, Located
<1>4. y.of.n = 0 /\ ~(y.of.n > 0)
  BY <1>2
<1>5. About(y) = "none"
  BY <1>2, <1>4, Zenon DEF About
<1>6. CallOK(y, github, cache', clock)
  BY <1>2, <1>3, <1>4, <1>5, Zenon DEF CallOK, NoWay
<1>7. QED
  BY <1>1, <1>2, <1>3, <1>6, At, CallKeeps, Zenon

LEMMA ReadKeeps ==
    ASSUME Calling, secret.app \in AppOrNone, NEW c \in Callers, ReadCredentials(c)
    PROVE  Calling'
<1> DEFINE a == secret.app
           w == NoWay(github, a)
           y == [Goes(c, "lookup") EXCEPT !.app = a, !.why = w]
<1>1. caller[c].pc = "read" /\ UNCHANGED <<github, lock, cache, clock>>
  BY Zenon DEF ReadCredentials
<1>2. caller[c].pc \in {"read", "lookup"} /\ caller[c].pc \notin Inside
  BY <1>1 DEF Inside
<1>3. lock # c /\ caller[c] \in Caller /\ caller[c].of.n = 0
  BY <1>2, At, Zenon DEF CallOK
<1>4. CASE caller' = Ended(c)
  BY <1>1, <1>3, <1>4, EndKeeps, Zenon
<1>5. CASE a # "none" /\ caller' = [caller EXCEPT ![c] = y]
  <2>1. a \in Flows /\ w \in BOOLEAN
    BY <1>5, Zenon DEF AppOrNone, NoWay
  <2> HIDE DEF a, w
  <2>2. y \in Caller /\ y.pc = "lookup" /\ y.app = a /\ y.why = w /\ y.of = caller[c].of
    BY <1>3, <2>1 DEF Goes, Caller
  <2> HIDE DEF y
  <2>3. /\ y.pc \notin Inside /\ y.pc \notin Located
        /\ y.pc \notin {"read", "branch", "commit", "unresolvable"} /\ ~(y.of.n > 0)
    BY <1>3, <2>2 DEF Inside, Located
  <2>4. About(y) = a
    BY <2>2, <2>3, Zenon DEF About
  <2>5. CallOK(y, github, cache', clock)
    BY <1>3, <2>1, <2>2, <2>3, <2>4, Zenon DEF CallOK, w
  <2>6. QED
    BY <1>1, <1>3, <1>5, <2>2, <2>3, <2>5, At, CallKeeps, Zenon
<1>6. QED
  BY <1>4, <1>5, Zenon DEF ReadCredentials, Fails

LEMMA LookupKeeps ==
    ASSUME Calling, NEW c \in Callers, InstallationID(c)
    PROVE  Calling'
<1> DEFINE v == caller[c]
           i == [app |-> v.app, n |-> github.n[v.app]]
           y == [Goes(c, "lock") EXCEPT !.of = i]
<1>1. v.pc = "lookup" /\ UNCHANGED <<github, lock, cache, clock>>
  BY Zenon DEF InstallationID
<1>2. v.pc \in {"read", "lookup"} /\ v.pc \notin Inside /\ v.pc \in Active
  BY <1>1 DEF Inside, Active, Requesting
<1>3. /\ lock # c /\ v \in Caller /\ v.of.n = 0 /\ v.app \in Flows
      /\ NoWay(github, About(v)) => v.why
  BY <1>1, <1>2, At, Zenon DEF CallOK
<1>4. About(v) = v.app /\ v.app # "none"
  <2>1. ~(v.of.n > 0)
    BY <1>3
  <2>2. QED
    BY <1>3, <2>1, GitHubConstants, Zenon DEF About
<1>5. CASE caller' = Ended(c)
  BY <1>1, <1>3, <1>5, EndKeeps, Zenon
<1>6. CASE ~github.on[v.app] /\ caller' = Unresolvable(c)
  <2>1. v.why
    BY <1>3, <1>4, <1>6, Zenon DEF NoWay
  <2>2. QED
    BY <1>1, <1>3, <1>6, <2>1, DropKeeps, Zenon
<1>7. CASE github.on[v.app] /\ caller' = [caller EXCEPT ![c] = y]
  <2>1. github.n[v.app] \in 1..(MaxTroubles + 1)
    BY <1>3, <1>7, Zenon DEF Calling
  <2>2. i \in Installations /\ i.app = v.app /\ i.n > 0
    BY <1>3, <2>1 DEF Installations
  <2> HIDE DEF i
  <2>3. y \in Caller /\ y.pc = "lock" /\ y.of = i /\ y.why = v.why
    BY <1>3, <2>2 DEF Goes, Caller
  <2> HIDE DEF y
  <2>4. /\ y.pc \notin Inside
        /\ y.pc \notin {"read", "lookup", "branch", "commit", "unresolvable"}
    BY <2>3 DEF Inside
  <2>5. About(y) = v.app
    BY <2>2, <2>3, Zenon DEF About
  <2>6. CallOK(y, github, cache', clock)
    BY <1>3, <1>4, <2>2, <2>3, <2>4, <2>5, Zenon DEF CallOK
  <2>7. QED
    BY <1>1, <1>3, <1>7, <2>3, <2>4, <2>6, At, CallKeeps, Zenon
<1>8. QED
  BY <1>5, <1>6, <1>7, Zenon DEF InstallationID, Fails

\* The App a located call is about is its installation's.
LEMMA LocatedFacts ==
    ASSUME Calling, NEW c \in Callers, caller[c].pc \in Located
    PROVE  /\ caller[c].of \in Installations /\ caller[c].of.app \in Flows /\ caller[c].of.n > 0
           /\ About(caller[c]) = caller[c].of.app /\ caller[c].of.app # "none"
           /\ NoWay(github, caller[c].of.app) => caller[c].why
<1>1. caller[c].of \in Installations /\ CallOK(caller[c], github, cache, clock)
  BY At, Zenon DEF CallOK
<1>2. caller[c].of.app \in Flows /\ caller[c].of.n > 0
  BY <1>1 DEF Installations
<1>3. caller[c].pc \in Active
  BY DEF Located, Active, Requesting
<1>4. About(caller[c]) = caller[c].of.app
  BY <1>2, Zenon DEF About
<1>5. QED
  BY <1>1, <1>2, <1>3, <1>4, GitHubConstants, Zenon DEF CallOK

\* A located call goes on to the requests that use a token.
LEMMA UsesKeeps ==
    ASSUME Calling, NEW c \in Callers, NEW x \in Nat, clock + 2 < x, caller[c].pc \in {"lock", "mint"}, Uses(c, x),
           UNCHANGED <<github, clock>>, cache' \in [Installations -> Nat], cache' = cache \/ lock = c,
           (lock' = lock /\ lock # c) \/ (lock = c /\ lock' = "none")
    PROVE  Calling'
<1> DEFINE v == caller[c]
<1>1. PICK p \in {"branch", "commit"} : caller' = [caller EXCEPT ![c] = [Goes(c, p) EXCEPT !.expires = x]]
  BY Zenon DEF Uses
<1> DEFINE y == [Goes(c, p) EXCEPT !.expires = x]
<1>2. v \in Caller /\ v.pc \in Located /\ clock \in Nat
  <2>1. v.pc \in Located
    BY DEF Located
  <2>2. QED
    BY <2>1, At, Zenon DEF Calling
<1>3. y \in Caller /\ y.pc = p /\ y.of = v.of /\ y.app = v.app /\ y.why = v.why /\ y.tick = FALSE /\ y.expires = x
  BY <1>1, <1>2 DEF Goes, Caller
<1>4. caller' = [caller EXCEPT ![c] = y]
  BY <1>1, Zenon
<1> HIDE DEF y
<1>5. y.pc \notin Inside /\ y.pc \notin {"read", "lookup", "unresolvable"}
  BY <1>1, <1>3 DEF Inside
<1>6. clock + (IF y.tick THEN 1 ELSE 2) < y.expires /\ clock + (IF y.tick THEN 0 ELSE 1) < y.expires
  BY <1>2, <1>3
<1>7. About(y) = v.of.app
  BY <1>2, <1>3, LocatedFacts, Zenon DEF About
<1>8. CallOK(y, github, cache', clock)
  BY <1>2, <1>3, <1>5, <1>6, <1>7, LocatedFacts, Zenon DEF CallOK
<1>9. c # "none" /\ lock' # c /\ (lock' = lock \/ (lock \in {"none", c} /\ lock' \in {"none", c}))
  BY GitHubConstants, Zenon
<1>10. QED
  BY <1>3, <1>4, <1>5, <1>8, <1>9, CallKeeps, Zenon

\* A located call goes on inside the mutex, or from one request to the next.
LEMMA GoesKeeps ==
    ASSUME Calling, NEW c \in Callers, NEW p \in Located, NEW a \in AppOrNone, caller[c].pc \in Located,
           caller' = [caller EXCEPT ![c] = [Goes(c, p) EXCEPT !.app = a]], UNCHANGED <<github, clock, cache>>,
           lock' = lock \/ (lock = "none" /\ lock' = c), p \in Inside <=> lock' = c,
           p \in Inside => ~Fresh(caller[c].of),
           p = "branch" => FALSE, p = "commit" => clock + 1 < caller[c].expires
    PROVE  Calling'
<1> DEFINE v == caller[c]
           y == [Goes(c, p) EXCEPT !.app = a]
<1>1. v \in Caller
  BY At, Zenon
<1>2. y \in Caller /\ y.pc = p /\ y.of = v.of /\ y.why = v.why /\ y.tick = FALSE /\ y.expires = v.expires
  BY <1>1 DEF Goes, Caller, Located, AppOrNone
<1>3. caller' = [caller EXCEPT ![c] = y]
  BY Zenon
<1> HIDE DEF y
<1>4. y.pc \notin {"read", "lookup", "unresolvable", "branch"}
  BY <1>2 DEF Located
<1>5. y.pc \in Inside => ~(clock + ExpiryGuard < cache'[y.of])
  BY <1>2, Zenon DEF Fresh
<1>6. y.pc = "commit" => clock + (IF y.tick THEN 0 ELSE 1) < y.expires
  BY <1>2
<1>7. About(y) = v.of.app
  BY <1>2, LocatedFacts, Zenon DEF About
<1>8. CallOK(y, github, cache', clock)
  BY <1>2, <1>4, <1>5, <1>6, <1>7, LocatedFacts, Zenon DEF CallOK
<1>9. cache' \in [Installations -> Nat] /\ cache' = cache
  BY Zenon DEF Calling
<1>10. lock' = lock \/ (lock \in {"none", c} /\ lock' \in {"none", c})
  BY Zenon
<1>11. QED
  BY <1>2, <1>3, <1>8, <1>9, <1>10, CallKeeps, Zenon

LEMMA TokenKeeps ==
    ASSUME Calling, NEW c \in Callers, InstallationToken(c)
    PROVE  Calling'
<1> DEFINE v == caller[c]
<1>1. v.pc = "lock" /\ lock = "none" /\ UNCHANGED <<github, cache, clock>>
  BY Zenon DEF InstallationToken, Unlocked
<1>2. /\ v.pc \in Located /\ v.pc \in {"lock", "mint"} /\ "credentials" \in Inside /\ "credentials" \in Located
      /\ "credentials" # "branch" /\ "credentials" # "commit"
  BY <1>1 DEF Located, Inside
<1>3. v \in Caller /\ v.of \in Installations /\ c # "none" /\ cache \in [Installations -> Nat]
  BY <1>2, At, LocatedFacts, Zenon
<1>4. CASE Fresh(v.of) /\ Uses(c, cache[v.of]) /\ UNCHANGED lock
  <2>1. cache[v.of] \in Nat /\ clock \in Nat
    BY <1>3, Zenon DEF Calling
  <2>2. clock + ExpiryGuard < cache[v.of]
    BY <1>4, Zenon DEF Fresh
  <2> DEFINE x == cache[v.of]
  <2>3. clock + 2 < x
    BY <2>1, <2>2, GuardCoversTheChain, GitHubConstants
  <2>4. QED
    BY <1>1, <1>2, <1>3, <1>4, <2>1, <2>3, UsesKeeps, Zenon
<1>5. CASE ~Fresh(v.of) /\ lock' = c /\ caller' = [caller EXCEPT ![c] = Goes(c, "credentials")]
  <2>1. v.app \in AppOrNone /\ Goes(c, "credentials") = [Goes(c, "credentials") EXCEPT !.app = v.app]
    BY <1>3 DEF Goes, Caller, AppOrNone
  <2>2. caller' = [caller EXCEPT ![c] = [Goes(c, "credentials") EXCEPT !.app = v.app]]
    BY <1>5, <2>1, Zenon
  <2>3. QED
    BY <1>1, <1>2, <1>5, <2>1, <2>2, GoesKeeps, Zenon
<1>6. QED
  BY <1>4, <1>5, Zenon DEF InstallationToken

LEMMA MintJWTKeeps ==
    ASSUME Calling, secret.app \in AppOrNone, NEW c \in Callers, MintAppJWT(c)
    PROVE  Calling'
<1> DEFINE v == caller[c]
<1>1. v.pc = "credentials" /\ UNCHANGED <<github, cache, clock>>
  BY Zenon DEF MintAppJWT
<1>2. /\ v.pc \in Located /\ v.pc \in Inside /\ "mint" \in Inside /\ "mint" \in Located
      /\ "mint" # "branch" /\ "mint" # "commit"
  BY <1>1 DEF Located, Inside
<1>3. lock = c /\ ~Fresh(v.of)
  BY <1>2, At, Zenon DEF CallOK, Fresh
<1>4. CASE caller' = Ended(c) /\ lock' = "none"
  BY <1>1, <1>3, <1>4, EndKeeps, Zenon
<1>5. CASE caller' = [caller EXCEPT ![c] = [Goes(c, "mint") EXCEPT !.app = secret.app]] /\ UNCHANGED lock
  BY <1>1, <1>2, <1>3, <1>5, GoesKeeps, Zenon
<1>6. QED
  BY <1>4, <1>5, Zenon DEF MintAppJWT, Fails, Release

LEMMA RequestKeeps ==
    ASSUME Calling, NEW c \in Callers, RequestInstallationToken(c)
    PROVE  Calling'
<1> DEFINE v == caller[c]
           x == clock + Lifetime
<1>1. v.pc = "mint" /\ UNCHANGED <<github, clock>>
  BY Zenon DEF RequestInstallationToken
<1>2. v.pc \in Located /\ v.pc \in Inside /\ v.pc \in {"lock", "mint"}
  BY <1>1 DEF Located, Inside
<1>3. lock = c /\ v.of \in Installations /\ cache \in [Installations -> Nat]
  BY <1>2, At, LocatedFacts, Zenon
<1>4. CASE caller' = Ended(c) /\ lock' = "none" /\ UNCHANGED cache
  BY <1>1, <1>3, <1>4, EndKeeps, Zenon
<1>5. CASE cache' = [cache EXCEPT ![v.of] = x] /\ Uses(c, x) /\ lock' = "none"
  <2>1. x \in Nat /\ clock + 2 < x
    BY GuardCoversTheChain, GitHubConstants DEF Calling
  <2> HIDE DEF x
  <2>2. cache' \in [Installations -> Nat]
    BY <1>3, <1>5, <2>1, Zenon
  <2>3. QED
    BY <1>1, <1>2, <1>3, <1>5, <2>1, <2>2, UsesKeeps, Zenon
<1>6. QED
  BY <1>4, <1>5, Zenon DEF RequestInstallationToken, Fails, Release, MintRefused

LEMMA UseKeeps ==
    ASSUME Calling, NEW c \in Callers, DefaultBranch(c) \/ Commit(c)
    PROVE  Calling'
<1> DEFINE v == caller[c]
<1>1. v.pc \in {"branch", "commit"} /\ UNCHANGED <<github, lock, cache, clock>>
  BY Zenon DEF DefaultBranch, Commit
<1>2. v.pc \in Located /\ v.pc \notin Inside
  BY <1>1 DEF Located, Inside
<1>3. lock # c /\ v \in Caller
  BY <1>2, At, Zenon
<1>4. CASE caller' = Ended(c)
  BY <1>1, <1>3, <1>4, EndKeeps, Zenon
<1>5. CASE (Missing(c) \/ ~github.ref) /\ caller' = Unresolvable(c)
  <2>1. v.why
    BY <1>2, <1>5, LocatedFacts, Zenon DEF Missing, NoWay
  <2>2. QED
    BY <1>1, <1>3, <1>5, <2>1, DropKeeps, Zenon
<1>6. CASE v.pc = "branch" /\ caller' = [caller EXCEPT ![c] = Goes(c, "commit")]
  <2>1. v.app \in AppOrNone /\ Goes(c, "commit") = [Goes(c, "commit") EXCEPT !.app = v.app]
    BY <1>3 DEF Goes, Caller, AppOrNone
  <2>2. caller' = [caller EXCEPT ![c] = [Goes(c, "commit") EXCEPT !.app = v.app]]
    BY <1>6, <2>1, Zenon
  <2>3. "commit" \in Located /\ "commit" \notin Inside /\ "commit" # "branch"
    BY DEF Located, Inside
  <2>4. clock + 1 < v.expires
    <3>1. clock + (IF v.tick THEN 1 ELSE 2) < v.expires /\ clock \in Nat /\ v.expires \in Nat
      BY <1>3, <1>6, At, Zenon DEF CallOK, Calling, Caller
    <3> HIDE DEF v
    <3>2. QED
      BY <3>1
  <2>5. QED
    BY <1>1, <1>2, <1>3, <2>1, <2>2, <2>3, <2>4, GoesKeeps, Zenon
<1>7. QED
  BY <1>4, <1>5, <1>6, Zenon DEF DefaultBranch, Commit, Get, Fails

\* A change on GitHub's side is noted by the calls it concerns.
LEMMA OnGitHubKeeps ==
    ASSUME Calling, NEW g \in GitHubs, \A f \in Flows : g.on[f] => g.n[f] \in 1..(MaxTroubles + 1), OnGitHub(g)
    PROVE  Calling'
<1>1. github' = g /\ UNCHANGED <<lock, cache, clock>>
  BY Zenon DEF OnGitHub
<1>2. ASSUME NEW c \in Callers
      PROVE  caller'[c] \in Caller /\ CallOK(caller'[c], g, cache, clock) /\ caller'[c].pc = caller[c].pc
  <2> DEFINE v == caller[c]
             w == v.why \/ (v.pc \in Active /\ NoWay(g, About(v)))
             y == [v EXCEPT !.why = w]
  <2>1. caller'[c] = y /\ v \in Caller /\ CallOK(v, github, cache, clock)
    BY <1>2, At, Zenon DEF OnGitHub
  <2>2. w \in BOOLEAN
    BY <2>1, Zenon DEF Caller
  <2> HIDE DEF w
  <2>3. /\ y \in Caller /\ y.why = w /\ y.pc = v.pc /\ y.app = v.app /\ y.of = v.of /\ y.tick = v.tick
        /\ y.expires = v.expires
    BY <2>1, <2>2, Zenon DEF Caller
  <2> HIDE DEF y
  <2>4. About(y) = About(v)
    BY <2>3, Zenon DEF About
  <2>5. (v.why => w) /\ ((v.pc \in Active /\ NoWay(g, About(v))) => w)
    BY Zenon DEF w
  <2>6. CallOK(y, g, cache, clock)
    BY <2>1, <2>3, <2>4, <2>5, Zenon DEF CallOK
  <2>7. QED
    BY <2>1, <2>3, <2>6, Zenon
<1>3. caller' \in [Callers -> Caller]
  BY <1>2, Zenon DEF OnGitHub
<1>4. QED
  BY <1>1, <1>2, <1>3, Zenon DEF Calling

LEMMA OutsideKeeps ==
    ASSUME Calling, MoveBranch \/ \E f \in Flows : Install(f) \/ Uninstall(f)
    PROVE  Calling'
<1>1. /\ github \in GitHubs /\ \A f \in Flows : github.on[f] => github.n[f] \in 1..(MaxTroubles + 1)
  BY Zenon DEF Calling
<1>2. CASE MoveBranch
  <2> DEFINE g == [github EXCEPT !.ref = ~@]
  <2>1. g \in GitHubs /\ g.on = github.on /\ g.n = github.n
    BY <1>1, Zenon DEF GitHubs
  <2>2. OnGitHub(g)
    BY <1>2, Zenon DEF MoveBranch
  <2> HIDE DEF g
  <2>3. QED
    BY <1>1, <2>1, <2>2, OnGitHubKeeps, Zenon
<1>3. ASSUME NEW f \in Flows, Uninstall(f)
      PROVE  Calling'
  <2> DEFINE on == [github.on EXCEPT ![f] = FALSE]
             g == [github EXCEPT !.on = on]
  <2>1. on \in [Flows -> BOOLEAN] /\ \A h \in Flows : on[h] => github.on[h]
    BY <1>1, Zenon DEF GitHubs
  <2>2. OnGitHub(g)
    BY <1>3, Zenon DEF Uninstall
  <2> HIDE DEF on
  <2>3. g \in GitHubs /\ g.on = on /\ g.n = github.n
    BY <1>1, <2>1, Zenon DEF GitHubs
  <2> HIDE DEF g
  <2>4. QED
    BY <1>1, <2>1, <2>2, <2>3, OnGitHubKeeps, Zenon
<1>4. ASSUME NEW f \in Flows, Install(f)
      PROVE  Calling'
  <2> DEFINE on == [github.on EXCEPT ![f] = TRUE]
             n == [github.n EXCEPT ![f] = github.n[f] + 1]
             g == [github EXCEPT !.on = on, !.n = n]
  <2>1. github.on \in [Flows -> BOOLEAN] /\ github.n \in [Flows -> 0..(MaxTroubles + 1)]
    BY <1>1, Zenon DEF GitHubs
  <2>2. github.n[f] + 1 \in 1..(MaxTroubles + 1) /\ github.n[f] + 1 \in 0..(MaxTroubles + 1)
    <3>1. github.n[f] \in 0..(MaxTroubles + 1) /\ github.n[f] < MaxTroubles + 1
      BY <1>4, <2>1, Zenon DEF Install
    <3>2. QED
      BY <3>1, GitHubConstants
  <2>3. OnGitHub(g)
    BY <1>4, Zenon DEF Install
  <2> DEFINE m == github.n[f] + 1
  <2>4. n = [github.n EXCEPT ![f] = m]
    BY Zenon
  <2> HIDE DEF n, m
  <2>5. m \in 1..(MaxTroubles + 1) /\ m \in 0..(MaxTroubles + 1)
    BY <2>2, Zenon DEF m
  <2>6. /\ on \in [Flows -> BOOLEAN] /\ n \in [Flows -> 0..(MaxTroubles + 1)] /\ n[f] = m
        /\ \A h \in Flows \ {f} : on[h] = github.on[h] /\ n[h] = github.n[h]
    BY <2>1, <2>4, <2>5, Zenon
  <2> HIDE DEF on
  <2>7. g \in GitHubs /\ g.on = on /\ g.n = n
    BY <1>1, <2>6, Zenon DEF GitHubs
  <2> HIDE DEF g
  <2>8. \A h \in Flows : g.on[h] => g.n[h] \in 1..(MaxTroubles + 1)
    BY <1>1, <2>5, <2>6, <2>7, Zenon
  <2>9. QED
    BY <2>3, <2>7, <2>8, OnGitHubKeeps, Zenon
<1>5. QED
  BY <1>2, <1>3, <1>4, Zenon

\* A timeout passes: no request has lasted for two.
LEMMA TickKeeps ==
    ASSUME Calling, Tick
    PROVE  Calling'
<1>1. UNCHANGED <<github, lock, cache>> /\ clock' = clock + 1 /\ clock \in Nat
  BY Zenon DEF Tick, Calling
<1>2. ASSUME NEW c \in Callers
      PROVE  caller'[c] \in Caller /\ CallOK(caller'[c], github, cache, clock') /\ caller'[c].pc = caller[c].pc
  <2> DEFINE v == caller[c]
             t == v.pc \in Requesting
             y == [v EXCEPT !.tick = t]
  <2>1. /\ caller'[c] = y /\ v \in Caller /\ CallOK(v, github, cache, clock) /\ (v.pc \in Requesting => ~v.tick)
        /\ cache \in [Installations -> Nat]
    BY <1>2, At, Zenon DEF Tick
  <2>2. t \in BOOLEAN
    OBVIOUS
  <2>3. v.pc \in {"branch", "commit"} => v.pc \in Requesting /\ t
    BY DEF Requesting
  <2> HIDE DEF t
  <2>4. /\ y \in Caller /\ y.why = v.why /\ y.pc = v.pc /\ y.app = v.app /\ y.of = v.of /\ y.tick = t
        /\ y.expires = v.expires /\ v.expires \in Nat
    BY <2>1, <2>2, Zenon DEF Caller
  <2> HIDE DEF y
  <2>5. About(y) = About(v)
    BY <2>4, Zenon DEF About
  <2>6. v.pc \in Inside => ~(clock' + ExpiryGuard < cache[v.of])
    <3>1. ASSUME v.pc \in Inside
          PROVE  v.of \in Installations /\ ~(clock + ExpiryGuard < cache[v.of])
      <4>1. v.pc \in Located
        BY <3>1 DEF Inside, Located
      <4>2. QED
        BY <2>1, <3>1, <4>1, Zenon DEF CallOK
    <3>2. \A k \in Nat : ~(clock + ExpiryGuard < k) => ~(clock' + ExpiryGuard < k)
      BY <1>1, GitHubConstants
    <3>3. QED
      BY <2>1, <3>1, <3>2, Zenon
  <2>7. v.pc = "branch" => clock' + 1 < v.expires
    <3>1. v.pc = "branch" => clock + (IF v.tick THEN 1 ELSE 2) < v.expires /\ ~v.tick
      BY <2>1, <2>3, Zenon DEF CallOK
    <3>2. QED
      BY <1>1, <2>4, <3>1
  <2>8. v.pc = "commit" => clock' + 0 < v.expires
    <3>1. v.pc = "commit" => clock + (IF v.tick THEN 0 ELSE 1) < v.expires /\ ~v.tick
      BY <2>1, <2>3, Zenon DEF CallOK
    <3>2. QED
      BY <1>1, <2>4, <3>1
  <2>9. CallOK(y, github, cache, clock')
    BY <2>1, <2>3, <2>4, <2>5, <2>6, <2>7, <2>8, Zenon DEF CallOK
  <2>10. QED
    BY <2>1, <2>4, <2>9, Zenon
<1>3. caller' \in [Callers -> Caller]
  BY <1>2, Zenon DEF Tick
<1>4. clock' \in Nat
  BY <1>1
<1>5. QED
  BY <1>1, <1>2, <1>3, <1>4, Zenon DEF Calling

LEMMA CallInit ==
    ASSUME Init
    PROVE  Calling
<1>1. GitHubRest /\ (ConnectStory \/ ResolveStory)
  BY Zenon DEF Init
<1>2. 0 \in Nat /\ 0 \in 0..(MaxTroubles + 1) /\ 1 \in 0..(MaxTroubles + 1) /\ 1 \in 1..(MaxTroubles + 1)
  BY GitHubConstants
<1>3. github \in GitHubs /\ \A f \in Flows : github.on[f] => github.n[f] \in 1..(MaxTroubles + 1)
  <2>1. CASE ConnectStory
    BY <1>2, <2>1, Zenon DEF ConnectStory, GitHubs
  <2>2. CASE ResolveStory
    BY <1>2, <2>2, Zenon DEF ResolveStory, GitHubs
  <2>3. QED
    BY <1>1, <2>1, <2>2, Zenon
<1>4. clock \in Nat
  BY <1>1, <1>2, GitHubConstants, Zenon DEF ConnectStory, ResolveStory
<1>5. /\ caller \in [Callers -> Caller] /\ lock = "none" /\ cache \in [Installations -> Nat]
      /\ \A c \in Callers : caller[c] = NoCaller
  BY <1>1, <1>2, NoCallerOK, Zenon DEF GitHubRest
<1>6. \A c \in Callers : c # "none"
  BY GitHubConstants, Zenon
<1>7. \A c \in Callers : (caller[c].pc \in Inside <=> lock = c) /\ CallOK(caller[c], github, cache, clock)
  <2>1. ASSUME NEW c \in Callers
        PROVE  (caller[c].pc \in Inside <=> lock = c) /\ CallOK(caller[c], github, cache, clock)
    <3>1. caller[c] = NoCaller /\ lock # c
      BY <1>5, <1>6, Zenon
    <3>2. QED
      BY <3>1, NoCallerOK, Zenon
  <2>2. QED
    BY <2>1, Zenon
<1>8. QED
  BY <1>3, <1>4, <1>5, <1>7, Zenon DEF Calling

(***************************************************************************)
(* The theorems about the App.                                             *)
(***************************************************************************)

GitHubInv == ConnectInv /\ Calling

\* A step of the connects, of the calls, or of neither.
LEMMA GitHubKeeps ==
    ASSUME GitHubInv, [Next]_vars
    PROVE  GitHubInv'
<1>1. ConnectInv /\ Calling /\ secret.app \in AppOrNone
  BY Zenon DEF GitHubInv, ConnectInv
<1>2. UNCHANGED <<connectVars, secret>> => ConnectInv'
  BY <1>1, Zenon DEF connectVars, ConnectInv, Connecting
<1>3. UNCHANGED tokenVars => Calling'
  BY <1>1, Zenon DEF tokenVars, Calling
<1>4. CASE UNCHANGED githubVars
  BY <1>2, <1>3, <1>4, Zenon DEF githubVars, GitHubInv
<1>5. CASE ConnectNext
  <2>1. UNCHANGED tokenVars
    BY <1>5, Zenon DEF ConnectNext, StartManifest, Callback, Exchange, WriteApp, WriteHook, RecordConnected, Upsert
  <2>2. QED
    BY <1>1, <1>3, <1>5, <2>1, ConnectKeeps, Zenon DEF GitHubInv
<1>6. CASE ResolveNext
  <2>1. ASSUME NEW f \in Flows, WriteApp(f)
        PROVE  GitHubInv'
    <3>1. UNCHANGED tokenVars
      BY <2>1, Zenon DEF WriteApp
    <3>2. QED
      BY <1>1, <1>3, <2>1, <3>1, WriteAppKeeps, Zenon DEF GitHubInv
  <2>2. ASSUME NEW c \in Callers, ResolveCommit(c) \/ CallerStep(c)
        PROVE  GitHubInv'
    <3>1. UNCHANGED <<connectVars, secret>>
      BY <2>2, Zenon DEF ResolveCommit, CallerStep, ReadCredentials, InstallationID, InstallationToken, MintAppJWT,
         RequestInstallationToken, DefaultBranch, Commit
    <3>2. Calling'
      BY <1>1, <2>2, StartKeeps, ReadKeeps, LookupKeeps, TokenKeeps, MintJWTKeeps, RequestKeeps, UseKeeps,
         Zenon DEF CallerStep
    <3>3. QED
      BY <1>2, <3>1, <3>2, Zenon DEF GitHubInv
  <2>3. CASE MoveBranch \/ \E f \in Flows : Install(f) \/ Uninstall(f)
    <3>1. UNCHANGED <<connectVars, secret>>
      BY <2>3, Zenon DEF MoveBranch, Install, Uninstall, OnGitHub
    <3>2. QED
      BY <1>1, <1>2, <2>3, <3>1, OutsideKeeps, Zenon DEF GitHubInv
  <2>4. CASE Tick
    <3>1. UNCHANGED <<connectVars, secret>>
      BY <2>4, Zenon DEF Tick
    <3>2. QED
      BY <1>1, <1>2, <2>4, <3>1, TickKeeps, Zenon DEF GitHubInv
  <2>5. QED
    BY <1>6, <2>1, <2>2, <2>3, <2>4, Zenon DEF ResolveNext
<1>7. QED
  BY <1>4, <1>5, <1>6, Zenon DEF Next, vars

LEMMA GitHubInductive == Spec => []GitHubInv
<1>1. Init => GitHubInv
  BY ConnectInit, CallInit, Zenon DEF GitHubInv
<1>2. GitHubInv /\ [Next]_vars => GitHubInv'
  BY GitHubKeeps, Zenon
<1>3. QED
  BY <1>1, <1>2, PTL DEF Spec

\* ConnectSound for any number of connects, callers and edits: the types of both
\* settings, the mutex is held by the call that is in it, and a connect that was
\* answered with "connected" and that no other overlapped has its webhook secret
\* in place as long as its credential is (writeGitHubSecrets).
THEOREM ConnectStaysSound == Spec => []ConnectSound
<1>1. AuditInv => AllowlistTypeOK
  <2>1. ASSUME AuditInv
        PROVE  configMap.rv \in Nat /\ configMap.raw \subseteq {"r1", "R1", "r2", "?"}
    BY <2>1, Zenon DEF AuditInv, ConfigMaps, Spellings
  <2>2. ASSUME AuditInv, NEW e \in Edits
        PROVE  trail[e] \subseteq {"attempt", "success", "failure", "indeterminate"}
    BY <2>2, Zenon DEF AuditInv, Entries
  <2>3. QED
    BY <2>1, <2>2, Zenon DEF AuditInv, AllowlistTypeOK
<1>2. GitHubInv => GitHubTypeOK /\ ConnectedIsReal
  <2>1. ASSUME GitHubInv
        PROVE  GitHubTypeOK
    BY <2>1, Zenon DEF GitHubInv, ConnectInv, Calling, GitHubTypeOK, Inside
  <2>2. ASSUME GitHubInv
        PROVE  ConnectedIsReal
    <3>1. "connected" \in BothWritten
      BY DEF BothWritten
    <3>2. QED
      BY <2>2, <3>1, Zenon DEF GitHubInv, ConnectInv, Connecting, ConnectedIsReal
  <2>3. QED
    BY <2>1, <2>2, Zenon
<1>3. AuditInv /\ GitHubInv => ConnectSound
  BY <1>1, <1>2, Zenon DEF ConnectSound, TypeOK
<1>4. QED
  BY <1>3, AuditInductive, GitHubInductive, PTL DEF Spec

\* For every expiryGuard of two timeouts or more: a token never expires while a
\* call of ResolveCommit uses it, and ErrUnresolvable, for which the dispatcher
\* drops the push, is returned only when the branch or the App's installation was
\* missing during the call, also when a connect swaps the App under it.
THEOREM TokensStayGood == Spec => [](TokenOutlivesCall /\ DropIsEarned)
<1>1. GitHubInv => TokenOutlivesCall /\ DropIsEarned
  <2>1. ASSUME GitHubInv, NEW c \in Callers
        PROVE  /\ caller[c].pc \in {"branch", "commit"} => clock < caller[c].expires
               /\ caller[c].pc = "unresolvable" => caller[c].why
    <3> DEFINE v == caller[c]
    <3>1. v \in Caller /\ CallOK(v, github, cache, clock) /\ clock \in Nat
      BY <2>1, Zenon DEF GitHubInv, Calling
    <3>2. v.expires \in Nat
      BY <3>1, Zenon DEF Caller
    <3>3. /\ v.pc = "branch" => clock + (IF v.tick THEN 1 ELSE 2) < v.expires
          /\ v.pc = "commit" => clock + (IF v.tick THEN 0 ELSE 1) < v.expires
          /\ v.pc = "unresolvable" => v.why
      BY <3>1, Zenon DEF CallOK
    <3> HIDE DEF v
    <3>4. v.pc \in {"branch", "commit"} => clock < v.expires
      BY <3>1, <3>2, <3>3
    <3>5. QED
      BY <3>3, <3>4, Zenon DEF v
  <2>2. QED
    BY <2>1, Zenon DEF TokenOutlivesCall, DropIsEarned
<1>2. QED
  BY <1>1, GitHubInductive, PTL

\* Concurrent callers share a mint, for any number of them: a token of an
\* installation is asked for only while the cache has none that is good for a
\* call, for the mutex is held from the look into the cache to the mint
\* (InstallationToken).
THEOREM MintsStayShared == Spec => MintsAreShared
<1> DEFINE Shared == \A i \in Installations : cache'[i] # cache[i] => ~Fresh(i)
<1>1. ASSUME GitHubInv, [Next]_vars
      PROVE  Shared
  <2>1. CASE UNCHANGED cache
    BY <2>1, Zenon
  <2>2. ASSUME NEW c \in Callers, RequestInstallationToken(c), ~UNCHANGED cache
        PROVE  Shared
    <3>1. cache' = [cache EXCEPT ![caller[c].of] = clock + Lifetime] /\ caller[c].pc = "mint"
      BY <2>2, Zenon DEF RequestInstallationToken
    <3>2. caller[c].pc \in Inside
      BY <3>1 DEF Inside
    <3>3. ~Fresh(caller[c].of) /\ cache \in [Installations -> Nat]
      BY <1>1, <3>2, Zenon DEF GitHubInv, Calling, CallOK, Fresh
    <3>4. QED
      BY <3>1, <3>3, Zenon
  <2>3. UNCHANGED cache \/ \E c \in Callers : RequestInstallationToken(c)
    <3>1. CASE ResolveNext
      BY <3>1, Zenon DEF ResolveNext, ResolveCommit, CallerStep, ReadCredentials, InstallationID, InstallationToken,
         MintAppJWT, DefaultBranch, Commit, WriteApp, Install, Uninstall, MoveBranch, OnGitHub, Tick, tokenVars
    <3>2. CASE ConnectNext
      BY <3>2, Zenon DEF ConnectNext, StartManifest, Callback, Exchange, WriteApp, WriteHook, RecordConnected, Upsert,
         tokenVars
    <3>3. CASE UNCHANGED githubVars
      BY <3>3, Zenon DEF githubVars, tokenVars
    <3>4. QED
      BY <1>1, <3>1, <3>2, <3>3, Zenon DEF Next, vars
  <2>4. QED
    BY <2>1, <2>2, <2>3, Zenon
<1>2. GitHubInv /\ [Next]_vars => [Shared]_githubVars
  BY <1>1, Zenon
<1> HIDE DEF Shared
<1>3. Spec => [][Shared]_githubVars
  BY <1>2, GitHubInductive, PTL DEF Spec
<1>4. QED
  BY <1>3, Zenon DEF MintsAreShared, Shared
=============================================================================
