----------------------------- MODULE SignInProofs -----------------------------
(***************************************************************************)
(* Proofs about SignIn, for any number of browsers, names, accounts and    *)
(* users, whatever the provider's claims and the lists of allowed ones.    *)
(***************************************************************************)
EXTENDS SignIn, TLAPS

(***************************************************************************)
(* The inductive invariant.                                                *)
(***************************************************************************)

\* What a browser's request has established about the row its next call is on.
ReqSound(c) ==
    /\ req[c].pc = "confirm" /\ req[c].uid \in Rows => users[req[c].uid].subject = None
    /\ req[c].pc = "mint" /\ req[c].uid \in Rows => Admissible(req[c].uid)
    /\ req[c].pc \in {"count", "lock", "reset"} => req[c].uid \in Rows /\ users[req[c].uid].confirmed
    /\ req[c].pc = "mark" /\ sessions[req[c].token] # None
          => req[c].who = Identity(sessions[req[c].token].uid)

\* A challenge names a row that was handed out, at enrolment a local one; the
\* flow of a step-up names a session.
CookieSound(c) ==
    /\ cookies[c].challenge # None =>
          /\ cookies[c].challenge.uid < nextId
          /\ cookies[c].challenge.stage = "enroll" /\ cookies[c].challenge.uid \in Rows
                => users[cookies[c].challenge.uid].subject = None
    /\ cookies[c].flow # None /\ cookies[c].flow.reauth => cookies[c].flow.session \in Tokens

\* The recovery code of a row is unused or was used once.
CodesSound ==
    \A u \in Uids : /\ codeUses[u] <= 1
                    /\ u >= nextId => codeUses[u] = 0
                    /\ u \in Rows /\ users[u].code => codeUses[u] = 0

IInv ==
    /\ TablesSound /\ OneAdmin /\ CodesSound /\ SessionsEarned
    /\ \A c \in Clients : ReqSound(c) /\ CookieSound(c)

(***************************************************************************)
(* The rows, requests and cookies the handlers write.                      *)
(***************************************************************************)

\* Rows are in the table exactly where users holds a row.
LEMMA RowTypes ==
    ASSUME TypeOK
    PROVE  /\ \A u \in Uids : u \in Rows <=> users[u] \in UserRows
           /\ Rows \subseteq Uids
  BY NoneIsNoRow, Zenon DEF TypeOK, Rows

LEMMA NewRowIsRow ==
    ASSUME NEW n \in Names \cup {Email[s] : s \in Subjects}, NEW s \in Subjects \cup {None}
    PROVE  /\ NewRow(n, s) \in UserRows
           /\ NewRow(n, s).name = n /\ NewRow(n, s).subject = s /\ ~NewRow(n, s).confirmed
           /\ NewRow(n, s).failed = 0
  BY SignInConstants DEF NewRow, UserRows

\* Only the request of c moves.
Others(c) == req' \in [Clients -> Requests] /\ \A d \in Clients \ {c} : req'[d] = req[d]

\* The request of c moves on to the next call of its handler, or ends.
LEMMA GotoUidTypes ==
    ASSUME req \in [Clients -> Requests], NEW c \in Clients, NEW u \in Uids,
           NEW p \in {"confirm", "mint", "count", "lock", "reset"}, GotoUid(c, p, u)
    PROVE  Others(c) /\ req'[c].pc = p /\ req'[c].uid = u /\ req'[c].who = None /\ req'[c].token = None
  BY Zenon DEF GotoUid, Idle, Requests, Others

LEMMA GotoWhoTypes ==
    ASSUME req \in [Clients -> Requests], NEW c \in Clients, NEW w \in Names \cup Subjects,
           NEW p \in {"redeem", "provision", "reread"}, GotoWho(c, p, w)
    PROVE  Others(c) /\ req'[c].pc = p /\ req'[c].uid = None /\ req'[c].who = w /\ req'[c].token = None
  BY Zenon DEF GotoWho, Idle, Requests, Others

LEMMA GotoMarkTypes ==
    ASSUME req \in [Clients -> Requests], NEW c \in Clients, NEW w \in Subjects \cup {Local},
           NEW t \in Tokens, GotoMark(c, w, t)
    PROVE  Others(c) /\ req'[c].pc = "mark" /\ req'[c].uid = None /\ req'[c].who = w /\ req'[c].token = t
  BY Zenon DEF GotoMark, Idle, Requests, Others

LEMMA DoneTypes ==
    ASSUME req \in [Clients -> Requests], NEW c \in Clients, Done(c)
    PROVE  Others(c) /\ req'[c].pc = "idle" /\ req'[c].uid = None /\ req'[c].who = None /\ req'[c].token = None
  BY Zenon DEF Done, Idle, Requests, Others

\* Only the cookies of c change.
OtherJars(c) == cookies' \in [Clients -> CookieJars] /\ \A d \in Clients \ {c} : cookies'[d] = cookies[d]

LEMMA DropTypes ==
    ASSUME cookies \in [Clients -> CookieJars], NEW c \in Clients
    PROVE  /\ Drop(c, "challenge") =>
                OtherJars(c) /\ cookies'[c] = [cookies[c] EXCEPT !.challenge = None]
           /\ Drop(c, "session") =>
                OtherJars(c) /\ cookies'[c] = [cookies[c] EXCEPT !.session = None]
           /\ Drop(c, "flow") =>
                OtherJars(c) /\ cookies'[c] = [cookies[c] EXCEPT !.flow = None]
  BY Zenon DEF Drop, CookieJars, OtherJars

(***************************************************************************)
(* The table of users.                                                     *)
(***************************************************************************)

\* A step that at most touches the failure counts, locks and recovery codes.
Touched ==
    /\ users' \in [Uids -> UserRows \cup {None}] /\ nextId' = nextId /\ Rows' = Rows
    /\ \A u \in Rows : /\ users'[u].name = users[u].name /\ users'[u].subject = users[u].subject
                       /\ users'[u].confirmed <=> users[u].confirmed
                       /\ users'[u].code => users[u].code

\* A step keeps who is in the table and may sign in, and hands out new ids only.
RowStep ==
    /\ users' \in [Uids -> UserRows \cup {None}] /\ nextId' \in nextId..(MaxUsers + 1)
    /\ \A u \in Rows : Admissible(u) => u \in Rows'
    /\ \A u \in Rows' :
          \/ /\ u \in Rows /\ users'[u].name = users[u].name /\ users'[u].subject = users[u].subject
             /\ users[u].confirmed => users'[u].confirmed
          \/ u = nextId /\ nextId' = nextId + 1

\* What the steps keep of the table.
Table ==
    /\ Rows \subseteq 1..(nextId - 1)
    /\ \A u \in Rows : users[u].confirmed => users[u].subject = None
    /\ OneRowPerIdentity /\ OneAdmin

LEMMA TouchRow ==
    ASSUME TypeOK, NEW u \in Rows, NEW r \in UserRows,
           r.name = users[u].name, r.subject = users[u].subject, r.confirmed <=> users[u].confirmed,
           r.code => users[u].code,
           users' = [users EXCEPT ![u] = r], nextId' = nextId
    PROVE  Touched
<1>1. users \in [Uids -> UserRows \cup {None}] /\ u \in Uids
  BY Zenon DEF TypeOK, Rows
<1>2. users' \in [Uids -> UserRows \cup {None}] /\ users'[u] = r /\ \A v \in Uids \ {u} : users'[v] = users[v]
  BY <1>1, Zenon
<1>3. r # None
  BY NoneIsNoRow, Zenon
<1>4. Rows' = Rows
  BY <1>1, <1>2, <1>3, Zenon DEF Rows
<1> QED
  BY <1>1, <1>2, <1>4, Zenon DEF Touched, Rows

LEMMA TouchKeeps ==
    ASSUME TypeOK, Table, Touched
    PROVE  RowStep /\ Table'
<1>1. \A u \in Rows : Admissible(u) => u \in Rows'
  BY Zenon DEF Touched
<1>2. nextId' \in nextId..(MaxUsers + 1)
  BY SignInConstants DEF Touched, TypeOK
<1>3. RowStep
  BY <1>1, <1>2, Zenon DEF Touched, RowStep
<1>4. Table'
  BY DEF Touched, Table, OneRowPerIdentity, OneAdmin
<1> QED
  BY <1>3, <1>4, Zenon

\* The sweep and the new row of a redeem.
LEMMA CreateAdminRows ==
    ASSUME TypeOK, Table, NEW c \in Clients, CreateAdmin(c)
    PROVE  RowStep /\ Table'
<1> DEFINE kept == {u \in Rows : ~Abandoned(u)}
<1>1. CASE UNCHANGED <<users, nextId>>
  <2>1. Touched
    BY <1>1, Zenon DEF Touched, TypeOK, Rows
  <2> QED
    BY <2>1, TouchKeeps, Zenon
<1>2. CASE /\ req[c].who \notin {users[u].name : u \in kept} /\ nextId \in Uids
           /\ users' = [u \in Uids |-> IF u \in kept THEN users[u]
                                       ELSE IF u = nextId THEN NewRow(req[c].who, None) ELSE None]
           /\ nextId' = nextId + 1
  <2> DEFINE new == NewRow(req[c].who, None)
  <2>1. req[c].who \in Names
    BY Zenon DEF CreateAdmin, TypeOK
  <2>2. /\ new \in UserRows /\ new.name = req[c].who /\ new.subject = None /\ ~new.confirmed
    BY <2>1, NewRowIsRow, Zenon
  <2> HIDE DEF new
  <2>3. /\ users \in [Uids -> UserRows \cup {None}] /\ Rows \subseteq Uids /\ kept \subseteq Rows
        /\ nextId \in 1..MaxUsers /\ nextId \notin Rows
    BY <1>2 DEF Rows, TypeOK, Uids
  <2>4. /\ users' \in [Uids -> UserRows \cup {None}]
        /\ users'[nextId] = new /\ \A u \in kept : users'[u] = users[u]
        /\ \A u \in Uids : u \notin kept /\ u # nextId => users'[u] = None
    BY <1>2, <2>2, <2>3, Zenon DEF new
  <2>5. Rows' = kept \cup {nextId}
    BY <1>2, <2>2, <2>3, <2>4, NoneIsNoRow, Zenon DEF Rows
  <2>6. \A u \in Rows : Admissible(u) => u \in Rows'
    BY <2>5, Zenon DEF Admissible, Abandoned
  <2>7. RowStep
    BY <1>2, <2>3, <2>4, <2>5, <2>6, SignInConstants DEF RowStep
  <2>8. Rows' \subseteq 1..(nextId' - 1)
    <3>1. nextId \in Nat /\ Rows \subseteq 1..(nextId - 1) /\ nextId' - 1 = nextId
      BY <1>2, <2>3 DEF Table
    <3>2. nextId \in 1..nextId /\ \A x \in Rows : x \in 1..nextId
      BY <2>3, <3>1
    <3> QED
      BY <2>3, <2>5, <3>1, <3>2, Zenon
  <2>9. OneRowPerIdentity'
    <3>1. \A u \in kept : users'[u].name # new.name
      BY <1>2, <2>2, <2>4, Zenon
    <3>2. \A u, v \in kept : u # v => /\ users'[u].name # users'[v].name
                                      /\ users'[u].subject # None => users'[u].subject # users'[v].subject
      BY <2>3, <2>4 DEF Table, OneRowPerIdentity
    <3>3. \A u \in kept : users'[u].subject # None => users'[u].subject # new.subject
      BY <2>2, Zenon
    <3>4. new.subject = None /\ users'[nextId] = new
      BY <2>2, <2>4, Zenon
    <3>5. SUFFICES ASSUME NEW u \in kept \cup {nextId}, NEW v \in kept \cup {nextId}, u # v
                   PROVE  /\ users'[u].name # users'[v].name
                          /\ users'[u].subject # None => users'[u].subject # users'[v].subject
      BY <2>5, Zenon DEF OneRowPerIdentity
    <3> HIDE DEF kept
    <3>6. CASE u = nextId
      BY <3>1, <3>4, <3>5, <3>6, Zenon
    <3>7. CASE v = nextId
      BY <3>1, <3>3, <3>4, <3>5, <3>7, Zenon
    <3>8. CASE u \in kept /\ v \in kept
      BY <3>2, <3>5, <3>8, Zenon
    <3> QED
      BY <3>5, <3>6, <3>7, <3>8, Zenon
  <2>10. OneAdmin' /\ \A u \in Rows' : users'[u].confirmed => users'[u].subject = None
    BY <2>2, <2>3, <2>4, <2>5, Zenon DEF Table, OneAdmin
  <2> QED
    BY <2>7, <2>8, <2>9, <2>10, Zenon DEF Table
<1> QED
  BY <1>1, <1>2, Zenon DEF CreateAdmin

\* The confirmation of an enrolment: the index keeps it the only one.
LEMMA ConfirmRows ==
    ASSUME TypeOK, Table, NEW c \in Clients, ReqSound(c), ConfirmUserTOTP(c)
    PROVE  RowStep /\ Table' /\ UNCHANGED nextId /\ Rows' = Rows
<1> DEFINE u == req[c].uid
<1>1. u \in 1..(nextId - 1) /\ u \in Uids /\ nextId' = nextId
  BY SignInConstants DEF ConfirmUserTOTP, TypeOK, Uids
<1>2. CASE UNCHANGED users
  <2>1. Touched
    BY <1>1, <1>2, Zenon DEF Touched, TypeOK, Rows
  <2> QED
    BY <2>1, TouchKeeps, Zenon DEF Touched
<1>3. CASE /\ ~ConfirmConflicts(u)
           /\ users' = [users EXCEPT ![u] = IF @ = None THEN None ELSE [@ EXCEPT !.confirmed = TRUE]]
  <2>1. users \in [Uids -> UserRows \cup {None}]
    BY Zenon DEF TypeOK
  <2>2. CASE u \notin Rows
    <3>1. users' = users
      BY <1>1, <1>3, <2>1, <2>2, Zenon DEF Rows
    <3> QED
      BY <1>2, <3>1, Zenon
  <2>3. CASE u \in Rows
    <3> DEFINE r == [users[u] EXCEPT !.confirmed = TRUE]
    <3>1. users[u] \in UserRows
      BY <1>1, <2>3, RowTypes, Zenon
    <3>2. r \in UserRows /\ r.name = users[u].name /\ r.subject = users[u].subject /\ r # None
      BY <3>1, NoneIsNoRow, Zenon DEF UserRows
    <3>3. users' = [users EXCEPT ![u] = r]
      BY <1>1, <1>3, <2>1, <2>3, Zenon DEF Rows
    <3> HIDE DEF r
    <3>4. /\ users' \in [Uids -> UserRows \cup {None}] /\ users'[u] = r
          /\ \A v \in Uids \ {u} : users'[v] = users[v]
      BY <1>1, <2>1, <3>2, <3>3, Zenon
    <3>5. Rows' = Rows
      BY <1>1, <2>3, <3>2, <3>4, Zenon DEF Rows
    <3>6. \A v \in Rows \ {u} : ~users[v].confirmed
      BY <1>3, <2>3, Zenon DEF ConfirmConflicts
    <3>7. users[u].subject = None
      BY <2>3, Zenon DEF ReqSound, ConfirmUserTOTP
    <3>8. \A v \in Rows : /\ v \in Uids /\ users'[v].name = users[v].name /\ users'[v].subject = users[v].subject
                          /\ v = u \/ users'[v] = users[v]
      BY <3>2, <3>4, Zenon DEF Rows
    <3>9. r.confirmed
      BY <3>1, Zenon DEF r, UserRows
    <3>10. RowStep
      <4>1. \A v \in Rows : users[v].confirmed => users'[v].confirmed
        BY <3>4, <3>8, <3>9, Zenon
      <4>2. nextId' \in nextId..(MaxUsers + 1)
        BY <1>1, SignInConstants DEF TypeOK
      <4> QED
        BY <3>4, <3>5, <3>8, <4>1, <4>2, Zenon DEF RowStep
    <3>11. OneAdmin'
      BY <3>5, <3>6, <3>8 DEF OneAdmin
    <3>12. Table'
      BY <1>1, <3>5, <3>7, <3>8, <3>11 DEF Table, OneRowPerIdentity
    <3> QED
      BY <1>1, <3>5, <3>10, <3>12, Zenon
  <2> QED
    BY <2>2, <2>3, Zenon
<1> QED
  BY <1>2, <1>3, Zenon DEF ConfirmUserTOTP

\* The row of a new identity.
LEMMA ProvisionRows ==
    ASSUME TypeOK, Table, NEW c \in Clients, Provision(c)
    PROVE  RowStep /\ Table'
<1> DEFINE s == req[c].who
           new == NewRow(Email[s], s)
<1>1. CASE UNCHANGED <<users, nextId>>
  <2>1. Touched
    BY <1>1, Zenon DEF Touched, TypeOK, Rows
  <2> QED
    BY <2>1, TouchKeeps, Zenon
<1>2. CASE /\ Taken(s) = {} /\ nextId \in Uids
           /\ users' = [users EXCEPT ![nextId] = new] /\ nextId' = nextId + 1
  <2>1. s \in Subjects /\ s # None
    BY SignInConstants, Zenon DEF Provision, TypeOK
  <2>2. /\ new \in UserRows /\ new.name = Email[s] /\ new.subject = s /\ ~new.confirmed /\ new # None
    BY <2>1, NewRowIsRow, NoneIsNoRow
  <2> HIDE DEF new
  <2>3. /\ users \in [Uids -> UserRows \cup {None}] /\ Rows \subseteq Uids
        /\ nextId \in 1..MaxUsers /\ nextId \notin Rows
    BY <1>2 DEF Rows, TypeOK, Uids
  <2>4. /\ users' \in [Uids -> UserRows \cup {None}]
        /\ users'[nextId] = new /\ \A u \in Uids \ {nextId} : users'[u] = users[u]
    BY <1>2, <2>2, <2>3, Zenon
  <2>5. Rows' = Rows \cup {nextId}
    BY <1>2, <2>2, <2>3, <2>4, Zenon DEF Rows
  <2>6. \A u \in Rows : u # nextId /\ users'[u] = users[u]
    BY <2>3, <2>4, Zenon
  <2>7. \A u \in Rows : users[u].name # Email[s] /\ users[u].subject # s
    BY <1>2, Zenon DEF Taken, GetUserByOIDC, GetUserByUsername
  <2>8. RowStep
    BY <1>2, <2>3, <2>4, <2>5, <2>6, SignInConstants DEF RowStep
  <2>9. Rows' \subseteq 1..(nextId' - 1)
    <3>1. nextId \in Nat /\ Rows \subseteq 1..(nextId - 1) /\ nextId' - 1 = nextId
      BY <1>2, <2>3 DEF Table
    <3>2. nextId \in 1..nextId /\ \A x \in Rows : x \in 1..nextId
      BY <2>3, <3>1
    <3> QED
      BY <2>5, <3>1, <3>2, Zenon
  <2>10. OneRowPerIdentity'
    BY <2>2, <2>4, <2>5, <2>6, <2>7 DEF Table, OneRowPerIdentity
  <2>11. OneAdmin' /\ \A u \in Rows' : users'[u].confirmed => users'[u].subject = None
    BY <2>2, <2>4, <2>5, <2>6, Zenon DEF Table, OneAdmin
  <2> QED
    BY <2>8, <2>9, <2>10, <2>11, Zenon DEF Table
<1> QED
  BY <1>1, <1>2, Zenon DEF Provision

\* Every other step leaves the table alone or touches one row.
Quiet(c) ==
    \/ Redeem(c) \/ ConfirmTOTP(c) \/ MintSession(c) \/ Login(c) \/ Logout(c) \/ StepUp(c)
    \/ MarkSessionReauth(c) \/ OIDCLogin(c) \/ OIDCCallback(c) \/ Reread(c) \/ CallFails(c)

Counting(c) == LoginTOTP(c) \/ ResetFailedLogins(c) \/ IncrementFailedLogins(c) \/ LockUser(c)

Expires == Expire /\ UNCHANGED <<nextId, cookies, req, faults, codeUses>>

LEMMA NextSplit ==
    Next <=> \/ \E c \in Clients : CreateAdmin(c) \/ ConfirmUserTOTP(c) \/ Provision(c) \/ Quiet(c) \/ Counting(c)
             \/ Expires
  BY Zenon DEF Next, Quiet, Counting, Expires

LEMMA QuietRows ==
    ASSUME NEW c \in Clients, Quiet(c)
    PROVE  users' = users /\ nextId' = nextId /\ codeUses' = codeUses
<1>1. CASE Redeem(c) \/ ConfirmTOTP(c) \/ MintSession(c) \/ Login(c) \/ Logout(c)
  BY <1>1, Zenon DEF Redeem, ConfirmTOTP, MintSession, Login, Logout
<1>2. CASE StepUp(c) \/ MarkSessionReauth(c) \/ OIDCLogin(c) \/ OIDCCallback(c) \/ Reread(c) \/ CallFails(c)
  BY <1>2, Zenon DEF StepUp, MarkSessionReauth, OIDCLogin, OIDCCallback, Reread, CallFails
<1> QED
  BY <1>1, <1>2, Zenon DEF Quiet

LEMMA SameTouched ==
    ASSUME TypeOK, users' = users, nextId' = nextId
    PROVE  Touched
  BY Zenon DEF Touched, TypeOK, Rows

\* The row a count, lock or reset is about.
LEMMA CountingRows ==
    ASSUME TypeOK, NEW c \in Clients, ReqSound(c), Counting(c)
    PROVE  Touched
<1>1. \A u \in Rows : u \in Uids /\ users[u] \in UserRows
  BY RowTypes, Zenon
<1>2. users \in [Uids -> UserRows \cup {None}]
  BY Zenon DEF TypeOK
<1>3. CASE LoginTOTP(c)
  <2> DEFINE u == ChallengeUid(c)
             r == [users[u] EXCEPT !.code = FALSE]
  <2>1. CASE users' = users
    BY <1>3, <2>1, SameTouched, Zenon DEF LoginTOTP
  <2>2. CASE users' = [users EXCEPT ![u].code = FALSE]
    <3>1. u \in Rows /\ nextId' = nextId
      BY <1>3, Zenon DEF LoginTOTP
    <3>2. /\ r \in UserRows /\ r.name = users[u].name /\ r.subject = users[u].subject
          /\ r.confirmed <=> users[u].confirmed
          /\ ~r.code
      BY <1>1, <3>1, Zenon DEF UserRows
    <3>3. users' = [users EXCEPT ![u] = r]
      BY <1>1, <1>2, <2>2, <3>1, Zenon
    <3> QED
      BY <3>1, <3>2, <3>3, TouchRow, Zenon
  <2> QED
    BY <1>3, <2>1, <2>2, Zenon DEF LoginTOTP
<1>4. CASE ResetFailedLogins(c)
  <2> DEFINE u == req[c].uid
             r == [users[u] EXCEPT !.failed = 0, !.lock = "none"]
  <2>1. u \in Rows /\ nextId' = nextId
    BY <1>4, Zenon DEF ResetFailedLogins, ReqSound
  <2>2. /\ r \in UserRows /\ r.name = users[u].name /\ r.subject = users[u].subject
        /\ r.confirmed <=> users[u].confirmed
        /\ r.code <=> users[u].code
    <3>1. 0 \in 0..MaxFailed
      BY SignInConstants
    <3> QED
      BY <1>1, <2>1, <3>1, Zenon DEF UserRows
  <2>3. users' = [users EXCEPT ![u] = r]
    BY <1>1, <1>2, <1>4, <2>1, Zenon DEF ResetFailedLogins
  <2> QED
    BY <2>1, <2>2, <2>3, TouchRow, Zenon
<1>5. CASE IncrementFailedLogins(c)
  <2> DEFINE u == req[c].uid
             n == users[u].failed + 1
             m == IF n > MaxFailed THEN MaxFailed ELSE n
             r == [users[u] EXCEPT !.failed = m]
  <2>1. u \in Rows /\ nextId' = nextId
    BY <1>5, Zenon DEF IncrementFailedLogins, ReqSound
  <2>2. m \in 0..MaxFailed
    BY <1>1, <2>1, SignInConstants DEF UserRows
  <2>3. users' = [users EXCEPT ![u] = r]
    BY <1>1, <1>2, <1>5, <2>1, Zenon DEF IncrementFailedLogins
  <2> HIDE DEF m
  <2>4. /\ r \in UserRows /\ r.name = users[u].name /\ r.subject = users[u].subject
        /\ r.confirmed <=> users[u].confirmed
        /\ r.code <=> users[u].code
    BY <1>1, <2>1, <2>2, Zenon DEF UserRows
  <2> QED
    BY <2>1, <2>3, <2>4, TouchRow, Zenon
<1>6. CASE LockUser(c)
  <2> DEFINE u == req[c].uid
             r == [users[u] EXCEPT !.lock = "locked"]
  <2>1. u \in Rows /\ nextId' = nextId
    BY <1>6, Zenon DEF LockUser, ReqSound
  <2>2. /\ r \in UserRows /\ r.name = users[u].name /\ r.subject = users[u].subject
        /\ r.confirmed <=> users[u].confirmed
        /\ r.code <=> users[u].code
    BY <1>1, <2>1, Zenon DEF UserRows
  <2>3. users' = [users EXCEPT ![u] = r]
    BY <1>1, <1>2, <1>6, <2>1, Zenon DEF LockUser
  <2> QED
    BY <2>1, <2>2, <2>3, TouchRow, Zenon
<1> QED
  BY <1>3, <1>4, <1>5, <1>6, Zenon DEF Counting

LEMMA ExpiresRows ==
    ASSUME TypeOK, Expires
    PROVE  Touched
<1>1. \A u \in Rows : u \in Uids /\ users[u] \in UserRows
  BY RowTypes, Zenon
<1>2. users \in [Uids -> UserRows \cup {None}] /\ nextId' = nextId
  BY Zenon DEF TypeOK, Expires
<1>3. CASE users' = users
  BY <1>2, <1>3, SameTouched, Zenon
<1>4. ASSUME NEW u \in Rows, users' = [users EXCEPT ![u].lock = "lapsed"]
      PROVE  Touched
  <2> DEFINE r == [users[u] EXCEPT !.lock = "lapsed"]
  <2>1. /\ r \in UserRows /\ r.name = users[u].name /\ r.subject = users[u].subject
        /\ r.confirmed <=> users[u].confirmed
        /\ r.code <=> users[u].code
    BY <1>1, Zenon DEF UserRows
  <2>2. users' = [users EXCEPT ![u] = r]
    BY <1>1, <1>2, <1>4, Zenon
  <2> QED
    BY <1>2, <2>1, <2>2, TouchRow, Zenon
<1> QED
  BY <1>3, <1>4, Zenon DEF Expires, Expire

\* However the requests interleave, a step keeps the table of users in order.
LEMMA RowsNext ==
    ASSUME TypeOK, Table, \A c \in Clients : ReqSound(c), [Next]_vars
    PROVE  RowStep /\ Table'
<1>1. ASSUME NEW c \in Clients, CreateAdmin(c) \/ ConfirmUserTOTP(c) \/ Provision(c)
      PROVE  RowStep /\ Table'
  BY <1>1, CreateAdminRows, ConfirmRows, ProvisionRows, Zenon
<1>2. ASSUME NEW c \in Clients, Quiet(c) \/ Counting(c)
      PROVE  Touched
  BY <1>2, QuietRows, SameTouched, CountingRows, Zenon
<1>3. CASE Expires
  BY <1>3, ExpiresRows, TouchKeeps, Zenon
<1>4. CASE UNCHANGED vars
  BY <1>4, SameTouched, TouchKeeps, Zenon DEF vars
<1> QED
  BY <1>1, <1>2, <1>3, <1>4, NextSplit, TouchKeeps, Zenon

(***************************************************************************)
(* Requests and cookies that a step of another request leaves alone.       *)
(***************************************************************************)

\* The conjuncts of TypeOK about the request of c.
ReqTyped(c) ==
    /\ req[c].pc \in {"confirm", "mint", "count", "lock", "reset"} => req[c].uid \in 1..(nextId - 1)
    /\ req[c].pc = "redeem" => req[c].who \in Names
    /\ req[c].pc \in {"provision", "reread"} => req[c].who \in Subjects
    /\ req[c].pc = "mark" => req[c].who \in Subjects \cup {Local} /\ req[c].token \in Tokens

\* Sessions end, keep their user, or start under a token nobody holds.
SessionStep ==
    /\ sessions' \in [Tokens -> SessionRows \cup {None}]
    /\ \A t \in Tokens : \/ sessions'[t] = None
                         \/ sessions[t] # None /\ sessions'[t].uid = sessions[t].uid
                         \/ ~Remembered(t)

\* Whoever may have a session keeps the right and the identity.
LEMMA AdmissibleKept ==
    ASSUME TypeOK, RowStep, NEW u \in Rows, Admissible(u)
    PROVE  u \in Rows' /\ Admissible(u)' /\ Identity(u)' = Identity(u)
<1>1. u \in Rows' /\ u # nextId
  BY DEF RowStep, TypeOK
<1>2. /\ users'[u].subject = users[u].subject
      /\ users[u].confirmed => users'[u].confirmed
  BY <1>1, Zenon DEF RowStep
<1> QED
  BY <1>1, <1>2, Zenon DEF Admissible, Identity

LEMMA ReqKept ==
    ASSUME TypeOK, RowStep, SessionStep, SessionsAdmissible,
           NEW d \in Clients, ReqSound(d), req'[d] = req[d]
    PROVE  ReqTyped(d)' /\ ReqSound(d)'
<1>1. ReqTyped(d) /\ nextId \in Nat /\ nextId' \in Nat /\ nextId <= nextId'
  BY DEF TypeOK, ReqTyped, RowStep
<1>2. ReqTyped(d)'
  BY <1>1 DEF ReqTyped
<1>3. ASSUME NEW u \in 1..(nextId - 1), u \in Rows'
      PROVE  /\ u \in Rows /\ users'[u].subject = users[u].subject
             /\ users[u].confirmed => users'[u].confirmed
  BY <1>1, <1>3 DEF RowStep
<1>4. req[d].pc = "confirm" /\ req[d].uid \in Rows' => users'[req[d].uid].subject = None
  BY <1>1, <1>3, Zenon DEF ReqTyped, ReqSound
<1>5. req[d].pc = "mint" /\ req[d].uid \in Rows' => Admissible(req[d].uid)'
  BY <1>1, <1>3, AdmissibleKept, Zenon DEF ReqTyped, ReqSound
<1>6. req[d].pc \in {"count", "lock", "reset"} => req[d].uid \in Rows' /\ users'[req[d].uid].confirmed
  BY <1>1, <1>3, AdmissibleKept, Zenon DEF ReqTyped, ReqSound, Admissible
<1>7. ASSUME req[d].pc = "mark", sessions'[req[d].token] # None
      PROVE  req'[d].who = Identity(sessions[req[d].token].uid)'
  <2> DEFINE t == req[d].token
  <2>1. t \in Tokens /\ Remembered(t)
    BY <1>1, <1>7, Zenon DEF ReqTyped, Remembered
  <2>2. sessions[t] # None /\ sessions'[t].uid = sessions[t].uid
    BY <1>7, <2>1, Zenon DEF SessionStep
  <2>3. req[d].who = Identity(sessions[t].uid) /\ Admissible(sessions[t].uid) /\ sessions[t].uid \in Rows
    BY <1>7, <2>1, <2>2, Zenon DEF ReqSound, SessionsAdmissible, Admissible
  <2>4. PICK u \in Rows : u = sessions[t].uid
    BY <2>3, Zenon
  <2>5. users'[u].subject = users[u].subject
    BY <2>3, <2>4, AdmissibleKept, <1>1, <1>3, RowTypes, Zenon DEF TypeOK
  <2> QED
    BY <2>2, <2>3, <2>4, <2>5, Zenon DEF Identity
<1> QED
  BY <1>2, <1>4, <1>5, <1>6, <1>7, Zenon DEF ReqSound

LEMMA CookieKept ==
    ASSUME TypeOK, RowStep, NEW d \in Clients, CookieSound(d), cookies'[d] = cookies[d]
    PROVE  CookieSound(d)'
<1>1. nextId \in Nat /\ nextId' \in Nat /\ nextId <= nextId'
  BY DEF TypeOK, RowStep
<1>2. ASSUME cookies[d].challenge # None
      PROVE  cookies[d].challenge.uid \in Uids
  BY <1>2, Zenon DEF TypeOK, CookieJars, Challenges
<1>3. ASSUME cookies[d].challenge # None, cookies[d].challenge.uid \in Rows'
      PROVE  /\ cookies[d].challenge.uid \in Rows
             /\ users'[cookies[d].challenge.uid].subject = users[cookies[d].challenge.uid].subject
  BY <1>1, <1>2, <1>3 DEF RowStep, CookieSound, Uids
<1> QED
  BY <1>1, <1>2, <1>3 DEF CookieSound, Uids

(***************************************************************************)
(* What the request of c becomes, and its cookies, one step per handler.   *)
(***************************************************************************)

\* The step of c leaves its own request and cookies sound, the others' alone.
Moves(c) ==
    /\ Others(c) /\ ReqTyped(c)' /\ ReqSound(c)'
    /\ OtherJars(c) /\ CookieSound(c)'

LEMMA SameRows ==
    ASSUME users' = users
    PROVE  /\ Rows' = Rows
           /\ \A u : (Admissible(u)' <=> Admissible(u)) /\ Identity(u)' = Identity(u)
  BY Zenon DEF Rows, Admissible, Identity

LEMMA SameJars ==
    ASSUME TypeOK, NEW c \in Clients, CookieSound(c), RowStep, cookies' = cookies
    PROVE  OtherJars(c) /\ CookieSound(c)'
  BY CookieKept, Zenon DEF OtherJars, TypeOK

\* A request that ended asserts nothing.
LEMMA DoneSound ==
    ASSUME TypeOK, NEW c \in Clients, Done(c)
    PROVE  Others(c) /\ ReqTyped(c)' /\ ReqSound(c)'
<1>1. Others(c) /\ req'[c].pc = "idle"
  BY DoneTypes, Zenon DEF TypeOK
<1> QED
  BY <1>1, Zenon DEF ReqTyped, ReqSound

LEMMA HandedOut ==
    ASSUME NEW u \in Uids, NEW n \in Nat, u < n
    PROVE  u \in 1..(n - 1)
  BY DEF Uids

\* On the way to a session, a row that is in the table may have one.
LEMMA MintSound ==
    ASSUME TypeOK, NEW c \in Clients, NEW u \in Uids, u < nextId', u \in Rows' => Admissible(u)',
           nextId' \in Nat, GotoUid(c, "mint", u)
    PROVE  Others(c) /\ ReqTyped(c)' /\ ReqSound(c)'
<1>1. Others(c) /\ req'[c].pc = "mint" /\ req'[c].uid = u
  BY GotoUidTypes, Zenon DEF TypeOK
<1>2. u \in 1..(nextId' - 1)
  BY HandedOut, Zenon
<1> QED
  BY <1>1, <1>2, Zenon DEF ReqTyped, ReqSound, Admissible

\* On the way to the failure count, its lock or its reset, the row is that of
\* the confirmed admin.
LEMMA CountSound ==
    ASSUME TypeOK, NEW c \in Clients, NEW u \in Rows', users'[u].confirmed, u < nextId', nextId' \in Nat,
           NEW p \in {"count", "lock", "reset"}, GotoUid(c, p, u)
    PROVE  Others(c) /\ ReqTyped(c)' /\ ReqSound(c)'
<1>1. u \in Uids
  BY Zenon DEF Rows
<1>2. Others(c) /\ req'[c].pc = p /\ req'[c].uid = u
  BY <1>1, GotoUidTypes, Zenon DEF TypeOK
<1>3. u \in 1..(nextId' - 1)
  BY <1>1, HandedOut, Zenon
<1> QED
  BY <1>2, <1>3, Zenon DEF ReqTyped, ReqSound

LEMMA RedeemMoves ==
    ASSUME TypeOK, NEW c \in Clients, CookieSound(c), RowStep, Redeem(c)
    PROVE  Moves(c)
<1>1. OtherJars(c) /\ CookieSound(c)'
  BY SameJars, Zenon DEF Redeem
<1>2. PICK n \in Names : GotoWho(c, "redeem", n)
  BY Zenon DEF Redeem
<1>3. Others(c) /\ req'[c].pc = "redeem" /\ req'[c].who = n
  BY <1>2, GotoWhoTypes, Zenon DEF TypeOK
<1> QED
  BY <1>1, <1>3, Zenon DEF Moves, ReqTyped, ReqSound

LEMMA ConfirmMoves ==
    ASSUME TypeOK, NEW c \in Clients, CookieSound(c), RowStep, ConfirmTOTP(c)
    PROVE  Moves(c)
<1> DEFINE u == ChallengeUid(c)
<1>1. OtherJars(c) /\ CookieSound(c)'
  BY SameJars, Zenon DEF ConfirmTOTP
<1>2. /\ u \in Rows /\ GotoUid(c, "confirm", u) /\ users' = users /\ nextId' = nextId
      /\ users[u].subject = None
  BY Zenon DEF ConfirmTOTP, Challenged, ChallengeUid, CookieSound
<1>3. u \in 1..(nextId - 1) /\ u \in Uids
  BY <1>2, Zenon DEF TypeOK, Rows
<1>4. Others(c) /\ req'[c].pc = "confirm" /\ req'[c].uid = u
  BY <1>2, <1>3, GotoUidTypes, Zenon DEF TypeOK
<1> QED
  BY <1>1, <1>2, <1>3, <1>4, Zenon DEF Moves, ReqTyped, ReqSound

LEMMA LoginMoves ==
    ASSUME TypeOK, NEW c \in Clients, CookieSound(c), ReqSound(c), RowStep, Login(c), SessionsAdmissible
    PROVE  Moves(c)
<1>1. PICK u \in Rows :
         /\ users[u].confirmed
         /\ \/ GotoUid(c, "count", u) /\ UNCHANGED cookies
            \/ cookies' = [cookies EXCEPT ![c].challenge = [uid |-> u, stage |-> "totp"]] /\ UNCHANGED req
  BY Zenon DEF Login, GetUserByUsername
<1>2. /\ u \in 1..(nextId - 1) /\ u \in Uids /\ nextId \in Nat /\ users' = users /\ nextId' = nextId
      /\ sessions' = sessions
  BY DEF TypeOK, Rows, Login
<1>3. CASE GotoUid(c, "count", u) /\ UNCHANGED cookies
  <2>1. Rows' = Rows
    BY <1>2, SameRows, Zenon
  <2>2. Others(c) /\ ReqTyped(c)' /\ ReqSound(c)'
    BY <1>1, <1>2, <1>3, <2>1, CountSound
  <2> QED
    BY <1>3, <2>2, SameJars, Zenon DEF Moves
<1>4. CASE cookies' = [cookies EXCEPT ![c].challenge = [uid |-> u, stage |-> "totp"]] /\ UNCHANGED req
  <2>1. OtherJars(c) /\ cookies'[c] = [cookies[c] EXCEPT !.challenge = [uid |-> u, stage |-> "totp"]]
    BY <1>2, <1>4, Zenon DEF TypeOK, CookieJars, Challenges, OtherJars
  <2>2. cookies'[c].challenge = [uid |-> u, stage |-> "totp"] /\ cookies'[c].flow = cookies[c].flow
    BY <2>1 DEF TypeOK, CookieJars
  <2>3. CookieSound(c)'
    BY <1>2, <2>2 DEF CookieSound
  <2>4. ReqTyped(c)' /\ ReqSound(c)'
    BY <1>2, <1>4, Zenon DEF TypeOK, ReqTyped, ReqSound, Rows, Admissible, Identity
  <2>5. Others(c)
    BY <1>4, Zenon DEF TypeOK, Others
  <2> QED
    BY <2>1, <2>3, <2>4, <2>5, Zenon DEF Moves
<1> QED
  BY <1>1, <1>3, <1>4, Zenon

LEMMA StepUpMoves ==
    ASSUME TypeOK, NEW c \in Clients, CookieSound(c), RowStep, StepUp(c)
    PROVE  Moves(c)
<1> DEFINE t == cookies[c].session
<1>1. OtherJars(c) /\ CookieSound(c)'
  BY SameJars, Zenon DEF StepUp
<1>2. t \in Tokens \cup {None} /\ t # None /\ GotoMark(c, Local, t) /\ users' = users /\ sessions' = sessions
  BY Zenon DEF StepUp, Resolved, TypeOK, CookieJars
<1>3. Others(c) /\ req'[c].pc = "mark" /\ req'[c].who = Local /\ req'[c].token = t
  BY <1>2, GotoMarkTypes, Zenon DEF TypeOK
<1>4. users[sessions[t].uid].subject = None
  BY Zenon DEF StepUp, SessionUser
<1> QED
  BY <1>1, <1>2, <1>3, <1>4, Zenon DEF Moves, ReqTyped, ReqSound, Identity

LEMMA OIDCLoginMoves ==
    ASSUME TypeOK, NEW c \in Clients, CookieSound(c), ReqSound(c), RowStep, OIDCLogin(c)
    PROVE  Moves(c)
<1>1. /\ users' = users /\ nextId' = nextId /\ sessions' = sessions /\ req' = req
      /\ sessions \in [Tokens -> SessionRows \cup {None}] /\ cookies \in [Clients -> CookieJars]
  BY Zenon DEF OIDCLogin, TypeOK
<1>2. PICK f \in Flows : /\ cookies' = [cookies EXCEPT ![c].flow = f]
                         /\ f.reauth => f.session \in Tokens
  <2>1. CASE cookies' = [cookies EXCEPT ![c].flow = [reauth |-> FALSE, uid |-> None, session |-> None]]
    <3> DEFINE f == [reauth |-> FALSE, uid |-> None, session |-> None]
    <3>1. f \in Flows /\ ~f.reauth
      BY Zenon DEF Flows
    <3> QED
      BY <2>1, <3>1, Zenon
  <2>2. CASE Resolved(c) /\ cookies' = [cookies EXCEPT ![c].flow =
                [reauth |-> TRUE, uid |-> SessionUser(c), session |-> cookies[c].session]]
    <3> DEFINE f == [reauth |-> TRUE, uid |-> SessionUser(c), session |-> cookies[c].session]
    <3>1. cookies[c].session \in Tokens /\ sessions[cookies[c].session] # None
      BY <1>1, <2>2, Zenon DEF Resolved, CookieJars
    <3>2. SessionUser(c) \in Uids
      BY <1>1, <3>1, Zenon DEF SessionUser, SessionRows
    <3>3. f \in Flows /\ f.session \in Tokens
      BY <3>1, <3>2, Zenon DEF Flows
    <3> QED
      BY <2>2, <3>3, Zenon
  <2> QED
    BY <2>1, <2>2, Zenon DEF OIDCLogin
<1>3. /\ OtherJars(c) /\ cookies'[c].flow = f /\ cookies'[c].challenge = cookies[c].challenge
  BY <1>1, <1>2, Zenon DEF OtherJars, CookieJars
<1>4. CookieSound(c)'
  BY <1>1, <1>2, <1>3, SameRows, Zenon DEF CookieSound
<1>5. ReqTyped(c)' /\ ReqSound(c)'
  BY <1>1, SameRows, Zenon DEF TypeOK, ReqTyped, ReqSound, Admissible, Identity
<1>6. Others(c)
  BY <1>1, Zenon DEF TypeOK, Others
<1> QED
  BY <1>3, <1>4, <1>5, <1>6, Zenon DEF Moves

\* The row of an identity may have a session.
LEMMA LinkedAdmissible ==
    ASSUME TypeOK, NEW s \in Subjects, NEW u \in GetUserByOIDC(s)
    PROVE  u \in Uids /\ u < nextId /\ nextId \in Nat /\ Admissible(u)
  BY SignInConstants DEF TypeOK, GetUserByOIDC, Admissible, Rows

LEMMA StepUpDone ==
    ASSUME TypeOK, NEW c \in Clients, NEW f \in Flows, f.session \in Tokens, NEW s \in Subjects,
           CompleteStepUp(c, f, s), users' = users, sessions' = sessions
    PROVE  Others(c) /\ ReqTyped(c)' /\ ReqSound(c)'
<1>1. CASE Done(c)
  BY <1>1, DoneSound, Zenon
<1>2. CASE sessions[f.session].uid = f.uid /\ SameIdentity(f.uid, s) /\ GotoMark(c, s, f.session)
  <2>1. Others(c) /\ req'[c].pc = "mark" /\ req'[c].who = s /\ req'[c].token = f.session
    BY <1>2, GotoMarkTypes, Zenon DEF TypeOK
  <2>2. users[sessions[f.session].uid].subject = s /\ s # None
    BY <1>2, SignInConstants, Zenon DEF SameIdentity
  <2> QED
    BY <2>1, <2>2, Zenon DEF ReqTyped, ReqSound, Identity
<1> QED
  BY <1>1, <1>2, Zenon DEF CompleteStepUp

LEMMA CallbackMoves ==
    ASSUME TypeOK, NEW c \in Clients, CookieSound(c), RowStep, OIDCCallback(c)
    PROVE  Moves(c)
<1> DEFINE f == cookies[c].flow
<1>1. /\ users' = users /\ nextId' = nextId /\ sessions' = sessions /\ Drop(c, "flow") /\ f # None
      /\ cookies \in [Clients -> CookieJars] /\ nextId \in Nat
  BY DEF OIDCCallback, TypeOK
<1>2. f \in Flows
  BY <1>1, Zenon DEF CookieJars
<1>3. /\ OtherJars(c) /\ cookies'[c].flow = None /\ cookies'[c].challenge = cookies[c].challenge
  BY <1>1, DropTypes, Zenon DEF CookieJars
<1>4. CookieSound(c)'
  BY <1>1, <1>3, SameRows, Zenon DEF CookieSound
<1>5. CASE Done(c)
  BY <1>3, <1>4, <1>5, DoneSound, Zenon DEF Moves
<1>6. ASSUME NEW s \in Subjects, f.reauth, CompleteStepUp(c, f, s)
      PROVE  Moves(c)
  <2>1. f.session \in Tokens
    BY <1>1, <1>6, Zenon DEF CookieSound
  <2> QED
    BY <1>1, <1>2, <1>3, <1>4, <1>6, <2>1, StepUpDone, Zenon DEF Moves
<1>7. ASSUME NEW s \in Subjects, NEW u \in GetUserByOIDC(s), GotoUid(c, "mint", u)
      PROVE  Moves(c)
  BY <1>1, <1>3, <1>4, <1>7, LinkedAdmissible, SameRows, MintSound, Zenon DEF Moves
<1>8. ASSUME NEW s \in Subjects, GotoWho(c, "provision", s)
      PROVE  Moves(c)
  <2>1. Others(c) /\ req'[c].pc = "provision" /\ req'[c].who = s
    BY <1>8, GotoWhoTypes, Zenon DEF TypeOK
  <2> QED
    BY <1>3, <1>4, <2>1, Zenon DEF Moves, ReqTyped, ReqSound
<1> QED
  BY <1>5, <1>6, <1>7, <1>8, Zenon DEF OIDCCallback

LEMMA RereadMoves ==
    ASSUME TypeOK, NEW c \in Clients, CookieSound(c), RowStep, Reread(c)
    PROVE  Moves(c)
<1>1. OtherJars(c) /\ CookieSound(c)'
  BY SameJars, Zenon DEF Reread
<1>2. req[c].who \in Subjects /\ users' = users /\ nextId' = nextId
  BY Zenon DEF Reread, TypeOK
<1>3. CASE Done(c)
  BY <1>1, <1>3, DoneSound, Zenon DEF Moves
<1>4. ASSUME NEW u \in GetUserByOIDC(req[c].who), GotoUid(c, "mint", u)
      PROVE  Moves(c)
  BY <1>1, <1>2, <1>4, LinkedAdmissible, SameRows, MintSound, Zenon DEF Moves
<1> QED
  BY <1>3, <1>4, Zenon DEF Reread

LEMMA CallFailsMoves ==
    ASSUME TypeOK, NEW c \in Clients, CookieSound(c), ReqSound(c), RowStep, CallFails(c)
    PROVE  Moves(c)
<1>1. users' = users /\ nextId' = nextId /\ nextId \in Nat
  BY DEF CallFails, TypeOK
<1>2. CASE Done(c) /\ UNCHANGED cookies
  BY <1>2, DoneSound, SameJars, Zenon DEF Moves
<1>3. CASE req[c].pc = "reset" /\ GotoUid(c, "mint", req[c].uid) /\ Drop(c, "challenge")
  <2>1. Admissible(req[c].uid) /\ req[c].uid \in Uids /\ req[c].uid < nextId
    BY <1>3 DEF ReqSound, Admissible, TypeOK, Rows
  <2>2. Others(c) /\ ReqTyped(c)' /\ ReqSound(c)'
    BY <1>1, <1>3, <2>1, SameRows, MintSound, Zenon
  <2>3. OtherJars(c) /\ cookies'[c].challenge = None /\ cookies'[c].flow = cookies[c].flow
    BY <1>3, DropTypes, Zenon DEF TypeOK, CookieJars
  <2> QED
    BY <2>2, <2>3, Zenon DEF Moves, CookieSound
<1> QED
  BY <1>2, <1>3, Zenon DEF CallFails

LEMMA CreateAdminMoves ==
    ASSUME TypeOK, NEW c \in Clients, CookieSound(c), RowStep, CreateAdmin(c)
    PROVE  Moves(c)
<1>1. Others(c) /\ ReqTyped(c)' /\ ReqSound(c)'
  BY DoneSound, Zenon DEF CreateAdmin
<1>2. CASE UNCHANGED cookies
  BY <1>1, <1>2, SameJars, Zenon DEF Moves
<1>3. CASE /\ cookies' = [cookies EXCEPT ![c].challenge = [uid |-> nextId, stage |-> "enroll"]]
           /\ nextId \in Uids /\ nextId' = nextId + 1
           /\ users'[nextId] # None => users'[nextId].subject = None
  <2> DEFINE ch == [uid |-> nextId, stage |-> "enroll"]
  <2>1. ch \in Challenges /\ cookies \in [Clients -> CookieJars]
    BY <1>3, Zenon DEF Challenges, TypeOK
  <2>2. OtherJars(c) /\ cookies'[c].challenge = ch /\ cookies'[c].flow = cookies[c].flow
    BY <1>3, <2>1, Zenon DEF CookieJars, OtherJars
  <2>3. nextId \in Nat /\ nextId < nextId'
    BY <1>3 DEF TypeOK
  <2>4. CookieSound(c)'
    BY <1>3, <2>2, <2>3 DEF CookieSound, Rows
  <2> QED
    BY <1>1, <2>2, <2>4, Zenon DEF Moves
<1>4. ASSUME nextId \in Uids,
             users' = [u \in Uids |-> IF u \in {v \in Rows : ~Abandoned(v)} THEN users[u]
                                      ELSE IF u = nextId THEN NewRow(req[c].who, None) ELSE None]
      PROVE  users'[nextId].subject = None
  <2>1. nextId \notin Rows /\ req[c].who \in Names
    BY DEF TypeOK, CreateAdmin
  <2>2. users'[nextId] = NewRow(req[c].who, None)
    BY <1>4, <2>1, Zenon
  <2> QED
    BY <2>1, <2>2, NewRowIsRow
<1> QED
  BY <1>2, <1>3, <1>4, Zenon DEF CreateAdmin

LEMMA ConfirmUserMoves ==
    ASSUME TypeOK, Table, NEW c \in Clients, CookieSound(c), ReqSound(c), RowStep, ConfirmUserTOTP(c)
    PROVE  Moves(c)
<1>0. req[c].uid \in 1..(nextId - 1) /\ req[c].uid \in Uids
  BY SignInConstants DEF ConfirmUserTOTP, TypeOK, Uids
<1>1. PICK u \in Uids : u = req[c].uid /\ u < nextId /\ nextId' = nextId /\ nextId \in Nat
  BY <1>0 DEF ConfirmUserTOTP, TypeOK
<1>2. CASE Done(c) /\ UNCHANGED <<users, cookies>>
  BY <1>2, DoneSound, SameJars, Zenon DEF Moves
<1>3. CASE /\ users' = [users EXCEPT ![u] = IF @ = None THEN None ELSE [@ EXCEPT !.confirmed = TRUE]]
           /\ Drop(c, "challenge") /\ GotoUid(c, "mint", u)
  <2>1. ASSUME u \in Rows' PROVE Admissible(u)'
    <3>1. users[u] \in UserRows /\ users'[u] = [users[u] EXCEPT !.confirmed = TRUE]
      BY <1>1, <1>3, <2>1, Zenon DEF TypeOK, Rows
    <3>2. users'[u].confirmed
      BY <3>1, Zenon DEF UserRows
    <3> QED
      BY <2>1, <3>2, Zenon DEF Admissible
  <2>2. Others(c) /\ ReqTyped(c)' /\ ReqSound(c)'
    BY <1>1, <1>3, <2>1, MintSound, Zenon
  <2>3. OtherJars(c) /\ cookies'[c].challenge = None /\ cookies'[c].flow = cookies[c].flow
    BY <1>3, DropTypes, Zenon DEF TypeOK, CookieJars
  <2> QED
    BY <2>2, <2>3, Zenon DEF Moves, CookieSound
<1> QED
  BY <1>1, <1>2, <1>3, Zenon DEF ConfirmUserTOTP

LEMMA ProvisionMoves ==
    ASSUME TypeOK, NEW c \in Clients, CookieSound(c), RowStep, Provision(c)
    PROVE  Moves(c)
<1> DEFINE s == req[c].who
<1>1. OtherJars(c) /\ CookieSound(c)'
  BY SameJars, Zenon DEF Provision
<1>2. s \in Subjects /\ s # None
  BY SignInConstants, Zenon DEF Provision, TypeOK
<1>3. CASE /\ nextId \in Uids /\ users' = [users EXCEPT ![nextId] = NewRow(Email[s], s)]
           /\ nextId' = nextId + 1 /\ GotoUid(c, "mint", nextId)
  <2>1. users'[nextId] = NewRow(Email[s], s)
    BY <1>3, Zenon DEF TypeOK
  <2>2. users'[nextId].subject = s
    BY <1>2, <2>1, NewRowIsRow
  <2>3. nextId \in Nat /\ nextId' \in Nat /\ nextId < nextId'
    BY <1>3 DEF TypeOK
  <2>4. PICK u \in Uids : u = nextId
    BY <1>3, Zenon
  <2>5. u \in Rows' => Admissible(u)'
    BY <1>2, <2>2, <2>4, Zenon DEF Admissible
  <2> QED
    BY <1>1, <1>3, <2>3, <2>4, <2>5, MintSound, Zenon DEF Moves
<1>4. CASE GotoWho(c, "reread", s)
  <2>1. Others(c) /\ req'[c].pc = "reread" /\ req'[c].who = s
    BY <1>2, <1>4, GotoWhoTypes, Zenon DEF TypeOK
  <2> QED
    BY <1>1, <1>2, <2>1, Zenon DEF Moves, ReqTyped, ReqSound
<1> QED
  BY <1>3, <1>4, Zenon DEF Provision

LEMMA CountingMoves ==
    ASSUME TypeOK, NEW c \in Clients, CookieSound(c), ReqSound(c), RowStep, Touched, Counting(c)
    PROVE  Moves(c)
<1>1. nextId' = nextId /\ nextId \in Nat /\ Rows' = Rows /\ \A u \in Rows : u \in Uids /\ u < nextId
  BY DEF Touched, TypeOK, Rows
<1>2. \A u \in Rows : users[u].confirmed => users'[u].confirmed
  BY Zenon DEF Touched
<1>3. CASE LoginTOTP(c)
  <2> DEFINE u == ChallengeUid(c)
  <2>1. u \in Rows /\ users[u].confirmed /\ (GotoUid(c, "count", u) \/ GotoUid(c, "reset", u)) /\ UNCHANGED cookies
    BY <1>3, Zenon DEF LoginTOTP
  <2>2. Others(c) /\ ReqTyped(c)' /\ ReqSound(c)'
    BY <1>1, <1>2, <2>1, CountSound, Zenon
  <2> QED
    BY <2>1, <2>2, SameJars, Zenon DEF Moves
<1>4. CASE ResetFailedLogins(c)
  <2>1. PICK u \in Rows : users[u].confirmed /\ GotoUid(c, "mint", u) /\ Drop(c, "challenge")
    BY <1>4, Zenon DEF ResetFailedLogins, ReqSound
  <2>2. Admissible(u)'
    BY <1>1, <1>2, <2>1, Zenon DEF Admissible
  <2>3. Others(c) /\ ReqTyped(c)' /\ ReqSound(c)'
    BY <1>1, <2>1, <2>2, MintSound, Zenon
  <2>4. OtherJars(c) /\ cookies'[c].challenge = None /\ cookies'[c].flow = cookies[c].flow
    BY <2>1, DropTypes, Zenon DEF TypeOK, CookieJars
  <2> QED
    BY <2>3, <2>4, Zenon DEF Moves, CookieSound
<1>5. CASE IncrementFailedLogins(c)
  <2> DEFINE u == req[c].uid
  <2>1. u \in Rows /\ users[u].confirmed /\ (GotoUid(c, "lock", u) \/ Done(c)) /\ UNCHANGED cookies
    BY <1>5, Zenon DEF IncrementFailedLogins, ReqSound
  <2>2. Others(c) /\ ReqTyped(c)' /\ ReqSound(c)'
    BY <1>1, <1>2, <2>1, CountSound, DoneSound, Zenon
  <2> QED
    BY <2>1, <2>2, SameJars, Zenon DEF Moves
<1>6. CASE LockUser(c)
  BY <1>6, DoneSound, SameJars, Zenon DEF Moves, LockUser
<1> QED
  BY <1>3, <1>4, <1>5, <1>6, Zenon DEF Counting

(***************************************************************************)
(* Sessions.                                                               *)
(***************************************************************************)

\* A session belongs to someone who may have one, and was stepped up by them.
SessionSound(t) ==
    sessions[t] # None => /\ Admissible(sessions[t].uid)
                          /\ sessions[t].reauth \in {None, Identity(sessions[t].uid)}

LEMMA EarnedIsSound ==
    SessionsEarned <=> \A t \in Tokens : SessionSound(t)
  BY Zenon DEF SessionsEarned, SessionsAdmissible, StepUpByOwner, SessionSound

\* A session that ends, or goes on as it was or without its step-up, stays sound.
LEMMA SessionKept ==
    ASSUME TypeOK, RowStep, NEW t \in Tokens, SessionSound(t),
           \/ sessions'[t] = None
           \/ sessions[t] # None /\ sessions'[t].uid = sessions[t].uid
              /\ sessions'[t].reauth \in {None, sessions[t].reauth}
    PROVE  SessionSound(t)'
<1>1. CASE sessions'[t] = None
  BY <1>1, Zenon DEF SessionSound
<1>2. CASE sessions'[t] # None
  <2>1. PICK u \in Rows : u = sessions[t].uid /\ Admissible(u) /\ sessions[t].reauth \in {None, Identity(u)}
    BY <1>2, Zenon DEF SessionSound, Admissible
  <2>2. Admissible(u)' /\ Identity(u)' = Identity(u)
    BY <2>1, AdmissibleKept, Zenon
  <2> QED
    BY <1>2, <2>1, <2>2, Zenon DEF SessionSound, Admissible, Identity
<1> QED
  BY <1>1, <1>2, Zenon

\* What a step does to the sessions: they stay sound, and none takes over a token
\* that a cookie or a request still holds.
Sessions == SessionStep /\ SessionsEarned'

LEMMA SameSessions ==
    ASSUME TypeOK, RowStep, SessionsEarned, sessions' = sessions
    PROVE  Sessions
<1>1. SessionStep
  BY Zenon DEF SessionStep, TypeOK
<1>2. \A t \in Tokens : SessionSound(t)'
  BY SessionKept, EarnedIsSound, Zenon DEF SessionSound
<1> QED
  BY <1>1, <1>2, Zenon DEF Sessions, SessionsEarned, SessionsAdmissible, StepUpByOwner, SessionSound

\* Sessions of one token change.
LEMMA OneSession ==
    ASSUME TypeOK, RowStep, SessionsEarned, NEW t \in Tokens,
           sessions' \in [Tokens -> SessionRows \cup {None}],
           \A x \in Tokens \ {t} : sessions'[x] = sessions[x],
           SessionSound(t)',
           \/ sessions'[t] = None
           \/ sessions[t] # None /\ sessions'[t].uid = sessions[t].uid
           \/ ~Remembered(t)
    PROVE  Sessions
<1>1. SessionStep
  BY Zenon DEF SessionStep
<1>2. \A x \in Tokens \ {t} : SessionSound(x)'
  <2> TAKE x \in Tokens \ {t}
  <2>1. sessions'[x] = sessions[x] /\ SessionSound(x)
    BY EarnedIsSound, Zenon
  <2> QED
    BY <2>1, SessionKept, Zenon
<1> QED
  BY <1>1, <1>2, Zenon DEF Sessions, SessionsEarned, SessionsAdmissible, StepUpByOwner, SessionSound

LEMMA MintSessions ==
    ASSUME TypeOK, RowStep, SessionsEarned, NEW c \in Clients, ReqSound(c), CookieSound(c), MintSession(c)
    PROVE  Sessions /\ Moves(c)
<1> DEFINE free == {t \in Tokens : sessions[t] = None /\ ~Remembered(t)}
           tok == CHOOSE x \in free : TRUE
<1>1. Others(c) /\ ReqTyped(c)' /\ ReqSound(c)' /\ users' = users /\ nextId' = nextId
  BY DoneSound, Zenon DEF MintSession
<1>2. CASE UNCHANGED <<sessions, cookies>>
  BY <1>1, <1>2, SameSessions, SameJars, Zenon DEF Moves
<1>3. CASE /\ SessionInsertable(req[c].uid) /\ free # {}
           /\ sessions' = [sessions EXCEPT ![tok] = [uid |-> req[c].uid, reauth |-> None]]
           /\ cookies' = [cookies EXCEPT ![c].session = tok]
  <2>1. free # {}
    BY <1>3, Zenon
  <2>2. PICK t \in free : t = tok
    BY <2>1, Zenon
  <2> HIDE DEF tok
  <2>3. t \in Tokens /\ sessions[t] = None /\ ~Remembered(t)
    BY Zenon
  <2>4. PICK u \in Uids : u = req[c].uid /\ u \in Rows /\ Admissible(u)
    BY <1>3, Zenon DEF SessionInsertable, MintSession, ReqSound, Rows
  <2> DEFINE row == [uid |-> u, reauth |-> None]
  <2>5. row \in SessionRows /\ row.uid = u /\ row.reauth = None
    BY Zenon DEF SessionRows
  <2> HIDE DEF row, free
  <2>6. sessions' = [sessions EXCEPT ![t] = row]
    BY <1>3, <2>2, <2>4, Zenon DEF row
  <2>7. /\ sessions' \in [Tokens -> SessionRows \cup {None}] /\ sessions'[t] = row
        /\ \A x \in Tokens \ {t} : sessions'[x] = sessions[x]
    BY <2>3, <2>5, <2>6, Zenon DEF TypeOK
  <2>8. SessionSound(t)'
    <3>1. Admissible(u)'
      BY <1>1, <2>4, SameRows, Zenon
    <3> QED
      BY <2>5, <2>7, <3>1, Zenon DEF SessionSound, Admissible
  <2>9. Sessions
    BY <2>3, <2>7, <2>8, OneSession, Zenon
  <2>10. OtherJars(c) /\ cookies'[c].challenge = cookies[c].challenge /\ cookies'[c].flow = cookies[c].flow
    BY <1>3, <2>2, <2>3 DEF OtherJars, TypeOK, CookieJars
  <2>11. CookieSound(c)'
    BY <1>1, <2>10, SameRows, Zenon DEF CookieSound
  <2> QED
    BY <1>1, <2>9, <2>10, <2>11, Zenon DEF Moves
<1> QED
  BY <1>2, <1>3, Zenon DEF MintSession

LEMMA LogoutSessions ==
    ASSUME TypeOK, RowStep, SessionsEarned, NEW c \in Clients, ReqSound(c), CookieSound(c), Logout(c)
    PROVE  Sessions /\ Moves(c)
<1>1. PICK t \in Tokens : t = cookies[c].session
  BY Zenon DEF Logout, Resolved, TypeOK, CookieJars
<1>2. /\ sessions' = [sessions EXCEPT ![t] = None] /\ Drop(c, "session")
      /\ users' = users /\ nextId' = nextId /\ req' = req
  BY <1>1, Zenon DEF Logout
<1>3. /\ sessions' \in [Tokens -> SessionRows \cup {None}] /\ sessions'[t] = None
      /\ \A x \in Tokens \ {t} : sessions'[x] = sessions[x]
  BY <1>2, Zenon DEF TypeOK
<1>4. SessionSound(t)'
  BY <1>3, Zenon DEF SessionSound
<1>5. Sessions
  BY <1>3, <1>4, OneSession, Zenon
<1>6. OtherJars(c) /\ cookies'[c].challenge = cookies[c].challenge /\ cookies'[c].flow = cookies[c].flow
  BY <1>2, DropTypes, Zenon DEF TypeOK, CookieJars
<1>7. CookieSound(c)'
  BY <1>2, <1>6, SameRows, Zenon DEF CookieSound
<1>8. ReqTyped(c)' /\ ReqSound(c)' /\ Others(c)
  BY <1>2, <1>5, ReqKept, Zenon DEF Sessions, SessionsEarned, Others, TypeOK
<1> QED
  BY <1>5, <1>6, <1>7, <1>8, Zenon DEF Moves

LEMMA MarkSessions ==
    ASSUME TypeOK, RowStep, SessionsEarned, NEW c \in Clients, ReqSound(c), CookieSound(c),
           MarkSessionReauth(c)
    PROVE  Sessions /\ Moves(c)
<1>1. Moves(c) /\ users' = users
  BY DoneSound, SameJars, Zenon DEF Moves, MarkSessionReauth
<1>2. PICK t \in Tokens : t = req[c].token
  BY Zenon DEF MarkSessionReauth, TypeOK
<1>3. PICK w \in Subjects \cup {Local} : w = req[c].who
  BY Zenon DEF MarkSessionReauth, TypeOK
<1>4. sessions' = [sessions EXCEPT ![t] = IF @ = None THEN None ELSE [@ EXCEPT !.reauth = w]]
  BY <1>2, <1>3, Zenon DEF MarkSessionReauth
<1>5. CASE sessions[t] = None
  BY <1>1, <1>4, <1>5, SameSessions, Zenon DEF TypeOK
<1>6. CASE sessions[t] # None
  <2> DEFINE row == [sessions[t] EXCEPT !.reauth = w]
  <2>1. row \in SessionRows /\ row.uid = sessions[t].uid /\ row.reauth = w
    BY <1>6, Zenon DEF TypeOK, SessionRows
  <2> HIDE DEF row
  <2>2. sessions' = [sessions EXCEPT ![t] = row]
    BY <1>4, <1>6, Zenon DEF TypeOK, row
  <2>3. /\ sessions' \in [Tokens -> SessionRows \cup {None}] /\ sessions'[t] = row
        /\ \A x \in Tokens \ {t} : sessions'[x] = sessions[x]
    BY <2>1, <2>2, Zenon DEF TypeOK
  <2>4. PICK u \in Rows : u = sessions[t].uid /\ Admissible(u) /\ w = Identity(u)
    BY <1>2, <1>3, <1>6, Zenon DEF SessionsEarned, SessionsAdmissible, Admissible, ReqSound, MarkSessionReauth
  <2>5. Admissible(u)' /\ Identity(u)' = w
    BY <1>1, <2>4, SameRows, Zenon
  <2>6. SessionSound(t)'
    BY <2>1, <2>3, <2>4, <2>5, Zenon DEF SessionSound, Admissible, Identity
  <2> QED
    BY <1>1, <1>6, <2>1, <2>3, <2>6, OneSession, Zenon
<1> QED
  BY <1>5, <1>6, Zenon

LEMMA SweptSessions ==
    ASSUME TypeOK, RowStep, SessionsEarned, NEW c \in Clients, CreateAdmin(c)
    PROVE  Sessions
<1>1. CASE UNCHANGED sessions
  BY <1>1, SameSessions, Zenon
<1>2. CASE \A t \in Tokens : sessions'[t] \in {None, sessions[t]}
  <2>1. ASSUME sessions' \in [Tokens -> SessionRows \cup {None}]
        PROVE  Sessions
    <3>1. SessionStep
      BY <1>2, <2>1, Zenon DEF SessionStep
    <3>2. \A t \in Tokens : SessionSound(t)'
      BY <1>2, SessionKept, EarnedIsSound, Zenon DEF SessionSound
    <3> QED
      BY <3>1, <3>2, Zenon DEF Sessions, SessionsEarned, SessionsAdmissible, StepUpByOwner, SessionSound
  <2>2. sessions' \in [Tokens -> SessionRows \cup {None}]
    BY Zenon DEF CreateAdmin, TypeOK
  <2> QED
    BY <2>1, <2>2, Zenon
<1> QED
  BY <1>1, <1>2, Zenon DEF CreateAdmin

LEMMA ExpiredSessions ==
    ASSUME TypeOK, RowStep, SessionsEarned, Expires
    PROVE  Sessions
<1>1. CASE sessions' = sessions
  BY <1>1, SameSessions, Zenon
<1>2. ASSUME NEW t \in Tokens, sessions[t] # None, sessions' = [sessions EXCEPT ![t] = None]
      PROVE  Sessions
  <2>1. /\ sessions' \in [Tokens -> SessionRows \cup {None}] /\ sessions'[t] = None
        /\ \A x \in Tokens \ {t} : sessions'[x] = sessions[x]
    BY <1>2, Zenon DEF TypeOK
  <2>2. SessionSound(t)'
    BY <2>1, Zenon DEF SessionSound
  <2> QED
    BY <2>1, <2>2, OneSession, Zenon
<1>3. ASSUME NEW t \in Tokens, sessions[t] # None, sessions' = [sessions EXCEPT ![t].reauth = None]
      PROVE  Sessions
  <2> DEFINE row == [sessions[t] EXCEPT !.reauth = None]
  <2>1. row \in SessionRows /\ row.uid = sessions[t].uid /\ row.reauth = None
    BY <1>3, Zenon DEF TypeOK, SessionRows
  <2>2. sessions' = [sessions EXCEPT ![t] = row]
    BY <1>3, Zenon DEF TypeOK
  <2> HIDE DEF row
  <2>3. /\ sessions' \in [Tokens -> SessionRows \cup {None}] /\ sessions'[t] = row
        /\ \A x \in Tokens \ {t} : sessions'[x] = sessions[x]
    BY <2>1, <2>2, Zenon DEF TypeOK
  <2>4. SessionSound(t)
    BY EarnedIsSound, Zenon
  <2>5. SessionSound(t)'
    BY <1>3, <2>1, <2>3, <2>4, SessionKept, Zenon
  <2> QED
    BY <1>3, <2>1, <2>3, <2>5, OneSession, Zenon
<1> QED
  BY <1>1, <1>2, <1>3, Zenon DEF Expires, Expire

(***************************************************************************)
(* Recovery codes and failure counts.                                      *)
(***************************************************************************)

LEMMA TouchedCodes ==
    ASSUME TypeOK, CodesSound, Touched, codeUses' = codeUses
    PROVE  CodesSound'
  BY Zenon DEF CodesSound, Touched

LEMMA NewRowCodes ==
    ASSUME TypeOK, CodesSound, codeUses' = codeUses, nextId' \in nextId..(MaxUsers + 1),
           \A u \in Rows' : \/ u \in Rows /\ (users'[u].code => users[u].code)
                            \/ u = nextId
    PROVE  CodesSound'
<1>1. \A u \in Uids : codeUses[u] <= 1 /\ (u >= nextId' => codeUses[u] = 0)
  BY SignInConstants DEF CodesSound, TypeOK, Uids
<1>2. \A u \in Uids : u \in Rows' /\ users'[u].code => codeUses[u] = 0
  BY SignInConstants DEF CodesSound, TypeOK, Uids
<1> QED
  BY <1>1, <1>2, Zenon DEF CodesSound

\* ConsumeRecoveryCode checks and spends in one statement.
LEMMA SpentCodes ==
    ASSUME TypeOK, CodesSound, NEW c \in Clients, LoginTOTP(c), Touched
    PROVE  CodesSound' /\ codeUses' \in [Uids -> Nat]
<1>1. CASE codeUses' = codeUses
  BY <1>1, TouchedCodes, Zenon DEF TypeOK
<1>2. CASE /\ Unused(ChallengeUid(c))
           /\ users' = [users EXCEPT ![ChallengeUid(c)].code = FALSE]
           /\ codeUses' = [codeUses EXCEPT ![ChallengeUid(c)] = @ + 1]
  <2>1. PICK u \in Rows : u = ChallengeUid(c)
    BY Zenon DEF LoginTOTP
  <2>2. u \in Uids /\ u < nextId /\ users[u] \in UserRows
    BY RowTypes DEF TypeOK
  <2>3. users[u].code /\ codeUses[u] = 0
    BY <1>2, <2>1, <2>2, Zenon DEF Unused, CodesSound
  <2>4. users'[u] = [users[u] EXCEPT !.code = FALSE]
    BY <1>2, <2>1, <2>2, Zenon DEF TypeOK
  <2>5. ~users'[u].code
    BY <2>2, <2>4, Zenon DEF UserRows
  <2>6. codeUses' \in [Uids -> Nat] /\ codeUses'[u] = 1 /\ \A v \in Uids \ {u} : codeUses'[v] = codeUses[v]
    BY <1>2, <2>1, <2>2, <2>3 DEF TypeOK
  <2>7. nextId' = nextId /\ nextId \in Nat /\ Rows' = Rows
    BY DEF Touched, TypeOK
  <2>8. \A v \in Rows : users'[v].code => users[v].code
    BY Zenon DEF Touched
  <2>9. ASSUME NEW v \in Uids
        PROVE  /\ codeUses'[v] <= 1
               /\ v >= nextId' => codeUses'[v] = 0
               /\ v \in Rows' /\ users'[v].code => codeUses'[v] = 0
    <3>1. CASE v = u
      BY <2>2, <2>5, <2>6, <2>7, <3>1 DEF Uids
    <3>2. CASE v # u
      BY <2>6, <2>7, <2>8, <3>2, Zenon DEF CodesSound
    <3> QED
      BY <3>1, <3>2, Zenon
  <2> QED
    BY <2>6, <2>9, Zenon DEF CodesSound
<1> QED
  BY <1>1, <1>2, Zenon DEF LoginTOTP

LEMMA CodesNext ==
    ASSUME TypeOK, CodesSound, Table, RowStep, \A c \in Clients : ReqSound(c), [Next]_vars
    PROVE  CodesSound' /\ codeUses' \in [Uids -> Nat]
<1>1. codeUses \in [Uids -> Nat] /\ nextId' \in nextId..(MaxUsers + 1)
  BY Zenon DEF TypeOK, RowStep
<1>2. ASSUME NEW c \in Clients, CreateAdmin(c) \/ Provision(c)
      PROVE  /\ codeUses' = codeUses
             /\ \A u \in Rows' : u = nextId \/ (u \in Rows /\ users'[u] = users[u])
  BY <1>2, Zenon DEF CreateAdmin, Provision, TypeOK, Rows
<1>3. ASSUME NEW c \in Clients, ConfirmUserTOTP(c)
      PROVE  /\ codeUses' = codeUses
             /\ \A u \in Rows' : u \in Rows /\ (users'[u].code => users[u].code)
  <2>1. Rows' = Rows /\ codeUses' = codeUses
    BY <1>3, ConfirmRows, Zenon DEF ConfirmUserTOTP
  <2>2. ASSUME NEW u \in Rows
        PROVE  users'[u].code => users[u].code
    <3>1. u \in Uids /\ users[u] \in UserRows
      BY RowTypes, Zenon
    <3>2. users'[u] = users[u] \/ users'[u] = [users[u] EXCEPT !.confirmed = TRUE]
      BY <1>3, <3>1, Zenon DEF ConfirmUserTOTP, TypeOK
    <3> QED
      BY <3>1, <3>2, Zenon DEF UserRows
  <2> QED
    BY <2>1, <2>2, Zenon
<1>4. ASSUME NEW c \in Clients, Quiet(c)
      PROVE  codeUses' = codeUses /\ Touched
  BY <1>4, QuietRows, SameTouched, Zenon
<1>5. ASSUME NEW c \in Clients, Counting(c)
      PROVE  CodesSound' /\ codeUses' \in [Uids -> Nat]
  <2>1. Touched
    BY <1>5, CountingRows, Zenon
  <2>2. CASE LoginTOTP(c)
    BY <2>1, <2>2, SpentCodes, Zenon
  <2>3. CASE codeUses' = codeUses
    BY <1>1, <2>1, <2>3, TouchedCodes, Zenon
  <2> QED
    BY <1>5, <2>2, <2>3, Zenon DEF Counting, ResetFailedLogins, IncrementFailedLogins, LockUser
<1>6. CASE Expires
  BY <1>1, <1>6, ExpiresRows, TouchedCodes, Zenon DEF Expires
<1>7. CASE UNCHANGED vars
  BY <1>1, <1>7, SameTouched, TouchedCodes, Zenon DEF vars
<1> QED
  BY <1>1, <1>2, <1>3, <1>4, <1>5, <1>6, <1>7, NextSplit, NewRowCodes, TouchedCodes, Zenon

\* An account at its limit of failures that is not locked.
AtLimit(u) == users[u].failed >= MaxFailed /\ users[u].lock = "none"

\* Steps that bring no account to the limit and end no request that will lock one.
LEMMA LocksKept ==
    ASSUME LimitLocks, \A u \in Rows' : AtLimit(u)' => u \in Rows /\ AtLimit(u),
           \A d \in Clients : req[d].pc = "lock" => req'[d] = req[d]
    PROVE  LimitLocks'
<1> SUFFICES ASSUME NEW u \in Rows', AtLimit(u)'
             PROVE  \E d \in Clients : req'[d].pc = "lock" /\ req'[d].uid = u
  BY Zenon DEF LimitLocks, AtLimit
<1>1. u \in Rows /\ AtLimit(u)
  BY Zenon
<1>2. PICK d \in Clients : req[d].pc = "lock" /\ req[d].uid = u
  BY <1>1, Zenon DEF LimitLocks, AtLimit
<1> QED
  BY <1>2, Zenon

\* A step of c ends no lock of another request, and none of its own but LockUser.
LEMMA LockRequests ==
    ASSUME NEW c \in Clients, Others(c), req[c].pc # "lock"
    PROVE  \A d \in Clients : req[d].pc = "lock" => req'[d] = req[d]
  BY Zenon DEF Others

LEMMA QuietLocks ==
    ASSUME LimitLocks, NEW c \in Clients, Quiet(c), Others(c)
    PROVE  LimitLocks'
<1>1. users' = users /\ Rows' = Rows
  BY QuietRows, SameRows, Zenon
<1>2. req[c].pc # "lock"
  BY Zenon DEF Quiet, Redeem, ConfirmTOTP, MintSession, Login, Logout, StepUp, MarkSessionReauth, OIDCLogin,
         OIDCCallback, Reread, CallFails, Allow
<1> QED
  BY <1>1, <1>2, LockRequests, LocksKept, Zenon DEF AtLimit

LEMMA NewRowLocks ==
    ASSUME TypeOK, LimitLocks, NEW c \in Clients, CreateAdmin(c) \/ Provision(c), Others(c)
    PROVE  LimitLocks'
<1>1. req[c].pc # "lock"
  BY Zenon DEF CreateAdmin, Provision
<1>2. \A u \in Rows' : (u \in Rows /\ users'[u] = users[u]) \/ users'[u].failed = 0
  <2>1. CASE CreateAdmin(c)
    <3>1. req[c].who \in Names
      BY <2>1, Zenon DEF CreateAdmin, TypeOK
    <3>2. NewRow(req[c].who, None).failed = 0
      BY Zenon DEF NewRow
    <3> QED
      BY <2>1, <3>2, Zenon DEF CreateAdmin, TypeOK, Rows
  <2>2. CASE Provision(c)
    <3>1. NewRow(Email[req[c].who], req[c].who).failed = 0
      BY Zenon DEF NewRow
    <3> QED
      BY <2>2, <3>1, Zenon DEF Provision, TypeOK, Rows
  <2> QED
    BY <2>1, <2>2, Zenon
<1>3. \A u \in Rows' : AtLimit(u)' => u \in Rows /\ AtLimit(u)
  BY <1>2, SignInConstants DEF AtLimit
<1> QED
  BY <1>1, <1>3, LockRequests, LocksKept, Zenon

LEMMA ConfirmLocks ==
    ASSUME TypeOK, Table, LimitLocks, NEW c \in Clients, ReqSound(c), ConfirmUserTOTP(c), Others(c)
    PROVE  LimitLocks'
<1>1. Rows' = Rows /\ req[c].pc # "lock"
  BY ConfirmRows, Zenon DEF ConfirmUserTOTP
<1>2. ASSUME NEW u \in Rows
      PROVE  users'[u].failed = users[u].failed /\ users'[u].lock = users[u].lock
  <2>1. u \in Uids /\ users[u] \in UserRows
    BY RowTypes, Zenon
  <2>2. users'[u] = users[u] \/ users'[u] = [users[u] EXCEPT !.confirmed = TRUE]
    BY <2>1, Zenon DEF ConfirmUserTOTP, TypeOK
  <2> QED
    BY <2>1, <2>2, Zenon DEF UserRows
<1> QED
  BY <1>1, <1>2, LockRequests, LocksKept, Zenon DEF AtLimit

\* The request that reaches the limit goes on to lock the account.
LEMMA CountingLocks ==
    ASSUME TypeOK, LimitLocks, NEW c \in Clients, ReqSound(c), Counting(c), Others(c)
    PROVE  LimitLocks'
<1>1. users \in [Uids -> UserRows \cup {None}] /\ Rows' = Rows /\ \A u \in Rows : u \in Uids /\ users[u] \in UserRows
  BY RowTypes, CountingRows, Zenon DEF TypeOK, Touched
<1>2. CASE LoginTOTP(c)
  <2>1. ASSUME NEW u \in Rows
        PROVE  users'[u].failed = users[u].failed /\ users'[u].lock = users[u].lock
    <3>1. users'[u] = users[u] \/ users'[u] = [users[u] EXCEPT !.code = FALSE]
      BY <1>1, <1>2, Zenon DEF LoginTOTP
    <3> QED
      BY <1>1, <3>1, Zenon DEF UserRows
  <2>2. req[c].pc # "lock"
    BY <1>2, Zenon DEF LoginTOTP, Allow
  <2> QED
    BY <1>1, <2>1, <2>2, LockRequests, LocksKept, Zenon DEF AtLimit
<1>3. CASE ResetFailedLogins(c)
  <2>1. PICK u \in Rows : u = req[c].uid
    BY <1>3, Zenon DEF ResetFailedLogins, ReqSound
  <2>2. users' = [users EXCEPT ![u].failed = 0, ![u].lock = "none"]
    BY <1>3, <2>1, Zenon DEF ResetFailedLogins
  <2>3. users'[u].failed = 0 /\ \A v \in Uids \ {u} : users'[v] = users[v]
    BY <1>1, <2>2, Zenon DEF UserRows
  <2>4. req[c].pc # "lock"
    BY <1>3, Zenon DEF ResetFailedLogins
  <2>5. \A v \in Rows' : AtLimit(v)' => v \in Rows /\ AtLimit(v)
    BY <1>1, <2>3, SignInConstants DEF AtLimit
  <2> QED
    BY <2>4, <2>5, LockRequests, LocksKept, Zenon
<1>4. CASE IncrementFailedLogins(c)
  <2>1. PICK u \in Rows : u = req[c].uid
    BY <1>4, Zenon DEF IncrementFailedLogins, ReqSound
  <2> DEFINE n == users[u].failed + 1
             m == IF n > MaxFailed THEN MaxFailed ELSE n
  <2>2. /\ users' = [users EXCEPT ![u].failed = m]
        /\ IF Locks(n) THEN GotoUid(c, "lock", u) ELSE Done(c)
        /\ req[c].pc # "lock"
    BY <1>4, <2>1, Zenon DEF IncrementFailedLogins
  <2>3. users'[u].failed = m /\ \A v \in Uids \ {u} : users'[v] = users[v]
    <3> HIDE DEF m
    <3> QED
      BY <1>1, <2>2, Zenon DEF UserRows
  <2>4. CASE Locks(n)
    <3>1. req'[c].pc = "lock" /\ req'[c].uid = u
      BY <1>1, <2>2, <2>4, GotoUidTypes, Zenon DEF TypeOK
    <3> SUFFICES ASSUME NEW v \in Rows', AtLimit(v)'
                 PROVE  \E d \in Clients : req'[d].pc = "lock" /\ req'[d].uid = v
      BY Zenon DEF LimitLocks, AtLimit
    <3>2. CASE v = u
      BY <3>1, <3>2, Zenon
    <3>3. CASE v # u
      <4>1. v \in Rows /\ AtLimit(v)
        BY <1>1, <2>3, <3>3, Zenon DEF AtLimit
      <4>2. PICK d \in Clients : req[d].pc = "lock" /\ req[d].uid = v
        BY <4>1, Zenon DEF LimitLocks, AtLimit
      <4> QED
        BY <2>2, <4>2, Zenon DEF Others
    <3> QED
      BY <3>2, <3>3, Zenon
  <2>5. CASE ~Locks(n)
    <3>1. m < MaxFailed /\ m \in Int
      BY <1>1, <2>5, SignInConstants DEF Locks, UserRows
    <3> HIDE DEF m
    <3>2. \A v \in Rows' : AtLimit(v)' => v \in Rows /\ AtLimit(v)
      BY <1>1, <2>3, <3>1, SignInConstants DEF AtLimit
    <3> QED
      BY <2>2, <3>2, LockRequests, LocksKept, Zenon
  <2> QED
    BY <2>4, <2>5, Zenon
<1>5. CASE LockUser(c)
  <2>1. PICK u \in Rows : u = req[c].uid
    BY <1>5, Zenon DEF LockUser, ReqSound
  <2>2. users' = [users EXCEPT ![u].lock = "locked"]
    BY <1>5, <2>1, Zenon DEF LockUser
  <2>3. users'[u].lock = "locked" /\ \A v \in Uids \ {u} : users'[v] = users[v]
    BY <1>1, <2>2, Zenon DEF UserRows
  <2> SUFFICES ASSUME NEW v \in Rows', AtLimit(v)'
               PROVE  \E d \in Clients : req'[d].pc = "lock" /\ req'[d].uid = v
    BY Zenon DEF LimitLocks, AtLimit
  <2>4. v # u /\ v \in Rows /\ AtLimit(v)
    BY <1>1, <2>3, Zenon DEF AtLimit
  <2>5. PICK d \in Clients : req[d].pc = "lock" /\ req[d].uid = v
    BY <2>4, Zenon DEF LimitLocks, AtLimit
  <2> QED
    BY <2>1, <2>4, <2>5, Zenon DEF Others
<1> QED
  BY <1>2, <1>3, <1>4, <1>5, Zenon DEF Counting

LEMMA ExpiresLocks ==
    ASSUME TypeOK, LimitLocks, Expires
    PROVE  LimitLocks'
<1>1. users \in [Uids -> UserRows \cup {None}] /\ Rows' = Rows /\ \A u \in Rows : u \in Uids /\ users[u] \in UserRows
  BY RowTypes, ExpiresRows, Zenon DEF TypeOK, Touched
<1>2. req' = req
  BY Zenon DEF Expires
<1>3. \A v \in Rows : users'[v] = users[v] \/ users'[v].lock = "lapsed"
  <2>1. CASE users' = users
    BY <2>1, Zenon
  <2>2. ASSUME NEW u \in Rows, users' = [users EXCEPT ![u].lock = "lapsed"]
        PROVE  users'[u].lock = "lapsed" /\ \A v \in Uids \ {u} : users'[v] = users[v]
    BY <1>1, <2>2, Zenon DEF UserRows
  <2> QED
    BY <1>1, <2>1, <2>2, Zenon DEF Expires, Expire
<1> QED
  BY <1>1, <1>2, <1>3, LocksKept, Zenon DEF AtLimit

(***************************************************************************)
(* The invariant.                                                          *)
(***************************************************************************)

LEMMA InvInit ==
    Init => IInv
<1> SUFFICES ASSUME Init PROVE IInv
  BY Zenon
<1>1. Rows = {}
  BY Zenon DEF Init, Rows
<1>2. \A c \in Clients : req[c] = Idle /\ cookies[c] = NoCookies
  BY Zenon DEF Init
<1>3. req \in [Clients -> Requests] /\ cookies \in [Clients -> CookieJars]
  BY Zenon DEF Init, Idle, NoCookies, Requests, CookieJars
<1>4. \A c \in Clients : ReqTyped(c) /\ ReqSound(c) /\ CookieSound(c)
  BY <1>2 DEF Idle, NoCookies, ReqTyped, ReqSound, CookieSound
<1>5. /\ users \in [Uids -> UserRows \cup {None}] /\ sessions \in [Tokens -> SessionRows \cup {None}]
      /\ nextId \in 1..(MaxUsers + 1) /\ faults \in 0..MaxFaults /\ codeUses \in [Uids -> Nat]
  BY SignInConstants DEF Init
<1>6. TypeOK
  BY <1>1, <1>3, <1>4, <1>5, Zenon DEF TypeOK, ReqTyped
<1>7. OneRowPerIdentity /\ LimitLocks /\ OneAdmin
  BY <1>1, Zenon DEF OneRowPerIdentity, LimitLocks, OneAdmin
<1>8. CodesSound /\ SessionsEarned
  BY <1>1 DEF Init, CodesSound, SessionsEarned, SessionsAdmissible, StepUpByOwner
<1> QED
  BY <1>4, <1>6, <1>7, <1>8, Zenon DEF IInv, TablesSound

\* A step of the request of c keeps its own request and cookies sound, the
\* sessions, and the locks.
LEMMA ClientStep ==
    ASSUME IInv, RowStep, NEW c \in Clients,
           CreateAdmin(c) \/ ConfirmUserTOTP(c) \/ Provision(c) \/ Quiet(c) \/ Counting(c)
    PROVE  Moves(c) /\ Sessions /\ LimitLocks'
<1>1. /\ TypeOK /\ Table /\ LimitLocks /\ ReqSound(c) /\ CookieSound(c) /\ SessionsEarned /\ SessionsAdmissible
  BY Zenon DEF IInv, TablesSound, Table, TypeOK, SessionsEarned
<1>2. CASE CreateAdmin(c)
  BY <1>1, <1>2, CreateAdminMoves, SweptSessions, NewRowLocks, Zenon DEF Moves
<1>3. CASE ConfirmUserTOTP(c)
  <2>1. sessions' = sessions
    BY <1>3, Zenon DEF ConfirmUserTOTP
  <2> QED
    BY <1>1, <1>3, <2>1, ConfirmUserMoves, SameSessions, ConfirmLocks, Zenon DEF Moves
<1>4. CASE Provision(c)
  <2>1. sessions' = sessions
    BY <1>4, Zenon DEF Provision
  <2> QED
    BY <1>1, <1>4, <2>1, ProvisionMoves, SameSessions, NewRowLocks, Zenon DEF Moves
<1>5. CASE Counting(c)
  <2>1. sessions' = sessions
    BY <1>5, Zenon DEF Counting, LoginTOTP, ResetFailedLogins, IncrementFailedLogins, LockUser
  <2>2. Touched
    BY <1>1, <1>5, CountingRows, Zenon
  <2> QED
    BY <1>1, <1>5, <2>1, <2>2, CountingMoves, SameSessions, CountingLocks, Zenon DEF Moves
<1>6. CASE Quiet(c)
  <2>1. Moves(c)
    <3>1. Redeem(c) => Moves(c)
      BY <1>1, RedeemMoves, Zenon
    <3>2. ConfirmTOTP(c) => Moves(c)
      BY <1>1, ConfirmMoves, Zenon
    <3>3. Login(c) => Moves(c)
      BY <1>1, LoginMoves, Zenon
    <3>4. StepUp(c) => Moves(c)
      BY <1>1, StepUpMoves, Zenon
    <3>5. OIDCLogin(c) => Moves(c)
      BY <1>1, OIDCLoginMoves, Zenon
    <3>6. OIDCCallback(c) => Moves(c)
      BY <1>1, CallbackMoves, Zenon
    <3>7. Reread(c) => Moves(c)
      BY <1>1, RereadMoves, Zenon
    <3>8. CallFails(c) => Moves(c)
      BY <1>1, CallFailsMoves, Zenon
    <3>9. MintSession(c) => Moves(c)
      BY <1>1, MintSessions, Zenon
    <3>10. Logout(c) => Moves(c)
      BY <1>1, LogoutSessions, Zenon
    <3>11. MarkSessionReauth(c) => Moves(c)
      BY <1>1, MarkSessions, Zenon
    <3> QED
      BY <1>6, <3>1, <3>2, <3>3, <3>4, <3>5, <3>6, <3>7, <3>8, <3>9, <3>10, <3>11, Zenon DEF Quiet
  <2>2. Sessions
    <3>1. MintSession(c) => Sessions
      BY <1>1, MintSessions, Zenon
    <3>2. Logout(c) => Sessions
      BY <1>1, LogoutSessions, Zenon
    <3>3. MarkSessionReauth(c) => Sessions
      BY <1>1, MarkSessions, Zenon
    <3>4. CASE sessions' = sessions
      BY <1>1, <3>4, SameSessions, Zenon
    <3> QED
      BY <1>6, <3>1, <3>2, <3>3, <3>4, Zenon DEF Quiet, Redeem, ConfirmTOTP, Login, StepUp, OIDCLogin,
                                          OIDCCallback, Reread, CallFails
  <2> QED
    BY <1>1, <1>6, <2>1, <2>2, QuietLocks, Zenon DEF Moves
<1> QED
  BY <1>2, <1>3, <1>4, <1>5, <1>6, Zenon

LEMMA FaultsNext ==
    ASSUME TypeOK, [Next]_vars
    PROVE  faults' \in 0..MaxFaults
<1>1. faults \in 0..MaxFaults
  BY Zenon DEF TypeOK
<1>2. ASSUME NEW c \in Clients, CallFails(c)
      PROVE  faults' \in 0..MaxFaults
  BY <1>1, <1>2, SignInConstants DEF CallFails
<1>3. ASSUME NEW c \in Clients, CreateAdmin(c) \/ ConfirmUserTOTP(c) \/ Provision(c) \/ Counting(c)
      PROVE  faults' = faults
  BY <1>3, Zenon DEF CreateAdmin, ConfirmUserTOTP, Provision, Counting, LoginTOTP, ResetFailedLogins,
              IncrementFailedLogins, LockUser
<1>4. ASSUME NEW c \in Clients, Quiet(c), ~CallFails(c)
      PROVE  faults' = faults
  BY <1>4, Zenon DEF Quiet, Redeem, ConfirmTOTP, MintSession, Login, Logout, StepUp, MarkSessionReauth, OIDCLogin,
              OIDCCallback, Reread
<1>5. CASE Expires \/ UNCHANGED vars
  BY <1>1, <1>5, Zenon DEF Expires, vars
<1> QED
  BY <1>1, <1>2, <1>3, <1>4, <1>5, NextSplit, Zenon

LEMMA InvNext ==
    IInv /\ [Next]_vars => IInv'
<1> SUFFICES ASSUME IInv, [Next]_vars PROVE IInv'
  BY Zenon
<1>1. /\ TypeOK /\ Table /\ LimitLocks /\ CodesSound /\ SessionsEarned /\ SessionsAdmissible
      /\ \A c \in Clients : ReqSound(c) /\ CookieSound(c)
  BY Zenon DEF IInv, TablesSound, Table, TypeOK, SessionsEarned
<1>2. RowStep /\ Table'
  BY <1>1, RowsNext, Zenon
<1>3. CodesSound' /\ codeUses' \in [Uids -> Nat] /\ faults' \in 0..MaxFaults
  BY <1>1, <1>2, CodesNext, FaultsNext, Zenon
<1>4. /\ Sessions /\ LimitLocks'
      /\ req' \in [Clients -> Requests] /\ cookies' \in [Clients -> CookieJars]
      /\ \A d \in Clients : ReqTyped(d)' /\ ReqSound(d)' /\ CookieSound(d)'
  <2>1. ASSUME NEW c \in Clients,
               CreateAdmin(c) \/ ConfirmUserTOTP(c) \/ Provision(c) \/ Quiet(c) \/ Counting(c)
        PROVE  <1>4!:
    <3>1. Moves(c) /\ Sessions /\ LimitLocks'
      BY <1>2, <2>1, ClientStep, Zenon
    <3>2. \A d \in Clients \ {c} : ReqTyped(d)' /\ ReqSound(d)'
      BY <1>1, <1>2, <3>1, ReqKept, Zenon DEF Moves, Others, Sessions
    <3>3. \A d \in Clients \ {c} : CookieSound(d)'
      BY <1>1, <1>2, <3>1, CookieKept, Zenon DEF Moves, OtherJars
    <3> QED
      BY <3>1, <3>2, <3>3, Zenon DEF Moves, Others, OtherJars
  <2>2. CASE Expires \/ UNCHANGED vars
    <3>1. req' = req /\ cookies' = cookies
      BY <2>2, Zenon DEF Expires, vars
    <3>2. Sessions
      BY <1>1, <1>2, <2>2, ExpiredSessions, SameSessions, Zenon DEF vars
    <3>3. LimitLocks'
      <4>1. CASE UNCHANGED vars
        BY <1>1, <4>1, SameRows, LocksKept, Zenon DEF vars, AtLimit
      <4> QED
        BY <1>1, <2>2, <4>1, ExpiresLocks, Zenon
    <3>4. \A d \in Clients : ReqTyped(d)' /\ ReqSound(d)' /\ CookieSound(d)'
      BY <1>1, <1>2, <3>1, <3>2, ReqKept, CookieKept, Zenon DEF Sessions
    <3> QED
      BY <1>1, <3>1, <3>2, <3>3, <3>4, Zenon DEF TypeOK
  <2> QED
    BY <2>1, <2>2, NextSplit, Zenon
<1>5. TypeOK'
  <2>1. users' \in [Uids -> UserRows \cup {None}] /\ nextId' \in 1..(MaxUsers + 1)
    BY <1>1, <1>2 DEF RowStep, TypeOK
  <2>2. sessions' \in [Tokens -> SessionRows \cup {None}]
    BY <1>4, Zenon DEF Sessions, SessionStep
  <2> QED
    BY <1>2, <1>3, <1>4, <2>1, <2>2, Zenon DEF TypeOK, Table, ReqTyped
<1> QED
  BY <1>2, <1>3, <1>4, <1>5, Zenon DEF IInv, TablesSound, Table, Sessions

LEMMA Invariance ==
    Spec => []IInv
  BY InvInit, InvNext, PTL DEF Spec

(***************************************************************************)
(* The theorems.                                                           *)
(***************************************************************************)

\* The table of users stays typed, with one row per identity and per name, and no
\* account at its limit of failed logins is neither locked nor about to be.
THEOREM TablesStaySound ==
    Spec => []TablesSound
<1>1. IInv => TablesSound
  BY Zenon DEF IInv
<1> QED
  BY <1>1, Invariance, PTL

\* Every session belongs to the confirmed admin or to an identity of the provider
\* and counts as stepped up only if its own user did that, however mintSession,
\* MarkSessionReauth and the sweep of a redeem interleave.
THEOREM SessionsStayEarned ==
    Spec => []SessionsEarned
<1>1. IInv => SessionsEarned
  BY Zenon DEF IInv
<1> QED
  BY <1>1, Invariance, PTL

\* A recovery code opens at most one sign-in: ConsumeRecoveryCode checks and spends
\* it in one statement.
THEOREM CodesOpenOnce ==
    Spec => []RecoveryCodeOnce
<1>1. IInv => RecoveryCodeOnce
  BY Zenon DEF IInv, CodesSound, RecoveryCodeOnce
<1> QED
  BY <1>1, Invariance, PTL

\* The bootstrap makes at most one administrator (the index over confirmed rows),
\* and no later redeem deletes a user who may sign in (DeleteUnconfirmedUsers).
THEOREM BootstrapMakesOne ==
    Spec => BootstrapOnce
<1>1. IInv /\ [Next]_vars => [\A u \in Rows : Admissible(u) => users'[u] # None]_vars
  <2> SUFFICES ASSUME IInv, [Next]_vars PROVE \A u \in Rows : Admissible(u) => users'[u] # None
    BY Zenon
  <2>1. TypeOK /\ Table /\ \A c \in Clients : ReqSound(c)
    BY Zenon DEF IInv, TablesSound, Table, TypeOK
  <2>2. RowStep
    BY <2>1, RowsNext, Zenon
  <2> QED
    BY <2>2, Zenon DEF RowStep, Rows
<1>2. Spec => RedeemSpares
  BY <1>1, Invariance, PTL DEF Spec, RedeemSpares
<1>3. IInv => OneAdmin
  BY Zenon DEF IInv
<1>4. Spec => []OneAdmin
  BY <1>3, Invariance, PTL
<1> QED
  BY <1>2, <1>4, PTL DEF BootstrapOnce

\* An allowed identity that has a row, perhaps since a moment ago, is never refused:
\* the insert that loses the race of two first sign-ins is followed by a read.
THEOREM FirstSignInsBothSucceed ==
    Spec => FirstSignInRace
<1> DEFINE Served == \A c \in Clients :
              (req[c].pc \in {"provision", "reread"} /\ GetUserByOIDC(req[c].who) # {} /\ faults' = faults)
              => req'[c].pc # "idle"
<1>1. IInv /\ [Next]_vars => Served
  <2> SUFFICES ASSUME IInv, [Next]_vars, NEW c \in Clients,
                      req[c].pc \in {"provision", "reread"}, GetUserByOIDC(req[c].who) # {}, faults' = faults
               PROVE  req'[c].pc # "idle"
    BY Zenon
  <2>1. TypeOK /\ req[c].who \in Subjects /\ faults \in Nat
    <3>1. TypeOK
      BY Zenon DEF IInv, TablesSound
    <3>2. req[c].pc \in {"provision", "reread"} => req[c].who \in Subjects
      BY <3>1, Zenon DEF TypeOK
    <3>3. faults \in Nat
      BY <3>1, SignInConstants DEF TypeOK
    <3> QED
      BY <3>1, <3>2, <3>3, Zenon
  <2>2. TypeOK /\ Table /\ \A d \in Clients : ReqSound(d)
    BY Zenon DEF IInv, TablesSound, Table, TypeOK
  <2>3. CASE Provision(c)
    <3>1. Taken(req[c].who) # {}
      BY Zenon DEF Taken
    <3>2. GotoWho(c, "reread", req[c].who)
      BY <2>3, <3>1, Zenon DEF Provision
    <3> QED
      BY <2>1, <3>2, GotoWhoTypes, Zenon DEF TypeOK
  <2>4. CASE Reread(c)
    <3>1. PICK u \in GetUserByOIDC(req[c].who) : GotoUid(c, "mint", u)
      BY <2>4, Zenon DEF Reread
    <3>2. u \in Uids
      BY Zenon DEF GetUserByOIDC, Rows
    <3> QED
      BY <2>1, <3>1, <3>2, GotoUidTypes, Zenon DEF TypeOK
  <2>5. ASSUME NEW d \in Clients, d # c,
               CreateAdmin(d) \/ ConfirmUserTOTP(d) \/ Provision(d) \/ Quiet(d) \/ Counting(d)
        PROVE  req'[c] = req[c]
    <3>1. Moves(d)
      BY <2>2, <2>5, RowsNext, ClientStep, Zenon
    <3> QED
      BY <2>5, <3>1, Zenon DEF Moves, Others
  <2>6. CASE Expires \/ UNCHANGED vars
    BY <2>6, Zenon DEF Expires, vars
  <2>7. CASE CreateAdmin(c) \/ ConfirmUserTOTP(c) \/ Quiet(c) \/ Counting(c)
    <3>1. ~CallFails(c)
      BY <2>1 DEF CallFails
    <3>2. Reread(c)
      BY <2>7, <3>1, Zenon DEF CreateAdmin, ConfirmUserTOTP, Quiet, Counting, LoginTOTP, ResetFailedLogins,
            IncrementFailedLogins, LockUser, Redeem, ConfirmTOTP, MintSession, Login, Logout, StepUp,
            MarkSessionReauth, OIDCLogin, OIDCCallback, Allow
    <3> QED
      BY <2>4, <3>2, Zenon
  <2> QED
    BY <2>3, <2>5, <2>6, <2>7, NextSplit, Zenon
<1>2. IInv /\ [Next]_vars => [Served]_vars
  BY <1>1, Zenon
<1> QED
  BY <1>2, Invariance, PTL DEF Spec, FirstSignInRace
=============================================================================
