-------------------------------- MODULE SignIn --------------------------------
(***************************************************************************)
(* Signing in to the dashboard: the bootstrap of the one local admin, its  *)
(* password and second factor with lockout and recovery code, single       *)
(* sign-on, sessions and step-up.                                          *)
(*                                                                         *)
(*   dashboard/internal/server/{auth,session,store,ratelimit,oidc}.go      *)
(*   dashboard/internal/oidc/oidc.go, internal/db/{users,sessions}.sql.go  *)
(*                                                                         *)
(* Several browsers send requests at once.  A handler is a sequence of     *)
(* database calls, each of which is atomic; between two of them the other  *)
(* requests run.  Checks that read only what the request carries are part  *)
(* of the step that follows them.  The identity provider answers with any  *)
(* of its accounts.  Time only makes things expire.                        *)
(***************************************************************************)
EXTENDS Integers, FiniteSets

CONSTANTS
    None,
    Clients,         \* browsers; each is one address for the rate limiter
    Names,           \* the user names a redeem may choose
    Subjects,        \* accounts at the identity provider
    Email,           \* [Subjects -> the e-mail claim]
    Verified,        \* subjects whose e-mail is verified
    Groups,          \* [Subjects -> the groups claim]
    AllowedEmails, AllowedGroups,
    MaxFailed,       \* maxFailedLogins
    RateMax,         \* rateLimitMax
    MaxUsers,        \* bound on the rows of users that are ever created
    MaxTokens,       \* bound on the sessions that exist at a time
    MaxWindows,      \* bound on the rate-limit windows after the first
    MaxFaults        \* bound on failed database calls

Uids   == 1..MaxUsers
Tokens == 1..MaxTokens

ASSUME SignInConstants ==
    /\ None \notin Subjects /\ None \notin Uids \cup Tokens
    /\ DOMAIN Email = Subjects /\ DOMAIN Groups = Subjects /\ Verified \subseteq Subjects
    /\ MaxFailed \in Nat \ {0} /\ RateMax \in Nat /\ MaxUsers \in Nat /\ MaxTokens \in Nat
    /\ MaxWindows \in Nat /\ MaxFaults \in Nat

Local == "local admin"

\* The rows of users and sessions, the cookies and the request of a browser.
UserRows ==
    [name : Names \cup {Email[s] : s \in Subjects}, subject : Subjects \cup {None},
     confirmed : BOOLEAN, failed : 0..MaxFailed, lock : {"none", "locked", "lapsed"}, code : BOOLEAN]
SessionRows == [uid : Uids, reauth : Subjects \cup {None, Local}]
Challenges  == [uid : Uids, stage : {"enroll", "totp"}]
Flows       == [reauth : BOOLEAN, uid : Uids \cup {None}, session : Tokens \cup {None}]
CookieJars  == [challenge : Challenges \cup {None}, session : Tokens \cup {None}, flow : Flows \cup {None}]
Requests ==
    [pc : {"idle", "redeem", "confirm", "mint", "count", "lock", "reset", "mark", "provision", "reread"},
     uid : Uids \cup {None}, who : Names \cup Subjects \cup {None, Local}, token : Tokens \cup {None}]

ASSUME NoneIsNoRow == None \notin UserRows \cup SessionRows \cup Challenges \cup Flows

VARIABLES
    users,      \* [Uids -> row or None]
    nextId,     \* the identity column of users
    sessions,   \* [Tokens -> [uid, reauth] or None]; reauth: the identity re-proved lately
    cookies,    \* [Clients -> [challenge, session, flow]]
    req,        \* [Clients -> the request in hand]
    count,      \* [Clients -> requests in the rate limiter's window]
    windows, faults,
    codeUses    \* [Uids -> sign-ins that the recovery code opened] (history)

vars == <<users, nextId, sessions, cookies, req, count, windows, faults, codeUses>>

Idle == [pc |-> "idle", uid |-> None, who |-> None, token |-> None]
NoCookies == [challenge |-> None, session |-> None, flow |-> None]

Init ==
    /\ users = [u \in Uids |-> None] /\ nextId = 1
    /\ sessions = [t \in Tokens |-> None]
    /\ cookies = [c \in Clients |-> NoCookies]
    /\ req = [c \in Clients |-> Idle]
    /\ count = [c \in Clients |-> 0] /\ windows = 0 /\ faults = 0
    /\ codeUses = [u \in Uids |-> 0]

(***************************************************************************)
(* The tables.                                                             *)
(***************************************************************************)

Rows == {u \in Uids : users[u] # None}

CountConfirmedAdmins == Cardinality({u \in Rows : users[u].confirmed})

\* Mutant of NewRow: a row of single sign-on counts as a confirmed admin.
NewRow_Confirmed(name, subject) ==
    [name |-> name, subject |-> subject, confirmed |-> subject # None, failed |-> 0, lock |-> "none",
     code |-> subject = None]

\* CreateUser, CreateOIDCUser: a row of its own; the recovery code is unused.
NewRow(name, subject) ==
    [name |-> name, subject |-> subject, confirmed |-> FALSE, failed |-> 0, lock |-> "none",
     code |-> subject = None]

GetUserByUsername(n) == {u \in Rows : users[u].name = n}
GetUserByOIDC(s) == {u \in Rows : users[u].subject = s}

\* Mutant of Abandoned: the sweep also takes the rows of single sign-on.
Abandoned_AnyUnconfirmed(u) == ~users[u].confirmed

\* The rows DeleteUnconfirmedUsers deletes.
Abandoned(u) == ~users[u].confirmed /\ users[u].subject = None

\* Mutant of ConfirmConflicts: without users_single_confirmed_admin.
ConfirmConflicts_Never(u) == FALSE

\* The unique index over confirmed rows.
ConfirmConflicts(u) == u \in Rows /\ \E v \in Rows \ {u} : users[v].confirmed

\* Mutant of SessionInsertable: without the foreign key on users.
SessionInsertable_AnyUser(u) == TRUE

SessionInsertable(u) == u \in Rows

\* The identity a session stands for.
Identity(u) == IF users[u].subject = None THEN Local ELSE users[u].subject

(***************************************************************************)
(* Requests.                                                               *)
(***************************************************************************)

\* The limiter's middleware: a request over budget is answered 429.
Allow(c) ==
    /\ req[c].pc = "idle"
    /\ count[c] < RateMax /\ count' = [count EXCEPT ![c] = @ + 1]

\* The next call of c's handler, about a row, or about a name or an account.
GotoUid(c, pc, u) == req' = [req EXCEPT ![c] = [Idle EXCEPT !.pc = pc, !.uid = u]]
GotoWho(c, pc, w) == req' = [req EXCEPT ![c] = [Idle EXCEPT !.pc = pc, !.who = w]]
GotoMark(c, w, t) == req' = [req EXCEPT ![c] = [Idle EXCEPT !.pc = "mark", !.who = w, !.token = t]]
Done(c) == req' = [req EXCEPT ![c] = Idle]
Drop(c, k) == cookies' = [cookies EXCEPT ![c] = [@ EXCEPT ![k] = None]]

\* handleRedeem counts the confirmed admins, then creates one.
Redeem(c) ==
    /\ Allow(c)
    /\ CountConfirmedAdmins = 0
    /\ \E n \in Names : GotoWho(c, "redeem", n)
    /\ UNCHANGED <<users, nextId, sessions, cookies, windows, faults, codeUses>>

\* CreateAdmin: one transaction sweeps abandoned enrolments (their sessions with
\* them), inserts the row and its recovery codes.  A name that is taken fails it.
CreateAdmin(c) ==
    /\ req[c].pc = "redeem"
    /\ LET kept == {u \in Rows : ~Abandoned(u)} IN
       \/ /\ req[c].who \notin {users[u].name : u \in kept} /\ nextId \in Uids
          /\ users' = [u \in Uids |-> IF u \in kept THEN users[u]
                                      ELSE IF u = nextId THEN NewRow(req[c].who, None) ELSE None]
          /\ nextId' = nextId + 1
          /\ sessions' = [t \in Tokens |-> IF sessions[t] = None THEN None
                                           ELSE IF sessions[t].uid \in kept THEN sessions[t] ELSE None]
          /\ cookies' = [cookies EXCEPT ![c].challenge = [uid |-> nextId, stage |-> "enroll"]]
       \/ /\ req[c].who \in {users[u].name : u \in kept}
          /\ UNCHANGED <<users, nextId, sessions, cookies>>
    /\ Done(c)
    /\ UNCHANGED <<count, windows, faults, codeUses>>

\* readChallenge
Challenged(c, stage) == cookies[c].challenge # None /\ cookies[c].challenge.stage = stage
ChallengeUid(c) == cookies[c].challenge.uid

\* handleConfirmTOTP: an enrolment that is still there and unconfirmed, and a
\* valid code.
ConfirmTOTP(c) ==
    /\ Challenged(c, "enroll") /\ Allow(c)
    /\ LET u == ChallengeUid(c) IN u \in Rows /\ ~users[u].confirmed /\ GotoUid(c, "confirm", u)
    /\ UNCHANGED <<users, nextId, sessions, cookies, windows, faults, codeUses>>

\* ConfirmUserTOTP: the index refuses a second confirmed row; of a row that was
\* swept meanwhile the update changes nothing and is no error.
ConfirmUserTOTP(c) ==
    /\ req[c].pc = "confirm"
    /\ LET u == req[c].uid IN
       \/ /\ ConfirmConflicts(u) /\ Done(c) /\ UNCHANGED <<users, cookies>>
       \/ /\ ~ConfirmConflicts(u)
          /\ users' = [users EXCEPT ![u] = IF @ = None THEN None ELSE [@ EXCEPT !.confirmed = TRUE]]
          /\ Drop(c, "challenge") /\ GotoUid(c, "mint", u)
    /\ UNCHANGED <<nextId, sessions, count, windows, faults, codeUses>>

\* A token is random: no new session has one that a cookie or a request still holds.
Remembered(t) ==
    \E c \in Clients : \/ cookies[c].session = t \/ req[c].token = t
                       \/ cookies[c].flow # None /\ cookies[c].flow.session = t

\* mintSession, from every way to sign in.
MintSession(c) ==
    /\ req[c].pc = "mint"
    /\ LET u == req[c].uid
           free == {t \in Tokens : sessions[t] = None /\ ~Remembered(t)}
       IN \/ /\ SessionInsertable(u) /\ free # {}
             /\ LET t == CHOOSE x \in free : TRUE IN
                   /\ sessions' = [sessions EXCEPT ![t] = [uid |-> u, reauth |-> None]]
                   /\ cookies' = [cookies EXCEPT ![c].session = t]
          \/ ~SessionInsertable(u) /\ UNCHANGED <<sessions, cookies>>
    /\ Done(c)
    /\ UNCHANGED <<users, nextId, count, windows, faults, codeUses>>

\* handleLogin: an unknown or a linked user, a locked one, a wrong password, an
\* enrolment that was not finished; or the challenge for the second factor.
Login(c) ==
    /\ Allow(c)
    /\ \E n \in Names : \E u \in GetUserByUsername(n) :
          /\ users[u].subject = None /\ users[u].lock # "locked" /\ users[u].confirmed
          /\ \/ /\ GotoUid(c, "count", u) /\ UNCHANGED cookies
             \/ /\ cookies' = [cookies EXCEPT ![c].challenge = [uid |-> u, stage |-> "totp"]]
                /\ UNCHANGED req
    /\ UNCHANGED <<users, nextId, sessions, windows, faults, codeUses>>

\* Mutant of Unused: a spent code is taken again.
Unused_Any(u) == TRUE

\* ConsumeRecoveryCode's WHERE used_at IS NULL.
Unused(u) == users[u].code

\* handleLoginTOTP, secondFactorOK: a TOTP code, or the recovery code, which one
\* statement checks and spends.
LoginTOTP(c) ==
    /\ Challenged(c, "totp") /\ Allow(c)
    /\ LET u == ChallengeUid(c) IN
       /\ u \in Rows /\ users[u].confirmed
       /\ \/ GotoUid(c, "count", u) /\ UNCHANGED <<users, codeUses>>
          \/ GotoUid(c, "reset", u) /\ UNCHANGED <<users, codeUses>>
          \/ /\ Unused(u) /\ GotoUid(c, "reset", u)
             /\ users' = [users EXCEPT ![u].code = FALSE]
             /\ codeUses' = [codeUses EXCEPT ![u] = @ + 1]
    /\ UNCHANGED <<nextId, sessions, cookies, windows, faults>>

\* ResetFailedLogins
ResetFailedLogins(c) ==
    /\ req[c].pc = "reset"
    /\ users' = [users EXCEPT ![req[c].uid].failed = 0, ![req[c].uid].lock = "none"]
    /\ Drop(c, "challenge") /\ GotoUid(c, "mint", req[c].uid)
    /\ UNCHANGED <<nextId, sessions, count, windows, faults, codeUses>>

\* Mutant of Locks: the account is locked one failure late.
Locks_Late(n) == n > MaxFailed

\* recordFailedLogin: count >= maxFailedLogins
Locks(n) == n >= MaxFailed

\* IncrementFailedLogins; a counter at the limit stays there in the model.
IncrementFailedLogins(c) ==
    /\ req[c].pc = "count"
    /\ LET u == req[c].uid
           n == users[u].failed + 1
       IN /\ users' = [users EXCEPT ![u].failed = IF n > MaxFailed THEN MaxFailed ELSE n]
          /\ IF Locks(n) THEN GotoUid(c, "lock", u) ELSE Done(c)
    /\ UNCHANGED <<nextId, sessions, cookies, count, windows, faults, codeUses>>

LockUser(c) ==
    /\ req[c].pc = "lock"
    /\ users' = [users EXCEPT ![req[c].uid].lock = "locked"]
    /\ Done(c)
    /\ UNCHANGED <<nextId, sessions, cookies, count, windows, faults, codeUses>>

\* resolveSession: the cookie's session exists, and its user may have one.
Admissible(u) == u \in Rows /\ (users[u].confirmed \/ users[u].subject # None)
Resolved(c) ==
    LET t == cookies[c].session IN
    IF t = None THEN FALSE ELSE IF sessions[t] = None THEN FALSE ELSE Admissible(sessions[t].uid)
SessionUser(c) == sessions[cookies[c].session].uid

Logout(c) ==
    /\ Resolved(c) /\ Allow(c)
    /\ sessions' = [sessions EXCEPT ![cookies[c].session] = None]
    /\ Drop(c, "session")
    /\ UNCHANGED <<users, nextId, req, windows, faults, codeUses>>

\* handleStepUp: only for a local admin, who gives a valid code.
StepUp(c) ==
    /\ Resolved(c) /\ Allow(c)
    /\ users[SessionUser(c)].subject = None
    /\ GotoMark(c, Local, cookies[c].session)
    /\ UNCHANGED <<users, nextId, sessions, cookies, windows, faults, codeUses>>

\* MarkSessionReauth: of a session that is gone the update changes nothing.
MarkSessionReauth(c) ==
    /\ req[c].pc = "mark"
    /\ LET t == req[c].token IN
          sessions' = [sessions EXCEPT ![t] = IF @ = None THEN None ELSE [@ EXCEPT !.reauth = req[c].who]]
    /\ Done(c)
    /\ UNCHANGED <<users, nextId, cookies, count, windows, faults, codeUses>>

(***************************************************************************)
(* Single sign-on.                                                         *)
(***************************************************************************)

\* handleOIDCLogin: the flow cookie; a step-up carries the session it is for.
OIDCLogin(c) ==
    /\ Allow(c)
    /\ \/ cookies' = [cookies EXCEPT ![c].flow = [reauth |-> FALSE, uid |-> None, session |-> None]]
       \/ /\ Resolved(c) /\ users[SessionUser(c)].subject # None
          /\ cookies' = [cookies EXCEPT ![c].flow =
                            [reauth |-> TRUE, uid |-> SessionUser(c), session |-> cookies[c].session]]
    /\ UNCHANGED <<users, nextId, sessions, req, windows, faults, codeUses>>

\* Authorize: a verified e-mail of the list, or a group of the list.
Authorize(s) ==
    \/ s \in Verified /\ Email[s] \in AllowedEmails
    \/ Groups[s] \cap AllowedGroups # {}

\* Mutant of SameIdentity: any allowed account may step up.
SameIdentity_Any(u, s) == TRUE

SameIdentity(u, s) == users[u].subject = s

\* completeOIDCStepUp: the session that began the flow, still there, and its own
\* identity.
CompleteStepUp(c, f, s) ==
    IF sessions[f.session] = None THEN Done(c)
    ELSE IF sessions[f.session].uid = f.uid /\ SameIdentity(f.uid, s) THEN GotoMark(c, s, f.session)
    ELSE Done(c)

\* handleOIDCCallback: the flow cookie is spent; the exchange fails, or verifies
\* an account, which the list admits or not.
OIDCCallback(c) ==
    /\ cookies[c].flow # None /\ Allow(c)
    /\ Drop(c, "flow")
    /\ \/ Done(c)
       \/ \E s \in Subjects :
             /\ Authorize(s)
             /\ LET f == cookies[c].flow IN
                IF f.reauth THEN CompleteStepUp(c, f, s)
                ELSE IF GetUserByOIDC(s) # {}
                THEN \E u \in GetUserByOIDC(s) : GotoUid(c, "mint", u)
                ELSE GotoWho(c, "provision", s)
    /\ UNCHANGED <<users, nextId, sessions, windows, faults, codeUses>>

\* Mutant of Taken: names need not be unique.
Taken_ByIdentity(s) == GetUserByOIDC(s)

\* The unique indexes over names and over identities.
Taken(s) == GetUserByOIDC(s) \cup GetUserByUsername(Email[s])

\* CreateOIDCUser: names and identities are unique.
Provision(c) ==
    /\ req[c].pc = "provision"
    /\ LET s == req[c].who IN
       \/ /\ Taken(s) = {} /\ nextId \in Uids
          /\ users' = [users EXCEPT ![nextId] = NewRow(Email[s], s)]
          /\ nextId' = nextId + 1
          /\ GotoUid(c, "mint", nextId)
       \/ /\ Taken(s) # {} /\ GotoWho(c, "reread", s)
          /\ UNCHANGED <<users, nextId>>
    /\ UNCHANGED <<sessions, cookies, count, windows, faults, codeUses>>

\* Mutant of Reread: a lost race is an error.
Reread_Refused(c) ==
    /\ req[c].pc = "reread" /\ Done(c)
    /\ UNCHANGED <<users, nextId, sessions, cookies, count, windows, faults, codeUses>>

\* resolveOIDCUser after a failed insert: the row of the identity, if another
\* request made it; otherwise the name is another user's, and that is an error.
Reread(c) ==
    /\ req[c].pc = "reread"
    /\ LET rows == GetUserByOIDC(req[c].who) IN
       \/ \E u \in rows : GotoUid(c, "mint", u)
       \/ rows = {} /\ Done(c)
    /\ UNCHANGED <<users, nextId, sessions, cookies, count, windows, faults, codeUses>>

(***************************************************************************)
(* A failed database call ends the request with an error; the reset of the *)
(* failure count is best effort.                                           *)
(***************************************************************************)

CallFails(c) ==
    /\ faults < MaxFaults /\ faults' = faults + 1
    /\ \/ req[c].pc \in {"redeem", "confirm", "mint", "mark", "provision", "reread"} /\ Done(c) /\ UNCHANGED cookies
       \/ req[c].pc = "reset" /\ GotoUid(c, "mint", req[c].uid) /\ Drop(c, "challenge")
    /\ UNCHANGED <<users, nextId, sessions, count, windows, codeUses>>

\* A cookie that expires only makes the request that needs it fail.
Expire ==
    \/ /\ windows < MaxWindows /\ windows' = windows + 1
       /\ \E c \in Clients : count[c] > 0 /\ count' = [count EXCEPT ![c] = 0]
       /\ UNCHANGED <<users, sessions>>
    \/ /\ \E u \in Rows : users[u].lock = "locked" /\ users' = [users EXCEPT ![u].lock = "lapsed"]
       /\ UNCHANGED <<sessions, count, windows>>
    \/ /\ \E t \in Tokens :
             /\ sessions[t] # None
             /\ \/ sessions' = [sessions EXCEPT ![t] = None]
                \/ sessions[t].reauth # None /\ sessions' = [sessions EXCEPT ![t].reauth = None]
       /\ UNCHANGED <<users, count, windows>>

Next ==
    \/ \E c \in Clients :
          \/ Redeem(c) \/ CreateAdmin(c) \/ ConfirmTOTP(c) \/ ConfirmUserTOTP(c) \/ MintSession(c)
          \/ Login(c) \/ LoginTOTP(c) \/ ResetFailedLogins(c) \/ IncrementFailedLogins(c) \/ LockUser(c)
          \/ Logout(c) \/ StepUp(c) \/ MarkSessionReauth(c)
          \/ OIDCLogin(c) \/ OIDCCallback(c) \/ Provision(c) \/ Reread(c) \/ CallFails(c)
    \/ Expire /\ UNCHANGED <<nextId, cookies, req, faults, codeUses>>

Spec == Init /\ [][Next]_vars

(***************************************************************************)
(* Properties.                                                             *)
(***************************************************************************)

\* The types of the tables, cookies and requests; a row's id was handed out, a
\* request in hand knows its user where its next call needs one.
TypeOK ==
    /\ users \in [Uids -> UserRows \cup {None}] /\ sessions \in [Tokens -> SessionRows \cup {None}]
    /\ cookies \in [Clients -> CookieJars] /\ req \in [Clients -> Requests]
    /\ nextId \in 1..(MaxUsers + 1) /\ Rows \subseteq 1..(nextId - 1)
    /\ \A u \in Rows : users[u].confirmed => users[u].subject = None
    /\ \A c \in Clients :
          /\ req[c].pc \in {"confirm", "mint", "count", "lock", "reset"} => req[c].uid \in 1..(nextId - 1)
          /\ req[c].pc = "redeem" => req[c].who \in Names
          /\ req[c].pc \in {"provision", "reread"} => req[c].who \in Subjects
          /\ req[c].pc = "mark" => req[c].who \in Subjects \cup {Local} /\ req[c].token \in Tokens
    /\ faults \in 0..MaxFaults /\ codeUses \in [Uids -> Nat]

\* However redeems, sweeps and confirmations of several browsers interleave,
\* at most one local admin is ever confirmed.
OneAdmin == \A u, v \in Rows : users[u].confirmed /\ users[v].confirmed => u = v

\* A session belongs to the confirmed admin or to an identity of the provider,
\* never to an enrolment that was abandoned or swept, although the confirmation
\* and the session are two statements.
SessionsAdmissible == \A t \in Tokens : sessions[t] # None => Admissible(sessions[t].uid)

\* A session that counts as stepped up was stepped up by its own user: the
\* local admin's second factor, or the account the session was opened with.
StepUpByOwner ==
    \A t \in Tokens : sessions[t] # None =>
        sessions[t].reauth \in {None, Identity(sessions[t].uid)}

\* A recovery code opens one sign-in, however many requests present it at once.
RecoveryCodeOnce == \A u \in Uids : codeUses[u] <= 1

\* An account whose failures reached the limit is locked, was locked and has
\* lapsed, or is about to be locked by the request that counted the failure.
LimitLocks ==
    \A u \in Rows : (users[u].failed >= MaxFailed /\ users[u].lock = "none")
                    => \E c \in Clients : req[c].pc = "lock" /\ req[c].uid = u

\* No redeem deletes the confirmed admin or an identity of the provider.
RedeemSpares == [][\A u \in Rows : Admissible(u) => users'[u] # None]_vars

\* An allowed identity that has a row, be it from another request a moment ago,
\* is not refused: two browsers that sign in for the first time at once both get
\* in, as one user, unless a database call fails.
FirstSignInRace ==
    [][\A c \in Clients :
          (req[c].pc \in {"provision", "reread"} /\ GetUserByOIDC(req[c].who) # {} /\ faults' = faults)
          => req'[c].pc # "idle"]_vars

\* One row per identity, and one user per name.
OneRowPerIdentity ==
    \A u, v \in Rows : (u # v) => /\ users[u].name # users[v].name
                                  /\ users[u].subject # None => users[u].subject # users[v].subject

\* The user table stays sound under any interleaving of requests: types, one row
\* per identity and name, and no account at its limit of failures that is neither
\* locked nor about to be.
TablesSound == TypeOK /\ OneRowPerIdentity /\ LimitLocks

\* The bootstrap makes one administrator, and no later redeem takes away a user
\* who may sign in.
BootstrapOnce == []OneAdmin /\ RedeemSpares

\* Every session belongs to someone who may have one, and was stepped up by them.
SessionsEarned == SessionsAdmissible /\ StepUpByOwner
=============================================================================
