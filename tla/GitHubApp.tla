----------------------------- MODULE GitHubApp -----------------------------
(***************************************************************************)
(* The GitHub App: how the dashboard connects one                          *)
(* (dashboard/internal/server/github.go, with the markers setup.go keeps), *)
(* and how the operator uses it (operator/internal/githubapp) to find the  *)
(* commit a repository's branch is at.  The two meet only in the Secret    *)
(* that holds the App's credential, which the dashboard replaces without   *)
(* reading it and the operator reads anew for every App-level call.        *)
(*                                                                         *)
(* A connect creates an App of its own, so an App is named by the flow     *)
(* that creates it.  Time passes in steps of the HTTP client's timeout: a  *)
(* call takes at most one.                                                 *)
(***************************************************************************)
EXTENDS Naturals, FiniteSets

CONSTANTS
    Flows,            \* the connects, and the Apps they create
    First,            \* the App that is connected when a story starts with one
    Callers,          \* callers of ResolveCommit
    ExpiryGuard,      \* expiryGuard, in timeouts (8 in the code)
    Lifetime,         \* how long GitHub's installation tokens live
    MaxClock,         \* where the clock stops
    MaxTroubles       \* failed calls, and changes made on GitHub

\* After InstallationToken returns, at most two calls use the token.
ASSUME GuardCoversTheChain == ExpiryGuard >= 2 /\ Lifetime > ExpiryGuard + 1

ASSUME GitHubConstants ==
    /\ First \in Flows /\ "none" \notin Flows \union Callers
    /\ ExpiryGuard \in Nat /\ Lifetime \in Nat /\ MaxClock \in Nat /\ MaxTroubles \in Nat

VARIABLES
    cookie,           \* the browser's flow cookie
    flow,             \* flow -> where it is
    secret,           \* the Secrets orkano-github-app and orkano-webhook-secret
    settings,         \* the markers in the settings table
    github,           \* GitHub's side: the installations, and the branch
    caller,           \* caller -> where its ResolveCommit is
    lock,             \* who holds the TokenSource's mutex
    cache,            \* the cached installation tokens: installation -> expiry
    clock,
    troubles

connectVars == <<cookie, flow, settings>>

tokenVars == <<github, caller, lock, cache, clock>>

githubVars == <<connectVars, secret, tokenVars, troubles>>

-----------------------------------------------------------------------------

AppOrNone == Flows \union {"none"}

Flow == [pc : {"idle", "github", "exchange", "app", "hook", "slug", "id", "at",
               "connected", "failed"},
         overlapped : BOOLEAN]

Trouble == troubles < MaxTroubles /\ troubles' = troubles + 1

NoTrouble == UNCHANGED troubles

\* Every answer to the callback clears the flow cookie, whichever flow's it is.
To(f, pc) ==
    /\ flow' = [flow EXCEPT ![f].pc = pc]
    /\ cookie' = IF pc \in {"connected", "failed"} THEN "none" ELSE cookie

\* There is one flow cookie: it holds the state of the newest flow.
SetCookie(f) == cookie' = f

\* The cookie opens, has not expired and holds this flow's state.
HasCookie(f) == cookie = f

\* handleGitHubManifest.
StartManifest(f) ==
    /\ flow[f].pc = "idle"
    /\ SetCookie(f)
    /\ flow' = [flow EXCEPT ![f].pc = "github"]
    /\ UNCHANGED <<secret, settings, tokenVars, troubles>>

\* handleGitHubCallback, up to the exchange: the cookie must hold this flow's
\* state; it may have expired, and GitHub may report that the admin cancelled.
Callback(f) ==
    /\ flow[f].pc = "github"
    /\ \/ NoTrouble /\ To(f, IF HasCookie(f) THEN "exchange" ELSE "failed")
       \/ Trouble /\ To(f, "failed")
    /\ UNCHANGED <<secret, settings, tokenVars>>

\* Exchange: the code works once.
Exchange(f) ==
    /\ flow[f].pc = "exchange"
    /\ \/ NoTrouble /\ To(f, "app")
       \/ Trouble /\ To(f, "failed")
    /\ UNCHANGED <<secret, settings, tokenVars>>

\* Another flow is between its two Secrets.
Between(f) == {g \in Flows \ {f} : flow[g].pc = "hook"}

\* writeGitHubSecrets: the credential, then the webhook secret, each a blind
\* update; an update that fails may have taken place.
WriteApp(f) ==
    /\ flow[f].pc = "app"
    /\ \E ok \in BOOLEAN, done \in BOOLEAN :
         /\ ok => done
         /\ IF ok THEN NoTrouble ELSE Trouble
         /\ secret' = IF done THEN [secret EXCEPT !.app = f] ELSE secret
         /\ cookie' = IF ok THEN cookie ELSE "none"
         /\ flow' = [g \in Flows |->
                       [flow[g] EXCEPT !.pc = IF g # f THEN @
                                              ELSE IF ok THEN "hook" ELSE "failed",
                                       !.overlapped = @ \/ (g \in Between(f))
                                                        \/ (g = f /\ Between(f) # {})]]
    /\ UNCHANGED <<settings, tokenVars>>

\* Mutant of AfterHook: the second error is only logged.
AfterHook_Logged(ok) == "slug"

AfterHook(ok) == IF ok THEN "slug" ELSE "failed"

WriteHook(f) ==
    /\ flow[f].pc = "hook"
    /\ \E ok \in BOOLEAN, done \in BOOLEAN :
         /\ ok => done
         /\ IF ok THEN NoTrouble ELSE Trouble
         /\ secret' = IF done THEN [secret EXCEPT !.hook = f] ELSE secret
         /\ To(f, AfterHook(ok))
    /\ UNCHANGED <<settings, tokenVars>>

\* recordGitHubConnected: one upsert per key, connected_at last; a failed one is
\* only logged.
Upsert(f, key, pc) ==
    /\ flow[f].pc = key
    /\ \/ NoTrouble /\ settings' = [settings EXCEPT ![key] = f]
       \/ Trouble /\ UNCHANGED settings
    /\ To(f, pc)
    /\ UNCHANGED <<secret, tokenVars>>

RecordConnected(f) ==
    \/ Upsert(f, "slug", "id")
    \/ Upsert(f, "id", "at")
    \/ Upsert(f, "at", "connected")

-----------------------------------------------------------------------------

\* An installation is an App's and has a number; a later one has another number.
Installations == [app : Flows, n : 1..(MaxTroubles + 1)]

Live(i) == github.on[i.app] /\ github.n[i.app] = i.n

\* app and of: the App and the installation the call has read; tick: the request
\* under way has lasted a timeout; why: that App's installation or the branch
\* was missing at some time since the call read the App.
Caller == [pc : {"off", "read", "lookup", "lock", "credentials", "mint", "branch",
                 "commit", "unresolvable"},
           app : Flows \union {"none"},
           of : Installations \union {[app |-> "none", n |-> 0]},
           expires : Nat, tick : BOOLEAN, why : BOOLEAN]

NoCaller == [pc |-> "off", app |-> "none", of |-> [app |-> "none", n |-> 0],
             expires |-> 0, tick |-> FALSE, why |-> FALSE]

Requesting == {"read", "lookup", "credentials", "mint", "branch", "commit"}

Active == Requesting \union {"lock"}

NoWay(g, app) == app # "none" /\ (~g.on[app] \/ ~g.ref)

\* The App a call is about: of the installation it found, else of its first read.
About(v) == IF v.of.n > 0 THEN v.of.app ELSE v.app

\* The call goes on at pc with what it has read; a new request has a new timeout.
Goes(c, pc) == [caller[c] EXCEPT !.pc = pc, !.tick = FALSE]

\* The call is over: with a commit, or with an error the dispatcher retries.
Ended(c) == [caller EXCEPT ![c] = NoCaller]

\* The call is over with ErrUnresolvable: the dispatcher drops the push.
Unresolvable(c) ==
    [caller EXCEPT ![c] = [NoCaller EXCEPT !.pc = "unresolvable", !.why = caller[c].why]]

\* A request fails: a timeout, a 5xx, a rate limit. The call ends with an error
\* the dispatcher retries, and the deferred Unlock runs.
Fails(c) == Trouble /\ caller' = Ended(c)

\* ResolveCommit starts.
ResolveCommit(c) ==
    /\ caller[c].pc = "off"
    /\ clock < MaxClock
    /\ caller' = [caller EXCEPT ![c] = [NoCaller EXCEPT !.pc = "read"]]
    /\ UNCHANGED <<connectVars, secret, github, lock, cache, clock, troubles>>

\* mintAppJWT for installationID: the Secret is read; the placeholder has no key.
ReadCredentials(c) ==
    /\ caller[c].pc = "read"
    /\ \/ /\ NoTrouble
          /\ caller' = IF secret.app = "none" THEN Ended(c)
                       ELSE [caller EXCEPT ![c] =
                               [Goes(c, "lookup") EXCEPT !.app = secret.app,
                                                         !.why = NoWay(github, secret.app)]]
       \/ Fails(c)
    /\ UNCHANGED <<connectVars, secret, github, lock, cache, clock>>

\* installationID: 404 where the App is not installed on the repository.
InstallationID(c) ==
    /\ caller[c].pc = "lookup"
    /\ \/ /\ NoTrouble
          /\ caller' = IF ~github.on[caller[c].app]
                       THEN Unresolvable(c)
                       ELSE [caller EXCEPT ![c] =
                               [Goes(c, "lock") EXCEPT
                                  !.of = [app |-> caller[c].app,
                                          n |-> github.n[caller[c].app]]]]
       \/ Fails(c)
    /\ UNCHANGED <<connectVars, secret, github, lock, cache, clock>>

\* The requests that use the token: with no ref configured, the default branch is
\* asked for first.
Uses(c, expires) ==
    \E pc \in {"branch", "commit"} :
      caller' = [caller EXCEPT ![c] = [Goes(c, pc) EXCEPT !.expires = expires]]

\* Mutant of Fresh: a cached token is used until it expires.
Fresh_Unguarded(i) == clock < cache[i]

Fresh(i) == clock + ExpiryGuard < cache[i]

\* Mutant of Unlocked: the cache alone is guarded by the mutex, not the mint.
Unlocked_Always == TRUE

Unlocked == lock = "none"

\* InstallationToken: the mutex, then the cache, then a mint under the mutex.
InstallationToken(c) ==
    /\ caller[c].pc = "lock"
    /\ Unlocked
    /\ IF Fresh(caller[c].of)
       THEN Uses(c, cache[caller[c].of]) /\ UNCHANGED lock
       ELSE lock' = c /\ caller' = [caller EXCEPT ![c] = Goes(c, "credentials")]
    /\ UNCHANGED <<connectVars, secret, github, cache, clock, troubles>>

\* Mutant of Release: an error return leaves the mutex locked.
Release_OnSuccess(ok) == IF ok THEN "none" ELSE lock

Release(ok) == "none"

\* mintAppJWT again, for the mint: the Secret may hold another App by now.
MintAppJWT(c) ==
    /\ caller[c].pc = "credentials"
    /\ \/ /\ NoTrouble
          /\ caller' = [caller EXCEPT ![c] = [Goes(c, "mint") EXCEPT !.app = secret.app]]
          /\ UNCHANGED lock
       \/ Fails(c) /\ lock' = Release(FALSE)
    /\ UNCHANGED <<connectVars, secret, github, cache, clock>>

\* Mutant of MintRefused: the 404 of the mint is taken for a missing repository.
MintRefused_Drops(c) == Unresolvable(c)

\* Any answer but 201 is an error to retry.
MintRefused(c) == Ended(c)

\* requestInstallationToken: GitHub mints for an App's own, live installation.
RequestInstallationToken(c) ==
    /\ caller[c].pc = "mint"
    /\ LET i == caller[c].of IN
       \/ /\ NoTrouble
          /\ caller[c].app = i.app
          /\ Live(i)
          /\ cache' = [cache EXCEPT ![i] = clock + Lifetime]
          /\ Uses(c, clock + Lifetime)
          /\ lock' = Release(TRUE)
       \/ /\ NoTrouble
          /\ caller[c].app # i.app \/ ~Live(i)
          /\ caller' = MintRefused(c)
          /\ lock' = Release(FALSE)
          /\ UNCHANGED cache
       \/ Fails(c) /\ lock' = Release(FALSE) /\ UNCHANGED cache
    /\ UNCHANGED <<connectVars, secret, github, clock>>

\* getJSON with the token: 401 for a dead one, an error to retry; 404 where the
\* App's installation no longer covers the repository, or there is no such ref.
Rejected(c) == ~Live(caller[c].of) \/ clock >= caller[c].expires

Missing(c) == ~github.on[caller[c].of.app]

Get(c, missing, next) ==
    \/ NoTrouble /\ ~Rejected(c) /\ ~missing /\ caller' = next
    \/ NoTrouble /\ Rejected(c) /\ caller' = Ended(c)
    \/ NoTrouble /\ missing /\ caller' = Unresolvable(c)
    \/ Fails(c)

DefaultBranch(c) ==
    /\ caller[c].pc = "branch"
    /\ Get(c, Missing(c), [caller EXCEPT ![c] = Goes(c, "commit")])
    /\ UNCHANGED <<connectVars, secret, github, lock, cache, clock>>

Commit(c) ==
    /\ caller[c].pc = "commit"
    /\ Get(c, Missing(c) \/ ~github.ref, Ended(c))
    /\ UNCHANGED <<connectVars, secret, github, lock, cache, clock>>

CallerStep(c) ==
    \/ ReadCredentials(c) \/ InstallationID(c) \/ InstallationToken(c)
    \/ MintAppJWT(c) \/ RequestInstallationToken(c) \/ DefaultBranch(c) \/ Commit(c)

-----------------------------------------------------------------------------

\* What happens on GitHub's side, noted for the calls it concerns.
OnGitHub(g) ==
    /\ github' = g
    /\ caller' = [c \in Callers |->
                    [caller[c] EXCEPT !.why = @ \/ (caller[c].pc \in Active
                                                     /\ NoWay(g, About(caller[c])))]]
    /\ UNCHANGED <<connectVars, secret, lock, cache, clock>>

\* The admin installs an App on the repository once it exists, or takes it off.
Install(app) ==
    /\ flow[app].pc \notin {"idle", "github", "exchange"}
    /\ ~github.on[app]
    /\ github.n[app] < MaxTroubles + 1
    /\ OnGitHub([github EXCEPT !.on[app] = TRUE, !.n[app] = @ + 1])
    /\ NoTrouble

Uninstall(app) ==
    /\ github.on[app]
    /\ Trouble
    /\ OnGitHub([github EXCEPT !.on[app] = FALSE])

\* The branch is deleted, or put back.
MoveBranch ==
    /\ Trouble
    /\ OnGitHub([github EXCEPT !.ref = ~@])

\* No request lasts longer than its timeout.
Tick ==
    /\ clock < MaxClock
    /\ \A c \in Callers : caller[c].pc \in Requesting => ~caller[c].tick
    /\ clock' = clock + 1
    /\ caller' = [c \in Callers |->
                    [caller[c] EXCEPT !.tick = caller[c].pc \in Requesting]]
    /\ UNCHANGED <<connectVars, secret, github, lock, cache, troubles>>

ConnectNext ==
    \E f \in Flows : \/ StartManifest(f) \/ Callback(f) \/ Exchange(f)
                    \/ WriteApp(f) \/ WriteHook(f) \/ RecordConnected(f)

\* Of a connect, the calls notice only that the credential is another one.
ResolveNext ==
    \/ \E c \in Callers : ResolveCommit(c) \/ CallerStep(c)
    \/ \E f \in Flows : WriteApp(f) \/ Install(f) \/ Uninstall(f)
    \/ MoveBranch
    \/ Tick

-----------------------------------------------------------------------------

\* Two stories: connects from nothing, with nobody resolving; and calls that
\* resolve with the App First while one that the admin has just created on GitHub
\* is connected in its place.
ConnectStory ==
    /\ flow = [f \in Flows |-> [pc |-> "idle", overlapped |-> FALSE]]
    /\ secret = [app |-> "none", hook |-> "none"]
    /\ settings = [slug |-> "none", id |-> "none", at |-> "none"]
    /\ github = [on |-> [f \in Flows |-> FALSE], n |-> [f \in Flows |-> 0], ref |-> TRUE]
    /\ clock = MaxClock

ResolveStory ==
    /\ flow = [f \in Flows |->
                 [pc |-> IF f = First THEN "connected" ELSE "app", overlapped |-> FALSE]]
    /\ secret = [app |-> First, hook |-> First]
    /\ settings = [slug |-> First, id |-> First, at |-> First]
    /\ github = [on |-> [f \in Flows |-> f = First],
                 n |-> [f \in Flows |-> IF f = First THEN 1 ELSE 0], ref |-> TRUE]
    /\ clock = 0

GitHubRest ==
    /\ cookie = "none"
    /\ caller = [c \in Callers |-> NoCaller]
    /\ lock = "none"
    /\ cache = [i \in Installations |-> 0]
    /\ troubles = 0

GitHubTypeOK ==
    /\ cookie \in AppOrNone
    /\ flow \in [Flows -> Flow]
    /\ secret \in [app : AppOrNone, hook : AppOrNone]
    /\ settings \in [slug : AppOrNone, id : AppOrNone, at : AppOrNone]
    /\ caller \in [Callers -> Caller]
    /\ lock \in Callers \union {"none"}
    /\ \A c \in Callers : caller[c].pc \in {"credentials", "mint"} <=> lock = c

\* A connect that was answered with "connected", and that no other connect
\* overlapped, is one whose webhook secret is in place for as long as its
\* credential is: failed connects before and after it never leave the two Secrets
\* with different Apps (writeGitHubSecrets).
ConnectedIsReal ==
    \A f \in Flows :
      (flow[f].pc = "connected" /\ ~flow[f].overlapped /\ secret.app = f)
        => secret.hook = f

\* A token never dies while a call uses it: from InstallationToken's return to the
\* end of the call's last request it has not expired.
TokenOutlivesCall ==
    \A c \in Callers : caller[c].pc \in {"branch", "commit"} => clock < caller[c].expires

\* ErrUnresolvable, for which the dispatcher drops the push, is earned: the branch,
\* or the installation of the App the call read, really was missing during the
\* call.  A connect that swaps the App between its two reads is no reason.
DropIsEarned ==
    \A c \in Callers : caller[c].pc = "unresolvable" => caller[c].why

\* Concurrent callers share a mint: GitHub is asked for a token of an installation
\* only when there is none in the cache that is good for a call.
MintsAreShared ==
    [][\A i \in Installations : cache'[i] # cache[i] => ~Fresh(i)]_githubVars

\* The mutex is always released, whatever fails while it is held: no call waits
\* for it behind one that has returned (InstallationToken).
LockIsFreed == lock # "none" ~> lock = "none"

=============================================================================
