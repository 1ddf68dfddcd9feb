------------------------------ MODULE Settings ------------------------------
(***************************************************************************)
(* The two settings the dashboard edits and other programs act on: the     *)
(* repository allow-list (RepoAllowlist) and the GitHub App (GitHubApp).   *)
(* They share no state, so a behaviour is a story about one of them.       *)
(***************************************************************************)
EXTENDS RepoAllowlist, GitHubApp

VARIABLE story        \* what the behaviour is about

vars == <<allowlistVars, githubVars, story>>

Init ==
    /\ story \in {"allowlist", "connect", "resolve"}
    /\ AllowlistInit
    /\ IF story = "resolve" THEN ResolveStory ELSE ConnectStory
    /\ GitHubRest

Next ==
    \/ /\ story = "allowlist"
       /\ AllowlistNext
       /\ UNCHANGED <<githubVars, story>>
    \/ /\ story = "connect"
       /\ ConnectNext
       /\ UNCHANGED <<allowlistVars, story>>
    \/ /\ story = "resolve"
       /\ ResolveNext
       /\ UNCHANGED <<allowlistVars, story>>

\* The goroutine that holds the mutex goes on.
HolderStep ==
    /\ \E c \in Callers : lock = c /\ CallerStep(c)
    /\ UNCHANGED <<allowlistVars, story>>

Fairness == WF_vars(HolderStep)

Spec == Init /\ [][Next]_vars /\ Fairness

TypeOK == AllowlistTypeOK /\ GitHubTypeOK

\* Types of all three stories, and a GitHub App that was answered as connected has
\* both of its Secrets (writeGitHubSecrets).
ConnectSound == TypeOK /\ ConnectedIsReal

\* The audit trail of the allow-list tells the truth: no change without an entry
\* before it, none over a policy its author did not see, and the outcome recorded
\* is what happened, also when the API server's answer was lost
\* (handleUpdateRepoAllowlist, resolveRepoAllowlistUpdate).
AuditIsTrue == ChangeAnnounced /\ OnlySeenReplaced /\ SuccessIsTrue /\ FailureIsTrue

\* The token source serves concurrent callers: a token outlives the call, a mint is
\* shared, the lock is always freed, and a push is dropped only for a repository
\* that really was out of reach (InstallationToken, ResolveCommit).
TokensServe ==
    /\ [](TokenOutlivesCall /\ DropIsEarned)
    /\ MintsAreShared
    /\ LockIsFreed
=============================================================================
