--------------------------- MODULE DispatchProofs ---------------------------
(***************************************************************************)
(* Proofs about Dispatch, for any Apps, sources, ids, commits and bounds:  *)
(* types are kept, what is settled stays settled, no doorbell is lost, an  *)
(* App's Builds are made in the order of its commits, and the Builds in    *)
(* flight stay below the cap times the fan-out of a delivery.              *)
(***************************************************************************)
EXTENDS Dispatch, FiniteSetTheorems, WellFoundedInduction, TLAPS

(***************************************************************************)
(* The inductive invariant.  While the worker holds a row, every App the   *)
(* row is owed to is still on its list or has been settled; a Build that   *)
(* exists under a name was made for that name's App and commit, so finding *)
(* it (AlreadyExists) is as good as creating it.                           *)
(***************************************************************************)

\* App a needs nothing more from row id.
Settled(id, a) == apps[a] # "live" \/ Unbuildable(a) \/ Covered(a, since[id])

\* What a row stands for: it is never of a bell that has not rung, it asks for a
\* commit its source has reached, and it is owed to Apps that were live once.
BellsOK ==
    \A id \in Ids :
        /\ since[id] = 0 => owed[id] = {} /\ id \notin Rows
        /\ since[id] <= Current(Subject(id))
        /\ \A a \in owed[id] : a \in Targets(id) /\ apps[a] \in {"live", "dying", "deleted"}

\* The row in hand stays in the table, and no App is dropped from it unsettled.
HoldsRow == pc \in {"claimed", "apps", "create"} => row \in Rows

OnList ==
    pc \in {"apps", "create"} =>
        /\ todo \subseteq Targets(row)
        /\ \A a \in owed[row] : a \in todo \/ Settled(row, a)
        /\ digest \in 1..shown[Subject(row)]
        /\ Subject(row) \in Uploads => since[row] <= digest

\* The commit in hand is one the source has reached, no older than the bell.
Resolved ==
    pc = "create" =>
        /\ cur \in todo
        /\ ver \in 1..Len(heads[SourceOf[cur]])
        /\ since[row] <= ver
        /\ heads[SourceOf[cur]][ver] = sha

\* A Build of that name was made for that App and commit.
Recorded ==
    \A n \in BuildNames : builds[n] # "none" =>
        \E b \in Made : n = <<b.app, Abbrev[b.commit], b.tag>>

Inv == TypeOK /\ BellsOK /\ HoldsRow /\ OnList /\ Resolved /\ Recorded /\ NoDoorbellLost

(***************************************************************************)
(* The queue, the branches and the Builds.                                 *)
(***************************************************************************)

\* An INSERT adds its row to the table.
LEMMA RowsInserted ==
    ASSUME queue \in Seq(Ids), NEW id \in Ids, queue' = Append(queue, id)
    PROVE  queue' \in Seq(Ids) /\ Rows' = Rows \cup {id}
<1>1. queue' \in Seq(Ids) /\ Len(queue') = Len(queue) + 1 /\ Len(queue) \in Nat
  OBVIOUS
<1>2. \A i \in 1..Len(queue) : queue'[i] = queue[i]
  OBVIOUS
<1>3. queue'[Len(queue) + 1] = id
  OBVIOUS
<1>4. DOMAIN queue = 1..Len(queue) /\ DOMAIN queue' = 1..(Len(queue) + 1)
  BY <1>1
<1> QED
  BY <1>1, <1>2, <1>3, <1>4 DEF Rows

\* What a producer's INSERT does, conflict or not.
LEMMA BellInserted ==
    ASSUME TypeOK, NEW id \in Ids, Insert(id)
    PROVE  /\ queue' \in Seq(Ids) /\ owed' \in [Ids -> SUBSET Apps]
           /\ Rows' = Rows \cup {id}
           /\ \A x \in Ids \ {id} : owed'[x] = owed[x]
           /\ id \in Rows => owed' = owed
           /\ \A a \in owed'[id] : a \in owed[id] \/ (a \in Targets(id) /\ apps[a] = "live")
<1>1. CASE id \in Rows
  BY <1>1, Zenon DEF Insert, TypeOK, Rows
<1>2. CASE id \notin Rows
  <2>1. queue' \in Seq(Ids) /\ Rows' = Rows \cup {id}
    BY <1>2, RowsInserted, Zenon DEF Insert, TypeOK
  <2>2. Targets(id) \subseteq Apps
    BY DispatchConstants, Zenon DEF DispatchConstants, Targets, Ids
  <2>3. owed' = [owed EXCEPT ![id] = @ \cup {a \in Targets(id) : apps[a] = "live"}]
    BY <1>2, Zenon DEF Insert
  <2>4. owed' \in [Ids -> SUBSET Apps]
    BY <2>2, <2>3, Zenon DEF TypeOK
  <2> QED
    BY <1>2, <2>1, <2>3, <2>4, Zenon DEF TypeOK
<1> QED
  BY <1>1, <1>2, Zenon

\* A DELETE removes its row and no other.
LEMMA RowsRemoved ==
    ASSUME queue \in Seq(Ids), NEW id \in Rows, queue' = Remove(id)
    PROVE  queue' \in Seq(Ids) /\ Rows' \subseteq Rows /\ Rows \ {id} \subseteq Rows'
<1> DEFINE p == Place(id)
<1>1. p \in 1..Len(queue) /\ queue[p] = id /\ Len(queue) \in Nat
  BY DEF Place, Rows
<1> HIDE DEF p
<1>2. queue' = [i \in 1..(Len(queue) - 1) |-> IF i < p THEN queue[i] ELSE queue[i + 1]]
  BY Zenon DEF Remove, p
<1>3. \A i \in 1..(Len(queue) - 1) : i \in 1..Len(queue) /\ i + 1 \in 1..Len(queue)
  BY <1>1
<1>4. DOMAIN queue = 1..Len(queue) /\ DOMAIN queue' = 1..(Len(queue) - 1) /\ Len(queue) - 1 \in Nat
  BY <1>1, <1>2
<1>5. queue' \in Seq(Ids)
  <2>1. \A i \in 1..(Len(queue) - 1) : queue'[i] \in Ids
    BY <1>1, <1>2, <1>3
  <2>2. queue' \in [1..(Len(queue) - 1) -> Ids]
    BY <1>2, <2>1, Zenon
  <2> QED
    BY <1>4, <2>2
<1>6. Rows' \subseteq Rows
  BY <1>2, <1>3, <1>4 DEF Rows
<1>7. ASSUME NEW x \in Rows, x # id PROVE x \in Rows'
  <2>1. PICK i \in 1..Len(queue) : queue[i] = x
    BY <1>4, Zenon DEF Rows
  <2>2. CASE i < p
    <3>1. i \in 1..(Len(queue) - 1) /\ queue'[i] = x
      BY <1>1, <1>2, <2>1, <2>2
    <3> QED
      BY <1>4, <3>1, Zenon DEF Rows
  <2>3. CASE i > p
    <3>1. i - 1 \in 1..(Len(queue) - 1) /\ queue'[i - 1] = x
      BY <1>1, <1>2, <2>1, <2>3
    <3> QED
      BY <1>4, <3>1, Zenon DEF Rows
  <2> QED
    BY <1>1, <1>7, <2>1, <2>2, <2>3
<1> QED
  BY <1>5, <1>6, <1>7, Zenon

\* A branch that moves keeps its past.
LEMMA HeadMoves ==
    ASSUME TypeOK, NEW s \in Sources, NEW c \in Commits, MoveHead(s, c)
    PROVE  /\ heads' \in [Sources -> Seq(Commits)]
           /\ \A t \in Sources : heads'[t] # <<>>
           /\ Len(heads'[s]) = Len(heads[s]) + 1
           /\ \A t \in Sources : Len(heads[t]) \in Nat /\ Len(heads[t]) <= Len(heads'[t])
           /\ \A t \in Sources : \A i \in 1..Len(heads[t]) : heads'[t][i] = heads[t][i]
<1>1. heads \in [Sources -> Seq(Commits)] /\ heads' = [heads EXCEPT ![s] = Append(@, c)]
  BY Zenon DEF TypeOK, MoveHead
<1>2. heads' \in [Sources -> Seq(Commits)] /\ heads'[s] = Append(heads[s], c)
  BY <1>1
<1>3. \A t \in Sources : t # s => heads'[t] = heads[t]
  BY <1>1, Zenon
<1>4. /\ Len(Append(heads[s], c)) = Len(heads[s]) + 1 /\ Append(heads[s], c) # <<>>
      /\ Len(heads[s]) \in Nat
      /\ \A i \in 1..Len(heads[s]) : Append(heads[s], c)[i] = heads[s][i]
  BY <1>1
<1> QED
  BY <1>1, <1>2, <1>3, <1>4 DEF TypeOK

\* The budget of a tick is at most the cap.
LEMMA BudgetBounded == Budget > 0 => Budget \in 0..MaxConcurrentBuilds
<1>1. IsFiniteSet(SeenInFlight)
  BY DispatchConstants, FS_Subset, Zenon DEF DispatchConstants, SeenInFlight
<1>2. Cardinality(SeenInFlight) \in Nat
  BY <1>1, FS_CardinalityType, Zenon
<1> QED
  BY <1>2, DispatchConstants DEF Budget, DispatchConstants

\* Creating a Build, or finding it, keeps the types and adds at most that Build.
LEMMA BuildCreated ==
    ASSUME TypeOK, pc = "create", ver \in Nat \ {0}, Create
    PROVE  /\ builds' \in [BuildNames -> BuildStates] /\ made' \in Seq(MadeBuilds)
           /\ Made \subseteq Made'
           /\ builds[BuildName(cur, sha, row)] = "none" =>
                 [app |-> cur, commit |-> sha, ver |-> ver, tag |-> BuildName(cur, sha, row)[3]] \in Made'
           /\ \A n \in BuildNames \ {BuildName(cur, sha, row)} : builds'[n] = builds[n]
<1> DEFINE n == BuildName(cur, sha, row)
           m == [app |-> cur, commit |-> sha, ver |-> ver, tag |-> n[3]]
<1>1. cur \in Apps /\ sha \in Commits /\ row \in Ids /\ made \in Seq(MadeBuilds)
  BY Zenon DEF TypeOK
<1>2. n \in BuildNames /\ n[3] \in ManualIds \cup {None}
  BY <1>1, DispatchConstants, Zenon DEF DispatchConstants, BuildName, BuildNames
<1>3. m \in MadeBuilds
  BY <1>1, <1>2, Zenon DEF MadeBuilds
<1>4. CASE builds[n] = "none"
  <2>1. made' = Append(made, m) /\ builds' = [builds EXCEPT ![n] = IF CatchUp THEN "running" ELSE "unseen"]
    BY <1>4, Zenon DEF Create
  <2> HIDE DEF m, n
  <2>2. made' \in Seq(MadeBuilds) /\ Len(made') = Len(made) + 1 /\ Len(made) \in Nat
    BY <1>1, <1>3, <2>1
  <2>3. (\A i \in 1..Len(made) : made'[i] = made[i]) /\ made'[Len(made) + 1] = m
    BY <1>1, <1>3, <2>1
  <2>4. DOMAIN made = 1..Len(made) /\ DOMAIN made' = 1..(Len(made) + 1)
    BY <1>1, <2>2
  <2>5. Made \subseteq Made' /\ m \in Made'
    BY <2>2, <2>3, <2>4 DEF Made
  <2>6. builds' \in [BuildNames -> BuildStates] /\ \A x \in BuildNames \ {n} : builds'[x] = builds[x]
    BY <1>2, <2>1, Zenon DEF TypeOK, BuildStates
  <2> QED
    BY <2>2, <2>5, <2>6, Zenon DEF m, n
<1>5. CASE builds[n] # "none"
  BY <1>5, Zenon DEF Create, TypeOK, Made
<1> QED
  BY <1>4, <1>5, Zenon

\* What resolveCommit finds is a commit the source has reached, no older than the bell.
LEMMA CommitResolved ==
    ASSUME Inv, NEW a \in Apps, ResolveCommit(a)
    PROVE  /\ row \in Ids /\ SourceOf[a] = Subject(row) /\ SourceOf[a] \in Sources
           /\ ver' \in 1..Len(heads[SourceOf[a]]) /\ Len(heads[SourceOf[a]]) \in Nat
           /\ sha' = heads[SourceOf[a]][ver'] /\ sha' \in Commits
           /\ since[row] <= ver'
<1> USE DispatchConstants DEF DispatchConstants
<1>1. row \in Ids /\ a \in Targets(row) /\ pc = "apps"
  BY Zenon DEF Inv, TypeOK, OnList, ResolveCommit
<1>2. SourceOf[a] = Subject(row) /\ SourceOf[a] \in Sources
  BY <1>1, Zenon DEF Targets, Subject, Ids
<1>3. /\ heads[SourceOf[a]] \in Seq(Commits) /\ heads[SourceOf[a]] # <<>>
      /\ shown[SourceOf[a]] \in 1..Len(heads[SourceOf[a]])
  BY <1>2, Zenon DEF Inv, TypeOK
<1>4. Len(heads[SourceOf[a]]) \in Nat \ {0}
  BY <1>3
<1>5. since[row] \in Nat /\ since[row] <= Current(SourceOf[a])
  BY <1>1, <1>2, Zenon DEF Inv, TypeOK, BellsOK
<1>6. digest \in 1..shown[SourceOf[a]] /\ (SourceOf[a] \in Uploads => since[row] <= digest)
  BY <1>1, <1>2, Zenon DEF Inv, OnList
<1>7. ver' = (IF SourceOf[a] \in Uploads THEN digest ELSE Len(heads[SourceOf[a]]))
      /\ sha' = heads[SourceOf[a]][ver']
  BY Zenon DEF ResolveCommit
<1>8. ver' \in 1..Len(heads[SourceOf[a]]) /\ since[row] <= ver'
  BY <1>3, <1>4, <1>5, <1>6, <1>7 DEF Current
<1> QED
  BY <1>1, <1>2, <1>3, <1>4, <1>7, <1>8

\* Every step keeps the types.
LEMMA TypeNext == Inv /\ [Next]_vars => TypeOK'
<1> SUFFICES ASSUME Inv, [Next]_vars PROVE TypeOK'
  BY Zenon
<1> USE DispatchConstants DEF DispatchConstants, TypeOK, world, bells, table, worker
<1>0. TypeOK
  BY Zenon DEF Inv
<1>1. ASSUME NEW id \in PushIds, NEW c \in Commits, Push(id, c) PROVE TypeOK'
  <2>1. /\ id \in Ids /\ PushRepo[id] \in Sources /\ MoveHead(PushRepo[id], c)
        /\ since' = [since EXCEPT ![id] = Len(heads[PushRepo[id]]) + 1]
        /\ UNCHANGED <<shown, gone, apps, owed, table, worker, builds, made, faults>>
    BY <1>1, Zenon DEF Push, Ids
  <2>2. /\ heads' \in [Sources -> Seq(Commits)] /\ \A t \in Sources : heads'[t] # <<>>
        /\ \A t \in Sources : Len(heads[t]) \in Nat /\ Len(heads[t]) <= Len(heads'[t])
    BY <1>0, <2>1, HeadMoves, Zenon
  <2>3. Len(heads[PushRepo[id]]) + 1 \in Nat
    BY <2>1, <2>2
  <2>4. \A t \in Sources : shown[t] \in 1..Len(heads'[t])
    BY <1>0, <2>2
  <2>5. QED
    BY <1>0, <2>1, <2>2, <2>3, <2>4, Zenon
<1>2. ASSUME NEW s \in Sources, NEW c \in Commits, ChangeSource(s, c) PROVE TypeOK'
  BY <1>0, <1>2, HeadMoves DEF ChangeSource
<1>3. ASSUME NEW s \in Sources, SyncUpload(s) PROVE TypeOK'
  BY <1>0, <1>3 DEF SyncUpload
<1>4. ASSUME NEW s \in Sources, Vanish(s) PROVE TypeOK'
  BY <1>0, <1>4, Zenon DEF Vanish
<1>5. ASSUME NEW a \in Apps, AppChange(a) PROVE TypeOK'
  BY <1>0, <1>5, Zenon DEF AppChange, CreateApp, DeleteApp, SyncApp, AppStates
<1>6. ASSUME NEW n \in BuildNames, EndBuild(n) \/ SyncBuild(n) \/ DeleteBuild(n) PROVE TypeOK'
  <2>1. /\ builds' \in [BuildNames -> BuildStates] /\ faults' \in 0..MaxFaults
        /\ UNCHANGED <<world, bells, table, worker, made>>
    <3>1. PICK t \in BuildStates : builds' = [builds EXCEPT ![n] = t]
      <4>1. CASE EndBuild(n)
        BY <4>1, Zenon DEF EndBuild, Become, BuildStates
      <4>2. CASE SyncBuild(n)
        BY <4>2, Zenon DEF SyncBuild, Become, BuildStates
      <4>3. CASE DeleteBuild(n)
        BY <4>3, Zenon DEF DeleteBuild, Become, BuildStates
      <4> QED
        BY <1>6, <4>1, <4>2, <4>3, Zenon
    <3>2. builds' \in [BuildNames -> BuildStates]
      BY <1>0, <3>1, Zenon
    <3> QED
      BY <1>0, <1>6, <3>2 DEF EndBuild, SyncBuild, DeleteBuild
  <2> QED
    BY <1>0, <2>1, Zenon
<1>7. ASSUME NEW id \in PushIds, Webhook(id) \/ WebhookUnanswered(id) PROVE TypeOK'
  <2>1. Insert(id) /\ id \in Ids /\ faults' \in 0..MaxFaults
        /\ UNCHANGED <<world, since, locked, worker, builds, made>>
    BY <1>0, <1>7 DEF Webhook, WebhookUnanswered, Ids
  <2> QED
    BY <1>0, <2>1, BellInserted, Zenon
<1>8. ASSUME NEW id \in ManualIds, HandleDeployApp(id) PROVE TypeOK'
  <2>1. Insert(id) /\ id \in Ids /\ UNCHANGED <<world, locked, worker, builds, made, faults>>
    BY <1>8, Zenon DEF HandleDeployApp, Ids
  <2>2. since' \in [Ids -> Nat]
    <3>1. Current(SourceOf[ManualApp[id]]) \in Nat
      BY <1>0 DEF Current
    <3> QED
      BY <1>0, <1>8, <2>1, <3>1, Zenon DEF HandleDeployApp
  <2> QED
    BY <1>0, <2>1, <2>2, BellInserted, Zenon
<1>9. CASE Tick
  BY <1>0, <1>9, BudgetBounded, Zenon DEF Tick
<1>10. CASE ClaimNext
  BY <1>0, <1>10 DEF ClaimNext
<1>11. CASE EndTick
  BY <1>0, <1>11 DEF EndTick
<1>12. CASE AppsForDelivery
  BY <1>0, <1>12 DEF AppsForDelivery, Targets, Subject, Ids
<1>13. ASSUME NEW a \in Apps, SkipApp(a) PROVE TypeOK'
  BY <1>0, <1>13, Zenon DEF SkipApp
<1>14. ASSUME NEW a \in Apps, ResolveCommit(a) PROVE TypeOK'
  BY <1>0, <1>14, CommitResolved, Zenon DEF ResolveCommit
<1>15. ASSUME NEW a \in Apps, NackStuck(a) PROVE TypeOK'
  BY <1>0, <1>15 DEF NackStuck, Leave
<1>16. CASE CreateBuild
  BY <1>0, <1>16, BuildCreated DEF CreateBuild, Inv, Resolved
<1>17. CASE Ack
  BY <1>0, <1>17, RowsRemoved, Zenon DEF Ack, Leave, Inv, HoldsRow
<1>18. CASE AckError
  BY <1>0, <1>18, RowsRemoved DEF AckError, Leave, Inv, HoldsRow
<1>19. CASE Nack
  BY <1>0, <1>19, BuildCreated DEF Nack, Leave, Inv, Resolved
<1>20. CASE Crash
  BY <1>0, <1>20 DEF Crash, Leave
<1>21. ASSUME NEW id \in Ids, Rollback(id) PROVE TypeOK'
  BY <1>0, <1>21, Zenon DEF Rollback
<1>22. CASE UNCHANGED vars
  BY <1>0, <1>22, Zenon DEF vars
<1> QED
  BY <1>1, <1>2, <1>3, <1>4, <1>5, <1>6, <1>7, <1>8, <1>9, <1>10, <1>11, <1>12, <1>13, <1>14,
     <1>15, <1>16, <1>17, <1>18, <1>19, <1>20, <1>21, <1>22, Zenon
     DEF Next, Environment, Produce, Consume

(***************************************************************************)
(* What is settled stays settled.                                          *)
(***************************************************************************)

OnceLive == {"live", "dying", "deleted"}

\* What no step undoes: branches keep their past, sources stay gone, deleted
\* Apps stay deleted, made Builds stay made, and a bell rings once.
Ages ==
    /\ \A s \in Sources : /\ Len(heads[s]) <= Len(heads'[s]) /\ shown[s] <= shown'[s]
                          /\ \A i \in 1..Len(heads[s]) : heads'[s][i] = heads[s][i]
    /\ gone \subseteq gone'
    /\ \A a \in Apps : apps[a] \in OnceLive =>
          apps'[a] \in OnceLive /\ (apps'[a] = "live" => apps[a] = "live")
    /\ Made \subseteq Made'
    /\ \A id \in Ids : since[id] # 0 => since'[id] = since[id]

\* The past of a branch that stands still.
LEMMA HeadsStay ==
    ASSUME TypeOK
    PROVE  \A s \in Sources : /\ Len(heads[s]) \in Nat /\ shown[s] \in Nat
                              /\ Len(heads[s]) <= Len(heads[s]) /\ shown[s] <= shown[s]
  BY DEF TypeOK

\* Every step ages the state.
LEMMA StepAges == Inv /\ [Next]_vars => Ages
<1> SUFFICES ASSUME Inv, [Next]_vars PROVE Ages
  BY Zenon
<1> USE DispatchConstants DEF DispatchConstants, Ages, OnceLive
<1>0. TypeOK
  BY Zenon DEF Inv
<1>1. ASSUME NEW id \in PushIds, NEW c \in Commits, Push(id, c) PROVE Ages
  BY <1>0, <1>1, HeadMoves, HeadsStay DEF Push, Ids, TypeOK, Made
<1>2. ASSUME NEW s \in Sources, NEW c \in Commits, ChangeSource(s, c) PROVE Ages
  BY <1>0, <1>2, HeadMoves, HeadsStay DEF ChangeSource, bells, Made
<1>3. ASSUME NEW s \in Sources, SyncUpload(s) PROVE Ages
  BY <1>0, <1>3, HeadsStay DEF SyncUpload, bells, TypeOK, Made
<1>4. ASSUME NEW s \in Sources, Vanish(s) PROVE Ages
  BY <1>0, <1>4, HeadsStay, Zenon DEF Vanish, bells, Made
<1>5. ASSUME NEW a \in Apps, AppChange(a) PROVE Ages
  BY <1>0, <1>5, HeadsStay, Zenon DEF AppChange, CreateApp, DeleteApp, SyncApp, Exists, bells, TypeOK, Made
<1>6. ASSUME NEW id \in ManualIds, HandleDeployApp(id) PROVE Ages
  BY <1>0, <1>6, HeadsStay, Zenon DEF HandleDeployApp, world, Ids, TypeOK, Made
<1>7. CASE CreateBuild
  <2>1. pc = "create" /\ Create /\ UNCHANGED <<world, since>>
    BY <1>7, Zenon DEF CreateBuild, bells
  <2>2. ver \in Nat \ {0}
    BY <1>0, <2>1 DEF Inv, Resolved, TypeOK
  <2>3. Made \subseteq Made'
    BY <1>0, <2>1, <2>2, BuildCreated, Zenon
  <2> QED
    BY <1>0, <2>1, <2>3, HeadsStay, Zenon DEF world
<1>8. CASE Nack
  <2>1. UNCHANGED <<world, since>> /\ (UNCHANGED made \/ (pc = "create" /\ Create))
    BY <1>8, Zenon DEF Nack, bells
  <2>2. pc = "create" => ver \in Nat \ {0}
    BY <1>0 DEF Inv, Resolved, TypeOK
  <2>3. Made \subseteq Made'
    BY <1>0, <2>1, <2>2, BuildCreated, Zenon DEF Made
  <2> QED
    BY <1>0, <2>1, <2>3, HeadsStay, Zenon DEF world
<1>9. CASE UNCHANGED <<world, since, made>>
  BY <1>0, <1>9, HeadsStay, Zenon DEF world, Made
<1> QED
  BY <1>1, <1>2, <1>3, <1>4, <1>5, <1>6, <1>7, <1>8, <1>9, Zenon
     DEF Next, Environment, Produce, Consume, vars, bells, EndBuild, SyncBuild, DeleteBuild, Webhook,
         WebhookUnanswered, Tick, ClaimNext, EndTick, AppsForDelivery, SkipApp, ResolveCommit,
         NackStuck, Ack, AckError, Crash, Rollback

\* An App that has a Build of a late enough commit keeps it.
LEMMA CoveredStays ==
    ASSUME TypeOK, TypeOK', Ages, NEW a \in Apps, NEW v \in Nat \ {0}, Covered(a, v)
    PROVE  Covered(a, v)'
<1> DEFINE src == SourceOf[a]
<1>0. src \in Sources
  BY DispatchConstants, Zenon DEF DispatchConstants
<1>1. PICK b \in Made : b.app = a /\ \E i \in v..Len(heads[src]) : heads[src][i] = b.commit
  BY Zenon DEF Covered
<1>2. PICK i \in v..Len(heads[src]) : heads[src][i] = b.commit
  BY <1>1, Zenon
<1>3. Len(heads[src]) \in Nat /\ Len(heads'[src]) \in Nat
  <2>1. heads \in [Sources -> Seq(Commits)] /\ heads' \in [Sources -> Seq(Commits)]
    BY Zenon DEF TypeOK
  <2>2. heads[src] \in Seq(Commits) /\ heads'[src] \in Seq(Commits)
    BY <1>0, <2>1, Zenon
  <2> QED
    BY <2>2
<1>4. i \in 1..Len(heads[src]) /\ i \in v..Len(heads'[src])
  BY <1>0, <1>3 DEF Ages
<1>5. heads'[src][i] = b.commit
  BY <1>0, <1>2, <1>4, Zenon DEF Ages
<1>6. b \in Made'
  BY Zenon DEF Ages
<1> QED
  BY <1>1, <1>4, <1>5, <1>6, Zenon DEF Covered

\* An App that needs nothing more from a row never does again.
LEMMA SettledStays ==
    ASSUME Inv, TypeOK', Ages, NEW id \in Ids, NEW a \in owed[id], Settled(id, a)
    PROVE  Settled(id, a)'
<1>1. a \in Apps /\ apps[a] \in OnceLive /\ since[id] \in Nat \ {0} /\ since'[id] = since[id]
  BY Zenon DEF Inv, TypeOK, BellsOK, OnceLive, Ages
<1>2. CASE apps[a] # "live"
  BY <1>1, <1>2, Zenon DEF Settled, Ages
<1>3. CASE Unbuildable(a)
  BY <1>3, Zenon DEF Settled, Unbuildable, Ages
<1>4. CASE Covered(a, since[id])
  <2>1. Covered(a, since[id])'
    BY <1>1, <1>4, CoveredStays, Zenon DEF Inv
  <2> QED
    BY <2>1, Zenon DEF Settled
<1> QED
  BY <1>2, <1>3, <1>4, Zenon DEF Settled

(***************************************************************************)
(* The steps.                                                              *)
(***************************************************************************)

\* A source's current commit only moves forward.
LEMMA CurrentForward ==
    ASSUME TypeOK, TypeOK', Ages, NEW s \in Sources
    PROVE  Current(s) \in Nat /\ Current(s)' \in Nat /\ Current(s) <= Current(s)'
<1>1. heads[s] \in Seq(Commits) /\ heads'[s] \in Seq(Commits) /\ shown[s] \in Nat /\ shown'[s] \in Nat
  BY Zenon DEF TypeOK
<1>2. Len(heads[s]) \in Nat /\ Len(heads'[s]) \in Nat
  BY <1>1
<1> QED
  BY <1>1, <1>2, Zenon DEF Ages, Current

\* What a delivery is about is a source of the install.
LEMMA Subjects ==
    ASSUME NEW id \in Ids
    PROVE  /\ Subject(id) \in Sources /\ Targets(id) \subseteq Apps
           /\ \A a \in Targets(id) : SourceOf[a] = Subject(id)
           /\ id \in PushIds => Subject(id) = PushRepo[id] /\ Subject(id) \notin Uploads
  BY DispatchConstants DEF DispatchConstants, Subject, Targets, Ids

\* A producer or the worker changes rows and debts as follows; nobody else does.
LEMMA TableSteps ==
    ASSUME Inv, [Next]_vars
    PROVE  \/ UNCHANGED <<queue, owed, since>>
           \/ \E id \in PushIds, c \in Commits : Push(id, c)
           \/ \E id \in PushIds : since[id] > 0 /\ Insert(id) /\ UNCHANGED <<since, apps, worker, made, builds>>
           \/ \E id \in ManualIds : HandleDeployApp(id)
           \/ Ack \/ AckError
  BY Zenon DEF Next, Environment, Produce, Consume, vars, world, bells, table, ChangeSource, SyncUpload, Vanish,
         AppChange, EndBuild, SyncBuild, DeleteBuild, Webhook, WebhookUnanswered, Tick, ClaimNext,
         EndTick, AppsForDelivery, SkipApp, ResolveCommit, NackStuck, CreateBuild, Nack, Crash, Rollback

\* Every step keeps what the rows stand for.
LEMMA BellsNext == Inv /\ [Next]_vars => BellsOK'
<1> SUFFICES ASSUME Inv, [Next]_vars, NEW id \in Ids
             PROVE  (/\ since[id] = 0 => owed[id] = {} /\ id \notin Rows
                     /\ since[id] <= Current(Subject(id))
                     /\ \A a \in owed[id] : a \in Targets(id) /\ apps[a] \in OnceLive)'
  BY Zenon DEF BellsOK, OnceLive
<1>0. TypeOK /\ TypeOK' /\ Ages /\ BellsOK
  BY TypeNext, StepAges, Zenon DEF Inv
<1>1. /\ since[id] \in Nat /\ since'[id] \in Nat /\ owed[id] \subseteq Apps
      /\ Current(Subject(id)) \in Nat /\ Current(Subject(id))' \in Nat
      /\ Current(Subject(id)) <= Current(Subject(id))'
  BY <1>0, CurrentForward, Subjects, Zenon DEF TypeOK
<1>2. \A a \in owed[id] : a \in Targets(id) /\ apps'[a] \in OnceLive
  BY <1>0, <1>1, Zenon DEF BellsOK, Ages, OnceLive
<1>3. CASE UNCHANGED <<owed, since>> /\ Rows' \subseteq Rows
  BY <1>0, <1>1, <1>2, <1>3 DEF BellsOK
<1>4. ASSUME NEW p \in PushIds, NEW c \in Commits, Push(p, c), since'[id] # since[id]
      PROVE  id = p /\ since'[id] = Current(Subject(id))' /\ since'[id] # 0
  <2>1. p \in Ids /\ PushRepo[p] \in Sources /\ MoveHead(PushRepo[p], c) /\ since' = [since EXCEPT ![p] = Len(heads[PushRepo[p]]) + 1]
    BY <1>4, DispatchConstants, Zenon DEF Push, Ids, DispatchConstants
  <2>2. id = p /\ since'[id] = Len(heads[PushRepo[p]]) + 1
    BY <1>0, <1>4, <2>1, Zenon DEF TypeOK
  <2>3. Len(heads'[PushRepo[p]]) = Len(heads[PushRepo[p]]) + 1 /\ Len(heads[PushRepo[p]]) \in Nat
    BY <1>0, <2>1, HeadMoves, Zenon
  <2> QED
    BY <2>2, <2>3, Subjects DEF Current
<1>5. ASSUME NEW p \in PushIds, NEW c \in Commits, Push(p, c) PROVE UNCHANGED <<owed, queue>>
  BY <1>5, Zenon DEF Push, table
<1>6. ASSUME NEW x \in Ids, Insert(x), since'[x] # 0
      PROVE  /\ since'[id] = 0 /\ since[id] = 0 => owed'[id] = {} /\ id \notin Rows'
             /\ UNCHANGED apps => \A a \in owed'[id] : a \in Targets(id) /\ apps'[a] \in OnceLive
  BY <1>0, <1>2, <1>6, BellInserted DEF BellsOK, OnceLive
<1>7. CASE \E p \in PushIds, c \in Commits : Push(p, c)
  BY <1>0, <1>1, <1>2, <1>4, <1>5, <1>7 DEF BellsOK, Rows
<1>8. CASE \E x \in PushIds : since[x] > 0 /\ Insert(x) /\ UNCHANGED <<since, apps>>
  <2>1. PICK x \in PushIds : since[x] > 0 /\ Insert(x) /\ UNCHANGED <<since, apps>>
    BY <1>8, Zenon
  <2>2. x \in Ids /\ since'[x] # 0
    BY <1>0, <2>1 DEF Ids, TypeOK
  <2> QED
    BY <1>0, <1>1, <1>6, <2>1, <2>2 DEF BellsOK
<1>9. CASE \E x \in ManualIds : HandleDeployApp(x)
  <2>1. PICK x \in ManualIds : HandleDeployApp(x)
    BY <1>9, Zenon
  <2>2. /\ x \in Ids /\ Insert(x) /\ UNCHANGED <<heads, shown, apps>>
        /\ Subject(x) = SourceOf[ManualApp[x]] /\ Subject(x) \in Sources
    BY <2>1, DispatchConstants, Subjects, Zenon DEF HandleDeployApp, world, Ids, Subject, DispatchConstants
  <2>3. since' = [since EXCEPT ![x] = Current(Subject(x))] /\ Current(Subject(x))' = Current(Subject(x))
    BY <2>1, <2>2, Zenon DEF HandleDeployApp, Current
  <2>4. Current(Subject(x)) \in Nat \ {0}
    <3>1. heads[Subject(x)] \in Seq(Commits) /\ heads[Subject(x)] # <<>>
          /\ shown[Subject(x)] \in 1..Len(heads[Subject(x)])
      BY <1>0, <2>2, Zenon DEF TypeOK
    <3> QED
      BY <3>1 DEF Current
  <2>5. since'[x] = Current(Subject(x)) /\ \A y \in Ids \ {x} : since'[y] = since[y]
    BY <1>0, <2>2, <2>3, Zenon DEF TypeOK
  <2>6. since'[id] = 0 => since[id] = 0
    BY <2>4, <2>5, Zenon
  <2>7. since'[id] <= Current(Subject(id))'
    BY <1>0, <1>1, <2>3, <2>4, <2>5 DEF BellsOK
  <2> QED
    BY <1>6, <2>2, <2>4, <2>5, <2>6, <2>7, Zenon
<1>10. CASE Ack \/ AckError
  <2>1. row \in Rows /\ UNCHANGED <<owed, since>> /\ queue' \in {queue, Remove(row)}
    BY <1>10, Zenon DEF Ack, AckError, Inv, HoldsRow, bells
  <2>2. Rows' \subseteq Rows
    BY <1>0, <2>1, RowsRemoved, Zenon DEF TypeOK, Rows
  <2> QED
    BY <1>3, <2>1, <2>2, Zenon
<1>11. CASE UNCHANGED <<queue, owed, since>>
  BY <1>3, <1>11, Zenon DEF Rows
<1> QED
  BY <1>7, <1>8, <1>9, <1>10, <1>11, TableSteps, Zenon

\* Nobody but the worker takes a row out of the table, and only the row it holds.
LEMMA RowsNext ==
    ASSUME Inv, [Next]_vars
    PROVE  \/ Rows \subseteq Rows'
           \/ (Ack \/ AckError) /\ UNCHANGED <<owed, since>> /\ Rows \ {row} \subseteq Rows'
<1>0. TypeOK
  BY Zenon DEF Inv
<1>1. CASE \E x \in Ids : Insert(x)
  BY <1>0, <1>1, BellInserted, Zenon
<1>2. CASE UNCHANGED queue
  BY <1>2, Zenon DEF Rows
<1>3. CASE Ack \/ AckError
  <2>1. row \in Rows /\ UNCHANGED <<owed, since>> /\ queue' \in {queue, Remove(row)}
    BY <1>3, Zenon DEF Ack, AckError, Inv, HoldsRow, bells
  <2> QED
    BY <1>0, <1>3, <2>1, RowsRemoved, Zenon DEF TypeOK, Rows
<1> QED
  BY <1>1, <1>2, <1>3, TableSteps, Zenon DEF Push, HandleDeployApp, table, Ids

\* A row in the table has its debts fixed.
LEMMA DebtsFixed ==
    ASSUME Inv, [Next]_vars, NEW id \in Ids
    PROVE  /\ id \in Rows => owed'[id] = owed[id] /\ since'[id] = since[id] /\ since[id] \in Nat \ {0}
           /\ owed'[id] # owed[id] => id \in Rows'
<1>0. TypeOK /\ BellsOK
  BY Zenon DEF Inv
<1>1. id \in Rows => since'[id] = since[id] /\ since[id] \in Nat \ {0}
  BY <1>0, StepAges, Zenon DEF Ages, BellsOK, TypeOK
<1>2. ASSUME NEW x \in Ids, Insert(x)
      PROVE  (id \in Rows => owed'[id] = owed[id]) /\ (owed'[id] # owed[id] => id \in Rows')
  BY <1>0, <1>2, BellInserted, Zenon
<1>3. UNCHANGED owed \/ \E x \in Ids : Insert(x)
  BY TableSteps, Zenon DEF Push, HandleDeployApp, Ack, AckError, bells, Ids
<1> QED
  BY <1>1, <1>2, <1>3, Zenon

(***************************************************************************)
(* The Builds that are made, and the row in hand.                          *)
(***************************************************************************)

\* The Build in hand settles the row for its App, whether it is created or found.
LEMMA CreateSettles ==
    ASSUME Inv, pc = "create", Create, UNCHANGED <<heads, since>>,
           NEW a, a = cur, NEW id, id = row
    PROVE  Covered(a, since[id])'
<1> DEFINE n == BuildName(cur, sha, row)
           src == SourceOf[cur]
<1>1. /\ TypeOK /\ cur \in Apps /\ sha \in Commits /\ row \in Ids /\ src \in Sources
      /\ since[row] \in Nat /\ Abbrev[sha] \in ShortNames
  BY DispatchConstants, Zenon DEF DispatchConstants, Inv, TypeOK
<1>2. ver \in 1..Len(heads[src]) /\ since[row] <= ver /\ heads[src][ver] = sha
  BY Zenon DEF Inv, Resolved
<1>3. heads[src] \in Seq(Commits) /\ Len(heads[src]) \in Nat
  <2>1. heads[src] \in Seq(Commits)
    BY <1>1, Zenon DEF TypeOK
  <2> QED
    BY <2>1
<1>4. ver \in Nat \ {0} /\ ver \in since[row]..Len(heads[src])
  BY <1>1, <1>2, <1>3
<1>5. n \in BuildNames /\ n = <<cur, Abbrev[sha], n[3]>>
  BY <1>1, Zenon DEF BuildName, BuildNames
<1>6. \E b \in Made' : b.app = cur /\ b.commit = sha
  <2>1. CASE builds[n] = "none"
    BY <1>1, <1>4, <2>1, BuildCreated, Zenon
  <2>2. CASE builds[n] # "none"
    <3>1. PICK b \in Made : n = <<b.app, Abbrev[b.commit], b.tag>>
      BY <1>5, <2>2, Zenon DEF Inv, Recorded
    <3>2. b \in MadeBuilds
      BY <1>1 DEF TypeOK, Made
    <3>3. b.app = cur /\ Abbrev[b.commit] = Abbrev[sha] /\ b.commit \in Commits
      BY <1>5, <3>1, <3>2 DEF MadeBuilds
    <3>4. b.commit = sha
      BY <1>1, <3>3, DispatchConstants, Zenon DEF DispatchConstants
    <3> QED
      BY <1>1, <1>4, <3>3, <3>4, BuildCreated, Zenon
  <2> QED
    BY <2>1, <2>2, Zenon
<1> QED
  BY <1>2, <1>4, <1>6, Zenon DEF Covered

\* Builds exist only under the names they were made for.
LEMMA RecordedNext == Inv /\ [Next]_vars => Recorded'
<1> SUFFICES ASSUME Inv, [Next]_vars, NEW n \in BuildNames, builds'[n] # "none"
             PROVE  \E b \in Made' : n = <<b.app, Abbrev[b.commit], b.tag>>
  BY Zenon DEF Recorded
<1>0. TypeOK /\ Made \subseteq Made'
  BY StepAges, Zenon DEF Inv, Ages
<1>1. CASE builds[n] # "none"
  BY <1>0, <1>1, Zenon DEF Inv, Recorded
<1>2. CASE builds[n] = "none" /\ pc = "create" /\ Create
  <2>1. ver \in Nat \ {0} /\ cur \in Apps /\ sha \in Commits /\ row \in Ids
    BY <1>0, <1>2 DEF Inv, Resolved, TypeOK
  <2>2. n = BuildName(cur, sha, row)
    BY <1>0, <1>2, <2>1, BuildCreated, Zenon
  <2>3. [app |-> cur, commit |-> sha, ver |-> ver, tag |-> n[3]] \in Made'
    BY <1>0, <1>2, <2>1, <2>2, BuildCreated, Zenon
  <2>4. n = <<cur, Abbrev[sha], n[3]>>
    BY <2>2, Zenon DEF BuildName
  <2> QED
    BY <2>3, <2>4, Zenon
<1>3. CASE \E x \in BuildNames : EndBuild(x) \/ SyncBuild(x) \/ DeleteBuild(x)
  <2>1. PICK x \in BuildNames, f \in {"unseen", "running", "ended", "done"}, t \in BuildStates : Become(x, f, t)
    BY <1>3, Zenon DEF BuildStates, EndBuild, SyncBuild, DeleteBuild
  <2>2. builds[x] # "none" /\ builds' = [builds EXCEPT ![x] = t]
    BY <2>1, Zenon DEF Become
  <2>3. builds[n] # "none"
    BY <1>0, <2>2, Zenon DEF TypeOK
  <2> QED
    BY <1>1, <2>3, Zenon
<1>4. CASE UNCHANGED builds
  BY <1>1, <1>4, Zenon
<1>5. \/ UNCHANGED builds \/ (pc = "create" /\ Create)
      \/ \E x \in BuildNames : EndBuild(x) \/ SyncBuild(x) \/ DeleteBuild(x)
  BY Zenon DEF Next, Environment, Produce, Consume, vars, Push, ChangeSource, SyncUpload, Vanish,
         AppChange, Webhook, WebhookUnanswered, HandleDeployApp, Tick, ClaimNext, EndTick, Ack,
         AckError, AppsForDelivery, SkipApp, ResolveCommit, NackStuck, CreateBuild, Nack, Crash, Rollback
<1> QED
  BY <1>1, <1>2, <1>3, <1>4, <1>5, Zenon

\* The worker changes hands as follows; nobody else touches its variables.
LEMMA WorkerSteps ==
    ASSUME [Next]_vars
    PROVE  \/ UNCHANGED worker
           \/ pc' \in {"idle", "tick"}
           \/ ClaimNext \/ AppsForDelivery \/ CreateBuild
           \/ \E a \in Apps : SkipApp(a) \/ ResolveCommit(a)
  BY Zenon DEF Next, Environment, Produce, Consume, vars, Push, ChangeSource, SyncUpload, Vanish,
         AppChange, EndBuild, SyncBuild, DeleteBuild, Webhook, WebhookUnanswered, HandleDeployApp,
         Tick, EndTick, Ack, AckError, NackStuck, Nack, Crash, Rollback, Leave

\* Every step keeps the row in hand in the table and no App unsettled off the list.
LEMMA WorkerNext == Inv /\ [Next]_vars => HoldsRow' /\ OnList' /\ Resolved'
<1> SUFFICES ASSUME Inv, [Next]_vars PROVE HoldsRow' /\ OnList' /\ Resolved'
  BY Zenon
<1>0. TypeOK /\ TypeOK' /\ Ages
  BY TypeNext, StepAges, Zenon DEF Inv
<1>1. CASE pc' \in {"idle", "tick"}
  BY <1>1, Zenon DEF HoldsRow, OnList, Resolved
<1>2. CASE UNCHANGED worker /\ pc \in {"claimed", "apps", "create"}
  <2>1. row \in Ids /\ row \in Rows /\ row' = row
    BY <1>0, <1>2, Zenon DEF TypeOK, Inv, HoldsRow, worker
  <2>2. row \in Rows'
    BY <1>2, RowsNext, <2>1, Zenon DEF Ack, AckError, Leave, worker
  <2>3. owed'[row] = owed[row] /\ since'[row] = since[row]
    BY <2>1, DebtsFixed, Zenon
  <2>4. \A s \in Sources : shown[s] \in Nat /\ shown'[s] \in Nat /\ shown[s] <= shown'[s]
    BY <1>0, Zenon DEF TypeOK, Ages
  <2>5. ASSUME pc \in {"apps", "create"} PROVE OnList'
    <3>1. \A a \in owed[row] : Settled(row, a) => Settled(row, a)'
      BY <1>0, <2>1, SettledStays, Zenon
    <3> QED
      BY <1>2, <2>1, <2>3, <2>4, <2>5, <3>1, Subjects DEF OnList, Inv, worker
  <2>6. ASSUME pc = "create" PROVE Resolved'
    <3> DEFINE src == SourceOf[cur]
    <3>1. cur \in Apps /\ src \in Sources /\ UNCHANGED <<cur, todo, ver, sha>>
      BY <1>0, <1>2, <2>6, DispatchConstants, Zenon DEF TypeOK, DispatchConstants, worker
    <3>2. heads[src] \in Seq(Commits) /\ heads'[src] \in Seq(Commits)
      BY <1>0, <3>1, Zenon DEF TypeOK
    <3>3. Len(heads[src]) \in Nat /\ Len(heads'[src]) \in Nat /\ Len(heads[src]) <= Len(heads'[src])
      BY <1>0, <3>1, <3>2 DEF Ages
    <3>4. cur \in todo /\ ver \in 1..Len(heads[src]) /\ since[row] <= ver /\ heads[src][ver] = sha
      BY <2>6, Zenon DEF Inv, Resolved
    <3>5. ver \in 1..Len(heads'[src]) /\ heads'[src][ver] = sha
      BY <1>0, <3>1, <3>3, <3>4 DEF Ages
    <3> QED
      BY <2>1, <2>3, <3>1, <3>4, <3>5, Zenon DEF Resolved
  <2> QED
    BY <1>2, <2>1, <2>2, <2>5, <2>6, Zenon DEF HoldsRow, OnList, Resolved, worker
<1>3. CASE ClaimNext
  BY <1>3, Zenon DEF ClaimNext, HoldsRow, OnList, Resolved, Rows, table
<1>4. CASE AppsForDelivery
  <2>1. /\ pc = "claimed" /\ pc' = "apps" /\ row' = row /\ row \in Ids /\ row \in Rows
        /\ todo' = {a \in Targets(row) : Visible(a)} /\ digest' = shown[Subject(row)]
        /\ UNCHANGED <<queue, owed, since, apps, shown, heads>>
    BY <1>0, <1>4, Zenon DEF AppsForDelivery, TypeOK, Inv, HoldsRow, world, bells, table
  <2>2. Subject(row) \in Sources /\ shown[Subject(row)] \in Nat \ {0}
    <3>1. Subject(row) \in Sources
      BY <2>1, Subjects, Zenon
    <3>2. \A s \in Sources : shown[s] \in 1..Len(heads[s]) /\ heads[s] \in Seq(Commits)
      BY <1>0, Zenon DEF TypeOK
    <3> HIDE DEF Subject
    <3> QED
      BY <3>1, <3>2
  <2>3. \A a \in owed[row] : a \in todo' \/ apps'[a] # "live"
    BY <2>1 DEF Inv, BellsOK, Visible
  <2>4. Subject(row) \in Uploads => since[row] <= shown[Subject(row)]
    BY <2>1, Zenon DEF Inv, BellsOK, Current
  <2>5. OnList'
    BY <2>1, <2>2, <2>3, <2>4 DEF OnList, Settled
  <2> QED
    BY <2>1, <2>5, Zenon DEF HoldsRow, Resolved, Rows
<1>5. ASSUME NEW x \in Apps, SkipApp(x) PROVE HoldsRow' /\ OnList' /\ Resolved'
  <2>1. /\ pc = "apps" /\ pc' = "apps" /\ row' = row /\ row \in Ids /\ row \in Rows
        /\ todo' = todo \ {x} /\ digest' = digest /\ Unbuildable(x)
        /\ UNCHANGED <<queue, owed, since, shown, gone>>
    BY <1>0, <1>5, Zenon DEF SkipApp, TypeOK, Inv, HoldsRow, world, bells, table
  <2>2. \A a \in owed[row] : Settled(row, a) => Settled(row, a)'
    BY <1>0, <2>1, SettledStays, Zenon
  <2>3. x \in owed[row] => Settled(row, x)'
    BY <2>1, Zenon DEF Settled, Unbuildable
  <2>4. OnList'
    BY <2>1, <2>2, <2>3, Zenon DEF Inv, OnList
  <2> QED
    BY <2>1, <2>4, Zenon DEF HoldsRow, Resolved, Rows
<1>6. ASSUME NEW x \in Apps, ResolveCommit(x) PROVE HoldsRow' /\ OnList' /\ Resolved'
  <2>1. /\ pc = "apps" /\ pc' = "create" /\ row' = row /\ row \in Ids /\ row \in Rows
        /\ UNCHANGED <<queue, owed, since, shown, heads, todo, digest>> /\ cur' = x /\ x \in todo
    BY <1>0, <1>6, Zenon DEF ResolveCommit, TypeOK, Inv, HoldsRow, world, bells, table
  <2>2. \A a \in owed[row] : Settled(row, a) => Settled(row, a)'
    BY <1>0, <2>1, SettledStays, Zenon
  <2>3. OnList'
    BY <2>1, <2>2, Zenon DEF Inv, OnList
  <2>4. Resolved'
    BY <1>6, <2>1, CommitResolved DEF Resolved
  <2> QED
    BY <2>1, <2>3, <2>4, Zenon DEF HoldsRow, Rows
<1>7. CASE CreateBuild
  <2>1. /\ pc = "create" /\ pc' = "apps" /\ row' = row /\ row \in Ids /\ row \in Rows
        /\ UNCHANGED <<queue, owed, since, shown, heads, digest>> /\ todo' = todo \ {cur} /\ Create
    BY <1>0, <1>7, Zenon DEF CreateBuild, TypeOK, Inv, HoldsRow, world, bells, table
  <2>2. \A a \in owed[row] : Settled(row, a) => Settled(row, a)'
    BY <1>0, <2>1, SettledStays, Zenon
  <2>3. \A a \in owed[row] : a = cur => Settled(row, a)'
    BY <2>1, CreateSettles, Zenon DEF Settled
  <2>4. OnList'
    BY <2>1, <2>2, <2>3, Zenon DEF Inv, OnList
  <2> QED
    BY <2>1, <2>4, Zenon DEF HoldsRow, Resolved, Rows
<1>8. CASE UNCHANGED worker /\ pc \in {"idle", "tick"}
  BY <1>1, <1>8, Zenon DEF worker
<1>9. pc \in {"idle", "tick", "claimed", "apps", "create"}
  BY <1>0, Zenon DEF TypeOK
<1> QED
  BY <1>1, <1>2, <1>3, <1>4, <1>5, <1>6, <1>7, <1>8, <1>9, WorkerSteps, Zenon

\* No step loses a doorbell.
LEMMA NothingLostNext == Inv /\ [Next]_vars => NoDoorbellLost'
<1> SUFFICES ASSUME Inv, [Next]_vars, NEW id \in Ids, NEW a \in owed'[id], id \notin Rows'
             PROVE  Settled(id, a)'
  BY Zenon DEF NoDoorbellLost, Settled
<1>0. TypeOK /\ TypeOK' /\ Ages
  BY TypeNext, StepAges, Zenon DEF Inv
<1>1. owed'[id] = owed[id]
  BY DebtsFixed, Zenon
<1>2. CASE id \notin Rows
  <2>1. Settled(id, a)
    BY <1>1, <1>2, Zenon DEF Inv, NoDoorbellLost, Settled
  <2> QED
    BY <1>0, <1>1, <2>1, SettledStays, Zenon
<1>3. CASE id \in Rows
  <2>1. (Ack \/ AckError) /\ id = row
    BY <1>3, RowsNext, Zenon
  <2>2. Settled(id, a)
    BY <1>1, <2>1, Zenon DEF Ack, AckError, Inv, OnList
  <2> QED
    BY <1>0, <1>1, <2>2, SettledStays, Zenon
<1> QED
  BY <1>2, <1>3, Zenon

\* The invariant holds initially: the table and the history are empty.
LEMMA InvInit == Init => Inv
<1> SUFFICES ASSUME Init PROVE Inv
  BY Zenon
<1> USE DispatchConstants DEF DispatchConstants, Init
<1>1. \A s \in Sources : heads[s] \in Seq(Commits) /\ heads[s] # <<>> /\ Len(heads[s]) = 1
  <2> SUFFICES ASSUME NEW s \in Sources
               PROVE  heads[s] \in Seq(Commits) /\ heads[s] # <<>> /\ Len(heads[s]) = 1
    BY Zenon
  <2>1. PICK c \in Commits : heads[s] = <<c>>
    OBVIOUS
  <2> QED
    BY <2>1
<1>2. Rows = {} /\ Made = {}
  BY DEF Rows, Made
<1>3. TypeOK
  BY <1>1 DEF TypeOK, AppStates, BuildStates
<1>4. BellsOK
  BY <1>1, <1>2, Subjects DEF BellsOK, Current
<1>5. HoldsRow /\ OnList /\ Resolved /\ Recorded /\ NoDoorbellLost
  BY DEF HoldsRow, OnList, Resolved, Recorded, NoDoorbellLost
<1> QED
  BY <1>3, <1>4, <1>5, Zenon DEF Inv

\* The inductive invariant holds in every reachable state.
LEMMA Invariance == Spec => []Inv
<1>1. Inv /\ [Next]_vars => Inv'
  BY TypeNext, BellsNext, WorkerNext, RecordedNext, NothingLostNext, Zenon DEF Inv
<1> QED
  BY InvInit, <1>1, PTL DEF Spec

\* Type correctness: every variable keeps its type, and the worker holds a row
\* and a commit exactly where processOne does.
THEOREM TypeCorrect == Spec => []TypeOK
<1>1. Inv => TypeOK
  BY Zenon DEF Inv
<1> QED
  BY Invariance, <1>1, PTL

\* No doorbell is lost: a row leaves the table only when every App it was owed
\* to has a Build of its commit or a later one, whatever crashes, lost answers,
\* redeliveries and branch moves come between processOne's steps.
THEOREM DoorbellsKept == Spec => []NoDoorbellLost
<1>1. Inv => NoDoorbellLost
  BY Zenon DEF Inv
<1> QED
  BY Invariance, <1>1, PTL

(***************************************************************************)
(* The Builds of an App are made in the order of its source's commits.     *)
(* The commit in hand may be stale when its Build is created, but not      *)
(* older than any the worker has built before: the worker is alone, and    *)
(* what it resolved earlier was current earlier.                           *)
(***************************************************************************)

Order ==
    /\ \A m \in Made : m.ver <= Current(SourceOf[m.app])
    /\ pc \in {"apps", "create"} /\ Subject(row) \in Uploads =>
          \A m \in Made : SourceOf[m.app] = Subject(row) => m.ver <= digest
    /\ pc = "create" =>
          /\ SourceOf[cur] \in Uploads => ver = digest
          /\ \A m \in Made : SourceOf[m.app] = SourceOf[cur] => m.ver <= ver

\* The Build that a step adds to the history is the one in hand.
LEMMA MadeGrows ==
    ASSUME Inv, [Next]_vars
    PROVE  \/ UNCHANGED made
           \/ /\ pc = "create" /\ pc' \in {"apps", "idle"} /\ UNCHANGED world
              /\ pc' = "apps" => UNCHANGED <<row, digest>>
              /\ \E m \in MadeBuilds :
                    /\ m.app = cur /\ m.ver = ver
                    /\ Made' = Made \cup {m}
                    /\ \A i \in DOMAIN made' \ DOMAIN made : made'[i] = m
<1>1. \/ UNCHANGED made
      \/ /\ pc = "create" /\ pc' \in {"apps", "idle"} /\ UNCHANGED world
         /\ pc' = "apps" => UNCHANGED <<row, digest>>
         /\ Create
  BY Zenon DEF Next, Environment, Produce, Consume, vars, Push, ChangeSource, SyncUpload, Vanish, EndBuild,
         SyncBuild, DeleteBuild, AppChange, Webhook, WebhookUnanswered, HandleDeployApp, Tick, ClaimNext, EndTick,
         Ack, AckError, AppsForDelivery, SkipApp, ResolveCommit, NackStuck, CreateBuild, Nack, Crash, Rollback, Leave
<1>2. ASSUME pc = "create", Create, made' # made
      PROVE  \E m \in MadeBuilds : /\ m.app = cur /\ m.ver = ver
                                   /\ Made' = Made \cup {m}
                                   /\ \A i \in DOMAIN made' \ DOMAIN made : made'[i] = m
  <2> DEFINE n == BuildName(cur, sha, row)
             m == [app |-> cur, commit |-> sha, ver |-> ver, tag |-> n[3]]
  <2>1. made' = Append(made, m)
    BY <1>2, Zenon DEF Create
  <2>2. /\ made \in Seq(MadeBuilds) /\ cur \in Apps /\ sha \in Commits /\ row \in Ids
        /\ ver \in 1..Len(heads[SourceOf[cur]]) /\ ver \in Nat
    BY <1>2, Zenon DEF Inv, TypeOK, Resolved
  <2>3. m \in MadeBuilds /\ m.app = cur /\ m.ver = ver
    <3>1. n[3] \in ManualIds \cup {None}
      BY Zenon DEF BuildName
    <3>2. ver # 0
      BY <2>2
    <3>3. QED
      BY <2>2, <3>1, <3>2, Zenon DEF MadeBuilds
  <2> HIDE DEF m, n
  <2>4. /\ Len(made) \in Nat /\ DOMAIN made = 1..Len(made) /\ DOMAIN made' = 1..(Len(made) + 1)
        /\ (\A i \in 1..Len(made) : made'[i] = made[i]) /\ made'[Len(made) + 1] = m
    BY <2>1, <2>2, <2>3
  <2>5. DOMAIN made' = DOMAIN made \cup {Len(made) + 1}
    BY <2>4
  <2>6. Made' = Made \cup {m} /\ \A i \in DOMAIN made' \ DOMAIN made : made'[i] = m
    BY <2>4, <2>5 DEF Made
  <2>7. QED
    BY <2>3, <2>6, Zenon
<1>3. QED
  BY <1>1, <1>2, Zenon

\* The App in hand is of the source the row is about, and its commit is one the
\* source has reached.
LEMMA InHand ==
    ASSUME Inv, pc = "create"
    PROVE  /\ row \in Ids /\ cur \in Apps /\ SourceOf[cur] = Subject(row) /\ SourceOf[cur] \in Sources
           /\ ver \in 1..Len(heads[SourceOf[cur]])
           /\ digest \in Nat /\ digest <= shown[SourceOf[cur]]
<1>1. row \in Ids /\ cur \in Apps /\ cur \in Targets(row) /\ ver \in 1..Len(heads[SourceOf[cur]])
  BY Zenon DEF Inv, TypeOK, OnList, Resolved
<1>2. SourceOf[cur] = Subject(row) /\ Subject(row) \in Sources
  BY <1>1, Subjects, Zenon
<1>3. digest \in 1..shown[Subject(row)] /\ shown[Subject(row)] \in Nat
  BY <1>2, Zenon DEF Inv, OnList, TypeOK
<1>4. digest \in Nat /\ digest <= shown[Subject(row)]
  BY <1>3
<1>5. QED
  BY <1>1, <1>2, <1>4, Zenon

\* The types the comparisons need.
LEMMA MadeTypes ==
    ASSUME Inv, NEW m \in Made
    PROVE  m.app \in Apps /\ SourceOf[m.app] \in Sources /\ m.ver \in Nat
<1>1. m \in MadeBuilds
  BY DEF Inv, TypeOK, Made
<1>2. QED
  BY <1>1, DispatchConstants, Zenon DEF MadeBuilds, DispatchConstants

LEMMA OrderNext ==
    ASSUME Inv, Inv', Order, [Next]_vars
    PROVE  Order'
<1>0. TypeOK /\ TypeOK' /\ Ages
  BY StepAges, Zenon DEF Inv
<1>1. \A s \in Sources : Current(s) \in Nat /\ Current(s)' \in Nat /\ Current(s) <= Current(s)'
  BY <1>0, CurrentForward, Zenon
<1>2. CASE UNCHANGED made
  <2>0. Made' = Made
    BY <1>2, Zenon DEF Made
  <2>1. \A m \in Made : m.ver <= Current(SourceOf[m.app])'
    <3> SUFFICES ASSUME NEW m \in Made PROVE m.ver <= Current(SourceOf[m.app])'
      BY Zenon
    <3> DEFINE c == Current(SourceOf[m.app])
               d == Current(SourceOf[m.app])'
    <3>1. m.ver \in Nat /\ c \in Nat /\ d \in Nat /\ c <= d /\ m.ver <= c
      BY <1>1, MadeTypes, Zenon DEF Order
    <3> HIDE DEF c, d
    <3>2. m.ver <= d
      BY <3>1
    <3>3. QED
      BY <3>2, Zenon DEF d
  <2>2. CASE UNCHANGED worker \/ pc' \in {"idle", "tick"} \/ ClaimNext \/ \E a \in Apps : SkipApp(a)
    BY <2>0, <2>1, <2>2, Zenon DEF Order, worker, ClaimNext, SkipApp, Subject
  <2>3. CASE AppsForDelivery
    <3>1. pc' = "apps" /\ row' = row /\ digest' = shown[Subject(row)]
      BY <2>3, Zenon DEF AppsForDelivery
    <3>2. QED
      BY <2>0, <2>1, <3>1, Zenon DEF Order, Current, Subject
  <2>4. ASSUME NEW a \in Apps, ResolveCommit(a)
        PROVE  Order'
    <3>1. /\ pc = "apps" /\ pc' = "create" /\ row' = row /\ digest' = digest /\ cur' = a
          /\ SourceOf[a] = Subject(row)
          /\ ver' = IF SourceOf[a] \in Uploads THEN digest ELSE Len(heads[SourceOf[a]])
      BY <2>4, CommitResolved, Zenon DEF ResolveCommit
    <3>2. \A m \in Made : SourceOf[m.app] = SourceOf[a] => m.ver <= ver'
      BY <3>1, Zenon DEF Order, Current
    <3>3. QED
      BY <2>0, <2>1, <3>1, <3>2, Zenon DEF Order, Subject
  <2>5. CASE CreateBuild
    BY <2>0, <2>1, <2>5, Zenon DEF Order, CreateBuild, Subject
  <2>6. QED
    BY <2>2, <2>3, <2>4, <2>5, WorkerSteps, Zenon
<1>3. CASE made' # made
  <2>1. /\ pc = "create" /\ pc' \in {"apps", "idle"} /\ UNCHANGED world
        /\ pc' = "apps" => UNCHANGED <<row, digest>>
    BY <1>3, MadeGrows, Zenon
  <2>2. PICK x \in MadeBuilds : x.app = cur /\ x.ver = ver /\ Made' = Made \cup {x}
    BY <1>3, MadeGrows, Zenon
  <2>3. /\ cur \in Apps /\ SourceOf[cur] = Subject(row) /\ SourceOf[cur] \in Sources
        /\ ver \in 1..Len(heads[SourceOf[cur]]) /\ digest \in Nat /\ digest <= shown[SourceOf[cur]]
        /\ SourceOf[cur] \in Uploads => ver = digest
    BY <2>1, InHand, Zenon DEF Order
  <2>4. ver <= Current(SourceOf[cur])
    <3>1. heads[SourceOf[cur]] \in Seq(Commits) /\ shown[SourceOf[cur]] \in Nat
      BY <1>0, <2>3, Zenon DEF TypeOK
    <3>2. QED
      BY <2>3, <3>1 DEF Current
  <2>5. \A s \in Sources : Current(s)' = Current(s)
    BY <2>1, Zenon DEF Current, world
  <2>6. \A m \in Made' : m.ver <= Current(SourceOf[m.app])'
    <3>1. ASSUME NEW m \in Made PROVE m.ver <= Current(SourceOf[m.app])'
      BY <2>5, MadeTypes, Zenon DEF Order
    <3>2. x.ver <= Current(SourceOf[x.app])'
      BY <2>2, <2>3, <2>4, <2>5, Zenon
    <3>3. QED
      BY <2>2, <3>1, <3>2, Zenon
  <2>7. pc' = "apps" /\ Subject(row) \in Uploads => \A m \in Made' : SourceOf[m.app] = Subject(row) => m.ver <= digest
    <3>1. digest <= digest
      BY <2>3
    <3>2. QED
      BY <2>1, <2>2, <2>3, <3>1, Zenon DEF Order
  <2>8. QED
    BY <2>1, <2>6, <2>7, Zenon DEF Order, Subject
<1>4. QED
  BY <1>2, <1>3, Zenon

\* A new Build of an App is never of an older commit than a Build the App already
\* has, although the branch moves while handle resolves and creates.
THEOREM BuildsStayInOrder == Spec => BuildsInHeadOrder
<1>1. Init => Order
  <2> SUFFICES ASSUME Init PROVE Order
    BY Zenon
  <2>1. Made = {}
    BY DEF Init, Made
  <2>2. QED
    BY <2>1, Zenon DEF Init, Order
<1>2. Inv /\ Inv' /\ Order /\ [Next]_vars => Order'
  BY OrderNext, Zenon
<1>3. Inv /\ Order /\ [Next]_vars =>
      [\A i \in DOMAIN made' \ DOMAIN made : \A j \in DOMAIN made :
          made[j].app = made'[i].app => made[j].ver <= made'[i].ver]_vars
  <2> SUFFICES ASSUME Inv, Order, [Next]_vars,
                      NEW i \in DOMAIN made' \ DOMAIN made, NEW j \in DOMAIN made, made[j].app = made'[i].app
               PROVE  made[j].ver <= made'[i].ver
    BY Zenon
  <2>1. made' # made
    BY Zenon
  <2>2. pc = "create" /\ made'[i].app = cur /\ made'[i].ver = ver
    BY <2>1, MadeGrows, Zenon
  <2>3. made[j] \in Made
    BY Zenon DEF Made
  <2>4. QED
    BY <2>2, <2>3, Zenon DEF Order
<1>4. QED
  BY Invariance, <1>1, <1>2, <1>3, PTL DEF Spec, BuildsInHeadOrder

(***************************************************************************)
(* The Builds in flight.  With informers that catch up between polls, a    *)
(* tick counts every Build in flight, and each delivery of its budget      *)
(* stands for at most FanOut more: Builds in flight, what is left of the   *)
(* budget and the row in hand never weigh more than the cap allows.        *)
(***************************************************************************)

\* What the row in hand may still create.
InHandAtMost == IF pc = "claimed" THEN FanOut
                ELSE IF pc \in {"apps", "create"} THEN Cardinality(todo) ELSE 0

Load ==
    /\ \A n \in BuildNames : builds[n] \in {"none", "running", "done"}
    /\ Cardinality(InFlight) + budget * FanOut + InHandAtMost <= MaxConcurrentBuilds * FanOut

LEMMA LargestOf ==
    ASSUME NEW B \in Nat, NEW S \in SUBSET (0..B), S # {}
    PROVE  \E x \in S : \A y \in S : y <= x
<1> DEFINE R == OpToRel(<, Nat)
           T == {B - x : x \in S}
<1>1. T \in SUBSET Nat /\ T # {}
  <2>1. \A x \in S : B - x \in Nat
    OBVIOUS
  <2>2. QED
    BY <2>1, Zenon
<1>2. PICK t \in T : \A u \in T : ~(<<u, t>> \in R)
  <2>1. IsWellFoundedOn(R, Nat)
    BY NatLessThanWellFounded, Zenon
  <2> HIDE DEF R, T
  <2>2. QED
    BY <1>1, <2>1, WFMin, Zenon
<1>3. \A u \in T : ~(u < t)
  BY <1>1, <1>2, Zenon DEF OpToRel
<1>4. PICK x \in S : t = B - x
  BY Zenon
<1>5. ASSUME NEW y \in S
      PROVE  y <= x
  <2>1. ~(B - y < B - x)
    BY <1>3, <1>4, Zenon
  <2>2. QED
    BY <2>1
<1>6. QED
  BY <1>5, Zenon

\* FanOut bounds the Apps of every delivery.
LEMMA FanOutBounds ==
    FanOut \in Nat /\ \A id \in Ids : Cardinality(Targets(id)) <= FanOut
<1> DEFINE sizes == {0} \cup {Cardinality(Targets(id)) : id \in Ids}
           B == Cardinality(Apps)
<1>1. B \in Nat /\ \A id \in Ids : Cardinality(Targets(id)) \in Nat /\ Cardinality(Targets(id)) <= B
  <2>1. IsFiniteSet(Apps)
    BY DispatchConstants, Zenon DEF DispatchConstants
  <2>2. ASSUME NEW id \in Ids
        PROVE  Cardinality(Targets(id)) \in Nat /\ Cardinality(Targets(id)) <= B
    <3>1. Targets(id) \in SUBSET Apps
      BY Subjects, Zenon
    <3>2. QED
      BY <2>1, <3>1, FS_Subset, FS_CardinalityType, Zenon
  <2>3. QED
    BY <2>1, <2>2, FS_CardinalityType, Zenon
<1> HIDE DEF B
<1>2. sizes \in SUBSET (0..B) /\ sizes # {}
  BY <1>1
<1>3. FanOut = CHOOSE n \in sizes : \A m \in sizes : m <= n
  BY Zenon DEF FanOut
<1>4. \A id \in Ids : Cardinality(Targets(id)) \in sizes
  BY Zenon
<1> HIDE DEF sizes
<1>5. FanOut \in sizes /\ \A m \in sizes : m <= FanOut
  <2>1. \E n \in sizes : \A m \in sizes : m <= n
    BY <1>1, <1>2, LargestOf, Zenon
  <2>2. QED
    BY <1>3, <2>1, Zenon
<1>6. FanOut \in Nat
  BY <1>1, <1>2, <1>5
<1>7. QED
  BY <1>4, <1>5, <1>6, Zenon

\* How much the budget and the row in hand weigh.
LEMMA Weights ==
    ASSUME NEW k \in Nat, NEW m \in Nat, NEW f \in Nat, k <= m * f
    PROVE  /\ m * f \in Nat
           /\ m > k => k + (m - k) * f <= m * f
<1>1. m * f \in Nat /\ k * f \in Nat
  OBVIOUS
<1>2. (m - k) * f = m * f - k * f
  OBVIOUS
<1>3. CASE f = 0
  BY <1>3
<1>4. CASE f # 0
  <2>1. k <= k * f
    BY <1>4
  <2>2. QED
    BY <1>1, <1>2, <2>1
<1>5. QED
  BY <1>3, <1>4

\* The sets that are counted are finite.
LEMMA Counted ==
    ASSUME TypeOK
    PROVE  /\ IsFiniteSet(InFlight) /\ Cardinality(InFlight) \in Nat
           /\ IsFiniteSet(todo) /\ Cardinality(todo) \in Nat
           /\ \A T \in SUBSET todo : Cardinality(T) \in Nat /\ Cardinality(T) <= Cardinality(todo)
           /\ FanOut \in Nat /\ InHandAtMost \in Nat /\ budget \in Nat /\ MaxConcurrentBuilds \in Nat
<1>1. IsFiniteSet(BuildNames) /\ IsFiniteSet(Apps) /\ MaxConcurrentBuilds \in Nat
  BY DispatchConstants, Zenon DEF DispatchConstants
<1>2. InFlight \in SUBSET BuildNames /\ todo \in SUBSET Apps /\ budget \in 0..MaxConcurrentBuilds
  BY Zenon DEF InFlight, TypeOK
<1>3. IsFiniteSet(InFlight) /\ IsFiniteSet(todo)
  BY <1>1, <1>2, FS_Subset, Zenon
<1>4. Cardinality(InFlight) \in Nat /\ Cardinality(todo) \in Nat
  BY <1>3, FS_CardinalityType, Zenon
<1>5. ASSUME NEW T \in SUBSET todo
      PROVE  Cardinality(T) \in Nat /\ Cardinality(T) <= Cardinality(todo)
  BY <1>3, FS_Subset, FS_CardinalityType, Zenon
<1>6. FanOut \in Nat /\ budget \in Nat /\ 0 \in Nat
  BY <1>1, <1>2, FanOutBounds
<1>7. QED
  BY <1>1, <1>3, <1>4, <1>5, <1>6, Zenon DEF InHandAtMost

\* What a step does to the Builds when the informer keeps up: nothing, or one
\* leaves or enters the set in flight.
LEMMA FlightSteps ==
    ASSUME CatchUp, Inv, Load, [Next]_vars
    PROVE  /\ \A n \in BuildNames : builds'[n] \in {"none", "running", "done"}
           /\ \/ Cardinality(InFlight') <= Cardinality(InFlight)
              \/ /\ pc = "create" /\ Cardinality(InFlight') <= Cardinality(InFlight) + 1
                 /\ CreateBuild \/ Nack
<1>0. TypeOK /\ builds \in [BuildNames -> BuildStates]
  BY Zenon DEF Inv, TypeOK
<1>1. ASSUME NEW S, S \subseteq InFlight
      PROVE  Cardinality(S) <= Cardinality(InFlight)
  BY <1>0, <1>1, Counted, FS_Subset, Zenon
<1>2. CASE UNCHANGED builds
  <2>1. InFlight' \subseteq InFlight
    BY <1>2, Zenon DEF InFlight
  <2>2. QED
    BY <1>1, <1>2, <2>1, Zenon DEF Load
<1>3. ASSUME NEW n \in BuildNames, EndBuild(n) \/ SyncBuild(n) \/ DeleteBuild(n)
      PROVE  /\ \A x \in BuildNames : builds'[x] \in {"none", "running", "done"}
             /\ InFlight' \subseteq InFlight
  <2>1. builds[n] \in {"none", "running", "done"}
    BY Zenon DEF Load
  <2>2. \E t \in {"none", "done"} : builds' = [builds EXCEPT ![n] = t]
    BY <1>3, <2>1, Zenon DEF EndBuild, SyncBuild, DeleteBuild, Become
  <2>3. QED
    BY <1>0, <2>2, Zenon DEF Load, InFlight
<1>4. CASE pc = "create" /\ Create /\ (CreateBuild \/ Nack)
  <2> DEFINE n == BuildName(cur, sha, row)
  <2>1. CASE builds[n] # "none"
    BY <1>2, <1>4, <2>1, Zenon DEF Create
  <2>2. CASE builds[n] = "none"
    <3>1. builds' = [builds EXCEPT ![n] = "running"]
      BY <1>4, <2>2, Zenon DEF Create
    <3> HIDE DEF n
    <3>2. /\ InFlight' \subseteq InFlight \cup {n}
          /\ \A x \in BuildNames : builds'[x] \in {"none", "running", "done"}
      BY <1>0, <3>1, Zenon DEF InFlight, Load
    <3>3. IsFiniteSet(InFlight \cup {n}) /\ Cardinality(InFlight \cup {n}) \in {Cardinality(InFlight), Cardinality(InFlight) + 1}
      BY <1>0, Counted, FS_AddElement, Zenon
    <3>4. Cardinality(InFlight') <= Cardinality(InFlight \cup {n}) /\ Cardinality(InFlight') \in Nat
      BY <3>2, <3>3, FS_Subset, FS_CardinalityType, Zenon
    <3>5. Cardinality(InFlight') <= Cardinality(InFlight) + 1
      BY <1>0, <3>3, <3>4, Counted
    <3>6. QED
      BY <1>4, <3>2, <3>5, Zenon
  <2>3. QED
    BY <2>1, <2>2, Zenon
<1>5. \/ UNCHANGED builds \/ (pc = "create" /\ Create /\ (CreateBuild \/ Nack))
      \/ \E x \in BuildNames : EndBuild(x) \/ SyncBuild(x) \/ DeleteBuild(x)
  BY Zenon DEF Next, Environment, Produce, Consume, vars, Push, ChangeSource, SyncUpload, Vanish,
         AppChange, Webhook, WebhookUnanswered, HandleDeployApp, Tick, ClaimNext, EndTick, Ack,
         AckError, AppsForDelivery, SkipApp, ResolveCommit, NackStuck, CreateBuild, Nack, Crash, Rollback
<1>6. QED
  BY <1>1, <1>2, <1>3, <1>4, <1>5, Zenon

\* What a step does to the budget and the row in hand.
LEMMA HandSteps ==
    ASSUME Inv, Inv', [Next]_vars
    PROVE  \/ UNCHANGED <<pc, budget, todo>>
           \/ budget' = 0 /\ pc' = "idle"
           \/ budget' = budget /\ pc' = "tick"
           \/ Tick
           \/ pc = "tick" /\ budget > 0 /\ pc' = "claimed" /\ budget' = budget - 1
           \/ pc = "claimed" /\ pc' = "apps" /\ budget' = budget /\ todo' \subseteq Targets(row) /\ row \in Ids
           \/ pc = "apps" /\ pc' \in {"apps", "create"} /\ budget' = budget /\ todo' \subseteq todo
           \/ CreateBuild
<1>1. pc = "claimed" => row \in Ids
  BY Zenon DEF Inv, TypeOK
<1>2. CASE Tick \/ ClaimNext \/ EndTick \/ AppsForDelivery
  BY <1>1, <1>2, Zenon DEF Tick, ClaimNext, EndTick, AppsForDelivery
<1>3. ASSUME NEW a \in Apps, SkipApp(a) \/ ResolveCommit(a)
      PROVE  pc = "apps" /\ pc' \in {"apps", "create"} /\ budget' = budget /\ todo' \subseteq todo
  BY <1>3, Zenon DEF SkipApp, ResolveCommit
<1>4. QED
  BY <1>2, <1>3, Zenon DEF Next, Environment, Produce, Consume, vars, worker, Push, ChangeSource, SyncUpload, Vanish,
         AppChange, EndBuild, SyncBuild, DeleteBuild, Webhook, WebhookUnanswered, HandleDeployApp,
         Ack, AckError, NackStuck, Nack, Crash, Rollback, Leave

LEMMA Products ==
    ASSUME NEW n \in Nat, NEW f \in Nat
    PROVE  n * f \in Nat /\ 0 * f = 0 /\ (n > 0 => (n - 1) * f = n * f - f)
  OBVIOUS

LEMMA LoadNext ==
    ASSUME CatchUp, Inv, Inv', Load, [Next]_vars
    PROVE  Load'
<1> DEFINE k == Cardinality(InFlight)
           l == Cardinality(InFlight')
           h == InHandAtMost
           i == InHandAtMost'
           F == FanOut
           M == MaxConcurrentBuilds
<1>0. TypeOK /\ TypeOK'
  BY Zenon DEF Inv
<1>1. /\ k \in Nat /\ l \in Nat /\ h \in Nat /\ i \in Nat /\ F \in Nat /\ M \in Nat
      /\ budget \in Nat /\ budget' \in Nat
  <2>1. k \in Nat /\ h \in Nat /\ F \in Nat /\ M \in Nat /\ budget \in Nat
    BY <1>0, Counted, Zenon
  <2>2. (Cardinality(InFlight) \in Nat /\ InHandAtMost \in Nat /\ budget \in Nat)'
    BY <1>0, Counted, PTL
  <2>3. QED
    BY <2>1, <2>2, Zenon
<1>2. k + budget * F + h <= M * F
  BY Zenon DEF Load
<1>3. SUFFICES l + budget' * F + i <= M * F
  BY FlightSteps, Zenon DEF Load
<1>4. /\ budget * F \in Nat /\ budget' * F \in Nat /\ M * F \in Nat /\ 0 * F = 0
      /\ budget > 0 => (budget - 1) * F = budget * F - F
  BY <1>1, Products, Zenon
<1>5. ASSUME pc = "create"
      PROVE  h = Cardinality(todo) /\ Cardinality(todo \ {cur}) = h - 1
  <2>1. cur \in todo
    BY <1>5, Zenon DEF Inv, Resolved
  <2>2. QED
    BY <1>0, <1>5, <2>1, Counted, FS_RemoveElement, Zenon DEF InHandAtMost
<1>6. ASSUME CreateBuild
      PROVE  pc = "create" /\ i = h - 1 /\ budget' = budget
  <2>1. pc = "create" /\ pc' = "apps" /\ todo' = todo \ {cur} /\ budget' = budget
    BY <1>6, Zenon DEF CreateBuild
  <2>2. i = Cardinality(todo')
    BY <2>1, Zenon DEF InHandAtMost
  <2>3. QED
    BY <1>5, <2>1, <2>2, Zenon
<1> HIDE DEF k, l, h, i, F, M
<1>7. CASE pc = "create" /\ l <= k + 1 /\ (CreateBuild \/ Nack)
  <2>1. CASE CreateBuild
    BY <1>1, <1>2, <1>4, <1>6, <1>7, <2>1
  <2>2. CASE Nack
    <3>1. budget' = 0 /\ i = 0
      BY <2>2, Zenon DEF Nack, Leave, InHandAtMost, i
    <3>2. h >= 1
      <4>1. Cardinality(todo \ {cur}) \in Nat
        BY <1>0, Counted, Zenon
      <4>2. QED
        BY <1>1, <1>5, <1>7, <4>1
    <3>3. QED
      BY <1>1, <1>2, <1>4, <1>7, <3>1, <3>2
  <2>3. QED
    BY <1>7, <2>1, <2>2, Zenon
<1>8. CASE l <= k
  <2>1. CASE UNCHANGED <<pc, budget, todo>>
    <3>1. i = h
      BY <2>1, Zenon DEF InHandAtMost, i, h
    <3>2. QED
      BY <1>1, <1>2, <1>4, <1>8, <2>1, <3>1
  <2>2. CASE budget' = 0 /\ pc' = "idle"
    <3>1. i = 0
      BY <2>2, Zenon DEF InHandAtMost, i
    <3>2. QED
      BY <1>1, <1>2, <1>4, <1>8, <2>2, <3>1
  <2>3. CASE budget' = budget /\ pc' = "tick"
    <3>1. i = 0
      BY <2>3, Zenon DEF InHandAtMost, i
    <3>2. QED
      BY <1>1, <1>2, <1>4, <1>8, <2>3, <3>1
  <2>4. CASE Tick
    <3>1. SeenInFlight = InFlight
      BY Zenon DEF Load, SeenInFlight, InFlight
    <3>2. budget' = M - k /\ M - k > 0 /\ pc' = "tick"
      BY <2>4, <3>1, Zenon DEF Tick, Budget, M, k
    <3>3. i = 0
      BY <3>2, Zenon DEF InHandAtMost, i
    <3>4. k <= M * F /\ M > k
      BY <1>1, <1>2, <1>4, <3>2
    <3>5. k + (M - k) * F <= M * F
      BY <1>1, <3>4, Weights, Zenon
    <3>6. QED
      BY <1>1, <1>4, <1>8, <3>2, <3>3, <3>5
  <2>5. CASE pc = "tick" /\ budget > 0 /\ pc' = "claimed" /\ budget' = budget - 1
    <3>1. i = F /\ h = 0
      BY <2>5, Zenon DEF InHandAtMost, i, h, F
    <3>2. QED
      BY <1>1, <1>2, <1>4, <1>8, <2>5, <3>1
  <2>6. CASE pc = "claimed" /\ pc' = "apps" /\ budget' = budget /\ todo' \subseteq Targets(row) /\ row \in Ids
    <3>1. h = F /\ i = Cardinality(todo')
      BY <2>6, Zenon DEF InHandAtMost, i, h, F
    <3>2. Targets(row) \subseteq Apps /\ IsFiniteSet(Apps)
      BY <2>6, Subjects, DispatchConstants, Zenon DEF DispatchConstants
    <3>3. IsFiniteSet(Targets(row))
      BY <3>2, FS_Subset, Zenon
    <3>4. Cardinality(todo') <= Cardinality(Targets(row)) /\ Cardinality(Targets(row)) \in Nat
      BY <2>6, <3>3, FS_Subset, FS_CardinalityType, Zenon
    <3>5. Cardinality(Targets(row)) <= F
      BY <2>6, FanOutBounds, Zenon DEF F
    <3>6. QED
      BY <1>1, <1>2, <1>4, <1>8, <2>6, <3>1, <3>4, <3>5
  <2>7. CASE pc = "apps" /\ pc' \in {"apps", "create"} /\ budget' = budget /\ todo' \subseteq todo
    <3>1. h = Cardinality(todo) /\ i = Cardinality(todo')
      BY <2>7, Zenon DEF InHandAtMost, i, h
    <3>2. Cardinality(todo') <= Cardinality(todo)
      BY <1>0, <2>7, Counted, Zenon
    <3>3. QED
      BY <1>1, <1>2, <1>4, <1>8, <2>7, <3>1, <3>2
  <2>8. CASE CreateBuild
    BY <1>1, <1>2, <1>4, <1>6, <1>8, <2>8
  <2>9. QED
    BY <2>1, <2>2, <2>3, <2>4, <2>5, <2>6, <2>7, <2>8, HandSteps, Zenon
<1>9. QED
  BY <1>7, <1>8, FlightSteps, Zenon DEF k, l

\* With informers that catch up between polls, the Builds in flight never exceed
\* the cap times the fan-out of a delivery, whatever crashes, retries and lost
\* acknowledgements come between processOne's steps.
THEOREM InFlightStaysBounded ==
    ASSUME CatchUp
    PROVE  Spec => []InFlightBounded
<1>1. Init => Load
  <2> SUFFICES ASSUME Init PROVE Load
    BY Zenon
  <2>1. InFlight = {} /\ InHandAtMost = 0 /\ budget = 0
    BY Zenon DEF Init, InFlight, InHandAtMost
  <2>2. Cardinality(InFlight) = 0
    BY <2>1, FS_EmptySet, Zenon
  <2>3. FanOut \in Nat /\ MaxConcurrentBuilds \in Nat
    BY FanOutBounds, DispatchConstants, Zenon DEF DispatchConstants
  <2>4. Cardinality(InFlight) + budget * FanOut + InHandAtMost <= MaxConcurrentBuilds * FanOut
    BY <2>1, <2>2, <2>3
  <2>5. QED
    BY <2>4, Zenon DEF Init, Load
<1>2. Inv /\ Inv' /\ Load /\ [Next]_vars => Load'
  BY LoadNext, Zenon
<1>3. Inv /\ Load => InFlightBounded
  <2> SUFFICES ASSUME Inv, Load PROVE InFlightBounded
    BY Zenon
  <2> DEFINE k == Cardinality(InFlight)
  <2>1. /\ k \in Nat /\ FanOut \in Nat /\ InHandAtMost \in Nat /\ budget \in Nat /\ MaxConcurrentBuilds \in Nat
        /\ k + budget * FanOut + InHandAtMost <= MaxConcurrentBuilds * FanOut
    BY Counted, Zenon DEF Inv, Load
  <2> HIDE DEF k
  <2>2. k <= MaxConcurrentBuilds * FanOut
    BY <2>1
  <2>3. QED
    BY <2>2, Zenon DEF InFlightBounded, k
<1>4. QED
  BY Invariance, <1>1, <1>2, <1>3, PTL DEF Spec
=============================================================================
