-------------------------- MODULE MCFileFollowers --------------------------
(***************************************************************************)
(* What follows the files of a workspace, for TLC: the triggers of tasks   *)
(* on files and git hooks, and the index. They have watchers of their own  *)
(* and share nothing, so every behaviour has one of them active and the    *)
(* other unused: what one does does not depend on where the other is.      *)
(***************************************************************************)
EXTENDS EventTriggers, WorkspaceIndex, TLC

CONSTANTS t1, t2, g1, g2, commit, push, repo, f1, f2, v1, v2

TwoTasks    == {t1, t2}
TwoGlobs    == {g1, g2}
TwoHooks    == {commit, push}
OneRepo     == {repo}
RepoOf      == [h \in TwoHooks |-> repo]
TwoFiles    == {f1, f2}
TwoVersions == {v1, v2}

\* The order of tasks in the table decides nothing the model fixes, and nothing in the
\* model of the index tells files or versions apart.
Symmetric == Permutations(TwoTasks) \cup Permutations(TwoGlobs)
             \cup Permutations(TwoFiles) \cup Permutations(TwoVersions)

VARIABLE follower

followerVars == <<vars, indexVars, follower>>

FollowersInit ==
    /\ Init
    /\ IndexInit
    /\ follower \in {"triggers", "index"}
    /\ follower # "triggers" => file = [h \in Hooks |-> NoFile]
    /\ follower # "index" => disk = [f \in Files |-> Absent]

FollowersNext ==
    \/ /\ follower = "triggers"
       /\ Next
       /\ UNCHANGED <<indexVars, follower>>
    \/ /\ follower = "index"
       /\ IndexNext
       /\ UNCHANGED <<vars, follower>>

FollowersSpec == FollowersInit /\ [][FollowersNext]_followerVars
=============================================================================
