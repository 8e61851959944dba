---------------------------- MODULE MergeReview ----------------------------
(***************************************************************************)
(* What becomes of the work an agent run does in a git worktree            *)
(* (apps/desktop/src/main/agent/merge-review.ts, worktrees.ts and the      *)
(* window's MergeReviewModal.tsx, AgentRunRow.tsx): the user opens the     *)
(* review of a run that is over and merges or discards it. Each verdict is *)
(* a chain of git commands, each awaited, and nothing keeps a second       *)
(* verdict on the same run from starting between two of them: the modal of *)
(* a verdict in flight goes away when the user turns to another view.      *)
(*                                                                         *)
(* git is external and modelled by what these commands do: it refuses a    *)
(* merge while one is unfinished, and to delete a branch that is checked   *)
(* out; any command may fail. The work of a run is one piece that lies     *)
(* uncommitted in the worktree, on its branch, or in the user's branch.    *)
(***************************************************************************)
EXTENDS RunRegistry

CONSTANT MaxReviews    \* bound: reviews in the modal or in flight at once

Reviews  == 1 .. MaxReviews
NoReview == [at |-> "closed"]
NoMerge  == "no-merge"

ASSUME ReviewAssumption ==
    /\ MaxReviews \in Nat
    /\ NoMerge \notin Runs

VARIABLES
    tree,       \* the worktree on disk, and whether it holds changes
    branch,     \* its branch: where it was made, or ahead by the commit
    landed,     \* runs whose commit is in the user's branch
    merging,    \* the run whose merge stopped in a conflict, if any
    review,     \* the reviews
    dropped,    \* history: runs whose changes the user chose to discard
    contested   \* history: runs reviewed twice at once, or merged into a conflict

reviewVars == <<tree, branch, landed, merging, review, dropped, contested>>

Review == [at: {"open"}, run: Runs]
     \cup [at: {"commit", "merge"}, run: Runs, verdict: {"merged"}]
     \cup [at: {"remove", "prune", "mark"}, run: Runs, verdict: {"merged", "rejected"}]

ReviewTypeOK ==
    /\ tree \in [Runs -> {"none", "clean", "dirty"}]
    /\ branch \in [Runs -> {"none", "base", "ahead"}]
    /\ landed \subseteq Runs
    /\ merging \in Runs \cup {NoMerge}
    /\ review \in [Reviews -> Review \cup {NoReview}]
    /\ {dropped, contested} \subseteq SUBSET Runs

ReviewInit ==
    /\ tree = [r \in Runs |-> "none"]
    /\ branch = [r \in Runs |-> "none"]
    /\ landed = {}
    /\ merging = NoMerge
    /\ review = [v \in Reviews |-> NoReview]
    /\ dropped = {}
    /\ contested = {}

-----------------------------------------------------------------------------
(* The worktree of a run                                                   *)

OnDisk == {r \in Runs : tree[r] # "none"}

\* createWorktree()
CreateWorktree(r) ==
    /\ tree' = [tree EXCEPT ![r] = "clean"]
    /\ branch' = [branch EXCEPT ![r] = "base"]
    /\ UNCHANGED <<landed, merging, review, dropped, contested>>

\* A tool of the run writes a file.
WriteInTree(r) ==
    /\ tree[r] = "clean"
    /\ tree' = [tree EXCEPT ![r] = "dirty"]
    /\ UNCHANGED <<branch, landed, merging, review, dropped, contested>>

-----------------------------------------------------------------------------
(* The modal                                                               *)

InFlight(r) == {v \in Reviews : review[v].at \notin {"closed", "open"} /\ review[v].run = r}

Move(v, at) == review' = [review EXCEPT ![v].at = at]
Close(v)    == review' = [review EXCEPT ![v] = NoReview]

\* The answer is an error: the modal stays open, unless it went away meanwhile.
Fail(v) ==
    \/ Close(v)
    \/ /\ \A w \in Reviews : review[w].at # "open"
       /\ review' = [review EXCEPT ![v] = [at |-> "open", run |-> review[v].run]]

\* The row of a run offers the review when the run is over and its merge pending, and
\* the modal its buttons when prepareMergeBundle() found the worktree. Of the places for
\* a review, which are all alike, the first free one is taken.
OpenReview(v, r) ==
    /\ review[v].at = "closed"
    /\ \A w \in Reviews : w < v => review[w].at # "closed"
    /\ \A w \in Reviews : review[w].at # "open"
    /\ entry[r].status \in {"completed", "failed"}
    /\ entry[r].merge = "pending"
    /\ tree[r] # "none"
    /\ review' = [review EXCEPT ![v] = [at |-> "open", run |-> r]]
    /\ contested' = IF InFlight(r) = {} THEN contested ELSE contested \cup {r}
    /\ UNCHANGED <<tree, branch, landed, merging, dropped, registryVars>>

CloseReview(v) ==
    /\ review[v].at = "open"
    /\ Close(v)
    /\ UNCHANGED <<tree, branch, landed, merging, dropped, contested, registryVars>>

\* acceptMerge() and rejectMerge() begin. Of a run that is no longer listed they know
\* nothing.
Accept(v) ==
    /\ review[v].at = "open"
    /\ entry[review[v].run] # Absent
    /\ review' = [review EXCEPT ![v] =
           [at |-> "commit", run |-> review[v].run, verdict |-> "merged"]]
    /\ UNCHANGED <<tree, branch, landed, merging, dropped, contested, registryVars>>

Reject(v) ==
    LET r == review[v].run
    IN  /\ review[v].at = "open"
        /\ entry[r] # Absent
        /\ review' = [review EXCEPT ![v] =
               [at |-> "remove", run |-> r, verdict |-> "rejected"]]
        /\ dropped' = dropped \cup {r}
        /\ UNCHANGED <<tree, branch, landed, merging, contested, registryVars>>

-----------------------------------------------------------------------------
(* The steps of a verdict                                                  *)

\* (mutant) The worktree is not committed: its branch stays where it was made.
CommitNothing(v) ==
    /\ review[v].at = "commit"
    /\ Move(v, "merge")
    /\ UNCHANGED <<tree, branch, landed, merging, dropped, contested, registryVars>>

\* commitWorktree(): stage, look, commit. A worktree that is gone, or a failing
\* command, ends the verdict; without changes there is no commit.
CommitWorktree(v) ==
    LET r == review[v].run
    IN  /\ review[v].at = "commit"
        /\ \/ /\ tree[r] # "none"
              /\ Move(v, "merge")
              /\ tree' = [tree EXCEPT ![r] = "clean"]
              /\ branch' = IF tree[r] = "dirty" THEN [branch EXCEPT ![r] = "ahead"] ELSE branch
           \/ /\ Fail(v)
              /\ UNCHANGED <<tree, branch>>
        /\ UNCHANGED <<landed, merging, dropped, contested, registryVars>>

\* (mutant) A merge that fails does not end the verdict.
MergeRegardless(v) ==
    LET r == review[v].run
    IN  /\ review[v].at = "merge"
        /\ Move(v, "remove")
        /\ landed' = IF branch[r] = "ahead" /\ merging = NoMerge THEN landed \cup {r} ELSE landed
        /\ UNCHANGED <<tree, branch, merging, dropped, contested, registryVars>>

\* git merge --no-ff <branch> in the repository: done; stopped in a conflict, which is
\* left as it is; or refused.
Merge(v) ==
    LET r == review[v].run
    IN  /\ review[v].at = "merge"
        /\ \/ /\ branch[r] # "none" /\ merging = NoMerge
              /\ Move(v, "remove")
              /\ landed' = IF branch[r] = "ahead" THEN landed \cup {r} ELSE landed
              /\ UNCHANGED <<merging, contested>>
           \/ /\ branch[r] = "ahead" /\ merging = NoMerge /\ r \notin landed
              /\ Fail(v)
              /\ merging' = r
              /\ contested' = contested \cup {r}
              /\ UNCHANGED landed
           \/ /\ Fail(v)
              /\ UNCHANGED <<landed, merging, contested>>
        /\ UNCHANGED <<tree, branch, dropped, registryVars>>

\* removeWorktree(), up to the removal of the directory, which may fail and is then
\* passed over. Only a worktree git knew has its branch deleted next. When the
\* worktrees cannot be listed it throws: that ends a rejection, not a merge.
RemoveWorktree(v) ==
    LET r == review[v].run
    IN  /\ review[v].at = "remove"
        /\ \/ /\ Move(v, IF tree[r] = "none" THEN "mark" ELSE "prune")
              /\ \/ tree' = [tree EXCEPT ![r] = "none"]
                 \/ UNCHANGED tree
           \/ /\ IF review[v].verdict = "merged" THEN Move(v, "mark") ELSE Fail(v)
              /\ UNCHANGED tree
        /\ UNCHANGED <<branch, landed, merging, dropped, contested, registryVars>>

\* removeWorktree(), the branch: refused while it is checked out, and passed over.
PruneBranch(v) ==
    LET r == review[v].run
    IN  /\ review[v].at = "prune"
        /\ Move(v, "mark")
        /\ \/ tree[r] = "none" /\ branch' = [branch EXCEPT ![r] = "none"]
           \/ UNCHANGED branch
        /\ UNCHANGED <<tree, landed, merging, dropped, contested, registryVars>>

\* setMergeStatus(), on a run that may no longer be listed.
MarkVerdict(v) ==
    /\ review[v].at = "mark"
    /\ SetMergeStatus(review[v].run, review[v].verdict)
    /\ Close(v)
    /\ UNCHANGED <<tree, branch, landed, merging, dropped, contested>>

-----------------------------------------------------------------------------
(* The user's repository                                                   *)

\* The user commits the conflicted merge, with the run's work in it, or gives it up.
ConcludeMerge ==
    /\ merging # NoMerge
    /\ merging' = NoMerge
    /\ landed' \in {landed, landed \cup {merging}}
    /\ UNCHANGED <<tree, branch, review, dropped, contested, registryVars>>

ReviewStep(v) ==
    \/ CommitWorktree(v)
    \/ Merge(v)
    \/ RemoveWorktree(v)
    \/ PruneBranch(v)
    \/ MarkVerdict(v)

\* The process ends: reviews and verdicts go, whatever git has done stays.
ReviewsCut ==
    /\ review' = [v \in Reviews |-> NoReview]
    /\ UNCHANGED <<tree, branch, landed, merging, dropped, contested>>
=============================================================================
