------------------------------ MODULE GitHooks ------------------------------
(***************************************************************************)
(* The hooks that scheduled tasks have in git repositories                 *)
(* (apps/desktop/src/main/scheduler/git-hooks.ts). A repository has one    *)
(* file for each hook. It may be the user's; then a block is added that    *)
(* calls the task's script, which lies beside it. Otherwise the script is  *)
(* the file. The script posts to the port in a file of the repository.     *)
(*                                                                         *)
(* Each of these operations is synchronous. The text of scripts, their     *)
(* signatures, the companions for Windows, lines a user adds to a script,  *)
(* directories that are no repositories and failing writes are left out.   *)
(* The tasks are those of FileWatchers, of which nothing else is used.     *)
(***************************************************************************)
EXTENDS FileWatchers

CONSTANTS
    Hooks,      \* hooks, each of one repository
    Repos,      \* repositories
    Repo,       \* the repository of each hook
    Ports       \* ports the listener may get

NoTask == "no-task"
NoPort == 0

ASSUME HooksAssumption ==
    /\ NoTask \notin Tasks
    /\ NoPort \notin Ports
    /\ Repo \in [Hooks -> Repos]

VARIABLES
    file,       \* <hook>: the user's or not, with our block or not, or our script
    wrapper,    \* <hook>.opencodex: whose script
    portFile,   \* opencodex-port, by repository
    claims      \* history: tasks whose trigger has ever been the hook

hookVars == <<file, wrapper, portFile, claims>>

NoFile == [user |-> FALSE, block |-> FALSE, script |-> NoTask]

HooksTypeOK ==
    /\ file \in [Hooks -> [user: BOOLEAN, block: BOOLEAN, script: Tasks \cup {NoTask}]]
    /\ \A h \in Hooks : file[h].block => file[h].user
    /\ \A h \in Hooks : file[h].user => file[h].script = NoTask
    /\ wrapper \in [Hooks -> Tasks \cup {NoTask}]
    /\ portFile \in [Repos -> Ports \cup {NoPort}]
    /\ claims \in [Hooks -> SUBSET Tasks]

\* No task has a hook yet; the user may have.
HooksInit ==
    /\ file \in [Hooks -> {NoFile, [NoFile EXCEPT !.user = TRUE]}]
    /\ wrapper = [h \in Hooks |-> NoTask]
    /\ portFile = [r \in Repos |-> NoPort]
    /\ claims = [h \in Hooks |-> {}]

\* installGitHook() for each of some hooks, the hook h for task owner[h].
InstallGitHooks(owner) ==
    /\ file' = [h \in Hooks |->
          CASE h \notin DOMAIN owner -> file[h]
            [] h \in DOMAIN owner /\ file[h].user -> [file[h] EXCEPT !.block = TRUE]
            [] OTHER -> [NoFile EXCEPT !.script = owner[h]]]
    /\ wrapper' = [h \in Hooks |->
          IF h \in DOMAIN owner /\ file[h].user THEN owner[h] ELSE wrapper[h]]

\* writeListenerPortFile() for each of some repositories.
WriteListenerPortFiles(repos, port) ==
    portFile' = [r \in Repos |-> IF r \in repos THEN port ELSE portFile[r]]

\* uninstallGitHook(), whichever task's script it is.
UninstallGitHook(h) ==
    /\ file' = [file EXCEPT ![h] = IF @.user THEN [@ EXCEPT !.block = FALSE] ELSE NoFile]
    /\ wrapper' = [wrapper EXCEPT ![h] = NoTask]

\* Whose script git runs.
Called(h) == IF file[h].block THEN wrapper[h] ELSE file[h].script

\* The user writes a hook where there is none, or removes one that is all theirs.
UserEditsHook(h) ==
    /\ file[h].script = NoTask
    /\ ~file[h].block
    /\ file' = [file EXCEPT ![h].user = ~@]
    /\ UNCHANGED <<wrapper, portFile, claims>>
=============================================================================
