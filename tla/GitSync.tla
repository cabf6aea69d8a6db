------------------------------- MODULE GitSync -------------------------------
(***************************************************************************)
(* A mapping of a branch on GitHub: the run of _run_git_sync, one git      *)
(* command after the other, the user who edits the same working tree       *)
(* meanwhile, and the commits of others.  A file's content is the number   *)
(* of the edit that made it, 0 for none; git merges no two edits of one    *)
(* file.  The user makes no commits of his own.  Not modelled: a folder    *)
(* that is a clone of something else, a branch that is missing on GitHub   *)
(* or was rewritten there.                                                 *)
(***************************************************************************)
EXTENDS Naturals, FiniteSets, Sequences, SequencesExt

CONSTANTS
  GitFiles,
  MaxDelete,   \* job.max_delete
  MaxGitEdits  \* bound: edits of the user and commits of others, together

ASSUME GitAssumption == MaxGitEdits \in Nat

VARIABLES
  mode,         \* job.mode
  initialized,  \* job.initialized: a run has succeeded
  github,       \* the branch, as a sequence of commits
  repository,   \* the local one: none, half (no index: the checkout was cut
                \* off) or whole
  history,      \* the local branch
  tracking,     \* origin/branch
  rebasing,     \* a rebase has begun and not ended: HEAD is detached
  work,         \* the working tree
  git,          \* the run: where it is and what it staged
  green,        \* its last result was a success
  gitEdits,
  cutOff,       \* ghost: a first checkout was cut off
  wantedEdits,  \* ghost: the user's edits that he has not replaced himself
  staged,       \* ghost: those among them that the last run staged
  undone,       \* ghost: those made while a rebase ran
  deletedFiles  \* ghost: files somebody has deleted

gitHistories == <<github, history, tracking>>
gitGhosts == <<cutOff, wantedEdits, staged, undone, deletedFiles>>
gitVars == <<mode, initialized, gitHistories, repository, rebasing, work, git, green,
             gitEdits, gitGhosts>>

NoFiles == [f \in GitFiles |-> 0]
GitIdle == [at |-> "idle", index |-> NoFiles]

\* A commit is what it changes; no two have one number.
Commit(n, change) == [id |-> n, change |-> change]
TreeOf(commits) ==
  [f \in GitFiles |->
     LET changes == {i \in DOMAIN commits : f \in DOMAIN commits[i].change}
     IN  IF changes = {} THEN 0 ELSE commits[Max(changes)].change[f]]
FirstCommit == Commit(0, [f \in GitFiles |-> 1])

GitInit ==
  /\ mode \in {"two_way", "download_only", "upload_only"} /\ initialized = FALSE
  /\ github = <<FirstCommit>> /\ history = <<>> /\ tracking = <<>>
  /\ repository = "none" /\ rebasing = FALSE /\ work = NoFiles
  /\ git = GitIdle /\ green = FALSE /\ gitEdits = 1
  /\ cutOff = FALSE /\ wantedEdits = {} /\ staged = {} /\ undone = {} /\ deletedFiles = {}

-----------------------------------------------------------------------------
(* The users *)

UserEdits(f) ==
  /\ gitEdits < MaxGitEdits /\ gitEdits' = gitEdits + 1
  /\ work' = [work EXCEPT ![f] = gitEdits']
  /\ wantedEdits' = (wantedEdits \ {work[f]}) \union {gitEdits'}
  /\ undone' = IF rebasing THEN undone \union {gitEdits'} ELSE undone
  /\ UNCHANGED <<mode, initialized, gitHistories, repository, rebasing, git, green,
                 cutOff, staged, deletedFiles>>

UserDeletes(f) ==
  /\ gitEdits < MaxGitEdits /\ gitEdits' = gitEdits + 1
  /\ work[f] # 0 /\ work' = [work EXCEPT ![f] = 0]
  /\ wantedEdits' = wantedEdits \ {work[f]}
  /\ deletedFiles' = deletedFiles \union {f}
  /\ UNCHANGED <<mode, initialized, gitHistories, repository, rebasing, git, green,
                 cutOff, staged, undone>>

OthersPush(f) ==
  /\ gitEdits < MaxGitEdits /\ gitEdits' = gitEdits + 1
  /\ \/ /\ github' = Append(github, Commit(gitEdits', [x \in {f} |-> gitEdits']))
        /\ UNCHANGED deletedFiles
     \/ /\ TreeOf(github)[f] # 0
        /\ github' = Append(github, Commit(gitEdits', [x \in {f} |-> 0]))
        /\ deletedFiles' = deletedFiles \union {f}
  /\ UNCHANGED <<mode, initialized, history, tracking, repository, rebasing, work, git,
                 green, cutOff, wantedEdits, staged, undone>>

-----------------------------------------------------------------------------
(* The run *)

GitGoes(from, to) == git.at = from /\ git' = [git EXCEPT !.at = to]
GitFails(from) == git.at = from /\ git' = GitIdle /\ UNCHANGED <<initialized, green>>
GitSucceeds(from) ==
  git.at = from /\ git' = GitIdle /\ green' = TRUE /\ initialized' = TRUE

FirstCommand == IF mode = "download_only" THEN "status" ELSE "changes"

GitStarts ==
  /\ GitGoes("idle", "look") /\ green' = FALSE
  /\ staged' = {}
  /\ UNCHANGED <<mode, initialized, gitHistories, repository, rebasing, work, gitEdits,
                 cutOff, wantedEdits, undone, deletedFiles>>

\* A folder that holds files is not cloned into, one that is on no branch is left
\* alone.
LookAtFolder ==
  /\ CASE repository = "none" /\ work = NoFiles -> GitGoes("look", "clone")
       [] repository # "none" /\ ~rebasing -> GitGoes("look", FirstCommand)
       [] OTHER -> git.at = "look" /\ git' = GitIdle
  /\ UNCHANGED <<mode, initialized, green, gitHistories, repository, rebasing, work,
                 gitEdits, gitGhosts>>

Cloned(kind, files) ==
  /\ work = NoFiles
  /\ history' = github /\ tracking' = github /\ repository' = kind
  /\ work' = [f \in GitFiles |-> IF f \in files THEN TreeOf(github)[f] ELSE 0]
  /\ UNCHANGED <<mode, github, rebasing, gitEdits, wantedEdits, staged, undone,
                 deletedFiles>>

Clone ==
  /\ GitGoes("clone", FirstCommand) /\ Cloned("whole", GitFiles)
  /\ UNCHANGED <<initialized, green, cutOff>>

\* Stopped while it checks out, git keeps the repository and what it has written.
CloneStopped ==
  /\ GitFails("clone")
  /\ \E files \in SUBSET GitFiles : files # GitFiles /\ Cloned("half", files)
  /\ cutOff' = TRUE

\* Without an index every file of the commit counts as deleted, those in the
\* folder as new.
Modified == {f \in GitFiles : work[f] # TreeOf(history)[f]}
Deletions ==
  {f \in GitFiles : TreeOf(history)[f] # 0 /\ (work[f] = 0 \/ repository = "half")}

\* The guard counts more than this and is a matter of sizes.
GuardBlocks == initialized /\ (Modified # {} \/ repository = "half")

Changes ==
  /\ \/ Cardinality(Deletions) <= MaxDelete /\ GitGoes("changes", "add")
     \/ (GuardBlocks \/ Cardinality(Deletions) > MaxDelete)
        /\ git.at = "changes" /\ git' = GitIdle
  /\ UNCHANGED <<mode, initialized, green, gitHistories, repository, rebasing, work,
                 gitEdits, gitGhosts>>

Add ==
  /\ git.at = "add" /\ git' = [at |-> "commit", index |-> work]
  /\ repository' = "whole"
  /\ staged' = wantedEdits \intersect {work[f] : f \in GitFiles}
  /\ UNCHANGED <<mode, initialized, green, gitHistories, rebasing, work, gitEdits,
                 cutOff, wantedEdits, undone, deletedFiles>>

\* What is staged is committed when it differs.  A local commit takes the number
\* after those of all others.
DoCommit ==
  LET changed == {f \in GitFiles : git.index[f] # TreeOf(history)[f]} IN
  /\ GitGoes("commit", "fetch")
  /\ history' = IF changed = {} THEN history
                ELSE Append(history, Commit(MaxGitEdits + Len(history),
                                            [f \in changed |-> git.index[f]]))
  /\ UNCHANGED <<mode, initialized, green, github, tracking, repository, rebasing, work,
                 gitEdits, gitGhosts>>

AfterFetch == CASE mode = "two_way" -> "rebase"
                [] mode = "upload_only" -> "ancestor"
                [] OTHER -> "merge"

Fetch ==
  /\ GitGoes("fetch", AfterFetch) /\ tracking' = github
  /\ UNCHANGED <<mode, initialized, green, github, history, repository, rebasing, work,
                 gitEdits, gitGhosts>>

-----------------------------------------------------------------------------
(* Two-way: rebase, and abort when it ends with an error *)

CommonPart == LongestCommonPrefix({history, tracking})
Beyond(commits) == SubSeq(commits, Len(CommonPart) + 1, Len(commits))
TouchedBy(commits) == UNION {DOMAIN commits[i].change : i \in DOMAIN commits}

\* (Mutant) The branch is set to what was fetched.
RebasedAway == tracking

Rebased == tracking \o Beyond(history)
RebaseConflicts ==
  \E f \in TouchedBy(Beyond(history)) \intersect TouchedBy(Beyond(tracking)) :
    TreeOf(history)[f] # TreeOf(tracking)[f]

\* Changed under a commit that is to change them: git does not overwrite.
InTheWay(to) == {f \in Modified : TreeOf(to)[f] # TreeOf(history)[f]}
CheckedOut(to) ==
  [f \in GitFiles |-> IF TreeOf(to)[f] # TreeOf(history)[f] THEN TreeOf(to)[f] ELSE work[f]]

\* Refused: changes of tracked files, and new ones where a file of GitHub's goes.
RebaseRefused ==
  \/ \E f \in Modified : TreeOf(history)[f] # 0
  \/ \E f \in Modified : TreeOf(tracking)[f] # 0 /\ ~IsPrefix(tracking, history)

RebaseBegins ==
  /\ CASE RebaseRefused -> GitGoes("rebase", "abort") /\ UNCHANGED rebasing
       [] ~RebaseRefused /\ IsPrefix(tracking, history) ->
            GitGoes("rebase", "ahead") /\ UNCHANGED rebasing
       [] OTHER -> GitGoes("rebase", "rebasing") /\ rebasing' = TRUE
  /\ UNCHANGED <<mode, initialized, green, gitHistories, repository, work, gitEdits,
                 gitGhosts>>

RebaseEnds ==
  /\ ~RebaseConflicts /\ InTheWay(Rebased) = {}
  /\ GitGoes("rebasing", "ahead") /\ rebasing' = FALSE
  /\ history' = Rebased /\ work' = CheckedOut(Rebased)
  /\ UNCHANGED <<mode, initialized, green, github, tracking, repository, gitEdits,
                 gitGhosts>>

\* It conflicts, or is stopped.
RebaseFails ==
  /\ GitGoes("rebasing", "abort")
  /\ UNCHANGED <<mode, initialized, green, gitHistories, repository, rebasing, work,
                 gitEdits, gitGhosts>>

\* Tracked files become what was committed, whoever has changed them since.
Abort ==
  /\ GitFails("abort") /\ rebasing' = FALSE
  /\ work' = IF ~rebasing THEN work
             ELSE [f \in GitFiles |-> IF TreeOf(history)[f] # 0 \/ TreeOf(tracking)[f] # 0
                                      THEN TreeOf(history)[f] ELSE work[f]]
  /\ UNCHANGED <<mode, gitHistories, repository, gitEdits, gitGhosts>>

-----------------------------------------------------------------------------
(* Upload-only, the push, and download-only *)

Ancestor ==
  /\ IF IsPrefix(tracking, history) THEN GitGoes("ancestor", "ahead")
     ELSE git.at = "ancestor" /\ git' = GitIdle
  /\ UNCHANGED <<mode, initialized, green, gitHistories, repository, rebasing, work,
                 gitEdits, gitGhosts>>

Ahead ==
  /\ IF IsPrefix(history, tracking) THEN GitSucceeds("ahead")
     ELSE GitGoes("ahead", "push") /\ UNCHANGED <<initialized, green>>
  /\ UNCHANGED <<mode, gitHistories, repository, rebasing, work, gitEdits, gitGhosts>>

\* GitHub takes only what continues its branch.
Pushed == IsPrefix(github, history) /\ github' = history

Push ==
  /\ GitSucceeds("push") /\ Pushed /\ tracking' = history
  /\ UNCHANGED <<mode, history, repository, rebasing, work, gitEdits, gitGhosts>>

\* Stopped when GitHub had taken it.
PushCutOff ==
  /\ GitFails("push") /\ Pushed
  /\ UNCHANGED <<mode, history, tracking, repository, rebasing, work, gitEdits, gitGhosts>>

Status ==
  /\ IF Modified # {} \/ repository = "half" THEN git.at = "status" /\ git' = GitIdle
     ELSE GitGoes("status", "ls-remote")
  /\ UNCHANGED <<mode, initialized, green, gitHistories, repository, rebasing, work,
                 gitEdits, gitGhosts>>

LsRemote ==
  /\ IF github = history THEN GitSucceeds("ls-remote")
     ELSE GitGoes("ls-remote", "fetch") /\ UNCHANGED <<initialized, green>>
  /\ UNCHANGED <<mode, gitHistories, repository, rebasing, work, gitEdits, gitGhosts>>

Merge_ff_only ==
  /\ GitSucceeds("merge") /\ IsPrefix(history, tracking) /\ InTheWay(tracking) = {}
  /\ history' = tracking /\ work' = CheckedOut(tracking)
  /\ UNCHANGED <<mode, github, tracking, repository, rebasing, gitEdits, gitGhosts>>

\* The command cannot do it, cannot reach GitHub, or is stopped.
CommandFails ==
  /\ \E at \in {"clone", "changes", "add", "commit", "fetch", "ancestor", "ahead",
                "push", "abort", "status", "ls-remote", "merge"} : GitFails(at)
  /\ UNCHANGED <<mode, gitHistories, repository, rebasing, work, gitEdits, gitGhosts>>

\* The program ends, and git with it.
GitRestart ==
  /\ git.at # "idle" /\ git' = GitIdle
  /\ UNCHANGED <<mode, initialized, green, gitHistories, repository, rebasing, work,
                 gitEdits, gitGhosts>>

GitNext ==
  \/ \E f \in GitFiles : UserEdits(f) \/ UserDeletes(f) \/ OthersPush(f)
  \/ GitStarts \/ LookAtFolder \/ Clone \/ CloneStopped \/ Changes \/ Add \/ DoCommit
  \/ Fetch \/ RebaseBegins \/ RebaseEnds \/ RebaseFails \/ Abort
  \/ Ancestor \/ Ahead \/ Push \/ PushCutOff \/ Status \/ LsRemote \/ Merge_ff_only
  \/ CommandFails \/ GitRestart

GitSpec == GitInit /\ [][GitNext]_gitVars

-----------------------------------------------------------------------------
GitTrees == [GitFiles -> 0..MaxGitEdits]
GitTypeOK ==
  /\ mode \in {"two_way", "download_only", "upload_only"}
  /\ {initialized, rebasing, green, cutOff} \subseteq BOOLEAN
  /\ repository \in {"none", "half", "whole"} /\ work \in GitTrees
  /\ {wantedEdits, staged, undone} \subseteq SUBSET (1..MaxGitEdits)
  /\ git.index \in GitTrees /\ gitEdits \in 1..MaxGitEdits

Content(commits) ==
  UNION {{commits[i].change[f] : f \in DOMAIN commits[i].change} : i \in DOMAIN commits}

\* What the user wrote is in the folder or in a commit, however the commands
\* fail and whatever others push, until he replaces it himself; but an edit made
\* while git rebases goes when the rebase is aborted.
EditsAreKept ==
  wantedEdits \ undone \subseteq
    {work[f] : f \in GitFiles} \union Content(history) \union Content(github)

\* No file goes from GitHub that nobody deleted, until a first checkout is cut off:
\* the next run takes what is missing then for deleted.
OnlyUsersDelete ==
  ~cutOff => \A i \in DOMAIN github : \A f \in DOMAIN github[i].change :
               github[i].change[f] = 0 => f \in deletedFiles

\* A run that ended well has left on GitHub what it staged.
GreenIsPushed ==
  green /\ git.at = "idle" => /\ IsPrefix(history, github)
                              /\ staged \subseteq Content(github)

GitKeepsWork == EditsAreKept /\ OnlyUsersDelete /\ GreenIsPushed
=============================================================================
