------------------------------ MODULE GitAdapter ------------------------------
(***************************************************************************)
(* The git adapter.  Commits are numbered along one line of history, 0     *)
(* meaning that the ref does not exist.  The repository has the branch and *)
(* the tag that the contract names, one other branch, a remote with its    *)
(* own copy of the branch, and the remote-tracking ref.  A detached HEAD   *)
(* is at the commit of the other branch.  An adapter runs one git command  *)
(* after another: where it looks first and acts later, s is the repository *)
(* that it looked at and w the one in which it acts.                       *)
(***************************************************************************)
EXTENDS Naturals, AdapterTypes

GitActions ==
  {"GitBranchCreate", "GitCommit", "GitCommitBranch", "GitTagCreate",
   "GitTagDelete", "GitBranchDelete", "GitPush", "GitPull", "GitFetch"}

HeadOf(w) == IF w.on = "branch" THEN w.branch ELSE w.main

\* given is the before_ref and after the after_ref of the contract's target,
\* and asked the base_ref of the request, each optional and any commit at all.
\* What an action does not look at is fixed.
GitWorlds(a) ==
  LET tags == a \in {"GitTagCreate", "GitTagDelete"}
      syncs == a \in {"GitPush", "GitPull", "GitFetch"}
      commits == a \in {"GitCommit", "GitCommitBranch"}
  IN
  { w \in [ main : {1}, branch : 0..2, on : {"main", "branch", "detached"},
            dirty : BOOLEAN, tag : IF tags THEN 0..1 ELSE {0},
            remote : IF syncs THEN {0, 2} ELSE {0},
            tracking : IF syncs THEN 0..1 ELSE {0},
            given : IF commits THEN 0..2 ELSE {0},
            after : IF commits THEN {0, 2} ELSE {0},
            asked : IF a = "GitBranchCreate" THEN {0, 2} ELSE {0} ] :
      w.on = "branch" => w.branch # 0 }

\* Remote-tracking refs are bookkeeping and not part of what is restored.
GitVisible(w) == <<w.main, w.branch, w.tag, w.remote>>

GitNoMeta ==
  [ base |-> 0, branch |-> 0, tag |-> 0, head |-> 0, pushed |-> 0,
    remote |-> 0, named |-> FALSE, planned |-> FALSE ]

\* git reset --hard moves whatever is checked out and cleans the worktree.
ResetHard(w, c) ==
  IF w.on = "branch" THEN [w EXCEPT !.branch = c, !.dirty = FALSE]
                     ELSE [w EXCEPT !.main = c, !.dirty = FALSE]

------------------------------------------------------------------------------
(* prepare *)

GitPrepareBranchCreate(w) ==
  IF w.branch = 0 /\ (w.asked # 0 \/ w.on # "detached")
  THEN {Ok(w, [GitNoMeta EXCEPT !.base = IF w.asked # 0 THEN w.asked ELSE HeadOf(w),
                                !.named = TRUE])}
  ELSE {Err(w)}

GitPrepareTagCreate(w) == IF w.tag = 0 THEN {Ok(w, GitNoMeta)} ELSE {Err(w)}

GitPrepareTagDelete(w) ==
  IF w.tag # 0 THEN {Ok(w, [GitNoMeta EXCEPT !.tag = w.tag])} ELSE {Err(w)}

GitPrepareBranchDelete(w) ==
  IF w.branch # 0 /\ w.on = "main"
  THEN {Ok(w, [GitNoMeta EXCEPT !.branch = w.branch])} ELSE {Err(w)}

\* The remote tip is remembered from the tracking ref, if there is one.
GitPreparePush(w) ==
  IF w.on # "detached" /\ w.branch # 0
  THEN {Ok(w, [GitNoMeta EXCEPT !.branch = w.branch, !.remote = w.tracking,
                                !.named = TRUE])}
  ELSE {Err(w)}

GitPreparePull(w) ==
  IF w.dirty THEN {Err(w)}
  ELSE {Ok(w, [GitNoMeta EXCEPT !.head = HeadOf(w), !.remote = w.tracking,
                                !.named = TRUE])}

GitPrepareFetch(w) ==
  {Ok(w, [GitNoMeta EXCEPT !.branch = w.branch, !.named = TRUE])}

\* Every action may fail before it looks (no such repository or remote).
GitPrepare(a, w) ==
  {Err(w)} \cup
  CASE a = "GitBranchCreate" -> GitPrepareBranchCreate(w)
    [] a = "GitTagCreate" -> GitPrepareTagCreate(w)
    [] a = "GitTagDelete" -> GitPrepareTagDelete(w)
    [] a = "GitBranchDelete" -> GitPrepareBranchDelete(w)
    [] a = "GitPush" -> GitPreparePush(w)
    [] a = "GitPull" -> GitPreparePull(w)
    [] a = "GitFetch" -> GitPrepareFetch(w)
    [] OTHER -> {Ok(w, GitNoMeta)}

------------------------------------------------------------------------------
(* execute.  A command may run and its follow-up rev-parse still fail. *)

\* GitCommit with a branch name in the payload creates that branch too, and
\* only a successful receipt records the name.
GitExecuteBranchCreate(w, m) ==
  LET base == IF m.base # 0 THEN m.base ELSE HeadOf(w)
      made == [w EXCEPT !.branch = base]
  IN
  IF w.branch # 0 THEN {Err(w)}
  ELSE {Ok(made, [m EXCEPT !.base = base, !.named = TRUE]), Err(made), Err(w)}

GitExecuteTagCreate(w, m) ==
  LET made == [w EXCEPT !.tag = HeadOf(w)] IN
  IF w.tag # 0 THEN {Err(w)} ELSE {Ok(made, m), Err(made), Err(w)}

\* Deleting what is already gone succeeds.
GitExecuteTagDelete(w, m) ==
  LET gone == [w EXCEPT !.tag = 0] IN {Ok(gone, m), Err(gone), Err(w)}

GitExecuteBranchDelete(w, m) ==
  LET gone == [w EXCEPT !.branch = 0] IN
  IF w.on = "branch" THEN {Err(w)} ELSE {Ok(gone, m), Err(gone), Err(w)}

\* The remote refuses anything but a fast-forward.
GitExecutePush(w, m) ==
  LET pushed == [w EXCEPT !.remote = w.branch, !.tracking = w.branch] IN
  {Err(w)} \cup
  (IF w.branch = 0 \/ w.remote > w.branch THEN {}
   ELSE {Ok(pushed, [m EXCEPT !.pushed = w.branch]), Err(pushed)})

\* A pull that stops half-way leaves the worktree dirty.
GitExecutePull(w, m) ==
  LET pulled == IF w.remote > HeadOf(w) THEN ResetHard(w, w.remote) ELSE w IN
  {Err(w)} \cup
  (IF w.remote = 0 \/ w.dirty THEN {}
   ELSE {Ok(pulled, m), Err(pulled), Err([w EXCEPT !.dirty = TRUE])})

GitExecuteFetch(w, m) ==
  {Err(w)} \cup
  (IF w.remote = 0 THEN {} ELSE {Ok([w EXCEPT !.tracking = w.remote], m)})

\* A plain GitCommit only reads HEAD: the agent commits by itself.
GitExecute(a, w, m) ==
  CASE a \in {"GitBranchCreate", "GitCommitBranch"} -> GitExecuteBranchCreate(w, m)
    [] a = "GitTagCreate" -> GitExecuteTagCreate(w, m)
    [] a = "GitTagDelete" -> GitExecuteTagDelete(w, m)
    [] a = "GitBranchDelete" -> GitExecuteBranchDelete(w, m)
    [] a = "GitPush" -> GitExecutePush(w, m)
    [] a = "GitPull" -> GitExecutePull(w, m)
    [] a = "GitFetch" -> GitExecuteFetch(w, m)
    [] OTHER -> {Ok(w, m), Err(w)}

------------------------------------------------------------------------------
(* verify *)

\* Fails closed where the rollback would be refused.
GitVerifyBranch(w, m) ==
  w.on = "main" /\ w.branch # 0 /\ w.branch = m.base

\* HEAD is compared with the target's after_ref or else its before_ref; a pull
\* that found nothing new and a fetch that left the branch alone do not verify.
GitHolds(a, w, m) ==
  CASE a = "GitTagCreate" -> w.tag # 0
    [] a = "GitTagDelete" -> w.tag = 0
    [] a = "GitBranchDelete" -> w.branch = 0
    [] a = "GitPush" -> w.tracking = m.pushed
    [] a = "GitPull" -> HeadOf(w) # m.head
    [] a = "GitFetch" -> m.branch # 0 /\ w.branch # m.branch
    [] a = "GitBranchCreate" \/ m.named -> GitVerifyBranch(w, m)
    [] OTHER -> IF w.after # 0 THEN HeadOf(w) = w.after
                               ELSE w.given # 0 /\ HeadOf(w) = w.given

GitVerify(a, w, m) ==
  {Unverified(w)} \cup (IF GitHolds(a, w, m) THEN {Verified(w)} ELSE {})

------------------------------------------------------------------------------
(* rollback, which compensate calls as well *)

\* can_branch_be_safe_deleted: everything on the branch is merged into HEAD.
CanBeSafeDeleted(w) == w.branch <= HeadOf(w)

\* git branch -d makes sure of it again.
GitRollbackBranchCreate(s, w) ==
  CASE s.on # "main" -> {Err(w)}
    [] s.on = "main" /\ s.branch = 0 -> {Recovered(w)}
    [] OTHER -> {Err(w)} \cup
                (IF CanBeSafeDeleted(s) /\ w.branch # 0 /\ w.on # "branch" /\ CanBeSafeDeleted(w)
                 THEN {Recovered([w EXCEPT !.branch = 0])} ELSE {})

\* Deletes the remote branch, also one that was there before the push.
GitRollbackPush(w) ==
  LET deleted == [w EXCEPT !.remote = 0, !.tracking = 0] IN
  {Incomplete(w)} \cup
  (IF w.remote = 0 THEN {} ELSE {Recovered(deleted), Incomplete(deleted)})

\* GitPull to the captured HEAD, GitCommit to the target's before_ref.  git
\* status and git rev-parse come first: what is edited, committed or checked
\* out after them is reset all the same.
GitRollbackReset(s, w, c) ==
  LET reset == ResetHard(w, c) IN
  CASE c = 0 \/ s.dirty -> {Err(w)}
    [] c # 0 /\ ~s.dirty /\ HeadOf(s) = c -> {Recovered(w), Err(w)}
    [] OTHER -> {Recovered(reset), Err(w), Err(reset)}

\* A branch that has moved since is "restored" by resetting the worktree, with
\* no look at what is checked out or uncommitted.
GitRollbackFetch(w, m) ==
  LET reset == ResetHard(w, m.branch) IN
  IF m.branch \in {0, w.branch} THEN {Recovered(w)}
  ELSE {Incomplete(w)} \cup
       (IF reset.branch = 0 THEN {Incomplete(reset)} ELSE {Recovered(reset)})

GitRollbackTagCreate(w) == {Recovered([w EXCEPT !.tag = 0]), Err(w)}

\* Mutant: the tag is recreated where HEAD is now.
GitRollbackTagAtHead(w, m) == {Recovered([w EXCEPT !.tag = HeadOf(w)]), Err(w)}

\* Mutant: a tag that an earlier attempt brought back is in the way.
GitRollbackTagOnce(w, m) ==
  LET again == [w EXCEPT !.tag = m.tag] IN
  IF w.tag # 0 THEN {Err(w)} ELSE {Recovered(again), Err(again), Err(w)}

\* A tag that exists again is taken for restored.
GitRollbackTagDelete(w, m) ==
  LET again == [w EXCEPT !.tag = m.tag] IN
  IF w.tag # 0 THEN {Recovered(w)} ELSE {Recovered(again), Err(again), Err(w)}

GitRollbackBranchDelete(w, m) ==
  LET again == [w EXCEPT !.branch = m.branch] IN
  IF w.branch # 0 THEN {Recovered(w)} ELSE {Recovered(again), Err(again), Err(w)}

GitRollback(a, s, w, m) ==
  CASE a = "GitBranchCreate" \/ (a = "GitCommitBranch" /\ m.named) ->
         GitRollbackBranchCreate(s, w)
    [] a = "GitPush" -> GitRollbackPush(w)
    [] a = "GitPull" -> GitRollbackReset(s, w, m.head)
    [] a = "GitFetch" -> GitRollbackFetch(w, m)
    [] a = "GitTagCreate" -> GitRollbackTagCreate(w)
    [] a = "GitTagDelete" -> GitRollbackTagDelete(w, m)
    [] a = "GitBranchDelete" -> GitRollbackBranchDelete(w, m)
    [] OTHER -> GitRollbackReset(s, w, w.given)

------------------------------------------------------------------------------
(* The rest of the world *)

\* Someone commits, edits, checks out another branch, moves the tag or pushes.
GitMeddle(w) ==
  {[w EXCEPT !.dirty = TRUE], [w EXCEPT !.remote = 3]}
  \cup {[w EXCEPT !.on = o] : o \in {"main", "detached"}
                              \cup (IF w.branch # 0 THEN {"branch"} ELSE {})}
  \cup {[ResetHard(w, HeadOf(w) + 1) EXCEPT !.dirty = w.dirty]}
  \cup {[w EXCEPT !.tag = t] : t \in 0..1}
  \cup (IF w.on = "branch" THEN {} ELSE {[w EXCEPT !.branch = b] : b \in 0..2})
==============================================================================
