--------------------------- MODULE GitRepository ---------------------------
(***************************************************************************)
(* A git repository and what the functions of libgit2 that lgit calls do   *)
(* to it.                                                                  *)
(*                                                                         *)
(* A commit is a number, larger than its parents'.  What it changes is     *)
(* named by the same number, so that a tree is the set of the commits      *)
(* whose changes it contains: "past" is what a commit says it is made of,  *)
(* "tree" what it really contains.  The index and the work dir are one     *)
(* tree and two flags: changes that no commit has, and conflicts.  Files   *)
(* git does not track are not in it, and nothing here touches them.        *)
(***************************************************************************)
EXTENDS Integers, Sequences, FiniteSets, FiniteSetsExt

CONSTANTS
  Branches,   \* names of branches
  NoBranch    \* what HEAD is on when it is detached

ASSUME NoBranchAssumption == NoBranch \notin Branches

None == 0     \* no commit: a reference or a state file that does not exist

Commit == [parents : Seq(Nat \ {0}), past : SUBSET Nat, tree : SUBSET Nat]

(* The objects of everybody are in "commits", fetched or not.                *)
Repository ==
  [commits   : Seq(Commit),
   heads     : [Branches -> Nat],                            \* refs/heads
   tag       : Nat,                                          \* refs/tags, one of them
   head      : [branch : Branches \cup {NoBranch}, at : Nat],  \* HEAD
   index     : [tree : SUBSET Nat, dirty : BOOLEAN, conflicts : BOOLEAN],
   mergeHead : Nat,                                          \* MERGE_HEAD
   fetchHead : [Branches -> Nat]]                            \* FETCH_HEAD

Past(r, c) == IF c = None THEN {} ELSE r.commits[c].past
Tree(r, c) == IF c = None THEN {} ELSE r.commits[c].tree

(* The commit HEAD stands for; None when its branch is not born.             *)
HeadOf(r) == IF r.head.branch = NoBranch THEN r.head.at ELSE r.heads[r.head.branch]

Clean(r) == ~r.index.dirty /\ ~r.index.conflicts /\ r.index.tree = Tree(r, HeadOf(r))

(* What a function leaves behind, and whether it succeeded.                  *)
Done(r) == [repo |-> r, ok |-> TRUE]
Refused(r) == [repo |-> r, ok |-> FALSE]

AddCommit(r, parents, tree) ==
  LET n == Len(r.commits) + 1
      past == {n} \cup UNION {Past(r, parents[k]) : k \in DOMAIN parents}
  IN  [r EXCEPT !.commits =
         Append(@, [parents |-> parents, past |-> past, tree |-> tree \cup {n}])]

MoveHead(r, c) ==
  IF r.head.branch = NoBranch THEN [r EXCEPT !.head.at = c]
  ELSE [r EXCEPT !.heads[r.head.branch] = c]

(* Mutant: the tip of HEAD is not compared with the first parent.            *)
commit_create_anywhere(r, parents, dirty) ==
  LET new == AddCommit(r, parents, r.index.tree)
      n == Len(new.commits)
  IN  Done([MoveHead(new, n) EXCEPT !.index.tree = @ \cup {n}, !.index.dirty = dirty])

(* The tree of the index becomes a commit that HEAD moves to.  A change that *)
(* is not in the index stays behind ("dirty").                               *)
git_commit_create(r, parents, dirty) ==
  LET new == AddCommit(r, parents, r.index.tree)
      n == Len(new.commits)
  IN  IF r.index.conflicts \/ HeadOf(r) \notin {None, parents[1]} THEN Refused(r)
      ELSE Done([MoveHead(new, n) EXCEPT !.index.tree = @ \cup {n},
                                         !.index.dirty = dirty])

(* The best common ancestor.  The histories of a branch and of a fetched     *)
(* branch never cross twice here, so that there is one.                      *)
Base(r, a, b) == Max(Past(r, a) \cap Past(r, b))

git_merge_analysis(r, their) ==
  LET our == HeadOf(r)
  IN  IF our = None THEN "fastforward"         \* and unborn
      ELSE IF Base(r, our, their) = their THEN "uptodate"
      ELSE IF Base(r, our, their) = our THEN "fastforward"
      ELSE "normal"

(* The three-way merge of two trees.                                         *)
Merged(r, our, their) ==
  LET base == Tree(r, Base(r, our, their))
      ours == Tree(r, our)
      theirs == Tree(r, their)
  IN  (ours \cap theirs) \cup (ours \ base) \cup (theirs \ base)

(* MERGE_HEAD is written first and removed on every error, whoever wrote it. *)
(* Staged changes that are not the result, and changes of the work dir to    *)
(* files that are merged, refuse the merge.  Changes to other files are      *)
(* overwritten: lgit merges with GIT_CHECKOUT_FORCE.                         *)
git_merge(r, their) ==
  LET our == HeadOf(r)
      result == Merged(r, our, their)
      both == result \notin {Tree(r, our), Tree(r, their)}
      fresh == r.index.tree \in {Tree(r, our), result}
      refused == Refused([r EXCEPT !.mergeHead = None])
      merged(conflicts) ==
        Done([r EXCEPT !.mergeHead = their,
                       !.index = [tree |-> result, dirty |-> FALSE,
                                  conflicts |-> conflicts]])
  IN  IF our = None \/ r.index.conflicts \/ ~fresh THEN {refused}
      ELSE {merged(FALSE)} \cup (IF both THEN {merged(TRUE)} ELSE {})
           \cup (IF r.index.dirty THEN {refused} ELSE {})

(* GIT_CHECKOUT_FORCE: the index and the work dir are replaced.  MERGE_HEAD  *)
(* stays.                                                                    *)
git_checkout_tree(r, c) ==
  [r EXCEPT !.index = [tree |-> Tree(r, c), dirty |-> FALSE, conflicts |-> FALSE]]

(* GIT_CHECKOUT_SAFE | GIT_CHECKOUT_ALLOW_CONFLICTS: a file that was changed *)
(* keeps its content, silently.                                              *)
checkout_safe(r, c) ==
  IF r.index.conflicts THEN {Refused(r)}
  ELSE IF Clean(r) THEN {Done([r EXCEPT !.index.tree = Tree(r, c)])}
  ELSE {Done([r EXCEPT !.index.tree = @ \cup some]) :
          some \in SUBSET (Tree(r, c) \ r.index.tree)}

(* Mutants: the state of a merge is not removed; the index is not replaced.  *)
reset_but_merge(r) == git_checkout_tree(r, HeadOf(r))
reset_merge_only(r) == [r EXCEPT !.mergeHead = None]

(* GIT_RESET_HARD                                                            *)
git_reset(r) == [git_checkout_tree(r, HeadOf(r)) EXCEPT !.mergeHead = None]

(* A branch that does not exist leaves HEAD on a branch to be born.          *)
set_head_branch(r, b) == [r EXCEPT !.head = [branch |-> b, at |-> None]]
set_head_tag(r) ==
  IF r.tag = None THEN Refused(r)
  ELSE Done([r EXCEPT !.head = [branch |-> NoBranch, at |-> r.tag]])

git_branch_create(r, b, c) ==
  IF r.heads[b] # None THEN Refused(r) ELSE Done([r EXCEPT !.heads[b] = c])

git_branch_delete(r, b) ==
  IF r.heads[b] = None \/ r.head.branch = b THEN Refused(r)
  ELSE Done([r EXCEPT !.heads[b] = None])

=============================================================================
