-------------------------------- MODULE LGit --------------------------------
(***************************************************************************)
(* lgit, the program's front end to libgit2: what its methods do to the    *)
(* repository, and the lists they keep for the dialogs.                    *)
(*                                                                         *)
(* Every method opens the repository, works, and closes it again; the      *)
(* handle is a member (repo_) that openRepo overwrites and closeRepo sets  *)
(* to null.  The list of branches and the current branch are as old as the *)
(* last method that read them.                                             *)
(***************************************************************************)
EXTENDS GitRepository, SequencesExt, Sublists

CONSTANT Order   \* the names of branches in the order libgit2 lists them

ASSUME OrderAssumption ==
  /\ Order \in Seq(Branches)
  /\ \A b \in Branches : \E k \in DOMAIN Order : Order[k] = b

(* mybranch: a local branch, or an entry of FETCH_HEAD.  Remote-tracking     *)
(* branches are left out: no dialog uses them.                               *)
Entry == [name : Branches, kind : {"local", "fetched"}, tip : Nat]

Lists ==
  [branches : Seq(Entry),                                          \* git_branches_
   current  : [branch : Branches \cup {NoBranch}, oid : Nat],        \* git_current_
   analysis : {"unset", "fastforward", "uptodate", "normal"}]     \* analysisResult_

NoLists == [branches |-> <<>>, current |-> [branch |-> NoBranch, oid |-> None],
            analysis |-> "unset"]

(* The references that exist.                                                *)
entries(refs, kind) ==
  LET names == Sublist(Order, {k \in DOMAIN Order : refs[Order[k]] # None})
  IN  [k \in DOMAIN names |->
         [name |-> names[k], kind |-> kind, tip |-> refs[names[k]]]]

(* lgit_branches::list: the local branches, then FETCH_HEAD.                 *)
list(r) == entries(r.heads, "local") \o entries(r.fetchHead, "fetched")

(* lgit_current::discover: nothing is current when HEAD is not born.         *)
discover(r) ==
  IF HeadOf(r) = None THEN [branch |-> NoBranch, oid |-> None]
  ELSE [branch |-> r.head.branch, oid |-> HeadOf(r)]

loadBranches(r, l) == [l EXCEPT !.branches = list(r)]
establishCurrent(r, l) == [l EXCEPT !.current = discover(r)]
analyzeMerge(r, l, tip) == [l EXCEPT !.analysis = git_merge_analysis(r, tip)]

(* Mutant of commit: HEAD may be a branch that is not born.                  *)
commit_unborn(r, parents, dirty) ==
  LET heads == IF r.mergeHead = None THEN << HeadOf(r) >>
               ELSE << HeadOf(r), r.mergeHead >>
  IN  git_commit_create(r, IF parents # <<>> THEN parents ELSE heads, dirty)

(* Mutant of commit: MERGE_HEAD is not made a parent.                        *)
commit_plain(r, parents, dirty) ==
  IF parents # <<>> THEN git_commit_create(r, parents, dirty)
  ELSE IF HeadOf(r) = None THEN Refused(r)
  ELSE git_commit_create(r, << HeadOf(r) >>, dirty)

(* lgit::commit.  Without parents: HEAD and every MERGE_HEAD.  MERGE_HEAD    *)
(* stays.                                                                    *)
commit(r, parents, dirty) ==
  LET heads == IF r.mergeHead = None THEN << HeadOf(r) >>
               ELSE << HeadOf(r), r.mergeHead >>
  IN  IF parents # <<>> THEN git_commit_create(r, parents, dirty)
      ELSE IF HeadOf(r) = None THEN Refused(r)
      ELSE git_commit_create(r, heads, dirty)

(* lgit::hardReset                                                           *)
hardReset(r) == IF HeadOf(r) = None THEN Refused(r) ELSE Done(git_reset(r))

(* lgit::fastForwardSha: the tip of the branch is set whatever the checkout  *)
(* left out.                                                                 *)
fastForwardSha(r, target, tip) ==
  {IF o.ok /\ r.heads[target] # None
     THEN Done([o.repo EXCEPT !.heads[target] = tip]) ELSE Refused(o.repo) :
     o \in checkout_safe(r, tip)}

(* lgit::mergeBranch                                                         *)
mergeBranch(r, their) == git_merge(r, their)

(* lgit::checkout of a branch.  "Check if tip_sha is up to date": some local *)
(* branch has that tip.                                                      *)
UpToDate(l, tip) == \E k \in DOMAIN l.branches :
  l.branches[k].tip = tip /\ l.branches[k].kind = "local"
checkoutBranch(r, l, b, tip) ==
  IF UpToDate(l, tip) THEN Done(set_head_branch(git_checkout_tree(r, tip), b))
  ELSE Refused(r)

(* lgit::checkout of a tag: when HEAD cannot be moved the files have been    *)
(* replaced already, and 0 is returned.                                      *)
checkoutTag(r, tip) == Done(set_head_tag(git_checkout_tree(r, tip)).repo)

(* lgit::checkout with a branch that was just created: the tip is looked up. *)
checkoutNew(r, l, b) ==
  LET k == CHOOSE j \in DOMAIN l.branches :
             l.branches[j].name = b /\ l.branches[j].kind = "local"
  IN  Done(set_head_branch(git_checkout_tree(r, l.branches[k].tip), b))

=============================================================================
