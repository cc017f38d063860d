----------------------------- MODULE GitDialogs -----------------------------
(***************************************************************************)
(* The git menus of the main window and the dialogs they open.             *)
(*                                                                         *)
(* Dialogs are modal: one handler runs at a time, but while a dialog is    *)
(* open git can be used outside of the program, and the handler of a fetch *)
(* processes events, so that clicks are handled inside of it.  What a      *)
(* dialog remembers is then older than the repository.                     *)
(***************************************************************************)
EXTENDS LGit

CONSTANTS
  Master,      \* the branch that is not offered for deletion
  Shared,      \* bound: the branches others commit to
  MaxCommits,  \* bound: commits there may be
  MaxLiberties, \* bound: kinds of liberties in a behaviour
  Liberties    \* what the user and others do: a subset of AllLiberties

(* outside:   references are changed outside while a dialog remembers them   *)
(* nested:    the user clicks while a fetch goes on                          *)
(* switched:  another branch or tag is checked out before MERGE_HEAD is gone *)
(* again:     a merge is asked for before the one before is committed        *)
(* covered:   a fast-forward is asked for with changes that are uncommitted  *)
(* elsewhere: a new branch is checked out that is not at HEAD, or with       *)
(*            changes or files git does not track, after a dialog was closed *)
AllLiberties == {"outside", "nested", "switched", "again", "covered", "elsewhere"}

ASSUME MasterAssumption == Master \in Branches /\ Shared \subseteq Branches
ASSUME BoundAssumption ==
  MaxCommits \in Nat \ {0} /\ MaxLiberties \in Nat /\ Liberties \subseteq AllLiberties

VARIABLES
  repo,      \* the repository
  upstream,  \* the branches of the remote repository
  lgit,      \* the lists of lgit
  handle,    \* repo_ of lgit is not null while a fetch uses it
  dialog,    \* the dialog that is open
  chosen,    \* the entry of fetchHeadCombo, and the commit shown for it
  pending,   \* the commit dialog of a pull: its parents, where it returns to
  offers,    \* the tips the checkout dialog remembers
  tracker,   \* GitOperationTracker has the address of a dialog
  halted,    \* undefined behaviour was reached
  met        \* history: the liberties that were taken

vars == <<repo, upstream, lgit, handle, dialog, chosen, pending, offers, tracker,
          halted, met>>

(* The pull dialog is open ("pull"), inside a fetch ("fetching"), between    *)
(* the fetch and the reset of its lists ("fetched"), or below a commit       *)
(* dialog ("committing").                                                    *)
Dialogs == {"none", "pull", "fetching", "fetched", "committing", "checkout"}

NoChoice == [at |-> 0, name |-> NoBranch, tip |-> None]
NotPending == [parents |-> <<>>, back |-> "none"]
NoOffers == [branches |-> [b \in Branches |-> None], tag |-> None]

TypeOK ==
  /\ repo \in Repository /\ Len(repo.commits) <= MaxCommits
  /\ upstream \in [Branches -> Nat \ {0}]
  /\ lgit \in Lists
  /\ handle \in BOOLEAN
  /\ dialog \in Dialogs
  /\ chosen \in [at : Nat, name : Branches \cup {NoBranch}, tip : Nat]
  /\ pending \in [parents : Seq(Nat), back : Dialogs]
  /\ offers \in [branches : [Branches -> Nat], tag : Nat]
  /\ tracker \in BOOLEAN
  /\ halted \in {"no", "null repository", "no such entry", "deleted dialog"}
  /\ met \subseteq Liberties

-----------------------------------------------------------------------------

If(condition, liberty) == IF condition THEN {liberty} ELSE {}

(* These liberties are taken.                                                *)
Take(liberties) ==
  /\ liberties \subseteq Liberties
  /\ Cardinality(met \cup liberties) <= MaxLiberties
  /\ met' = met \cup liberties

Room == Len(repo.commits) < MaxCommits

(* A merge that is not committed yet.                                        *)
Unfinished == \/ repo.index.conflicts
              \/ /\ repo.mergeHead # None
                 /\ repo.mergeHead \notin Past(repo, HeadOf(repo))

-----------------------------------------------------------------------------
(* The files, and git used outside of the program.                           *)

(* Save, an editor, or another program changes files.                        *)
EditFiles ==
  /\ dialog = "none"
  /\ ~repo.index.dirty
  /\ repo' = [repo EXCEPT !.index.dirty = TRUE]
  /\ UNCHANGED <<upstream, lgit, handle, dialog, chosen, pending, offers, tracker,
                 halted, met>>

ResolveConflicts ==
  /\ dialog = "none"
  /\ repo.index.conflicts
  /\ repo' = [repo EXCEPT !.index.conflicts = FALSE]
  /\ UNCHANGED <<upstream, lgit, handle, dialog, chosen, pending, offers, tracker,
                 halted, met>>

(* Bound: one change from outside, in a dialog that remembers something.     *)
OutsideMay ==
  dialog \in {"pull", "committing", "checkout"} /\ "outside" \notin met /\ Room

(* git commit: unlike lgit::commit it removes MERGE_HEAD.                    *)
CommitOutside ==
  /\ OutsideMay
  /\ LET o == commit(repo, <<>>, FALSE)
     IN  o.ok /\ repo' = [o.repo EXCEPT !.mergeHead = None]
  /\ Take({"outside"})
  /\ UNCHANGED <<upstream, lgit, handle, dialog, chosen, pending, offers, tracker,
                 halted>>

(* The commits that a reference names.                                       *)
Tips ==
  {repo.head.at} \cup UNION {{repo.heads[b], repo.fetchHead[b]} : b \in Branches}

(* git branch -f, git branch -D, git reset --soft; git tag -d                *)
MoveOutside(b, c) ==
  /\ OutsideMay
  /\ \/ /\ repo.heads[b] # c
        /\ c = None => repo.head.branch # b
        /\ repo' = [repo EXCEPT !.heads[b] = c]
     \/ /\ repo.tag # None
        /\ repo' = [repo EXCEPT !.tag = None]
  /\ Take({"outside"})
  /\ UNCHANGED <<upstream, lgit, handle, dialog, chosen, pending, offers, tracker,
                 halted>>

-----------------------------------------------------------------------------
(* The main window.                                                          *)

(* on_gitReset_clicked                                                       *)
GitReset ==
  /\ dialog = "none"
  /\ repo' = hardReset(repo).repo
  /\ UNCHANGED <<upstream, lgit, handle, dialog, chosen, pending, offers, tracker,
                 halted, met>>

(* on_gitCommit_clicked: the list of branches is read for the name of what   *)
(* is merged.                                                                *)
GitCommit ==
  /\ dialog = "none" /\ Room
  /\ \E stays \in {FALSE, repo.index.dirty} :
       repo' = commit(repo, <<>>, stays).repo
  /\ lgit' = IF repo.mergeHead = None THEN lgit ELSE loadBranches(repo, lgit)
  /\ UNCHANGED <<upstream, handle, dialog, chosen, pending, offers, tracker,
                 halted, met>>

(* on_git2NewBranch_clicked, with or without the checkout, for any commit    *)
(* whose SHA is typed.  The tracker is told what the checkout changes, and   *)
(* of the files that are not tracked ("strays").                             *)
NewBranch(b, c) ==
  /\ dialog = "none"
  /\ LET created == git_branch_create(repo, b, c)
         l == loadBranches(created.repo, lgit)
         tells(strays) == tracker /\ (strays \/ c # HeadOf(repo) \/ ~Clean(repo))
     IN  /\ created.ok
         /\ \/ /\ repo' = created.repo
               /\ UNCHANGED <<lgit, halted, met>>
            \/ /\ repo' = checkoutNew(created.repo, l, b).repo
               /\ lgit' = l
               /\ \E strays \in BOOLEAN :
                    /\ halted' = IF tells(strays) THEN "deleted dialog" ELSE halted
                    /\ Take(If(tells(strays), "elsewhere") \cup
                            If(repo.mergeHead # None, "switched"))
  /\ UNCHANGED <<upstream, handle, dialog, chosen, pending, offers, tracker>>

(* on_git2DeleteBranch_clicked                                               *)
DeleteBranch(b) ==
  /\ dialog = "none"
  /\ b # Master /\ repo.heads[b] # None
  /\ LET deleted == git_branch_delete(repo, b)
         l == loadBranches(repo, lgit)
     IN  /\ repo' = deleted.repo
         /\ lgit' = IF deleted.ok THEN loadBranches(deleted.repo, l) ELSE l
  /\ UNCHANGED <<upstream, handle, dialog, chosen, pending, offers, tracker,
                 halted, met>>

(* on_git2DeleteTag_clicked                                                  *)
DeleteTag ==
  /\ dialog = "none"
  /\ repo.tag # None
  /\ repo' = [repo EXCEPT !.tag = None]
  /\ UNCHANGED <<upstream, lgit, handle, dialog, chosen, pending, offers, tracker,
                 halted, met>>

-----------------------------------------------------------------------------
(* The checkout dialog.                                                      *)

(* on_gitCheckout_clicked                                                    *)
OpenCheckout ==
  /\ dialog = "none"
  /\ dialog' = "checkout"
  /\ tracker' = TRUE
  /\ lgit' = establishCurrent(repo, loadBranches(repo, lgit))
  /\ offers' = [branches |-> repo.heads, tag |-> repo.tag]
  /\ UNCHANGED <<repo, upstream, handle, chosen, pending, halted, met>>

(* CheckoutDialog::on_buttonBox_clicked, for a branch: the list of branches  *)
(* is read again "to allow right-before-action verification of tip sha".     *)
CheckoutBranch(b) ==
  /\ dialog = "checkout"
  /\ offers.branches[b] # None
  /\ lgit' = loadBranches(repo, lgit)
  /\ LET o == checkoutBranch(repo, loadBranches(repo, lgit), b, offers.branches[b])
     IN  /\ repo' = o.repo
         /\ Take(If(o.ok /\ repo.mergeHead # None, "switched"))
  /\ UNCHANGED <<upstream, handle, dialog, chosen, pending, offers, tracker, halted>>

(* The same for a tag, which nothing verifies.                               *)
CheckoutTag ==
  /\ dialog = "checkout"
  /\ offers.tag # None
  /\ lgit' = loadBranches(repo, lgit)
  /\ repo' = checkoutTag(repo, offers.tag).repo
  /\ Take(If(repo.mergeHead # None, "switched"))
  /\ UNCHANGED <<upstream, handle, dialog, chosen, pending, offers, tracker, halted>>

CloseCheckout ==
  /\ dialog = "checkout"
  /\ dialog' = "none"
  /\ offers' = NoOffers
  /\ UNCHANGED <<repo, upstream, lgit, handle, chosen, pending, tracker, halted, met>>

-----------------------------------------------------------------------------
(* The pull dialog.                                                          *)

(* Mutant: an analysis that found something is taken for still true.         *)
analysis_kept(r, l, entry) ==
  IF entry.name # NoBranch /\ entry.name = l.current.branch /\ l.analysis # "fastforward"
    THEN analyzeMerge(r, l, entry.tip) ELSE l

(* PullDialog::updateMergeAnalysis: nothing is analysed for another branch.  *)
updateMergeAnalysis(r, l, entry) ==
  IF entry.name # NoBranch /\ entry.name = l.current.branch
    THEN analyzeMerge(r, l, entry.tip) ELSE l

(* The entry of FETCH_HEAD called name, or the first one.                    *)
Selected(l, name) ==
  LET fetched == {k \in DOMAIN l.branches : l.branches[k].kind = "fetched"}
      named == {k \in fetched : l.branches[k].name = name}
      at == Min(IF named # {} THEN named ELSE fetched)
  IN  IF fetched = {} THEN NoChoice
      ELSE [at |-> at, name |-> l.branches[at].name, tip |-> l.branches[at].tip]

(* PullDialog::reset: everything is read again; the selection is kept by its *)
(* text.                                                                     *)
reset(name) ==
  LET l == establishCurrent(repo, loadBranches(repo, lgit))
  IN  /\ chosen' = Selected(l, name)
      /\ lgit' = updateMergeAnalysis(repo, l, chosen')

(* on_gitPull_clicked                                                        *)
OpenPull ==
  /\ dialog = "none"
  /\ dialog' = "pull"
  /\ tracker' = TRUE
  /\ reset(NoBranch)
  /\ UNCHANGED <<repo, upstream, handle, pending, offers, halted, met>>

ClosePull ==
  /\ dialog = "pull"
  /\ dialog' = "none"
  /\ chosen' = NoChoice
  /\ UNCHANGED <<repo, upstream, lgit, handle, pending, offers, tracker, halted, met>>

(* A click in the pull dialog, which may come while a fetch goes on.         *)
Click == dialog \in {"pull", "fetching", "fetched"}
Nested == dialog # "pull"

(* on_fetchHeadCombo_activated                                               *)
ChooseFetched(name) ==
  /\ Click /\ dialog # "fetched"
  /\ Selected(lgit, name).name = name
  /\ reset(name)
  /\ handle' = FALSE
  /\ Take(If(Nested, "nested"))
  /\ UNCHANGED <<repo, upstream, dialog, pending, offers, tracker, halted>>

(* on_fetchBranch_clicked, on_fetchURL_clicked, on_fetchAll_clicked up to    *)
(* the fetch itself.                                                         *)
StartFetch ==
  /\ dialog = "pull"
  /\ dialog' = "fetching"
  /\ handle' = TRUE
  /\ UNCHANGED <<repo, upstream, lgit, chosen, pending, offers, tracker, halted, met>>

(* The commits others have made since the last fetch: one, or none.          *)
Upstream(b, grows) ==
  IF grows THEN AddCommit(repo, << upstream[b] >>, Tree(repo, upstream[b])) ELSE repo

(* lgit::fetchBranch after git_remote_fetch.  FETCH_HEAD holds what this     *)
(* fetch brought: the branch b, or all of them when the configuration is     *)
(* followed.                                                                 *)
EndFetch(b, all, grows) ==
  /\ dialog = "fetching"
  /\ grows => Room /\ b \in Shared
  /\ LET r == Upstream(b, grows)
         tips == IF grows THEN [upstream EXCEPT ![b] = Len(r.commits)] ELSE upstream
     IN  /\ upstream' = tips
         /\ repo' = [r EXCEPT !.fetchHead =
                       [c \in Branches |-> IF all \/ c = b THEN tips[c] ELSE None]]
  /\ IF handle
       THEN /\ dialog' = "fetched"
            /\ lgit' = establishCurrent(repo', loadBranches(repo', lgit))
            /\ UNCHANGED halted
       ELSE /\ halted' = "null repository"
            /\ UNCHANGED <<dialog, lgit>>
  /\ handle' = FALSE
  /\ UNCHANGED <<chosen, pending, offers, tracker, met>>

(* It failed: an early return that closes the repository.                    *)
FetchFails ==
  /\ dialog = "fetching"
  /\ dialog' = "fetched"
  /\ handle' = FALSE
  /\ UNCHANGED <<repo, upstream, lgit, chosen, pending, offers, tracker, halted, met>>

(* Mutant: the lists were read by fetchBranch, they are not read again.      *)
ResetForgotten ==
  /\ dialog = "fetched"
  /\ dialog' = "pull"
  /\ UNCHANGED <<repo, upstream, lgit, handle, chosen, pending, offers, tracker,
                 halted, met>>

(* The end of the handler of the fetch.                                      *)
ResetAfterFetch ==
  /\ dialog = "fetched"
  /\ dialog' = "pull"
  /\ reset(chosen.name)
  /\ UNCHANGED <<repo, upstream, handle, pending, offers, tracker, halted, met>>

(* The branches of on_merge_clicked, for the entry at the remembered place.  *)
FastForward(e) ==
  /\ lgit.analysis = "fastforward"
  /\ \E o \in fastForwardSha(repo, e.name, e.tip) :
       /\ repo' = o.repo
       /\ lgit' = IF o.ok THEN updateMergeAnalysis(repo', lgit, chosen) ELSE lgit
  /\ Take(If(Nested, "nested") \cup If(~Clean(repo), "covered"))
  /\ UNCHANGED <<dialog, pending>>

(* An error of indexHasConflicts is positive and taken for "no conflicts".   *)
Merge(e) ==
  /\ lgit.analysis = "normal"
  /\ \E o \in mergeBranch(repo, e.tip), unknown \in BOOLEAN :
       /\ repo' = o.repo
       /\ IF o.ok /\ (unknown \/ ~o.repo.index.conflicts)
            THEN /\ dialog' = "committing"
                 /\ pending' = [parents |-> << lgit.current.oid, e.tip >>, back |-> dialog]
            ELSE UNCHANGED <<dialog, pending>>
  /\ Take(If(Nested, "nested") \cup If(Unfinished, "again"))
  /\ UNCHANGED lgit

(* on_merge_clicked                                                          *)
ClickMerge ==
  /\ Click
  /\ chosen.at # 0
  /\ IF chosen.at > Len(lgit.branches)
       THEN /\ halted' = "no such entry"
            /\ Take(If(Nested, "nested"))
            /\ UNCHANGED <<repo, lgit, handle, dialog, pending>>
       ELSE LET e == lgit.branches[chosen.at]
            IN  /\ e.name = lgit.current.branch
                /\ FastForward(e) \/ Merge(e)
                /\ handle' = FALSE
                /\ UNCHANGED halted
  /\ UNCHANGED <<upstream, chosen, offers, tracker>>

(* PullDialog::runCommitDialog: lgit::commit with the parents remembered.    *)
CommitMerge ==
  /\ dialog = "committing" /\ Room
  /\ \E stays \in {FALSE, repo.index.dirty} :
       repo' = commit(repo, pending.parents, stays).repo
  /\ dialog' = pending.back
  /\ pending' = NotPending
  /\ UNCHANGED <<upstream, lgit, handle, chosen, offers, tracker, halted, met>>

StopCommit ==
  /\ dialog = "committing"
  /\ dialog' = pending.back
  /\ pending' = NotPending
  /\ UNCHANGED <<repo, upstream, lgit, handle, chosen, offers, tracker, halted, met>>

-----------------------------------------------------------------------------

(* One commit, on a branch, with a tag.                                      *)
Init ==
  /\ repo = [commits   |-> << [parents |-> <<>>, past |-> {1}, tree |-> {1}] >>,
             heads     |-> [b \in Branches |-> IF b = Master THEN 1 ELSE None],
             tag       |-> 1,
             head      |-> [branch |-> Master, at |-> None],
             index     |-> [tree |-> {1}, dirty |-> FALSE, conflicts |-> FALSE],
             mergeHead |-> None,
             fetchHead |-> [b \in Branches |-> None]]
  /\ upstream = [b \in Branches |-> 1]
  /\ lgit = NoLists /\ handle = FALSE
  /\ dialog = "none" /\ chosen = NoChoice /\ pending = NotPending
  /\ offers = NoOffers /\ tracker = FALSE
  /\ halted = "no" /\ met = {}

Others ==
  \/ EditFiles \/ ResolveConflicts \/ CommitOutside
  \/ \E b \in Branches, c \in {None} \cup Tips : MoveOutside(b, c)

MainWindow ==
  \/ GitReset \/ GitCommit \/ DeleteTag
  \/ \E b \in Branches :
       DeleteBranch(b) \/ \E c \in DOMAIN repo.commits : NewBranch(b, c)
  \/ OpenCheckout \/ CheckoutTag \/ CloseCheckout
  \/ \E b \in Branches : CheckoutBranch(b)

Pull ==
  \/ OpenPull \/ ClosePull \/ StartFetch \/ FetchFails \/ ResetAfterFetch
  \/ \E b \in Branches : ChooseFetched(b)
  \/ \E b \in Branches, all, grows \in BOOLEAN : EndFetch(b, all, grows)
  \/ ClickMerge \/ CommitMerge \/ StopCommit

Next == halted = "no" /\ (Others \/ MainWindow \/ Pull)

Spec == Init /\ [][Next]_vars

-----------------------------------------------------------------------------
(* Correctness.                                                              *)

Without(liberties) == met \cap liberties = {}

(* A commit contains the changes of every commit it says it descends from: a *)
(* merge that is committed was made, in the index it is committed from.      *)
(* lgit::commit takes every MERGE_HEAD for a parent, and MERGE_HEAD stays.   *)
NothingMergedAway ==
  Without({"outside", "nested", "switched", "covered"}) =>
    \A c \in DOMAIN repo.commits : repo.commits[c].past \subseteq repo.commits[c].tree

(* The changes of another branch never arrive in a commit that does not name *)
(* that branch as a parent: the merge that put them into the index is known  *)
(* until it is committed, in whatever dialog that happens.                   *)
NothingSmuggledIn ==
  Without({"outside", "nested", "switched", "again", "covered"}) =>
    \A c \in DOMAIN repo.commits : repo.commits[c].tree \subseteq repo.commits[c].past

(* The conflicts of the index come from a merge that a commit will record.   *)
ConflictsBelongToAMerge ==
  Without({"outside", "again"}) =>
    (repo.index.conflicts => repo.mergeHead # None)

(* A null repository or an entry past the end of the list of branches is     *)
(* only used when a click was handled inside of a fetch.                     *)
HaltsOnlyWhenNested ==
  halted \in {"null repository", "no such entry"} => "nested" \in met

(* A branch that stays keeps its commits: what the pull dialog analysed is   *)
(* still so when it sets the tip of the branch.                              *)
BranchesOnlyAdvance ==
  [][Without({"outside", "nested"})' =>
       \A b \in Branches :
         None \notin {repo.heads[b], repo'.heads[b]} =>
           repo.heads[b] \in Past(repo', repo'.heads[b])]_vars

(* The program commits on top of HEAD, also when the parents were remembered *)
(* before HEAD moved.                                                        *)
CommitsAreOnTop ==
  [][Len(repo'.commits) > Len(repo.commits) /\ upstream' = upstream =>
       Last(repo'.commits).parents[1] = HeadOf(repo)]_vars

(* What the pull dialog merges is the commit whose log it shows.             *)
MergesWhatIsShown ==
  [][Without({"nested"})' /\ dialog = "pull" /\ "outside" \notin met' \ met =>
       /\ repo'.mergeHead \in {None, repo.mergeHead, chosen.tip}
       /\ \A b \in Branches :
            repo'.heads[b] # repo.heads[b] =>
              b = chosen.name /\ repo'.heads[b] = chosen.tip]_vars

(* "You can commit and conclude the merge": once it is committed, no later   *)
(* commit of the branch merges the same commit again.                        *)
ConcludedOnce ==
  \A c \in DOMAIN repo.commits :
    LET parents == repo.commits[c].parents
    IN  Len(parents) = 2 => parents[2] \notin Past(repo, parents[1])

=============================================================================
