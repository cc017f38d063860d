------------------------- MODULE GitDialogs_proofs -------------------------
(***************************************************************************)
(* Proofs about the git dialogs, for every set of branches, every bound    *)
(* and every liberty.                                                      *)
(***************************************************************************)
EXTENDS GitDialogs, Sublists_proofs

-----------------------------------------------------------------------------
(* A repository.                                                             *)

(* No reference dangles, and a commit descends from itself and the first.    *)
SoundRepo(r) ==
  /\ r \in Repository
  /\ \A c \in DOMAIN r.commits : /\ {1, c} \subseteq r.commits[c].past
                                 /\ r.commits[c].past \subseteq 1 .. c
  /\ \A b \in Branches : {r.heads[b], r.fetchHead[b]} \subseteq 0 .. Len(r.commits)
  /\ {r.tag, r.head.at, r.mergeHead} \subseteq 0 .. Len(r.commits)

(* s has the commits of r, and maybe more.                                   *)
Grown(r, s) ==
  /\ Len(r.commits) <= Len(s.commits)
  /\ \A c \in DOMAIN r.commits : s.commits[c] = r.commits[c]

(* The same commits, references and state files.                             *)
SameRefs(r, s) == /\ s.commits = r.commits /\ s.heads = r.heads /\ s.head = r.head
                  /\ s.fetchHead = r.fetchHead /\ s.tag = r.tag

Index == [tree : SUBSET Nat, dirty : BOOLEAN, conflicts : BOOLEAN]
Head0 == [branch : Branches \cup {NoBranch}, at : Nat]

LEMMA RepoFields ==
  ASSUME NEW r, SoundRepo(r)
  PROVE  /\ r.commits \in Seq(Commit) /\ Len(r.commits) \in Nat
         /\ DOMAIN r.commits = 1 .. Len(r.commits)
         /\ r.heads \in [Branches -> Nat] /\ r.fetchHead \in [Branches -> Nat]
         /\ r.tag \in Nat /\ r.mergeHead \in Nat
         /\ r.head \in Head0 /\ r.head.branch \in Branches \cup {NoBranch}
         /\ r.head.at \in Nat
         /\ r.index \in Index /\ r.index.tree \in SUBSET Nat
         /\ r.index.dirty \in BOOLEAN /\ r.index.conflicts \in BOOLEAN
         /\ HeadOf(r) \in 0 .. Len(r.commits)
  <1>1. /\ r.commits \in Seq(Commit) /\ r.heads \in [Branches -> Nat]
        /\ r.fetchHead \in [Branches -> Nat]
        /\ r.tag \in Nat /\ r.mergeHead \in Nat /\ r.head \in Head0 /\ r.index \in Index
    BY DEF SoundRepo, Repository, Index, Head0
  <1>2. Len(r.commits) \in Nat /\ DOMAIN r.commits = 1 .. Len(r.commits)
    BY <1>1, LenProperties
  <1>3. r.head.branch \in Branches \cup {NoBranch} /\ r.head.at \in Nat
    BY <1>1 DEF Head0
  <1>4. /\ r.index.tree \in SUBSET Nat
        /\ r.index.dirty \in BOOLEAN /\ r.index.conflicts \in BOOLEAN
    BY <1>1 DEF Index
  <1>5. HeadOf(r) \in 0 .. Len(r.commits)
    BY <1>2, <1>3 DEF HeadOf, SoundRepo
  <1> QED BY <1>1, <1>2, <1>3, <1>4, <1>5

LEMMA PastAndTree ==
  ASSUME NEW r, SoundRepo(r), NEW c \in 0 .. Len(r.commits)
  PROVE  /\ Past(r, c) \subseteq 1 .. c /\ Tree(r, c) \in SUBSET Nat
         /\ c # None => {1, c} \subseteq Past(r, c)
  <1>1. Len(r.commits) \in Nat /\ DOMAIN r.commits = 1 .. Len(r.commits)
        /\ r.commits \in Seq(Commit)
    BY RepoFields
  <1>2. CASE c = None
    BY <1>2 DEF Past, Tree
  <1>3. CASE c # None
    <2>1. c \in DOMAIN r.commits
      BY <1>1, <1>3 DEF None
    <2>2. r.commits[c] \in Commit
      BY <1>1, <2>1, ElementOfSeq
    <2>3. r.commits[c].tree \in SUBSET Nat
      BY <2>2 DEF Commit
    <2> QED BY <1>3, <2>1, <2>3 DEF Past, Tree, SoundRepo
  <1> QED BY <1>2, <1>3

(* A repository, from its parts.                                             *)
Repo(commits, heads, tag, head, index, mergeHead, fetchHead) ==
  [commits |-> commits, heads |-> heads, tag |-> tag, head |-> head,
   index |-> index, mergeHead |-> mergeHead, fetchHead |-> fetchHead]

LEMMA SoundParts ==
  ASSUME NEW r, SoundRepo(r),
         NEW heads \in [Branches -> 0 .. Len(r.commits)],
         NEW tag \in 0 .. Len(r.commits),
         NEW head \in Head0, head.at \in 0 .. Len(r.commits),
         NEW index \in Index, NEW mergeHead \in 0 .. Len(r.commits),
         NEW fetchHead \in [Branches -> 0 .. Len(r.commits)]
  PROVE  LET s == Repo(r.commits, heads, tag, head, index, mergeHead, fetchHead)
         IN  SoundRepo(s) /\ Grown(r, s)
  <1> DEFINE s == Repo(r.commits, heads, tag, head, index, mergeHead, fetchHead)
  <1>1. Len(r.commits) \in Nat /\ r.commits \in Seq(Commit)
    BY RepoFields
  <1>2. heads \in [Branches -> Nat] /\ fetchHead \in [Branches -> Nat]
    BY <1>1
  <1>3. s \in Repository
    BY <1>1, <1>2 DEF Repository, Index, Head0, Repo
  <1>4. Grown(r, s)
    BY <1>1 DEF Grown, Repo
  <1>5. \A b \in Branches : {heads[b], fetchHead[b]} \subseteq 0 .. Len(r.commits)
    OBVIOUS
  <1> QED BY <1>1, <1>3, <1>4, <1>5 DEF SoundRepo, Repo

LEMMA Shape ==
  ASSUME NEW r, SoundRepo(r)
  PROVE  /\ r = Repo(r.commits, r.heads, r.tag, r.head, r.index, r.mergeHead, r.fetchHead)
         /\ r.head = [branch |-> r.head.branch, at |-> r.head.at]
         /\ r.index = [tree |-> r.index.tree, dirty |-> r.index.dirty,
                       conflicts |-> r.index.conflicts]
         /\ r.heads \in [Branches -> 0 .. Len(r.commits)]
         /\ r.fetchHead \in [Branches -> 0 .. Len(r.commits)]
         /\ r.tag \in 0 .. Len(r.commits) /\ r.mergeHead \in 0 .. Len(r.commits)
         /\ r.head \in Head0 /\ r.head.at \in 0 .. Len(r.commits) /\ r.index \in Index
  <1>1. r.heads \in [Branches -> 0 .. Len(r.commits)]
        /\ r.fetchHead \in [Branches -> 0 .. Len(r.commits)]
    BY RepoFields DEF SoundRepo
  <1>2. r.head = [branch |-> r.head.branch, at |-> r.head.at]
    BY RepoFields DEF Head0
  <1>3. r.index = [tree |-> r.index.tree, dirty |-> r.index.dirty,
                   conflicts |-> r.index.conflicts]
    BY RepoFields DEF Index
  <1>4. r.head \in Head0 /\ r.index \in Index
    BY RepoFields
  <1>5. r = Repo(r.commits, r.heads, r.tag, r.head, r.index, r.mergeHead, r.fetchHead)
    BY DEF SoundRepo, Repository, Repo
  <1> QED BY <1>1, <1>2, <1>3, <1>4, <1>5 DEF SoundRepo

LEMMA Except ==
  ASSUME NEW r, SoundRepo(r), NEW x
  PROVE  /\ [r EXCEPT !.heads = x]
              = Repo(r.commits, x, r.tag, r.head, r.index, r.mergeHead, r.fetchHead)
         /\ [r EXCEPT !.tag = x]
              = Repo(r.commits, r.heads, x, r.head, r.index, r.mergeHead, r.fetchHead)
         /\ [r EXCEPT !.head = x]
              = Repo(r.commits, r.heads, r.tag, x, r.index, r.mergeHead, r.fetchHead)
         /\ [r EXCEPT !.index = x]
              = Repo(r.commits, r.heads, r.tag, r.head, x, r.mergeHead, r.fetchHead)
         /\ [r EXCEPT !.mergeHead = x]
              = Repo(r.commits, r.heads, r.tag, r.head, r.index, x, r.fetchHead)
         /\ [r EXCEPT !.fetchHead = x]
              = Repo(r.commits, r.heads, r.tag, r.head, r.index, r.mergeHead, x)
  <1>1. r = Repo(r.commits, r.heads, r.tag, r.head, r.index, r.mergeHead, r.fetchHead)
    BY Shape
  <1> QED BY <1>1 DEF Repo

(* The SMT solver needs records without EXCEPT.                              *)
LEMMA ExceptIndex ==
  ASSUME NEW i \in Index, NEW x
  PROVE  /\ [i EXCEPT !.tree = x]
              = [tree |-> x, dirty |-> i.dirty, conflicts |-> i.conflicts]
         /\ [i EXCEPT !.dirty = x]
              = [tree |-> i.tree, dirty |-> x, conflicts |-> i.conflicts]
         /\ [i EXCEPT !.conflicts = x]
              = [tree |-> i.tree, dirty |-> i.dirty, conflicts |-> x]
  <1>1. PICK t, d, c : i = [tree |-> t, dirty |-> d, conflicts |-> c]
    BY DEF Index
  <1>2. i.tree = t /\ i.dirty = d /\ i.conflicts = c
    BY <1>1
  <1>3. [i EXCEPT !.tree = x] = [tree |-> x, dirty |-> d, conflicts |-> c]
    BY <1>1
  <1>4. [i EXCEPT !.dirty = x] = [tree |-> t, dirty |-> x, conflicts |-> c]
    BY <1>1
  <1>5. [i EXCEPT !.conflicts = x] = [tree |-> t, dirty |-> d, conflicts |-> x]
    BY <1>1
  <1> QED BY <1>2, <1>3, <1>4, <1>5

Committing(i, x, y) == [i EXCEPT !.tree = x, !.dirty = y]

LEMMA ExceptTwo ==
  ASSUME NEW i \in Index, NEW x, NEW y
  PROVE  Committing(i, x, y) = [tree |-> x, dirty |-> y, conflicts |-> i.conflicts]
  <1> DEFINE j == [i EXCEPT !.tree = x]
  <1>1. PICK t, d, c : i = [tree |-> t, dirty |-> d, conflicts |-> c]
    BY DEF Index
  <1>2. i.conflicts = c
    BY <1>1
  <1>3. j = [tree |-> x, dirty |-> d, conflicts |-> c]
    BY <1>1
  <1>4. Committing(i, x, y) = [j EXCEPT !.dirty = y]
    BY DEF Committing
  <1> HIDE DEF j
  <1>5. [j EXCEPT !.dirty = y] = [tree |-> x, dirty |-> y, conflicts |-> c]
    BY ONLY <1>3
  <1> QED BY ONLY <1>2, <1>4, <1>5

(* What a merge leaves in the index.                                         *)
MergedIndex(x, c) == [tree |-> x, dirty |-> FALSE, conflicts |-> c]

WhileMerging(r, their, i) == [r EXCEPT !.mergeHead = their, !.index = i]

LEMMA ExceptMerge ==
  ASSUME NEW r, SoundRepo(r), NEW their, NEW i
  PROVE  WhileMerging(r, their, i)
           = Repo(r.commits, r.heads, r.tag, r.head, i, their, r.fetchHead)
  <1> DEFINE m == [r EXCEPT !.mergeHead = their]
             u == [m EXCEPT !.index = i]
  <1>1. m = Repo(r.commits, r.heads, r.tag, r.head, r.index, their, r.fetchHead)
    BY Except
  <1>2. WhileMerging(r, their, i) = u
    BY DEF WhileMerging
  <1> HIDE DEF m
  <1>3. u = Repo(r.commits, r.heads, r.tag, r.head, i, their, r.fetchHead)
    BY ONLY <1>1 DEF Repo
  <1> HIDE DEF u
  <1> QED BY ONLY <1>2, <1>3

(* Only the index and MERGE_HEAD differ.                                     *)
LEMMA IndexSet ==
  ASSUME NEW r, SoundRepo(r), NEW i \in Index, NEW m \in 0 .. Len(r.commits)
  PROVE  LET s == Repo(r.commits, r.heads, r.tag, r.head, i, m, r.fetchHead)
         IN  SoundRepo(s) /\ Grown(r, s) /\ SameRefs(r, s)
             /\ s.index = i /\ s.mergeHead = m
  <1> QED BY Shape, SoundParts DEF SameRefs, Repo

LEMMA CheckoutSound ==
  ASSUME NEW r, SoundRepo(r), NEW c \in 0 .. Len(r.commits)
  PROVE  LET s == git_checkout_tree(r, c)
         IN  SoundRepo(s) /\ Grown(r, s) /\ SameRefs(r, s)
             /\ s.mergeHead = r.mergeHead /\ ~s.index.conflicts
  <1> DEFINE i == [tree |-> Tree(r, c), dirty |-> FALSE, conflicts |-> FALSE]
  <1>1. i \in Index /\ ~i.conflicts
    BY PastAndTree DEF Index
  <1>2. r.mergeHead \in 0 .. Len(r.commits)
    BY Shape
  <1>3. git_checkout_tree(r, c)
          = Repo(r.commits, r.heads, r.tag, r.head, i, r.mergeHead, r.fetchHead)
    BY Except DEF git_checkout_tree
  <1> HIDE DEF i
  <1> QED BY <1>1, <1>2, <1>3, IndexSet

LEMMA ResetSound ==
  ASSUME NEW r, SoundRepo(r)
  PROVE  LET s == hardReset(r).repo
         IN  SoundRepo(s) /\ Grown(r, s) /\ SameRefs(r, s)
             /\ (s.index.conflicts => s = r)
  <1> DEFINE t == git_checkout_tree(r, HeadOf(r))
             s == git_reset(r)
  <1>1. SoundRepo(t) /\ Grown(r, t) /\ SameRefs(r, t) /\ ~t.index.conflicts
    BY RepoFields, CheckoutSound
  <1>2. s = [t EXCEPT !.mergeHead = None]
    BY DEF git_reset
  <1> HIDE DEF t, s
  <1>3. s = Repo(t.commits, t.heads, t.tag, t.head, t.index, None, t.fetchHead)
    BY <1>1, <1>2, Except
  <1>4. t.index \in Index /\ None \in 0 .. Len(t.commits)
    BY <1>1, RepoFields DEF None
  <1>5. SoundRepo(s) /\ Grown(t, s) /\ SameRefs(t, s) /\ s.index = t.index
    BY <1>1, <1>3, <1>4, IndexSet
  <1>6. Grown(r, s) /\ SameRefs(r, s) /\ ~s.index.conflicts
    BY <1>1, <1>5 DEF Grown, SameRefs
  <1>7. CASE HeadOf(r) = None
    BY <1>7 DEF hardReset, Refused, SameRefs, Grown
  <1>8. CASE HeadOf(r) # None
    <2>1. hardReset(r).repo = s
      BY <1>8 DEF hardReset, Done, s
    <2> QED BY <1>5, <1>6, <2>1
  <1> QED BY <1>7, <1>8

(* A commit is made of its parents and itself.                               *)
LEMMA AddCommitSound ==
  ASSUME NEW r, SoundRepo(r), NEW parents \in Seq(DOMAIN r.commits), parents # <<>>,
         NEW tree \in SUBSET Nat
  PROVE  LET s == AddCommit(r, parents, tree)
             n == Len(r.commits) + 1
         IN  /\ SoundRepo(s) /\ Grown(r, s)
             /\ Len(s.commits) = n /\ s.commits[n].parents = parents
             /\ Past(r, parents[1]) \subseteq s.commits[n].past
             /\ s = Repo(s.commits, r.heads, r.tag, r.head, r.index, r.mergeHead,
                         r.fetchHead)
  <1> DEFINE s == AddCommit(r, parents, tree)
             n == Len(r.commits) + 1
             past == {n} \cup UNION {Past(r, parents[k]) : k \in DOMAIN parents}
             new == [parents |-> parents, past |-> past, tree |-> tree \cup {n}]
  <1>1. r.commits \in Seq(Commit) /\ Len(r.commits) \in Nat /\ n \in Nat \ {0}
        /\ DOMAIN r.commits = 1 .. Len(r.commits)
    BY RepoFields
  <1>2. ASSUME NEW k \in DOMAIN parents
        PROVE  /\ parents[k] \in 1 .. Len(r.commits)
               /\ Past(r, parents[k]) \subseteq 1 .. Len(r.commits)
               /\ 1 \in Past(r, parents[k])
    <2>1. parents[k] \in 1 .. Len(r.commits)
      BY <1>1, ElementOfSeq
    <2> QED BY <1>1, <2>1, PastAndTree DEF None
  <1>3. 1 \in DOMAIN parents
    BY <1>1, EmptySeq, LenProperties
  <1>4. past \subseteq 1 .. n /\ {1, n} \subseteq past
    BY <1>1, <1>2, <1>3
  <1>5. Past(r, parents[1]) \subseteq past
    BY <1>3
  <1> HIDE DEF past
  <1>6. parents \in Seq(Nat \ {0})
    BY <1>1, <1>2, LenProperties, SeqDef
  <1>7. new \in Commit
    <2>1. 1 .. n \subseteq Nat
      BY <1>1
    <2>2. past \subseteq Nat
      BY <1>4, <2>1
    <2>3. tree \cup {n} \subseteq Nat
      BY <1>1
    <2> QED BY <1>6, <2>2, <2>3 DEF Commit
  <1>8. new.parents = parents /\ new.past = past
    OBVIOUS
  <1>9. s = [r EXCEPT !.commits = Append(@, new)]
    BY DEF AddCommit, past
  <1> HIDE DEF new, s
  <1>10. s = Repo(Append(r.commits, new), r.heads, r.tag, r.head, r.index, r.mergeHead,
                  r.fetchHead)
    <2>1. r = Repo(r.commits, r.heads, r.tag, r.head, r.index, r.mergeHead, r.fetchHead)
      BY Shape
    <2> QED BY <1>9, <2>1 DEF Repo
  <1>11. /\ s.commits = Append(r.commits, new) /\ s.heads = r.heads /\ s.tag = r.tag
         /\ s.head = r.head /\ s.index = r.index /\ s.mergeHead = r.mergeHead
         /\ s.fetchHead = r.fetchHead
    BY <1>10 DEF Repo
  <1>12. /\ s.commits \in Seq(Commit) /\ Len(s.commits) = n /\ s.commits[n] = new
         /\ \A c \in 1 .. Len(r.commits) : s.commits[c] = r.commits[c]
         /\ DOMAIN s.commits = 1 .. n
    BY <1>1, <1>7, <1>11, AppendProperties
  <1>13. Grown(r, s)
    BY <1>1, <1>12 DEF Grown
  <1>14. s \in Repository
    <2>1. /\ r.heads \in [Branches -> Nat] /\ r.fetchHead \in [Branches -> Nat]
          /\ r.tag \in Nat /\ r.mergeHead \in Nat /\ r.head \in Head0 /\ r.index \in Index
      BY RepoFields
    <2>2. Append(r.commits, new) \in Seq(Commit)
      BY <1>11, <1>12
    <2> QED BY ONLY <1>10, <2>1, <2>2 DEF Repo, Repository, Index, Head0
  <1>15. SoundRepo(s)
    <2>1. ASSUME NEW c \in DOMAIN s.commits
          PROVE  /\ {1, c} \subseteq s.commits[c].past
                 /\ s.commits[c].past \subseteq 1 .. c
      <3>1. CASE c = n
        BY ONLY <1>4, <1>8, <1>12, <3>1
      <3>2. CASE c \in 1 .. Len(r.commits)
        <4>1. s.commits[c] = r.commits[c] /\ c \in DOMAIN r.commits
          BY <1>12, <3>2, RepoFields
        <4> QED BY <4>1 DEF SoundRepo
      <3>3. c = n \/ c \in 1 .. Len(r.commits)
        BY <1>1, <1>12
      <3> QED BY ONLY <3>1, <3>2, <3>3
    <2>2. 0 .. Len(r.commits) \subseteq 0 .. Len(s.commits)
      BY <1>1, <1>12
    <2> QED BY <1>11, <1>14, <2>1, <2>2 DEF SoundRepo
  <1> QED BY <1>5, <1>8, <1>10, <1>11, <1>12, <1>13, <1>15 DEF s

LEMMA MoveHeadSound ==
  ASSUME NEW r, SoundRepo(r), NEW c \in 1 .. Len(r.commits)
  PROVE  LET s == MoveHead(r, c)
         IN  /\ SoundRepo(s) /\ Grown(r, s)
             /\ s.commits = r.commits /\ s.index = r.index /\ s.mergeHead = r.mergeHead
             /\ s.head.branch = r.head.branch /\ HeadOf(s) = c
             /\ \A b \in Branches : s.heads[b] = IF b = r.head.branch THEN c ELSE r.heads[b]
  <1> DEFINE s == MoveHead(r, c)
             h == [r.head EXCEPT !.at = c]
             H == [r.heads EXCEPT ![r.head.branch] = c]
  <1>1. Len(r.commits) \in Nat /\ c \in 0 .. Len(r.commits) /\ c \in Nat
    BY RepoFields
  <1>2. CASE r.head.branch = NoBranch
    <2>1. h \in Head0 /\ h.at = c /\ h.branch = NoBranch
      BY <1>1, <1>2, RepoFields DEF Head0
    <2>2. s = [r EXCEPT !.head = h]
      BY <1>2 DEF MoveHead
    <2> HIDE DEF h, s
    <2>3. s = Repo(r.commits, r.heads, r.tag, h, r.index, r.mergeHead, r.fetchHead)
      BY <2>2, Except
    <2>4. SoundRepo(s) /\ Grown(r, s)
      BY <1>1, <2>1, <2>3, Shape, SoundParts
    <2>5. /\ s.commits = r.commits /\ s.index = r.index /\ s.mergeHead = r.mergeHead
          /\ s.head = h /\ s.heads = r.heads
      BY <2>3 DEF Repo
    <2> QED BY <1>2, <2>1, <2>4, <2>5, NoBranchAssumption DEF HeadOf, s
  <1>3. CASE r.head.branch # NoBranch
    <2>1. r.head.branch \in Branches
      BY <1>3, RepoFields
    <2>2. H \in [Branches -> 0 .. Len(r.commits)]
          /\ \A b \in Branches : H[b] = IF b = r.head.branch THEN c ELSE r.heads[b]
      BY <1>1, <2>1, Shape
    <2>3. s = [r EXCEPT !.heads = H]
      BY <1>3 DEF MoveHead
    <2> HIDE DEF H, s
    <2>4. s = Repo(r.commits, H, r.tag, r.head, r.index, r.mergeHead, r.fetchHead)
      BY <2>3, Except
    <2>5. SoundRepo(s) /\ Grown(r, s)
      BY <1>1, <2>2, <2>4, Shape, SoundParts
    <2>6. /\ s.commits = r.commits /\ s.index = r.index /\ s.mergeHead = r.mergeHead
          /\ s.head = r.head /\ s.heads = H
      BY <2>4 DEF Repo
    <2> QED BY <1>3, <2>1, <2>2, <2>5, <2>6 DEF HeadOf, s
  <1> QED BY <1>2, <1>3

(* A branch that stays keeps its commits.                                    *)
Advances(r, s) ==
  \A b \in Branches :
    None \notin {r.heads[b], s.heads[b]} => r.heads[b] \in Past(s, s.heads[b])

OnTop(r, s) ==
  Len(s.commits) > Len(r.commits) => s.commits[Len(s.commits)].parents[1] = HeadOf(r)

LEMMA GrownPast ==
  ASSUME NEW r, SoundRepo(r), NEW s, Grown(r, s), NEW c \in 0 .. Len(r.commits)
  PROVE  Past(s, c) = Past(r, c)
  BY RepoFields DEF Past, Grown, None

(* A branch that is where it was has kept its commits.                       *)
LEMMA StayingAdvances ==
  ASSUME NEW r, SoundRepo(r), NEW s, SoundRepo(s), Grown(r, s),
         \A b \in Branches : s.heads[b] \in {r.heads[b], None} \/ r.heads[b] = None
  PROVE  Advances(r, s)
  <1> SUFFICES ASSUME NEW b \in Branches, None \notin {r.heads[b], s.heads[b]}
               PROVE  r.heads[b] \in Past(s, s.heads[b])
    BY DEF Advances
  <1>1. s.heads[b] = r.heads[b]
    OBVIOUS
  <1>2. s.heads[b] \in 0 .. Len(s.commits)
    BY DEF SoundRepo
  <1> QED BY <1>1, <1>2, PastAndTree

(* What a commit of the program does, when it does anything.                 *)
Committed(r, s) ==
  /\ SoundRepo(s) /\ Grown(r, s) /\ Len(s.commits) <= Len(r.commits) + 1
  /\ s.head.branch = r.head.branch
  /\ HeadOf(r) # None => HeadOf(s) # None
  /\ s.mergeHead = r.mergeHead /\ s.index.conflicts = r.index.conflicts
  /\ OnTop(r, s) /\ Advances(r, s)

LEMMA NothingCommitted ==
  ASSUME NEW r, SoundRepo(r)
  PROVE  Committed(r, r)
  <1>1. Grown(r, r) /\ Len(r.commits) <= Len(r.commits) + 1
    BY RepoFields DEF Grown
  <1>2. OnTop(r, r)
    BY RepoFields DEF OnTop
  <1> QED BY <1>1, <1>2, StayingAdvances DEF Committed

LEMMA CommitCreateSound ==
  ASSUME NEW r, SoundRepo(r), NEW parents \in Seq(DOMAIN r.commits), parents # <<>>,
         NEW dirty \in BOOLEAN, HeadOf(r) # None
  PROVE  Committed(r, git_commit_create(r, parents, dirty).repo)
  <1> DEFINE t == AddCommit(r, parents, r.index.tree)
             n == Len(r.commits) + 1
             u == MoveHead(t, n)
             i == [u.index EXCEPT !.tree = @ \cup {n}, !.dirty = dirty]
             s == [u EXCEPT !.index = i]
  <1>1. CASE r.index.conflicts \/ HeadOf(r) \notin {None, parents[1]}
    <2>1. git_commit_create(r, parents, dirty).repo = r
      BY <1>1 DEF git_commit_create, Refused
    <2> QED BY <2>1, NothingCommitted
  <1>2. CASE ~ (r.index.conflicts \/ HeadOf(r) \notin {None, parents[1]})
    <2>1. HeadOf(r) = parents[1]
      BY <1>2
    <2>2. Len(r.commits) \in Nat /\ n \in Nat /\ r.index \in Index
      BY RepoFields
    <2>3. /\ SoundRepo(t) /\ Grown(r, t)
          /\ Len(t.commits) = n /\ t.commits[n].parents = parents
          /\ Past(r, parents[1]) \subseteq t.commits[n].past
          /\ t = Repo(t.commits, r.heads, r.tag, r.head, r.index, r.mergeHead, r.fetchHead)
      BY RepoFields, AddCommitSound
    <2> HIDE DEF t
    <2>4. /\ t.heads = r.heads /\ t.head = r.head /\ t.index = r.index
          /\ t.mergeHead = r.mergeHead
      BY <2>3 DEF Repo
    <2>5. n \in 1 .. Len(t.commits)
      BY <2>2, <2>3
    <2>6. /\ SoundRepo(u) /\ Grown(t, u)
          /\ u.commits = t.commits /\ u.index = t.index /\ u.mergeHead = t.mergeHead
          /\ u.head.branch = t.head.branch /\ HeadOf(u) = n
          /\ \A b \in Branches : u.heads[b] = IF b = t.head.branch THEN n ELSE t.heads[b]
      BY <2>3, <2>5, MoveHeadSound
    <2>7. git_commit_create(r, parents, dirty).repo = s
      BY <1>2, <2>3 DEF git_commit_create, Done, t
    <2> HIDE DEF u
    <2>8. i \in Index /\ i.conflicts = r.index.conflicts
      <3>1. u.index.tree \cup {n} \in SUBSET Nat
        BY <2>2, <2>4, <2>6, RepoFields
      <3>2. i = [tree |-> u.index.tree \cup {n}, dirty |-> dirty,
                 conflicts |-> u.index.conflicts]
        <4>1. u.index \in Index
          BY <2>2, <2>4, <2>6
        <4> DEFINE j == u.index
                   x == j.tree \cup {n}
        <4>2. i = Committing(j, x, dirty)
          BY DEF Committing
        <4>3. j \in Index
          BY <4>1
        <4> HIDE DEF i, x, j
        <4>4. i = [tree |-> x, dirty |-> dirty, conflicts |-> j.conflicts]
          BY ONLY <4>2, <4>3, ExceptTwo
        <4> QED BY <4>4 DEF x, j
      <3>3. u.index.conflicts = r.index.conflicts /\ r.index.conflicts \in BOOLEAN
        BY <2>4, <2>6, RepoFields
      <3> HIDE DEF i
      <3> QED BY <3>1, <3>2, <3>3 DEF Index
    <2> HIDE DEF i
    <2>9. s = Repo(u.commits, u.heads, u.tag, u.head, i, u.mergeHead, u.fetchHead)
      BY <2>6, Except
    <2> HIDE DEF s
    <2>10. u.mergeHead \in 0 .. Len(u.commits)
      BY <2>6, Shape
    <2>11. /\ SoundRepo(s) /\ Grown(u, s) /\ SameRefs(u, s)
           /\ s.index = i /\ s.mergeHead = u.mergeHead
      BY <2>6, <2>8, <2>9, <2>10, IndexSet
    <2>12. s.commits = t.commits /\ HeadOf(s) = n /\ s.head.branch = r.head.branch
           /\ s.mergeHead = r.mergeHead
      BY <2>4, <2>6, <2>11 DEF SameRefs, HeadOf
    <2>13. Grown(r, s) /\ Len(s.commits) = n
      BY <2>3, <2>12 DEF Grown
    <2>14. OnTop(r, s)
      BY <2>1, <2>3, <2>12 DEF OnTop
    <2>15. ASSUME NEW b \in Branches, None \notin {r.heads[b], s.heads[b]}
           PROVE  r.heads[b] \in Past(s, s.heads[b])
      <3>1. CASE b = r.head.branch
        <4>1. HeadOf(r) = r.heads[b] /\ s.heads[b] = n
          BY <2>4, <2>6, <2>11, <3>1, NoBranchAssumption DEF HeadOf, SameRefs
        <4>2. r.heads[b] \in Past(r, parents[1])
          BY <2>1, <4>1, RepoFields, PastAndTree
        <4>3. Past(s, n) = t.commits[n].past
          BY <2>2, <2>12 DEF Past, None
        <4> QED BY <2>3, <4>1, <4>2, <4>3
      <3>2. CASE b # r.head.branch
        <4>1. s.heads[b] = r.heads[b]
          BY <2>4, <2>6, <2>11, <3>2 DEF SameRefs
        <4>2. s.heads[b] \in 0 .. Len(s.commits)
          BY <2>11 DEF SoundRepo
        <4> QED BY <2>11, <2>15, <4>1, <4>2, PastAndTree
      <3> QED BY <3>1, <3>2
    <2>16. n <= Len(r.commits) + 1 /\ n # None
      BY <2>2 DEF None
    <2> QED BY <2>7, <2>8, <2>11, <2>12, <2>13, <2>14, <2>15, <2>16 DEF Committed, Advances
  <1> QED BY <1>1, <1>2

LEMMA ShortLists ==
  ASSUME NEW D, NEW a \in D, NEW b \in D
  PROVE  /\ << a >> \in Seq(D) /\ << a >> # <<>>
         /\ << a, b >> \in Seq(D) /\ << a, b >> # <<>>
  OBVIOUS

(* "commit" with the parents that are given, or HEAD and MERGE_HEAD.         *)
LEMMA CommitSound ==
  ASSUME NEW r, SoundRepo(r), NEW parents \in Seq(DOMAIN r.commits),
         NEW dirty \in BOOLEAN, parents # <<>> => HeadOf(r) # None
  PROVE  Committed(r, commit(r, parents, dirty).repo)
  <1>1. CASE parents # <<>>
    BY <1>1, CommitCreateSound DEF commit
  <1>2. CASE parents = <<>> /\ HeadOf(r) = None
    <2>1. commit(r, parents, dirty).repo = r
      BY <1>2 DEF commit, Refused
    <2> QED BY <2>1, NothingCommitted
  <1>3. CASE parents = <<>> /\ HeadOf(r) # None
    <2>1. HeadOf(r) \in DOMAIN r.commits /\ r.mergeHead \in {None} \cup DOMAIN r.commits
      <3>1. /\ HeadOf(r) \in 0 .. Len(r.commits) /\ r.mergeHead \in 0 .. Len(r.commits)
            /\ DOMAIN r.commits = 1 .. Len(r.commits) /\ Len(r.commits) \in Nat
        BY RepoFields, Shape
      <3> QED BY <1>3, <3>1 DEF None
    <2> DEFINE heads == IF r.mergeHead = None THEN << HeadOf(r) >>
                        ELSE << HeadOf(r), r.mergeHead >>
    <2>2. heads \in Seq(DOMAIN r.commits) /\ heads # <<>>
      <3>1. CASE r.mergeHead = None
        BY <2>1, <3>1, ShortLists
      <3>2. CASE r.mergeHead # None
        BY <2>1, <3>2, ShortLists
      <3> QED BY <3>1, <3>2
    <2>3. commit(r, parents, dirty) = git_commit_create(r, heads, dirty)
      BY <1>3 DEF commit
    <2> HIDE DEF heads
    <2> QED BY <1>3, <2>2, <2>3, CommitCreateSound
  <1> QED BY <1>1, <1>2, <1>3

-----------------------------------------------------------------------------
(* Merges and checkouts.                                                     *)

LEMMA MergeHeadSet ==
  ASSUME NEW r, SoundRepo(r), NEW m \in 0 .. Len(r.commits)
  PROVE  LET s == [r EXCEPT !.mergeHead = m]
         IN  SoundRepo(s) /\ Grown(r, s) /\ SameRefs(r, s)
             /\ s.index = r.index /\ s.mergeHead = m
  <1>1. r.index \in Index
    BY Shape
  <1>2. [r EXCEPT !.mergeHead = m]
          = Repo(r.commits, r.heads, r.tag, r.head, r.index, m, r.fetchHead)
    BY Except
  <1> QED BY <1>1, <1>2, IndexSet

LEMMA TreeSet ==
  ASSUME NEW r, SoundRepo(r), NEW tree \in SUBSET Nat
  PROVE  LET s == [r EXCEPT !.index.tree = tree]
         IN  SoundRepo(s) /\ Grown(r, s) /\ SameRefs(r, s)
             /\ s.index.conflicts = r.index.conflicts /\ s.mergeHead = r.mergeHead
  <1> DEFINE j == r.index
             i == [j EXCEPT !.tree = tree]
             s == [r EXCEPT !.index.tree = tree]
  <1>1. j \in Index /\ r.mergeHead \in 0 .. Len(r.commits)
    BY Shape
  <1>2. j.dirty \in BOOLEAN /\ j.conflicts \in BOOLEAN
    BY RepoFields
  <1>3. s = [r EXCEPT !.index = i]
    OBVIOUS
  <1>4. j.conflicts = r.index.conflicts
    OBVIOUS
  <1> HIDE DEF j
  <1>5. i = [tree |-> tree, dirty |-> j.dirty, conflicts |-> j.conflicts]
    BY <1>1, ExceptIndex
  <1>6. i \in Index /\ i.conflicts = j.conflicts
    BY <1>2, <1>5 DEF Index
  <1> HIDE DEF i, s
  <1>7. s = Repo(r.commits, r.heads, r.tag, r.head, i, r.mergeHead, r.fetchHead)
    BY <1>3, Except
  <1>8. SoundRepo(s) /\ Grown(r, s) /\ SameRefs(r, s) /\ s.index = i
        /\ s.mergeHead = r.mergeHead
    BY <1>1, <1>6, <1>7, IndexSet
  <1> QED BY <1>4, <1>6, <1>8 DEF s

(* A merge moves nothing, and it is MERGE_HEAD that says what was merged.    *)
LEMMA MergeSound ==
  ASSUME NEW r, SoundRepo(r), NEW their \in 1 .. Len(r.commits),
         NEW o \in git_merge(r, their)
  PROVE  /\ SoundRepo(o.repo) /\ Grown(r, o.repo) /\ SameRefs(r, o.repo)
         /\ o.repo.mergeHead \in {None, their}
         /\ o.repo.index.conflicts => o.repo.mergeHead # None \/ r.index.conflicts
         /\ o.ok => HeadOf(r) # None
  <1> DEFINE our == HeadOf(r)
             result == Merged(r, our, their)
             refused == Refused([r EXCEPT !.mergeHead = None])
             merged(c) == Done(WhileMerging(r, their, MergedIndex(result, c)))
  <1>1. /\ Len(r.commits) \in Nat /\ their \in 0 .. Len(r.commits) /\ their # None
        /\ our \in 0 .. Len(r.commits) /\ None \in 0 .. Len(r.commits)
    BY RepoFields DEF None
  <1>2. result \in SUBSET Nat
    BY <1>1, PastAndTree DEF Merged
  <1>3. o = refused \/ (our # None /\ \E c \in BOOLEAN : o = merged(c))
    <2>1. CASE our = None
      BY <2>1 DEF git_merge, WhileMerging, MergedIndex
    <2>2. CASE our # None
      BY <2>2 DEF git_merge, WhileMerging, MergedIndex
    <2> QED BY <2>1, <2>2
  <1> HIDE DEF result
  <1>4. CASE o = refused
    <2>1. o.repo = [r EXCEPT !.mergeHead = None] /\ ~o.ok
      BY <1>4 DEF Refused
    <2> QED BY <1>1, <2>1, MergeHeadSet
  <1>5. ASSUME NEW c \in BOOLEAN, o = merged(c)
        PROVE  /\ SoundRepo(o.repo) /\ Grown(r, o.repo) /\ SameRefs(r, o.repo)
               /\ o.repo.mergeHead = their
    <2> DEFINE i == MergedIndex(result, c)
    <2>1. o.repo = WhileMerging(r, their, i)
      BY <1>5 DEF Done
    <2>2. i \in Index
      BY <1>2 DEF MergedIndex, Index
    <2> HIDE DEF i
    <2>3. o.repo = Repo(r.commits, r.heads, r.tag, r.head, i, their, r.fetchHead)
      BY <2>1, ExceptMerge
    <2> QED BY <1>1, <2>2, <2>3, IndexSet
  <1> QED BY <1>1, <1>3, <1>4, <1>5

LEMMA CheckoutSafeSound ==
  ASSUME NEW r, SoundRepo(r), NEW c \in 0 .. Len(r.commits),
         NEW o \in checkout_safe(r, c)
  PROVE  /\ SoundRepo(o.repo) /\ Grown(r, o.repo) /\ SameRefs(r, o.repo)
         /\ o.repo.mergeHead = r.mergeHead
         /\ o.repo.index.conflicts = r.index.conflicts
  <1>1. Tree(r, c) \in SUBSET Nat /\ r.index.tree \in SUBSET Nat
    BY PastAndTree, RepoFields
  <1>2. CASE o.repo = r
    BY <1>2, RepoFields DEF Grown, SameRefs
  <1>3. ASSUME NEW tree \in SUBSET Nat, o.repo = [r EXCEPT !.index.tree = tree]
        PROVE  /\ SoundRepo(o.repo) /\ Grown(r, o.repo) /\ SameRefs(r, o.repo)
               /\ o.repo.mergeHead = r.mergeHead
               /\ o.repo.index.conflicts = r.index.conflicts
    <2> DEFINE s == [r EXCEPT !.index.tree = tree]
    <2>1. SoundRepo(s) /\ Grown(r, s) /\ SameRefs(r, s)
          /\ s.index.conflicts = r.index.conflicts /\ s.mergeHead = r.mergeHead
      BY TreeSet
    <2>2. o.repo = s
      BY <1>3
    <2> HIDE DEF s
    <2> QED BY <2>1, <2>2
  <1>4. o.repo = r \/ \E tree \in SUBSET Nat : o.repo = [r EXCEPT !.index.tree = tree]
    <2>1. CASE r.index.conflicts
      BY <2>1 DEF checkout_safe, Refused
    <2>2. CASE ~r.index.conflicts /\ Clean(r)
      <3>1. o.repo = [r EXCEPT !.index.tree = Tree(r, c)]
        BY <2>2 DEF checkout_safe, Done
      <3> QED BY <1>1, <3>1
    <2>3. CASE ~r.index.conflicts /\ ~Clean(r)
      <3>1. PICK some \in SUBSET (Tree(r, c) \ r.index.tree) :
              o.repo = [r EXCEPT !.index.tree = @ \cup some]
        <4>1. o \in {Done([r EXCEPT !.index.tree = @ \cup some]) :
                       some \in SUBSET (Tree(r, c) \ r.index.tree)}
          BY <2>3 DEF checkout_safe
        <4>2. PICK some \in SUBSET (Tree(r, c) \ r.index.tree) :
                o = Done([r EXCEPT !.index.tree = @ \cup some])
          BY <4>1
        <4>3. o.repo = [r EXCEPT !.index.tree = @ \cup some]
          BY <4>2 DEF Done
        <4> QED BY <4>3
      <3>2. r.index.tree \cup some \in SUBSET Nat
        BY <1>1
      <3> QED BY <3>1, <3>2
    <2> QED BY <2>1, <2>2, <2>3
  <1> QED BY <1>2, <1>3, <1>4

(* The branch b is at c, and nothing else differs.                           *)
Moved(r, s, b, c) ==
  /\ SoundRepo(s) /\ Grown(r, s) /\ s.commits = r.commits
  /\ s.head = r.head /\ s.index = r.index /\ s.mergeHead = r.mergeHead
  /\ s.fetchHead = r.fetchHead /\ s.tag = r.tag
  /\ \A a \in Branches : s.heads[a] = IF a = b THEN c ELSE r.heads[a]

LEMMA HeadsSet ==
  ASSUME NEW r, SoundRepo(r), NEW b, NEW c \in 0 .. Len(r.commits)
  PROVE  Moved(r, [r EXCEPT !.heads[b] = c], b, c)
  <1> DEFINE H == [r.heads EXCEPT ![b] = c]
             s == [r EXCEPT !.heads[b] = c]
  <1>1. H \in [Branches -> 0 .. Len(r.commits)]
        /\ \A a \in Branches : H[a] = IF a = b THEN c ELSE r.heads[a]
    BY Shape
  <1>2. s = [r EXCEPT !.heads = H]
    OBVIOUS
  <1> HIDE DEF H, s
  <1>3. s = Repo(r.commits, H, r.tag, r.head, r.index, r.mergeHead, r.fetchHead)
    BY <1>2, Except
  <1>4. SoundRepo(s) /\ Grown(r, s)
    BY <1>1, <1>3, Shape, SoundParts
  <1>5. /\ s.commits = r.commits /\ s.head = r.head /\ s.index = r.index
        /\ s.mergeHead = r.mergeHead /\ s.fetchHead = r.fetchHead /\ s.tag = r.tag
        /\ s.heads = H
    BY <1>3 DEF Repo
  <1> QED BY <1>1, <1>4, <1>5 DEF s, Moved

LEMMA HeadSet ==
  ASSUME NEW r, SoundRepo(r), NEW h \in Head0, h.at \in 0 .. Len(r.commits)
  PROVE  LET s == [r EXCEPT !.head = h]
         IN  /\ SoundRepo(s) /\ Grown(r, s) /\ s.commits = r.commits
             /\ s.head = h /\ s.heads = r.heads /\ s.index = r.index
             /\ s.mergeHead = r.mergeHead
  <1> DEFINE s == [r EXCEPT !.head = h]
  <1>1. s = Repo(r.commits, r.heads, r.tag, h, r.index, r.mergeHead, r.fetchHead)
    BY Except
  <1> HIDE DEF s
  <1>2. SoundRepo(s) /\ Grown(r, s)
    BY <1>1, Shape, SoundParts
  <1>3. /\ s.commits = r.commits /\ s.head = h /\ s.heads = r.heads
        /\ s.index = r.index /\ s.mergeHead = r.mergeHead
    BY <1>1 DEF Repo
  <1> QED BY <1>2, <1>3 DEF s

(* Only the one branch moves, to the commit that was asked for.              *)
LEMMA FastForwardSound ==
  ASSUME NEW r, SoundRepo(r), NEW target \in Branches, NEW tip \in 0 .. Len(r.commits),
         NEW o \in fastForwardSha(r, target, tip)
  PROVE  /\ SoundRepo(o.repo) /\ Grown(r, o.repo) /\ o.repo.commits = r.commits
         /\ o.repo.head = r.head /\ o.repo.mergeHead = r.mergeHead
         /\ o.repo.index.conflicts = r.index.conflicts
         /\ \/ o.repo.heads = r.heads /\ ~o.ok
            \/ /\ o.ok /\ r.heads[target] # None
               /\ \A b \in Branches :
                    o.repo.heads[b] = IF b = target THEN tip ELSE r.heads[b]
  <1>1. PICK p \in checkout_safe(r, tip) :
          o = IF p.ok /\ r.heads[target] # None
                THEN Done([p.repo EXCEPT !.heads[target] = tip]) ELSE Refused(p.repo)
    BY DEF fastForwardSha
  <1> DEFINE t == p.repo
  <1>2. /\ SoundRepo(t) /\ Grown(r, t) /\ SameRefs(r, t)
        /\ t.mergeHead = r.mergeHead /\ t.index.conflicts = r.index.conflicts
    BY CheckoutSafeSound
  <1> HIDE DEF t
  <1>3. CASE ~ (p.ok /\ r.heads[target] # None)
    <2>1. o.repo = t /\ ~o.ok
      BY <1>1, <1>3 DEF Refused, t
    <2> QED BY <1>2, <2>1 DEF SameRefs
  <1>4. CASE p.ok /\ r.heads[target] # None
    <2> DEFINE s == [t EXCEPT !.heads[target] = tip]
    <2>1. o.repo = s /\ o.ok
      BY <1>1, <1>4 DEF Done, t
    <2>2. tip \in 0 .. Len(t.commits)
      BY <1>2 DEF SameRefs
    <2>3. Moved(t, s, target, tip)
      <3>1. SoundRepo(t)
        BY <1>2
      <3> QED BY <2>2, <3>1, HeadsSet
    <2> HIDE DEF s
    <2> QED BY <1>2, <1>4, <2>1, <2>3 DEF SameRefs, Grown, Moved
  <1> QED BY <1>3, <1>4

(* A checkout leaves commits, branches and MERGE_HEAD as they are, and no    *)
(* conflicts when it does anything.                                          *)
CheckedOut(r, s) ==
  /\ SoundRepo(s) /\ Grown(r, s) /\ s.commits = r.commits /\ s.heads = r.heads
  /\ s.mergeHead = r.mergeHead
  /\ s.index.conflicts => r.index.conflicts

LEMMA HeadBranchSound ==
  ASSUME NEW r, SoundRepo(r), NEW c \in 0 .. Len(r.commits), NEW b \in Branches
  PROVE  CheckedOut(r, set_head_branch(git_checkout_tree(r, c), b))
  <1> DEFINE t == git_checkout_tree(r, c)
             h == [branch |-> b, at |-> None]
             s == [t EXCEPT !.head = h]
  <1>1. SoundRepo(t) /\ Grown(r, t) /\ SameRefs(r, t) /\ t.mergeHead = r.mergeHead
        /\ ~t.index.conflicts
    BY CheckoutSound
  <1> HIDE DEF t
  <1>2. h \in Head0 /\ h.at \in 0 .. Len(t.commits)
    BY <1>1, RepoFields DEF Head0, None
  <1>3. set_head_branch(t, b) = s
    BY DEF set_head_branch
  <1> HIDE DEF h
  <1>4. /\ SoundRepo(s) /\ Grown(t, s) /\ s.commits = t.commits
        /\ s.heads = t.heads /\ s.index = t.index /\ s.mergeHead = t.mergeHead
    BY <1>1, <1>2, HeadSet
  <1> HIDE DEF s
  <1>5. CheckedOut(r, s)
    BY <1>1, <1>4 DEF CheckedOut, Grown, SameRefs
  <1> QED BY <1>3, <1>5 DEF t

LEMMA CheckoutTagSound ==
  ASSUME NEW r, SoundRepo(r), NEW c \in 0 .. Len(r.commits)
  PROVE  CheckedOut(r, checkoutTag(r, c).repo)
  <1> DEFINE t == git_checkout_tree(r, c)
             h == [branch |-> NoBranch, at |-> t.tag]
             s == [t EXCEPT !.head = h]
  <1>1. SoundRepo(t) /\ Grown(r, t) /\ SameRefs(r, t) /\ t.mergeHead = r.mergeHead
        /\ ~t.index.conflicts
    BY CheckoutSound
  <1>2. checkoutTag(r, c).repo = IF t.tag = None THEN t ELSE s
    BY DEF checkoutTag, set_head_tag, Done, Refused
  <1> HIDE DEF t
  <1>3. h \in Head0 /\ h.at \in 0 .. Len(t.commits)
    BY <1>1, RepoFields, Shape DEF Head0
  <1> HIDE DEF h
  <1>4. /\ SoundRepo(s) /\ Grown(t, s) /\ s.commits = t.commits
        /\ s.heads = t.heads /\ s.index = t.index /\ s.mergeHead = t.mergeHead
    BY <1>1, <1>3, HeadSet
  <1> HIDE DEF s
  <1>5. CheckedOut(r, s) /\ CheckedOut(r, t)
    BY <1>1, <1>4 DEF CheckedOut, Grown, SameRefs
  <1> QED BY <1>2, <1>5

LEMMA NotCheckedOut ==
  ASSUME NEW r, SoundRepo(r)
  PROVE  CheckedOut(r, r)
  BY RepoFields DEF CheckedOut, Grown

-----------------------------------------------------------------------------
(* The lists of lgit.                                                        *)

(* Every entry has a tip, and so has a branch that is current.               *)
SoundLists(l, n) ==
  /\ l \in Lists
  /\ \A k \in DOMAIN l.branches : l.branches[k].tip \in 1 .. n
  /\ l.current.oid \in 0 .. n
  /\ l.current.branch # NoBranch => l.current.oid # None

ListsOf(branches, current, analysis) ==
  [branches |-> branches, current |-> current, analysis |-> analysis]

LEMMA ExceptLists ==
  ASSUME NEW l \in Lists, NEW x
  PROVE  /\ [l EXCEPT !.branches = x] = ListsOf(x, l.current, l.analysis)
         /\ [l EXCEPT !.current = x] = ListsOf(l.branches, x, l.analysis)
         /\ [l EXCEPT !.analysis = x] = ListsOf(l.branches, l.current, x)
  <1>1. PICK b, c, a : l = [branches |-> b, current |-> c, analysis |-> a]
    BY DEF Lists
  <1>2. l.branches = b /\ l.current = c /\ l.analysis = a
    BY <1>1
  <1>3. [l EXCEPT !.branches = x] = ListsOf(x, c, a)
    BY <1>1 DEF ListsOf
  <1>4. [l EXCEPT !.current = x] = ListsOf(b, x, a)
    BY <1>1 DEF ListsOf
  <1>5. [l EXCEPT !.analysis = x] = ListsOf(b, c, x)
    BY <1>1 DEF ListsOf
  <1> QED BY <1>2, <1>3, <1>4, <1>5

LEMMA ListsFields ==
  ASSUME NEW l \in Lists
  PROVE  /\ l.branches \in Seq(Entry) /\ Len(l.branches) \in Nat
         /\ DOMAIN l.branches = 1 .. Len(l.branches)
         /\ l.current \in [branch : Branches \cup {NoBranch}, oid : Nat]
         /\ l.analysis \in {"unset", "fastforward", "uptodate", "normal"}
         /\ l.current.branch \in Branches \cup {NoBranch} /\ l.current.oid \in Nat
  <1>1. /\ l.branches \in Seq(Entry)
        /\ l.current \in [branch : Branches \cup {NoBranch}, oid : Nat]
        /\ l.analysis \in {"unset", "fastforward", "uptodate", "normal"}
    BY DEF Lists
  <1> QED BY <1>1, LenProperties

(* The entries of references that exist.                                     *)
LEMMA EntriesListed ==
  ASSUME NEW n \in Nat, NEW heads \in [Branches -> 0 .. n], NEW kind,
         kind \in {"local", "fetched"}
  PROVE  LET s == entries(heads, kind)
         IN  /\ s \in Seq(Entry)
             /\ \A k \in DOMAIN s : s[k].tip \in 1 .. n /\ s[k].kind = kind
             /\ \A b \in Branches : heads[b] # None => \E k \in DOMAIN s :
                  s[k] = [name |-> b, kind |-> kind, tip |-> heads[b]]
  <1> DEFINE places == {k \in DOMAIN Order : heads[Order[k]] # None}
             names == Sublist(Order, places)
             entry(b) == [name |-> b, kind |-> kind, tip |-> heads[b]]
             s == [k \in DOMAIN names |-> entry(names[k])]
  <1>1. places \in SUBSET DOMAIN Order /\ Order \in Seq(Branches)
    BY OrderAssumption
  <1>2. /\ names \in Seq(Branches)
        /\ \A k \in DOMAIN names : \E j \in places : names[k] = Order[j]
        /\ \A j \in places : \E k \in DOMAIN names : names[k] = Order[j]
    <2> HIDE DEF names, places
    <2>1. Sublist(Order, places) \in Seq(Branches)
      BY <1>1, SublistElements
    <2>2. \A k \in DOMAIN Sublist(Order, places) :
            \E j \in places : Sublist(Order, places)[k] = Order[j]
      BY <1>1, SublistElements
    <2>3. \A j \in places : \E k \in DOMAIN Sublist(Order, places) :
            Sublist(Order, places)[k] = Order[j]
      BY <1>1, SublistPicks
    <2> QED BY <2>1, <2>2, <2>3 DEF names
  <1>3. \A j \in places : heads[Order[j]] # None
    OBVIOUS
  <1>4. \A b \in Branches : heads[b] # None => \E j \in places : Order[j] = b
    BY OrderAssumption
  <1> HIDE DEF places, names
  <1>5. DOMAIN names = 1 .. Len(names) /\ Len(names) \in Nat
    BY <1>2, LenProperties
  <1>6. ASSUME NEW k \in DOMAIN names
        PROVE  names[k] \in Branches /\ heads[names[k]] \in 1 .. n
    <2>1. names[k] \in Branches
      BY <1>2, <1>5, ElementOfSeq
    <2>2. heads[names[k]] # None /\ heads[names[k]] \in 0 .. n
      BY <1>2, <1>3, <2>1
    <2> QED BY <2>1, <2>2 DEF None
  <1>7. \A k \in DOMAIN names : entry(names[k]) \in Entry
    <2> SUFFICES ASSUME NEW k \in DOMAIN names PROVE entry(names[k]) \in Entry
      OBVIOUS
    <2>1. names[k] \in Branches /\ heads[names[k]] \in Nat
      BY <1>6
    <2> QED BY <2>1 DEF Entry
  <1>8. s \in Seq(Entry)
    BY <1>5, <1>7, SeqDef
  <1>9. \A k \in DOMAIN s : s[k].tip \in 1 .. n /\ s[k].kind = kind
    BY <1>6
  <1>10. ASSUME NEW b \in Branches, heads[b] # None
         PROVE  \E k \in DOMAIN s : s[k] = entry(b)
    <2>1. PICK k \in DOMAIN names : names[k] = b
      BY <1>2, <1>4, <1>10
    <2> QED BY <2>1
  <1>11. entries(heads, kind) = s
    BY DEF entries, names, places
  <1> HIDE DEF s
  <1> QED BY <1>8, <1>9, <1>10, <1>11

LEMMA ListSound ==
  ASSUME NEW r, SoundRepo(r)
  PROVE  /\ list(r) \in Seq(Entry)
         /\ \A k \in DOMAIN list(r) : list(r)[k].tip \in 1 .. Len(r.commits)
         /\ \A b \in Branches : r.heads[b] # None => \E k \in DOMAIN list(r) :
              /\ list(r)[k].name = b /\ list(r)[k].kind = "local"
  <1> DEFINE s == entries(r.heads, "local")
             t == entries(r.fetchHead, "fetched")
             n == Len(r.commits)
  <1>1. n \in Nat /\ r.heads \in [Branches -> 0 .. n]
        /\ r.fetchHead \in [Branches -> 0 .. n]
    BY RepoFields, Shape
  <1>2. /\ s \in Seq(Entry)
        /\ \A k \in DOMAIN s : s[k].tip \in 1 .. n
        /\ \A b \in Branches : r.heads[b] # None => \E k \in DOMAIN s :
             s[k] = [name |-> b, kind |-> "local", tip |-> r.heads[b]]
    BY <1>1, EntriesListed
  <1>3. t \in Seq(Entry) /\ \A k \in DOMAIN t : t[k].tip \in 1 .. n
    BY <1>1, EntriesListed
  <1>4. list(r) = s \o t
    BY DEF list
  <1> HIDE DEF s, t
  <1>5. /\ list(r) \in Seq(Entry)
        /\ DOMAIN s = 1 .. Len(s) /\ DOMAIN t = 1 .. Len(t)
        /\ Len(s) \in Nat /\ Len(t) \in Nat
        /\ DOMAIN list(r) = 1 .. Len(s) + Len(t)
        /\ \A k \in DOMAIN s : list(r)[k] = s[k]
        /\ \A k \in DOMAIN list(r) :
             list(r)[k] = IF k <= Len(s) THEN s[k] ELSE t[k - Len(s)]
    BY <1>2, <1>3, <1>4, ConcatProperties, LenProperties
  <1>6. ASSUME NEW k \in DOMAIN list(r) PROVE list(r)[k].tip \in 1 .. n
    <2>1. CASE k <= Len(s)
      BY <1>2, <1>5, <2>1
    <2>2. CASE ~ (k <= Len(s))
      <3>1. k - Len(s) \in DOMAIN t
        BY <1>5, <2>2
      <3> QED BY <1>3, <1>5, <2>2, <3>1
    <2> QED BY <2>1, <2>2
  <1>7. ASSUME NEW b \in Branches, r.heads[b] # None
        PROVE  \E k \in DOMAIN list(r) : list(r)[k].name = b /\ list(r)[k].kind = "local"
    <2>1. PICK k \in DOMAIN s : s[k] = [name |-> b, kind |-> "local", tip |-> r.heads[b]]
      BY <1>2, <1>7
    <2>2. k \in DOMAIN list(r) /\ list(r)[k] = s[k]
      BY <1>5
    <2> QED BY <2>1, <2>2
  <1> QED BY <1>5, <1>6, <1>7

LEMMA LoadSound ==
  ASSUME NEW r, SoundRepo(r), NEW l, SoundLists(l, Len(r.commits))
  PROVE  LET m == loadBranches(r, l)
         IN  SoundLists(m, Len(r.commits)) /\ m.branches = list(r)
             /\ m.current = l.current /\ m.analysis = l.analysis
  <1> DEFINE m == loadBranches(r, l)
  <1>1. l \in Lists
    BY DEF SoundLists
  <1>2. m = ListsOf(list(r), l.current, l.analysis)
    BY <1>1, ExceptLists DEF loadBranches
  <1> HIDE DEF m
  <1>3. m.branches = list(r) /\ m.current = l.current /\ m.analysis = l.analysis
    BY <1>2 DEF ListsOf
  <1>4. m \in Lists
    BY <1>1, <1>2, ListSound, ListsFields DEF ListsOf, Lists
  <1> QED BY <1>3, <1>4, ListSound DEF SoundLists, m

LEMMA CurrentSound ==
  ASSUME NEW r, SoundRepo(r), NEW l, SoundLists(l, Len(r.commits))
  PROVE  LET m == establishCurrent(r, l)
         IN  SoundLists(m, Len(r.commits)) /\ m.branches = l.branches
             /\ m.current.branch \in {NoBranch, r.head.branch}
  <1> DEFINE m == establishCurrent(r, l)
  <1>1. l \in Lists
    BY DEF SoundLists
  <1>2. m = ListsOf(l.branches, discover(r), l.analysis)
    BY <1>1, ExceptLists DEF establishCurrent
  <1> HIDE DEF m
  <1>3. m.branches = l.branches /\ m.current = discover(r)
    BY <1>2 DEF ListsOf
  <1>4. /\ discover(r).branch \in {NoBranch, r.head.branch}
        /\ discover(r).oid \in 0 .. Len(r.commits)
        /\ discover(r).branch # NoBranch => discover(r).oid # None
        /\ discover(r) \in [branch : Branches \cup {NoBranch}, oid : Nat]
    <2>1. /\ HeadOf(r) \in 0 .. Len(r.commits) /\ None \in 0 .. Len(r.commits)
          /\ HeadOf(r) \in Nat /\ None \in Nat
          /\ r.head.branch \in Branches \cup {NoBranch}
      BY RepoFields DEF None
    <2>2. CASE HeadOf(r) = None
      BY <2>1, <2>2 DEF discover
    <2>3. CASE HeadOf(r) # None
      BY <2>1, <2>3 DEF discover
    <2> QED BY <2>2, <2>3
  <1>5. m \in Lists
    BY <1>1, <1>2, <1>4, ListsFields DEF ListsOf, Lists
  <1> QED BY <1>3, <1>4, <1>5 DEF SoundLists, m

(* The greatest of some numbers that are bounded.                            *)
LEMMA GreatestExists ==
  ASSUME NEW n \in Nat, NEW T \in SUBSET (1 .. n), T # {}
  PROVE  Max(T) \in T
  <1> DEFINE U == {m \in Nat : \A x \in T : x <= m}
  <1>1. n \in U
    OBVIOUS
  <1>2. PICK m \in U : \A y \in U : m <= y
    <2> HIDE DEF U
    <2>1. U \in SUBSET Nat
      BY DEF U
    <2> QED BY <1>1, <2>1, LeastExists
  <1>3. \A x \in T : x <= m /\ x \in Nat /\ x >= 1
    OBVIOUS
  <1>4. m \in T
    <2> SUFFICES ASSUME m \notin T PROVE FALSE
      OBVIOUS
    <2>1. m >= 1
      <3>1. PICK x \in T : TRUE
        OBVIOUS
      <3>2. x <= m /\ x >= 1 /\ x \in Nat /\ m \in Nat
        BY <1>3
      <3> QED BY <3>2
    <2>2. \A x \in T : x <= m - 1
      BY <1>3
    <2>3. m - 1 \in U
      BY <2>1, <2>2
    <2> QED BY <1>2, <2>3
  <1>5. \A y \in T : m >= y
    BY <1>3
  <1> QED BY <1>4, <1>5 DEF Max

(* A fast-forward is found only when HEAD is in the past of the other.       *)
LEMMA AnalysisSound ==
  ASSUME NEW r, SoundRepo(r), NEW their \in 1 .. Len(r.commits)
  PROVE  /\ git_merge_analysis(r, their) \in {"fastforward", "uptodate", "normal"}
         /\ git_merge_analysis(r, their) = "fastforward" =>
              HeadOf(r) = None \/ HeadOf(r) \in Past(r, their)
  <1>1. git_merge_analysis(r, their) \in {"fastforward", "uptodate", "normal"}
    BY DEF git_merge_analysis
  <1>2. ASSUME HeadOf(r) # None, git_merge_analysis(r, their) = "fastforward"
        PROVE  HeadOf(r) \in Past(r, their)
    <2> DEFINE our == HeadOf(r)
               T == Past(r, our) \cap Past(r, their)
    <2>1. Base(r, our, their) = our
      BY <1>2 DEF git_merge_analysis
    <2>2. /\ our \in 0 .. Len(r.commits) /\ their \in 0 .. Len(r.commits)
          /\ their # None /\ Len(r.commits) \in Nat
      BY RepoFields DEF None
    <2>3. /\ Past(r, our) \subseteq 1 .. our /\ 1 \in Past(r, our) /\ 1 \in Past(r, their)
      BY <1>2, <2>2, PastAndTree
    <2>4. T \in SUBSET (1 .. our) /\ T # {} /\ our \in Nat
      BY <2>2, <2>3
    <2>5. Max(T) \in T
      BY <2>4, GreatestExists
    <2> QED BY <2>1, <2>5 DEF Base
  <1> QED BY <1>1, <1>2

LEMMA AnalyzeSound ==
  ASSUME NEW r, SoundRepo(r), NEW n, NEW l, SoundLists(l, n),
         NEW tip \in 1 .. Len(r.commits)
  PROVE  LET m == analyzeMerge(r, l, tip)
         IN  SoundLists(m, n) /\ m.branches = l.branches /\ m.current = l.current
             /\ m.analysis = git_merge_analysis(r, tip)
  <1> DEFINE m == analyzeMerge(r, l, tip)
             a == git_merge_analysis(r, tip)
  <1>1. l \in Lists
    BY DEF SoundLists
  <1>2. m = ListsOf(l.branches, l.current, a)
    BY <1>1, ExceptLists DEF analyzeMerge
  <1>3. a \in {"fastforward", "uptodate", "normal"}
    BY AnalysisSound
  <1> HIDE DEF m, a
  <1>4. m.branches = l.branches /\ m.current = l.current /\ m.analysis = a
    BY <1>2 DEF ListsOf
  <1>5. m \in Lists
    BY <1>1, <1>2, <1>3, ListsFields DEF ListsOf, Lists
  <1> QED BY <1>4, <1>5 DEF SoundLists, m, a

(* What is chosen is an entry, or nothing.                                   *)
SoundChoice(c, n) ==
  /\ c \in [at : Nat, name : Branches \cup {NoBranch}, tip : 0 .. n]
  /\ c.name # NoBranch => c.tip # None

(* The chosen entry is still at its place.                                   *)
Pointed(l, c) ==
  c.at # 0 => /\ c.at \in DOMAIN l.branches
              /\ l.branches[c.at].name = c.name /\ l.branches[c.at].tip = c.tip

(* The analysis is about HEAD and the chosen entry.                          *)
Analysed(r, l, c) ==
  /\ l.current.branch \in {NoBranch, r.head.branch}
  /\ c.name # NoBranch /\ c.name = l.current.branch /\ l.analysis = "fastforward"
       => HeadOf(r) = None \/ HeadOf(r) \in Past(r, c.tip)

LEMMA UpdateSound ==
  ASSUME NEW r, SoundRepo(r), NEW l, SoundLists(l, Len(r.commits)),
         NEW c, SoundChoice(c, Len(r.commits))
  PROVE  LET m == updateMergeAnalysis(r, l, c)
         IN  /\ SoundLists(m, Len(r.commits)) /\ m.branches = l.branches
             /\ m.current = l.current
             /\ l.current.branch \in {NoBranch, r.head.branch} => Analysed(r, m, c)
  <1>1. CASE c.name # NoBranch /\ c.name = l.current.branch
    <2> DEFINE m == analyzeMerge(r, l, c.tip)
    <2>1. c.tip \in 1 .. Len(r.commits)
      BY <1>1 DEF SoundChoice, None
    <2>2. SoundLists(m, Len(r.commits)) /\ m.branches = l.branches /\ m.current = l.current
          /\ m.analysis = git_merge_analysis(r, c.tip)
      BY <2>1, AnalyzeSound
    <2>3. updateMergeAnalysis(r, l, c) = m
      BY <1>1 DEF updateMergeAnalysis
    <2> HIDE DEF m
    <2>4. m.analysis = "fastforward" => HeadOf(r) = None \/ HeadOf(r) \in Past(r, c.tip)
      BY <2>1, <2>2, AnalysisSound
    <2> QED BY <2>2, <2>3, <2>4 DEF Analysed
  <1>2. CASE ~ (c.name # NoBranch /\ c.name = l.current.branch)
    <2>1. updateMergeAnalysis(r, l, c) = l
      BY <1>2 DEF updateMergeAnalysis
    <2> QED BY <1>2, <2>1 DEF Analysed
  <1> QED BY <1>1, <1>2

LEMMA SelectedSound ==
  ASSUME NEW n \in Nat, NEW l, SoundLists(l, n), NEW name
  PROVE  SoundChoice(Selected(l, name), n) /\ Pointed(l, Selected(l, name))
  <1> DEFINE fetched == {k \in DOMAIN l.branches : l.branches[k].kind = "fetched"}
             named == {k \in fetched : l.branches[k].name = name}
             T == IF named # {} THEN named ELSE fetched
             at == Min(T)
             c == Selected(l, name)
  <1>1. l.branches \in Seq(Entry) /\ DOMAIN l.branches = 1 .. Len(l.branches)
        /\ Len(l.branches) \in Nat
    BY ListsFields DEF SoundLists
  <1>2. CASE fetched = {}
    <2>1. c = [at |-> 0, name |-> NoBranch, tip |-> None]
      BY <1>2 DEF Selected, NoChoice
    <2> HIDE DEF c
    <2> QED BY <2>1 DEF SoundChoice, Pointed, None, c
  <1>3. CASE fetched # {}
    <2>1. c = [at |-> at, name |-> l.branches[at].name, tip |-> l.branches[at].tip]
      BY <1>3 DEF Selected
    <2>2. T \in SUBSET DOMAIN l.branches /\ T # {}
      BY <1>3
    <2> HIDE DEF T, c
    <2>3. T \in SUBSET Nat
      BY <1>1, <2>2
    <2>4. PICK m \in T : \A y \in T : m <= y
      BY <2>2, <2>3, LeastExists
    <2>5. at \in T
      BY <2>4 DEF Min
    <2> HIDE DEF at
    <2>6. at \in DOMAIN l.branches /\ at \in Nat
      BY <2>2, <2>3, <2>5
    <2>7. l.branches[at] \in Entry
      BY <1>1, <2>6, ElementOfSeq
    <2>8. l.branches[at].name \in Branches /\ l.branches[at].tip \in 1 .. n
      BY <2>6, <2>7 DEF Entry, SoundLists
    <2>9. c.at = at /\ c.name = l.branches[at].name /\ c.tip = l.branches[at].tip
      BY <2>1
    <2>10. l.branches[at].tip \in 0 .. n /\ l.branches[at].tip # None
      BY <2>8 DEF None
    <2>11. c \in [at : Nat, name : Branches \cup {NoBranch}, tip : 0 .. n]
      BY <2>1, <2>6, <2>8, <2>10
    <2> QED BY <2>6, <2>9, <2>10, <2>11 DEF SoundChoice, Pointed, c
  <1> QED BY <1>2, <1>3

-----------------------------------------------------------------------------
(* The state.                                                                *)

SoundPending(p, n) == p \in [parents : Seq(1 .. n), back : Dialogs]
SoundOffers(o, n) == o \in [branches : [Branches -> 0 .. n], tag : 0 .. n]
Halts == {"no", "null repository", "no such entry", "deleted dialog"}

(* The inductive invariant of TypeOK: nothing that is remembered is a commit *)
(* that there is not.                                                        *)
SoundState ==
  /\ SoundRepo(repo) /\ Len(repo.commits) <= MaxCommits
  /\ upstream \in [Branches -> 1 .. Len(repo.commits)]
  /\ SoundLists(lgit, Len(repo.commits))
  /\ handle \in BOOLEAN /\ dialog \in Dialogs
  /\ SoundChoice(chosen, Len(repo.commits))
  /\ SoundPending(pending, Len(repo.commits))
  /\ SoundOffers(offers, Len(repo.commits))
  /\ tracker \in BOOLEAN /\ halted \in Halts /\ met \subseteq Liberties

(* What dialogs remember is still true when they use it.                     *)
Ready ==
  /\ dialog = "committing" =>
       /\ HeadOf(repo) # None /\ pending.parents # <<>>
       /\ lgit.analysis = "normal"
       /\ pending.back \in {"pull", "fetching", "fetched"}
  /\ "nested" \notin met =>
       /\ dialog = "fetching" => handle
       /\ dialog = "committing" => pending.back = "pull"
       /\ dialog \in {"pull", "committing"} => Pointed(lgit, chosen)
  /\ Without({"outside", "nested"}) /\ dialog \in {"pull", "committing"} =>
       Analysed(repo, lgit, chosen)
  /\ HaltsOnlyWhenNested
  /\ ConflictsBelongToAMerge

(* The action of MergesWhatIsShown.                                          *)
Shown ==
  Without({"nested"})' /\ dialog = "pull" /\ "outside" \notin met' \ met =>
    /\ repo'.mergeHead \in {None, repo.mergeHead, chosen.tip}
    /\ \A b \in Branches :
         repo'.heads[b] # repo.heads[b] =>
           b = chosen.name /\ repo'.heads[b] = chosen.tip

GoodStep ==
  /\ SoundState' /\ Ready'
  /\ upstream' = upstream => OnTop(repo, repo')
  /\ Without({"outside", "nested"})' => Advances(repo, repo')
  /\ Shown

(* What stays sound when there are more commits.                             *)
LEMMA MoreCommits ==
  ASSUME NEW n \in Nat, NEW m \in Nat, n <= m
  PROVE  /\ \A l : SoundLists(l, n) => SoundLists(l, m)
         /\ \A c : SoundChoice(c, n) => SoundChoice(c, m)
         /\ \A p : SoundPending(p, n) => SoundPending(p, m)
         /\ \A o : SoundOffers(o, n) => SoundOffers(o, m)
         /\ [Branches -> 1 .. n] \subseteq [Branches -> 1 .. m]
  <1>1. 0 .. n \subseteq 0 .. m /\ 1 .. n \subseteq 1 .. m
    OBVIOUS
  <1>2. Seq(1 .. n) \subseteq Seq(1 .. m)
    <2> SUFFICES ASSUME NEW s \in Seq(1 .. n) PROVE s \in Seq(1 .. m)
      OBVIOUS
    <2>1. Len(s) \in Nat /\ s \in [1 .. Len(s) -> 1 .. n]
      BY LenProperties
    <2>2. s \in [1 .. Len(s) -> 1 .. m]
      BY <1>1, <2>1
    <2> QED BY <2>1, <2>2, SeqDef
  <1>3. \A l : SoundLists(l, n) => SoundLists(l, m)
    BY <1>1 DEF SoundLists
  <1>4. \A c : SoundChoice(c, n) => SoundChoice(c, m)
    BY <1>1 DEF SoundChoice
  <1>5. \A p : SoundPending(p, n) => SoundPending(p, m)
    BY <1>2 DEF SoundPending
  <1>6. [Branches -> 1 .. n] \subseteq [Branches -> 1 .. m]
    BY <1>1
  <1>7. \A o : SoundOffers(o, n) => SoundOffers(o, m)
    <2>1. [Branches -> 0 .. n] \subseteq [Branches -> 0 .. m]
      BY <1>1
    <2> QED BY <1>1, <2>1 DEF SoundOffers
  <1> QED BY <1>3, <1>4, <1>5, <1>6, <1>7

LEMMA SoundNext ==
  ASSUME SoundState,
         SoundRepo(repo'), Grown(repo, repo'), Len(repo'.commits) <= MaxCommits,
         upstream' = upstream \/ upstream' \in [Branches -> 1 .. Len(repo'.commits)],
         lgit' = lgit \/ SoundLists(lgit', Len(repo'.commits)),
         handle' \in BOOLEAN, dialog' \in Dialogs,
         chosen' = chosen \/ SoundChoice(chosen', Len(repo'.commits)),
         pending' = pending \/ SoundPending(pending', Len(repo'.commits)),
         offers' = offers \/ SoundOffers(offers', Len(repo'.commits)),
         tracker' \in BOOLEAN, halted' \in Halts, met' \subseteq Liberties
  PROVE  SoundState'
  <1> DEFINE n == Len(repo.commits)
             m == Len(repo'.commits)
  <1>1. n \in Nat /\ m \in Nat /\ n <= m
    BY RepoFields DEF SoundState, Grown
  <1> HIDE DEF n, m
  <1>2. /\ SoundLists(lgit, n) => SoundLists(lgit, m)
        /\ SoundChoice(chosen, n) => SoundChoice(chosen, m)
        /\ SoundPending(pending, n) => SoundPending(pending, m)
        /\ SoundOffers(offers, n) => SoundOffers(offers, m)
        /\ upstream \in [Branches -> 1 .. n] => upstream \in [Branches -> 1 .. m]
    BY <1>1, MoreCommits
  <1>3. /\ SoundLists(lgit', m) /\ SoundChoice(chosen', m) /\ SoundPending(pending', m)
        /\ SoundOffers(offers', m) /\ upstream' \in [Branches -> 1 .. m]
    BY <1>2 DEF SoundState, n, m
  <1> QED BY <1>3 DEF SoundState, m

(* A step of the main window or of the checkout dialog.                      *)
LEMMA MainStep ==
  ASSUME SoundState, Ready,
         {dialog, dialog'} \subseteq {"none", "checkout"},
         SoundRepo(repo'), Grown(repo, repo'), Len(repo'.commits) <= MaxCommits,
         UNCHANGED <<upstream, handle, chosen, pending>>,
         lgit' = lgit \/ SoundLists(lgit', Len(repo'.commits)),
         offers' = offers \/ SoundOffers(offers', Len(repo'.commits)),
         tracker' \in BOOLEAN, halted' \in {halted, "deleted dialog"},
         met \subseteq met', met' \subseteq Liberties,
         OnTop(repo, repo'), Advances(repo, repo'),
         repo'.index.conflicts =>
           repo.index.conflicts /\ (repo.mergeHead # None => repo'.mergeHead # None)
  PROVE  GoodStep
  <1>1. SoundState'
    BY SoundNext DEF SoundState, Dialogs, Halts
  <1>2. HaltsOnlyWhenNested'
    BY DEF Ready, HaltsOnlyWhenNested
  <1>3. ConflictsBelongToAMerge'
    BY DEF Ready, ConflictsBelongToAMerge, Without
  <1>4. Ready'
    BY <1>2, <1>3 DEF Ready
  <1> QED BY <1>1, <1>4 DEF GoodStep, Shown

(* Nothing is committed and no branch is moved.                              *)
LEMMA NothingMoves ==
  ASSUME NEW r, SoundRepo(r), NEW s, SoundRepo(s), s.commits = r.commits,
         \A b \in Branches : s.heads[b] \in {r.heads[b], None} \/ r.heads[b] = None
  PROVE  Grown(r, s) /\ OnTop(r, s) /\ Advances(r, s)
  <1>1. Grown(r, s)
    BY RepoFields DEF Grown
  <1>2. OnTop(r, s)
    BY RepoFields DEF OnTop
  <1> QED BY <1>1, <1>2, StayingAdvances

LEMMA TagSet ==
  ASSUME NEW r, SoundRepo(r)
  PROVE  LET s == [r EXCEPT !.tag = None]
         IN  SoundRepo(s) /\ s.commits = r.commits /\ s.heads = r.heads /\ s.head = r.head
             /\ s.index = r.index /\ s.mergeHead = r.mergeHead
  <1> DEFINE s == [r EXCEPT !.tag = None]
  <1>1. s = Repo(r.commits, r.heads, None, r.head, r.index, r.mergeHead, r.fetchHead)
    BY Except
  <1> HIDE DEF s
  <1>2. None \in 0 .. Len(r.commits)
    BY RepoFields DEF None
  <1>3. SoundRepo(s)
    BY <1>1, <1>2, Shape, SoundParts
  <1>4. /\ s.commits = r.commits /\ s.heads = r.heads /\ s.head = r.head
        /\ s.index = r.index /\ s.mergeHead = r.mergeHead
    BY <1>1 DEF Repo
  <1> QED BY <1>3, <1>4 DEF s

LEMMA FlagSet ==
  ASSUME NEW r, SoundRepo(r), NEW i \in Index
  PROVE  LET s == [r EXCEPT !.index = i]
         IN  SoundRepo(s) /\ SameRefs(r, s) /\ s.index = i /\ s.mergeHead = r.mergeHead
  <1>1. r.mergeHead \in 0 .. Len(r.commits)
    BY Shape
  <1>2. [r EXCEPT !.index = i]
          = Repo(r.commits, r.heads, r.tag, r.head, i, r.mergeHead, r.fetchHead)
    BY Except
  <1> QED BY <1>1, <1>2, IndexSet

LEMMA EditFilesGood ==
  ASSUME SoundState, Ready, EditFiles
  PROVE  GoodStep
  <1> DEFINE j == repo.index
             i == [j EXCEPT !.dirty = TRUE]
  <1>1. SoundRepo(repo) /\ j \in Index /\ j.tree \in SUBSET Nat /\ j.conflicts \in BOOLEAN
    BY Shape, RepoFields DEF SoundState
  <1>2. repo' = [repo EXCEPT !.index = i]
    BY DEF EditFiles
  <1>3. j.conflicts = repo.index.conflicts
    OBVIOUS
  <1> HIDE DEF j
  <1>4. i = [tree |-> j.tree, dirty |-> TRUE, conflicts |-> j.conflicts]
    BY <1>1, ExceptIndex
  <1>5. i \in Index /\ i.conflicts = repo.index.conflicts
    BY <1>1, <1>3, <1>4 DEF Index
  <1> HIDE DEF i
  <1>6. SoundRepo(repo') /\ SameRefs(repo, repo') /\ repo'.index = i
        /\ repo'.mergeHead = repo.mergeHead
    BY <1>1, <1>2, <1>5, FlagSet
  <1>7. Grown(repo, repo') /\ OnTop(repo, repo') /\ Advances(repo, repo')
    BY <1>1, <1>6, NothingMoves DEF SameRefs
  <1> QED BY <1>5, <1>6, <1>7, MainStep DEF EditFiles, SoundState, SameRefs

LEMMA ResolveConflictsGood ==
  ASSUME SoundState, Ready, ResolveConflicts
  PROVE  GoodStep
  <1> DEFINE j == repo.index
             i == [j EXCEPT !.conflicts = FALSE]
  <1>1. SoundRepo(repo) /\ j \in Index /\ j.tree \in SUBSET Nat /\ j.dirty \in BOOLEAN
    BY Shape, RepoFields DEF SoundState
  <1>2. repo' = [repo EXCEPT !.index = i]
    BY DEF ResolveConflicts
  <1> HIDE DEF j
  <1>3. i = [tree |-> j.tree, dirty |-> j.dirty, conflicts |-> FALSE]
    BY <1>1, ExceptIndex
  <1>4. i \in Index /\ ~i.conflicts
    BY <1>1, <1>3 DEF Index
  <1> HIDE DEF i
  <1>5. SoundRepo(repo') /\ SameRefs(repo, repo') /\ repo'.index = i
    BY <1>1, <1>2, <1>4, FlagSet
  <1>6. Grown(repo, repo') /\ OnTop(repo, repo') /\ Advances(repo, repo')
    BY <1>1, <1>5, NothingMoves DEF SameRefs
  <1> QED BY <1>4, <1>5, <1>6, MainStep DEF ResolveConflicts, SoundState, SameRefs

LEMMA GitResetGood ==
  ASSUME SoundState, Ready, GitReset
  PROVE  GoodStep
  <1>1. SoundRepo(repo)
    BY DEF SoundState
  <1>2. /\ SoundRepo(repo') /\ SameRefs(repo, repo')
        /\ repo'.index.conflicts => repo' = repo
    BY <1>1, ResetSound DEF GitReset
  <1>3. Grown(repo, repo') /\ OnTop(repo, repo') /\ Advances(repo, repo')
    BY <1>1, <1>2, NothingMoves DEF SameRefs
  <1> QED BY <1>2, <1>3, MainStep DEF GitReset, SoundState, SameRefs

LEMMA DeleteTagGood ==
  ASSUME SoundState, Ready, DeleteTag
  PROVE  GoodStep
  <1>1. SoundRepo(repo)
    BY DEF SoundState
  <1>2. SoundRepo(repo') /\ repo'.commits = repo.commits /\ repo'.heads = repo.heads
        /\ repo'.index = repo.index /\ repo'.mergeHead = repo.mergeHead
    BY <1>1, TagSet DEF DeleteTag
  <1>3. Grown(repo, repo') /\ OnTop(repo, repo') /\ Advances(repo, repo')
    BY <1>1, <1>2, NothingMoves
  <1> QED BY <1>2, <1>3, MainStep DEF DeleteTag, SoundState

LEMMA GitCommitGood ==
  ASSUME SoundState, Ready, GitCommit
  PROVE  GoodStep
  <1>1. SoundRepo(repo) /\ Len(repo.commits) \in Nat /\ Len(repo.commits) < MaxCommits
        /\ repo.index.dirty \in BOOLEAN /\ <<>> \in Seq(DOMAIN repo.commits)
    BY RepoFields DEF SoundState, GitCommit, Room
  <1>2. PICK stays \in BOOLEAN : repo' = commit(repo, <<>>, stays).repo
    BY <1>1 DEF GitCommit
  <1>3. Committed(repo, repo')
    BY <1>1, <1>2, CommitSound
  <1>4. Len(repo'.commits) \in Nat /\ Len(repo'.commits) <= MaxCommits
        /\ SoundRepo(repo') /\ Grown(repo, repo')
    BY <1>1, <1>3, RepoFields, BoundAssumption DEF Committed
  <1>5. lgit' = lgit \/ SoundLists(lgit', Len(repo'.commits))
    <2>1. SoundLists(lgit, Len(repo.commits))
      BY DEF SoundState
    <2>2. SoundLists(loadBranches(repo, lgit), Len(repo.commits))
      BY <1>1, <2>1, LoadSound
    <2>3. SoundLists(loadBranches(repo, lgit), Len(repo'.commits))
      BY <1>1, <1>4, <2>2, MoreCommits DEF Grown
    <2> QED BY <2>3 DEF GitCommit
  <1> QED BY <1>3, <1>4, <1>5, MainStep DEF GitCommit, SoundState, Committed

LEMMA Taken ==
  ASSUME SoundState, NEW L, Take(L)
  PROVE  met \subseteq met' /\ met' \subseteq Liberties /\ met' = met \cup L
  BY DEF SoundState, Take

(* A checkout of what was the repository r before.                           *)
LEMMA CheckedOutGood ==
  ASSUME SoundState, Ready, CheckedOut(repo, repo'),
         {dialog, dialog'} \subseteq {"none", "checkout"},
         UNCHANGED <<upstream, handle, chosen, pending>>,
         lgit' = lgit \/ SoundLists(lgit', Len(repo.commits)),
         offers' = offers \/ SoundOffers(offers', Len(repo.commits)),
         tracker' \in BOOLEAN, halted' \in {halted, "deleted dialog"},
         met \subseteq met', met' \subseteq Liberties
  PROVE  GoodStep
  <1>1. SoundRepo(repo) /\ SoundRepo(repo') /\ repo'.commits = repo.commits
    BY DEF SoundState, CheckedOut
  <1>2. Grown(repo, repo') /\ OnTop(repo, repo') /\ Advances(repo, repo')
    BY <1>1, NothingMoves DEF CheckedOut
  <1> QED BY <1>1, <1>2, MainStep DEF SoundState, CheckedOut

LEMMA ReloadedLists ==
  ASSUME SoundState
  PROVE  /\ SoundRepo(repo)
         /\ SoundLists(loadBranches(repo, lgit), Len(repo.commits))
         /\ SoundLists(establishCurrent(repo, loadBranches(repo, lgit)), Len(repo.commits))
  BY LoadSound, CurrentSound DEF SoundState

LEMMA NewBranchGood ==
  ASSUME SoundState, Ready, NEW b \in Branches, NEW c \in DOMAIN repo.commits,
         NewBranch(b, c)
  PROVE  GoodStep
  <1> DEFINE created == git_branch_create(repo, b, c)
             r == created.repo
             l == loadBranches(r, lgit)
  <1>1. SoundRepo(repo) /\ Len(repo.commits) \in Nat
    BY RepoFields DEF SoundState
  <1>2. c \in 0 .. Len(repo.commits) /\ c # None
    BY <1>1, RepoFields DEF None
  <1>3. created.ok
    BY DEF NewBranch
  <1>4. repo.heads[b] = None /\ r = [repo EXCEPT !.heads[b] = c]
    BY <1>3 DEF git_branch_create, Refused, Done
  <1>5. Moved(repo, [repo EXCEPT !.heads[b] = c], b, c)
    BY <1>1, <1>2, HeadsSet
  <1>6. Moved(repo, r, b, c)
    BY <1>4, <1>5
  <1>7. SoundRepo(r) /\ r.commits = repo.commits /\ r.heads[b] = c
    BY <1>6 DEF Moved
  <1> HIDE DEF r
  <1>8. SoundLists(l, Len(repo.commits)) /\ l.branches = list(r)
    BY <1>7, LoadSound DEF SoundState
  <1>9. CASE repo' = r /\ UNCHANGED <<lgit, halted, met>>
    <2>1. Grown(repo, repo') /\ OnTop(repo, repo') /\ Advances(repo, repo')
      BY <1>1, <1>4, <1>6, <1>7, <1>9, NothingMoves DEF Moved
    <2>2. repo'.index = repo.index /\ repo'.mergeHead = repo.mergeHead
      BY <1>6, <1>9 DEF Moved
    <2> QED BY <1>7, <1>9, <2>1, <2>2, MainStep DEF NewBranch, SoundState
  <1>10. CASE /\ repo' = checkoutNew(r, l, b).repo
              /\ lgit' = l
              /\ halted' \in {halted, "deleted dialog"}
              /\ \E L : Take(L)
    <2> DEFINE k == CHOOSE j \in DOMAIN l.branches :
                      l.branches[j].name = b /\ l.branches[j].kind = "local"
               tip == l.branches[k].tip
    <2>1. \E j \in DOMAIN l.branches :
            l.branches[j].name = b /\ l.branches[j].kind = "local"
      BY <1>2, <1>7, <1>8, ListSound
    <2>2. k \in DOMAIN l.branches
      BY <2>1
    <2>3. tip \in 0 .. Len(r.commits)
      BY <1>7, <1>8, <2>2 DEF SoundLists
    <2>4. repo' = set_head_branch(git_checkout_tree(r, tip), b)
      BY <1>10 DEF checkoutNew, Done
    <2> HIDE DEF tip, k, l
    <2>5. CheckedOut(r, repo')
      BY <1>7, <2>3, <2>4, HeadBranchSound
    <2>6. Grown(repo, repo') /\ OnTop(repo, repo') /\ Advances(repo, repo')
          /\ SoundRepo(repo') /\ repo'.commits = repo.commits
      BY <1>1, <1>4, <1>6, <1>7, <2>5, NothingMoves DEF Moved, CheckedOut
    <2>7. /\ repo'.index.conflicts => repo.index.conflicts
          /\ repo'.mergeHead = repo.mergeHead
      BY <1>6, <2>5 DEF Moved, CheckedOut
    <2>8. met \subseteq met' /\ met' \subseteq Liberties
      BY <1>10, Taken
    <2> QED BY <1>8, <1>10, <2>6, <2>7, <2>8, MainStep DEF NewBranch, SoundState
  <1> QED BY <1>9, <1>10 DEF NewBranch, r

LEMMA DeleteBranchGood ==
  ASSUME SoundState, Ready, NEW b \in Branches, DeleteBranch(b)
  PROVE  GoodStep
  <1> DEFINE deleted == git_branch_delete(repo, b)
             l == loadBranches(repo, lgit)
  <1>1. SoundRepo(repo) /\ Len(repo.commits) \in Nat /\ None \in 0 .. Len(repo.commits)
    BY RepoFields DEF SoundState, None
  <1>2. SoundLists(l, Len(repo.commits))
    BY ReloadedLists
  <1>3. repo' = deleted.repo
        /\ lgit' = IF deleted.ok THEN loadBranches(deleted.repo, l) ELSE l
    BY DEF DeleteBranch
  <1> HIDE DEF l
  <1>4. CASE deleted = Refused(repo)
    <2>1. repo' = repo /\ lgit' = l
      BY <1>3, <1>4 DEF Refused
    <2> QED BY <1>1, <1>2, <2>1, NotCheckedOut, CheckedOutGood DEF DeleteBranch, SoundState
  <1>5. CASE deleted = Done([repo EXCEPT !.heads[b] = None])
    <2>1. repo' = [repo EXCEPT !.heads[b] = None] /\ lgit' = loadBranches(repo', l)
      BY <1>3, <1>5 DEF Done
    <2>2. Moved(repo, repo', b, None)
      BY <1>1, <2>1, HeadsSet
    <2>3. SoundRepo(repo') /\ repo'.commits = repo.commits
      BY <2>2 DEF Moved
    <2>4. SoundLists(lgit', Len(repo'.commits))
      BY <1>2, <2>1, <2>3, LoadSound
    <2>5. Grown(repo, repo') /\ OnTop(repo, repo') /\ Advances(repo, repo')
      BY <1>1, <2>2, <2>3, NothingMoves DEF Moved
    <2>6. repo'.index = repo.index /\ repo'.mergeHead = repo.mergeHead
      BY <2>2 DEF Moved
    <2> QED BY <2>3, <2>4, <2>5, <2>6, MainStep DEF DeleteBranch, SoundState
  <1> QED BY <1>4, <1>5 DEF git_branch_delete

LEMMA OpenCheckoutGood ==
  ASSUME SoundState, Ready, OpenCheckout
  PROVE  GoodStep
  <1>1. SoundLists(lgit', Len(repo.commits))
    BY ReloadedLists DEF OpenCheckout
  <1>2. SoundOffers(offers', Len(repo.commits))
    BY Shape DEF OpenCheckout, SoundState, SoundOffers
  <1>3. CheckedOut(repo, repo')
    BY NotCheckedOut DEF OpenCheckout, SoundState
  <1> QED BY <1>1, <1>2, <1>3, CheckedOutGood DEF OpenCheckout, SoundState

LEMMA CloseCheckoutGood ==
  ASSUME SoundState, Ready, CloseCheckout
  PROVE  GoodStep
  <1>1. SoundOffers(offers', Len(repo.commits))
    BY RepoFields DEF CloseCheckout, SoundState, SoundOffers, NoOffers, None
  <1>2. CheckedOut(repo, repo')
    BY NotCheckedOut DEF CloseCheckout, SoundState
  <1> QED BY <1>1, <1>2, CheckedOutGood DEF CloseCheckout, SoundState

LEMMA CheckoutBranchGood ==
  ASSUME SoundState, Ready, NEW b \in Branches, CheckoutBranch(b)
  PROVE  GoodStep
  <1> DEFINE l == loadBranches(repo, lgit)
             tip == offers.branches[b]
             o == checkoutBranch(repo, l, b, tip)
  <1>1. SoundRepo(repo) /\ SoundLists(l, Len(repo.commits))
    BY ReloadedLists
  <1>2. tip \in 0 .. Len(repo.commits)
    BY DEF SoundState, SoundOffers
  <1>3. repo' = o.repo /\ lgit' = l /\ \E L : Take(L)
    BY DEF CheckoutBranch
  <1>4. CheckedOut(repo, repo')
    <2>1. CASE UpToDate(l, tip)
      <3>1. repo' = set_head_branch(git_checkout_tree(repo, tip), b)
        BY <1>3, <2>1 DEF checkoutBranch, Done
      <3> HIDE DEF tip
      <3> QED BY <1>1, <1>2, <3>1, HeadBranchSound
    <2>2. CASE ~UpToDate(l, tip)
      <3>1. repo' = repo
        BY <1>3, <2>2 DEF checkoutBranch, Refused
      <3> QED BY <1>1, <3>1, NotCheckedOut
    <2> QED BY <2>1, <2>2
  <1>5. met \subseteq met' /\ met' \subseteq Liberties
    BY <1>3, Taken
  <1> HIDE DEF l, o
  <1> QED BY <1>1, <1>3, <1>4, <1>5, CheckedOutGood DEF CheckoutBranch, SoundState

LEMMA CheckoutTagGood ==
  ASSUME SoundState, Ready, CheckoutTag
  PROVE  GoodStep
  <1>1. SoundRepo(repo) /\ SoundLists(lgit', Len(repo.commits))
    BY ReloadedLists DEF CheckoutTag
  <1>2. offers.tag \in 0 .. Len(repo.commits)
    BY DEF SoundState, SoundOffers
  <1>3. CheckedOut(repo, repo')
    BY <1>1, <1>2, CheckoutTagSound DEF CheckoutTag
  <1>4. met \subseteq met' /\ met' \subseteq Liberties
    BY Taken DEF CheckoutTag
  <1> QED BY <1>1, <1>3, <1>4, CheckedOutGood DEF CheckoutTag, SoundState
-----------------------------------------------------------------------------
(* Git used outside of the program.                                          *)

LEMMA OutsideStep ==
  ASSUME SoundState, Ready, OutsideMay, Take({"outside"}),
         UNCHANGED <<upstream, lgit, handle, dialog, chosen, pending, offers, tracker,
                     halted>>,
         SoundRepo(repo'), Grown(repo, repo'), Len(repo'.commits) <= MaxCommits,
         HeadOf(repo) # None => HeadOf(repo') # None, OnTop(repo, repo')
  PROVE  GoodStep
  <1>1. /\ met \subseteq met' /\ met' \subseteq Liberties /\ met' = met \cup {"outside"}
        /\ "outside" \in met' \ met
    BY Taken DEF OutsideMay
  <1>2. SoundState'
    BY <1>1, SoundNext DEF SoundState
  <1>3. HaltsOnlyWhenNested' /\ ConflictsBelongToAMerge'
    BY <1>1 DEF Ready, HaltsOnlyWhenNested, ConflictsBelongToAMerge, Without
  <1>4. ~Without({"outside", "nested"})'
    BY <1>1 DEF Without
  <1>5. dialog = "committing" =>
          /\ HeadOf(repo') # None /\ pending.parents # <<>> /\ lgit.analysis = "normal"
          /\ pending.back \in {"pull", "fetching", "fetched"}
    BY DEF Ready
  <1>6. "nested" \notin met =>
          /\ dialog = "fetching" => handle
          /\ dialog = "committing" => pending.back = "pull"
          /\ dialog \in {"pull", "committing"} => Pointed(lgit, chosen)
    BY DEF Ready
  <1>7. Pointed(lgit, chosen)' <=> Pointed(lgit, chosen)
    BY DEF Pointed
  <1>8. Ready'
    BY <1>1, <1>3, <1>4, <1>5, <1>6, <1>7 DEF Ready
  <1> QED BY <1>1, <1>2, <1>4, <1>8 DEF GoodStep, Shown

LEMMA CommitOutsideGood ==
  ASSUME SoundState, Ready, CommitOutside
  PROVE  GoodStep
  <1> DEFINE o == commit(repo, <<>>, FALSE)
             r == o.repo
  <1>1. SoundRepo(repo) /\ Len(repo.commits) \in Nat /\ Len(repo.commits) < MaxCommits
        /\ <<>> \in Seq(DOMAIN repo.commits)
    BY RepoFields DEF SoundState, CommitOutside, OutsideMay, Room
  <1>2. repo' = [r EXCEPT !.mergeHead = None]
    BY DEF CommitOutside
  <1>3. Committed(repo, r)
    BY <1>1, CommitSound
  <1> HIDE DEF r
  <1>4. SoundRepo(r) /\ None \in 0 .. Len(r.commits) /\ Len(r.commits) \in Nat
    BY <1>3, RepoFields DEF Committed, None
  <1>5. SoundRepo(repo') /\ Grown(r, repo') /\ SameRefs(r, repo')
    BY <1>2, <1>4, MergeHeadSet
  <1>6. Grown(repo, repo') /\ OnTop(repo, repo') /\ HeadOf(repo') = HeadOf(r)
    BY <1>3, <1>5 DEF Committed, SameRefs, Grown, OnTop, HeadOf
  <1>7. Len(repo'.commits) <= MaxCommits
    BY <1>1, <1>3, <1>4, <1>5, BoundAssumption DEF Committed, SameRefs
  <1> QED BY <1>3, <1>5, <1>6, <1>7, OutsideStep DEF CommitOutside, Committed

LEMMA MoveOutsideGood ==
  ASSUME SoundState, Ready, NEW b \in Branches, NEW c \in {None} \cup Tips,
         MoveOutside(b, c)
  PROVE  GoodStep
  <1>1. SoundRepo(repo) /\ Len(repo.commits) \in Nat /\ Len(repo.commits) <= MaxCommits
    BY RepoFields DEF SoundState
  <1>2. c \in 0 .. Len(repo.commits)
    BY <1>1 DEF Tips, SoundRepo, None
  <1>3. CASE /\ c = None => repo.head.branch # b
             /\ repo' = [repo EXCEPT !.heads[b] = c]
    <2>1. Moved(repo, [repo EXCEPT !.heads[b] = c], b, c)
      BY <1>1, <1>2, HeadsSet
    <2>2. Moved(repo, repo', b, c)
      BY <1>3, <2>1
    <2>3. HeadOf(repo) # None => HeadOf(repo') # None
      <3>1. repo.head.branch \in Branches \cup {NoBranch}
        BY <1>1, RepoFields
      <3> QED BY <1>3, <2>2, <3>1 DEF Moved, HeadOf
    <2>4. OnTop(repo, repo')
      BY <1>1, <2>2 DEF OnTop, Moved
    <2> QED BY <1>1, <2>2, <2>3, <2>4, OutsideStep DEF MoveOutside, Moved
  <1>4. CASE repo' = [repo EXCEPT !.tag = None]
    <2>1. SoundRepo(repo') /\ repo'.commits = repo.commits /\ repo'.heads = repo.heads
          /\ repo'.head = repo.head
      BY <1>1, <1>4, TagSet
    <2>2. Grown(repo, repo') /\ OnTop(repo, repo') /\ HeadOf(repo') = HeadOf(repo)
      BY <1>1, <2>1 DEF Grown, OnTop, HeadOf
    <2> QED BY <1>1, <2>1, <2>2, OutsideStep DEF MoveOutside
  <1> QED BY <1>3, <1>4 DEF MoveOutside
-----------------------------------------------------------------------------
(* The pull dialog.                                                          *)

(* Nothing but lists is read.                                                *)
LEMMA ReadingStep ==
  ASSUME SoundState, SoundState', Ready', UNCHANGED repo
  PROVE  GoodStep
  <1>1. SoundRepo(repo) /\ SoundRepo(repo')
    BY DEF SoundState
  <1>2. OnTop(repo, repo') /\ Advances(repo, repo')
    BY <1>1, NothingMoves
  <1> QED BY <1>2 DEF GoodStep, Shown

(* The dialog is closed, or inside of a fetch.                               *)
LEMMA ReadyElsewhere ==
  ASSUME Ready, dialog' \in {"none", "fetching", "fetched"},
         dialog' = "fetching" => handle' \/ "nested" \in met', met \subseteq met',
         UNCHANGED halted,
         repo'.index.conflicts => repo.index.conflicts,
         repo'.mergeHead = repo.mergeHead
  PROVE  Ready'
  <1>1. HaltsOnlyWhenNested' /\ ConflictsBelongToAMerge'
    BY DEF Ready, HaltsOnlyWhenNested, ConflictsBelongToAMerge, Without
  <1> QED BY <1>1 DEF Ready

LEMMA ResetRight ==
  ASSUME SoundState, NEW name, reset(name)
  PROVE  /\ SoundLists(lgit', Len(repo.commits)) /\ SoundChoice(chosen', Len(repo.commits))
         /\ Pointed(lgit', chosen') /\ Analysed(repo, lgit', chosen')
  <1> DEFINE n == Len(repo.commits)
             m == loadBranches(repo, lgit)
             l == establishCurrent(repo, m)
             c == Selected(l, name)
  <1>1. SoundRepo(repo) /\ n \in Nat /\ SoundLists(m, n)
    BY ReloadedLists, RepoFields
  <1>2. chosen' = c /\ lgit' = updateMergeAnalysis(repo, l, c)
    BY DEF reset
  <1> HIDE DEF m
  <1>3. SoundLists(l, n) /\ l.current.branch \in {NoBranch, repo.head.branch}
    BY <1>1, CurrentSound
  <1> HIDE DEF l, n
  <1>4. SoundChoice(c, n) /\ Pointed(l, c)
    BY <1>1, <1>3, SelectedSound
  <1> HIDE DEF c
  <1>5. SoundLists(lgit', n) /\ lgit'.branches = l.branches /\ Analysed(repo, lgit', c)
    BY <1>1, <1>2, <1>3, <1>4, UpdateSound DEF n
  <1> QED BY <1>2, <1>4, <1>5 DEF Pointed, n

(* Whatever the pull dialog does next, its lists were read just now.         *)
LEMMA ResetStep ==
  ASSUME SoundState, Ready, NEW name, reset(name),
         dialog' \in {"pull", "fetching"}, dialog' = "fetching" => "nested" \in met',
         met \subseteq met', met' \subseteq Liberties, handle' \in BOOLEAN,
         tracker' \in BOOLEAN, UNCHANGED <<repo, upstream, pending, offers, halted>>
  PROVE  GoodStep
  <1>1. /\ SoundLists(lgit', Len(repo.commits)) /\ SoundChoice(chosen', Len(repo.commits))
        /\ Pointed(lgit', chosen') /\ Analysed(repo, lgit', chosen')
    BY ResetRight
  <1>2. SoundRepo(repo) /\ Grown(repo, repo')
    BY RepoFields DEF SoundState, Grown
  <1>3. SoundState'
    BY <1>1, <1>2, SoundNext DEF SoundState, Dialogs
  <1>4. HaltsOnlyWhenNested' /\ ConflictsBelongToAMerge'
    BY DEF Ready, HaltsOnlyWhenNested, ConflictsBelongToAMerge, Without
  <1>5. Pointed(lgit, chosen)' /\ Analysed(repo, lgit, chosen)'
    BY <1>1 DEF Pointed, Analysed, HeadOf, Past
  <1>6. Ready'
    BY <1>4, <1>5 DEF Ready
  <1> QED BY <1>3, <1>6, ReadingStep

LEMMA OpenPullGood ==
  ASSUME SoundState, Ready, OpenPull
  PROVE  GoodStep
  BY ResetStep DEF OpenPull, SoundState

LEMMA ChooseFetchedGood ==
  ASSUME SoundState, Ready, NEW name \in Branches, ChooseFetched(name)
  PROVE  GoodStep
  <1>1. met \subseteq met' /\ met' \subseteq Liberties
        /\ (dialog # "pull" => "nested" \in met')
    BY Taken DEF ChooseFetched, If, Nested
  <1>2. dialog' \in {"pull", "fetching"} /\ (dialog' = "fetching" => "nested" \in met')
    BY <1>1 DEF ChooseFetched, Click
  <1> QED BY <1>1, <1>2, ResetStep DEF ChooseFetched, SoundState

LEMMA ResetAfterFetchGood ==
  ASSUME SoundState, Ready, ResetAfterFetch
  PROVE  GoodStep
  BY ResetStep DEF ResetAfterFetch, SoundState

LEMMA ClosePullGood ==
  ASSUME SoundState, Ready, ClosePull
  PROVE  GoodStep
  <1>1. SoundRepo(repo) /\ Grown(repo, repo') /\ None \in 0 .. Len(repo.commits)
    BY RepoFields DEF SoundState, Grown, None, ClosePull
  <1>2. SoundChoice(chosen', Len(repo'.commits))
    BY <1>1 DEF ClosePull, SoundChoice, NoChoice
  <1>3. SoundState'
    BY <1>1, <1>2, SoundNext DEF ClosePull, SoundState, Dialogs
  <1>4. Ready'
    BY ReadyElsewhere DEF ClosePull
  <1> QED BY <1>3, <1>4, ReadingStep DEF ClosePull

LEMMA StartFetchGood ==
  ASSUME SoundState, Ready, StartFetch
  PROVE  GoodStep
  <1>1. SoundRepo(repo) /\ Grown(repo, repo')
    BY RepoFields DEF SoundState, Grown, StartFetch
  <1>2. SoundState'
    BY <1>1, SoundNext DEF StartFetch, SoundState, Dialogs
  <1>3. Ready'
    BY ReadyElsewhere DEF StartFetch
  <1> QED BY <1>2, <1>3, ReadingStep DEF StartFetch

LEMMA FetchFailsGood ==
  ASSUME SoundState, Ready, FetchFails
  PROVE  GoodStep
  <1>1. SoundRepo(repo) /\ Grown(repo, repo')
    BY RepoFields DEF SoundState, Grown, FetchFails
  <1>2. SoundState'
    BY <1>1, SoundNext DEF FetchFails, SoundState, Dialogs
  <1>3. Ready'
    BY ReadyElsewhere DEF FetchFails
  <1> QED BY <1>2, <1>3, ReadingStep DEF FetchFails
LEMMA FetchHeadSet ==
  ASSUME NEW r, SoundRepo(r), NEW F \in [Branches -> 0 .. Len(r.commits)]
  PROVE  LET s == [r EXCEPT !.fetchHead = F]
         IN  SoundRepo(s) /\ s.commits = r.commits /\ s.heads = r.heads
             /\ s.index = r.index /\ s.mergeHead = r.mergeHead
  <1> DEFINE s == [r EXCEPT !.fetchHead = F]
  <1>1. s = Repo(r.commits, r.heads, r.tag, r.head, r.index, r.mergeHead, F)
    BY Except
  <1> HIDE DEF s
  <1>2. SoundRepo(s)
    BY <1>1, Shape, SoundParts
  <1>3. /\ s.commits = r.commits /\ s.heads = r.heads
        /\ s.index = r.index /\ s.mergeHead = r.mergeHead
    BY <1>1 DEF Repo
  <1> QED BY <1>2, <1>3 DEF s

(* What a fetch brings is nobody's branch yet.                               *)
LEMMA UpstreamSound ==
  ASSUME SoundState, NEW b \in Branches, NEW grows \in BOOLEAN
  PROVE  LET r == Upstream(b, grows)
         IN  /\ SoundRepo(r) /\ Grown(repo, r) /\ r.heads = repo.heads
             /\ r.index = repo.index /\ r.mergeHead = repo.mergeHead
             /\ grows => Len(r.commits) = Len(repo.commits) + 1
             /\ ~grows => r = repo
  <1> DEFINE u == upstream[b]
             parents == << u >>
             tree == Tree(repo, u)
             r == AddCommit(repo, parents, tree)
  <1>1. SoundRepo(repo) /\ Len(repo.commits) \in Nat
        /\ DOMAIN repo.commits = 1 .. Len(repo.commits)
    BY RepoFields DEF SoundState
  <1>2. u \in 1 .. Len(repo.commits)
    BY DEF SoundState
  <1>3. parents \in Seq(DOMAIN repo.commits) /\ parents # <<>>
    BY <1>1, <1>2
  <1>4. tree \in SUBSET Nat
    BY <1>1, <1>2, PastAndTree
  <1>5. Upstream(b, grows) = IF grows THEN r ELSE repo
    BY DEF Upstream
  <1> HIDE DEF parents, tree
  <1>6. /\ SoundRepo(r) /\ Grown(repo, r)
        /\ Len(r.commits) = Len(repo.commits) + 1
        /\ r = Repo(r.commits, repo.heads, repo.tag, repo.head, repo.index, repo.mergeHead,
                    repo.fetchHead)
    BY <1>1, <1>3, <1>4, AddCommitSound
  <1> HIDE DEF r
  <1>7. r.heads = repo.heads /\ r.index = repo.index /\ r.mergeHead = repo.mergeHead
    BY <1>6 DEF Repo
  <1>8. Grown(repo, repo)
    BY <1>1 DEF Grown
  <1> QED BY <1>1, <1>5, <1>6, <1>7, <1>8

LEMMA EndFetchGood ==
  ASSUME SoundState, Ready, NEW b \in Branches, NEW all \in BOOLEAN,
         NEW grows \in BOOLEAN, EndFetch(b, all, grows)
  PROVE  GoodStep
  <1> DEFINE r == Upstream(b, grows)
             n == Len(r.commits)
             tips == IF grows THEN [upstream EXCEPT ![b] = n] ELSE upstream
             F == [c \in Branches |-> IF all \/ c = b THEN tips[c] ELSE None]
  <1>1. /\ SoundRepo(r) /\ Grown(repo, r) /\ r.heads = repo.heads
        /\ r.index = repo.index /\ r.mergeHead = repo.mergeHead
        /\ grows => n = Len(repo.commits) + 1
        /\ ~grows => r = repo
    BY UpstreamSound
  <1>2. /\ SoundRepo(repo) /\ Len(repo.commits) \in Nat /\ Len(repo.commits) <= MaxCommits
        /\ upstream \in [Branches -> 1 .. Len(repo.commits)]
    BY RepoFields DEF SoundState
  <1>3. repo' = [r EXCEPT !.fetchHead = F] /\ upstream' = tips
    BY DEF EndFetch
  <1>4. grows => Len(repo.commits) < MaxCommits
    BY DEF EndFetch, Room
  <1> HIDE DEF r
  <1>5. n \in Nat /\ n >= Len(repo.commits) /\ n <= MaxCommits
    <2>1. n \in Nat /\ n >= Len(repo.commits)
      BY <1>1, RepoFields DEF Grown
    <2>2. CASE grows
      BY <1>1, <1>2, <1>4, <2>1, <2>2, BoundAssumption
    <2>3. CASE ~grows
      BY <1>1, <1>2, <2>3
    <2> QED BY <2>1, <2>2, <2>3
  <1>6. tips \in [Branches -> 1 .. n]
    BY <1>1, <1>2, <1>5
  <1>7. upstream' = upstream => ~grows
    BY <1>1, <1>2, <1>3
  <1> HIDE DEF tips
  <1>8. F \in [Branches -> 0 .. n]
    BY <1>5, <1>6 DEF None
  <1> HIDE DEF F
  <1>9. /\ SoundRepo(repo') /\ repo'.commits = r.commits /\ repo'.heads = repo.heads
        /\ repo'.index = repo.index /\ repo'.mergeHead = repo.mergeHead
    BY <1>1, <1>3, <1>8, FetchHeadSet
  <1>10. Grown(repo, repo')
    BY <1>1, <1>9 DEF Grown
  <1>11. upstream' = upstream => OnTop(repo, repo')
    BY <1>1, <1>2, <1>7, <1>9 DEF OnTop
  <1>12. Advances(repo, repo')
    BY <1>2, <1>9, <1>10, StayingAdvances
  <1>13. lgit' = lgit \/ SoundLists(lgit', Len(repo'.commits))
    <2>1. SoundLists(lgit, Len(repo'.commits))
      BY <1>2, <1>5, <1>9, MoreCommits DEF SoundState
    <2>2. SoundLists(loadBranches(repo', lgit), Len(repo'.commits))
      BY <1>9, <2>1, LoadSound
    <2>3. SoundLists(establishCurrent(repo', loadBranches(repo', lgit)),
                     Len(repo'.commits))
      BY <1>9, <2>2, CurrentSound
    <2> QED BY <2>3 DEF EndFetch
  <1>14. /\ dialog = "fetching" /\ handle' = FALSE
         /\ UNCHANGED <<chosen, pending, offers, tracker, met>>
         /\ \/ handle /\ dialog' = "fetched" /\ UNCHANGED halted
            \/ ~handle /\ dialog' = "fetching" /\ halted' = "null repository"
    BY DEF EndFetch
  <1>15. SoundState'
    BY <1>3, <1>5, <1>6, <1>9, <1>10, <1>13, <1>14, SoundNext
    DEF SoundState, Dialogs, Halts
  <1>16. ~handle => "nested" \in met
    BY <1>14 DEF Ready
  <1>17. HaltsOnlyWhenNested' /\ ConflictsBelongToAMerge'
    BY <1>9, <1>14, <1>16 DEF Ready, HaltsOnlyWhenNested, ConflictsBelongToAMerge, Without
  <1>18. Ready'
    BY <1>14, <1>16, <1>17 DEF Ready
  <1> QED BY <1>11, <1>12, <1>14, <1>15, <1>18 DEF GoodStep, Shown
(* What on_merge_clicked relies on for the entry it merges.                  *)
LEMMA EntryClicked ==
  ASSUME SoundState, Ready, ClickMerge, chosen.at <= Len(lgit.branches)
  PROVE  LET e == lgit.branches[chosen.at]
         IN  /\ e.name \in Branches /\ e.name = lgit.current.branch
             /\ e.tip \in 1 .. Len(repo.commits)
             /\ lgit.current.oid \in 1 .. Len(repo.commits)
             /\ "nested" \notin met /\ dialog = "pull" =>
                  e.name = chosen.name /\ e.tip = chosen.tip
             /\ Without({"outside", "nested"}) /\ dialog = "pull" =>
                  Analysed(repo, lgit, chosen)
  <1> DEFINE e == lgit.branches[chosen.at]
  <1>1. /\ lgit.branches \in Seq(Entry) /\ Len(lgit.branches) \in Nat
        /\ DOMAIN lgit.branches = 1 .. Len(lgit.branches)
    BY ListsFields DEF SoundState, SoundLists
  <1>2. chosen.at \in Nat /\ chosen.at # 0
    BY DEF SoundState, SoundChoice, ClickMerge
  <1>3. chosen.at \in DOMAIN lgit.branches
    BY <1>1, <1>2
  <1>4. e \in Entry
    BY <1>1, <1>3, ElementOfSeq
  <1>5. e.name \in Branches
    BY <1>4 DEF Entry
  <1>6. e.name = lgit.current.branch
    <2>1. ~(chosen.at > Len(lgit.branches))
      BY <1>1, <1>2
    <2> QED BY <2>1 DEF ClickMerge
  <1>7. e.tip \in 1 .. Len(repo.commits)
    BY <1>3 DEF SoundState, SoundLists
  <1>8. lgit.current.oid \in 1 .. Len(repo.commits)
    <2>1. lgit.current.branch # NoBranch
      BY <1>5, <1>6, NoBranchAssumption
    <2>2. lgit.current.oid \in 0 .. Len(repo.commits) /\ lgit.current.oid # None
      BY <2>1 DEF SoundState, SoundLists
    <2> QED BY <2>2 DEF None
  <1>9. "nested" \notin met /\ dialog = "pull" => e.name = chosen.name /\ e.tip = chosen.tip
    BY <1>2 DEF Ready, Pointed
  <1>10. Without({"outside", "nested"}) /\ dialog = "pull" => Analysed(repo, lgit, chosen)
    BY DEF Ready
  <1> HIDE DEF e
  <1> QED BY <1>5, <1>6, <1>7, <1>8, <1>9, <1>10 DEF e

LEMMA FastForwardGood ==
  ASSUME SoundState, Ready, ClickMerge, chosen.at <= Len(lgit.branches),
         FastForward(lgit.branches[chosen.at]), handle' = FALSE, UNCHANGED halted
  PROVE  GoodStep
  <1> DEFINE e == lgit.branches[chosen.at]
             n == Len(repo.commits)
  <1>1. /\ e.name \in Branches /\ e.name = lgit.current.branch /\ e.tip \in 1 .. n
        /\ "nested" \notin met /\ dialog = "pull" =>
             e.name = chosen.name /\ e.tip = chosen.tip
        /\ Without({"outside", "nested"}) /\ dialog = "pull" => Analysed(repo, lgit, chosen)
    BY EntryClicked
  <1>2. SoundRepo(repo) /\ n \in Nat /\ e.tip \in 0 .. n /\ SoundLists(lgit, n)
        /\ SoundChoice(chosen, n)
    BY <1>1, RepoFields DEF SoundState
  <1>3. /\ lgit.analysis = "fastforward" /\ UNCHANGED <<dialog, pending>>
        /\ UNCHANGED <<upstream, chosen, offers, tracker>>
        /\ dialog \in {"pull", "fetching", "fetched"}
    BY DEF FastForward, ClickMerge, Click
  <1>4. /\ met \subseteq met' /\ met' \subseteq Liberties
        /\ dialog # "pull" => "nested" \in met'
    BY Taken DEF FastForward, If, Nested
  <1>5. PICK o \in fastForwardSha(repo, e.name, e.tip) :
          /\ repo' = o.repo
          /\ lgit' = IF o.ok THEN updateMergeAnalysis(repo', lgit, chosen) ELSE lgit
    BY DEF FastForward
  <1> HIDE DEF e
  <1>6. /\ SoundRepo(repo') /\ Grown(repo, repo') /\ repo'.commits = repo.commits
        /\ repo'.head = repo.head /\ repo'.mergeHead = repo.mergeHead
        /\ repo'.index.conflicts = repo.index.conflicts
        /\ \/ repo'.heads = repo.heads /\ ~o.ok
           \/ /\ o.ok /\ repo.heads[e.name] # None
              /\ \A b \in Branches :
                   repo'.heads[b] = IF b = e.name THEN e.tip ELSE repo.heads[b]
    BY <1>1, <1>2, <1>5, FastForwardSound
  <1> DEFINE m == updateMergeAnalysis(repo', lgit, chosen)
  <1>7. /\ SoundLists(m, Len(repo'.commits)) /\ m.branches = lgit.branches
        /\ lgit.current.branch \in {NoBranch, repo'.head.branch} =>
             Analysed(repo', m, chosen)
    BY <1>2, <1>6, UpdateSound
  <1> HIDE DEF m
  <1>8. lgit' = IF o.ok THEN m ELSE lgit
    BY <1>5 DEF m
  <1>9. SoundState'
    BY <1>2, <1>3, <1>4, <1>6, <1>7, <1>8, SoundNext DEF SoundState, Halts
  <1>10. Pointed(lgit, chosen) => Pointed(lgit, chosen)'
    BY <1>3, <1>7, <1>8 DEF Pointed
  <1>11. Analysed(repo, lgit, chosen) => Analysed(repo, lgit, chosen)'
    <2> SUFFICES ASSUME Analysed(repo, lgit, chosen) PROVE Analysed(repo', lgit', chosen)
      BY <1>3
    <2>1. CASE o.ok
      BY <1>6, <1>7, <1>8, <2>1 DEF Analysed
    <2>2. CASE ~o.ok /\ repo'.heads = repo.heads
      BY <1>6, <1>8, <2>2 DEF Analysed, HeadOf, Past
    <2> QED BY <1>6, <2>1, <2>2
  <1>12. HaltsOnlyWhenNested' /\ ConflictsBelongToAMerge'
    BY <1>4, <1>6 DEF Ready, HaltsOnlyWhenNested, ConflictsBelongToAMerge, Without
  <1>13. Ready'
    BY <1>3, <1>4, <1>10, <1>11, <1>12 DEF Ready, Without
  <1>14. OnTop(repo, repo')
    BY <1>2, <1>6 DEF OnTop
  <1>15. ASSUME Without({"outside", "nested"})' PROVE Advances(repo, repo')
    <2>1. dialog = "pull" /\ e.name = chosen.name /\ e.tip = chosen.tip
          /\ Analysed(repo, lgit, chosen)
      BY <1>1, <1>3, <1>4, <1>15 DEF Without
    <2>2. e.name # NoBranch
      BY <1>1, NoBranchAssumption
    <2>3. e.name = repo.head.branch
          /\ (repo.heads[e.name] = None \/ repo.heads[e.name] \in Past(repo, e.tip))
      BY <1>1, <1>3, <2>1, <2>2 DEF Analysed, HeadOf
    <2> SUFFICES ASSUME NEW b \in Branches, None \notin {repo.heads[b], repo'.heads[b]}
                 PROVE  repo.heads[b] \in Past(repo', repo'.heads[b])
      BY DEF Advances
    <2>4. CASE repo'.heads[b] = repo.heads[b]
      <3>1. repo'.heads[b] \in 0 .. Len(repo'.commits)
        BY <1>6 DEF SoundRepo
      <3> QED BY <1>6, <2>4, <3>1, PastAndTree
    <2>5. CASE repo'.heads[b] # repo.heads[b]
      <3>1. b = e.name /\ repo'.heads[b] = e.tip
        BY <1>6, <2>5
      <3>2. Past(repo', e.tip) = Past(repo, e.tip)
        BY <1>2, <1>6, GrownPast
      <3> QED BY <2>3, <3>1, <3>2
    <2> QED BY <2>4, <2>5
  <1>16. Shown
    <2> SUFFICES ASSUME Without({"nested"})', dialog = "pull", NEW b \in Branches,
                        repo'.heads[b] # repo.heads[b]
                 PROVE  b = chosen.name /\ repo'.heads[b] = chosen.tip
      BY <1>6 DEF Shown
    <2> QED BY <1>1, <1>4, <1>6 DEF Without
  <1> QED BY <1>9, <1>13, <1>14, <1>15, <1>16 DEF GoodStep
LEMMA MergeGood ==
  ASSUME SoundState, Ready, ClickMerge, chosen.at <= Len(lgit.branches),
         Merge(lgit.branches[chosen.at]), handle' = FALSE, UNCHANGED halted
  PROVE  GoodStep
  <1> DEFINE e == lgit.branches[chosen.at]
             n == Len(repo.commits)
  <1>1. /\ e.tip \in 1 .. n /\ lgit.current.oid \in 1 .. n
        /\ "nested" \notin met /\ dialog = "pull" => e.tip = chosen.tip
    BY EntryClicked
  <1>2. SoundRepo(repo)
    BY DEF SoundState
  <1>3. /\ lgit.analysis = "normal" /\ UNCHANGED lgit
        /\ UNCHANGED <<upstream, chosen, offers, tracker>>
        /\ dialog \in {"pull", "fetching", "fetched"}
    BY DEF Merge, ClickMerge, Click
  <1>4. /\ met \subseteq met' /\ met' \subseteq Liberties
        /\ dialog # "pull" => "nested" \in met'
        /\ Unfinished => "again" \in met'
    BY Taken DEF Merge, If, Nested
  <1>5. PICK o \in git_merge(repo, e.tip) :
          /\ repo' = o.repo
          /\ \/ /\ o.ok /\ dialog' = "committing"
                /\ pending' = [parents |-> << lgit.current.oid, e.tip >>, back |-> dialog]
             \/ UNCHANGED <<dialog, pending>>
    BY DEF Merge, mergeBranch
  <1> HIDE DEF e, n
  <1>6. /\ SoundRepo(repo') /\ Grown(repo, repo') /\ SameRefs(repo, repo')
        /\ repo'.mergeHead \in {None, e.tip}
        /\ repo'.index.conflicts => repo'.mergeHead # None \/ repo.index.conflicts
        /\ o.ok => HeadOf(repo) # None
    BY <1>1, <1>2, <1>5, MergeSound DEF n
  <1>7. SoundPending([parents |-> << lgit.current.oid, e.tip >>, back |-> dialog], n)
        /\ << lgit.current.oid, e.tip >> # <<>>
    BY <1>1, <1>3 DEF SoundPending, Dialogs
  <1>8. SoundState'
    <2>1. pending' = pending \/ SoundPending(pending', Len(repo'.commits))
      BY <1>5, <1>6, <1>7 DEF SameRefs, n
    <2>2. dialog' \in Dialogs
      BY <1>3, <1>5 DEF Dialogs
    <2> QED BY <1>3, <1>4, <1>6, <2>1, <2>2, SoundNext DEF SoundState, SameRefs
  <1>9. HeadOf(repo') = HeadOf(repo) /\ repo'.head = repo.head
    BY <1>6 DEF SameRefs, HeadOf
  <1>10. Pointed(lgit, chosen) => Pointed(lgit, chosen)'
    BY <1>3 DEF Pointed
  <1>11. Analysed(repo, lgit, chosen) => Analysed(repo, lgit, chosen)'
    BY <1>3, <1>9 DEF Analysed
  <1>12. HaltsOnlyWhenNested'
    BY <1>4 DEF Ready, HaltsOnlyWhenNested
  <1>13. ConflictsBelongToAMerge'
    BY <1>4, <1>6 DEF ConflictsBelongToAMerge, Without, Unfinished
  <1>14. dialog' = "committing" =>
           /\ HeadOf(repo') # None /\ pending'.parents # <<>> /\ pending'.back = dialog
    <2> SUFFICES ASSUME dialog' = "committing"
                 PROVE  /\ HeadOf(repo') # None
                        /\ pending'.parents # <<>> /\ pending'.back = dialog
      OBVIOUS
    <2>1. o.ok /\ pending' = [parents |-> << lgit.current.oid, e.tip >>, back |-> dialog]
      BY <1>3, <1>5
    <2>2. pending'.parents = << lgit.current.oid, e.tip >> /\ pending'.back = dialog
      BY <2>1
    <2> QED BY <1>6, <1>7, <1>9, <2>1, <2>2
  <1>15. dialog' \in {"committing", dialog}
    BY <1>5
  <1>16. Ready'
    <2>1. "nested" \notin met' => dialog = "pull" /\ Pointed(lgit, chosen)'
      BY <1>4, <1>10 DEF Ready
    <2>2. Without({"outside", "nested"})' => Analysed(repo, lgit, chosen)'
      BY <1>4, <1>11 DEF Ready, Without
    <2> QED BY <1>3, <1>4, <1>12, <1>13, <1>14, <1>15, <2>1, <2>2 DEF Ready
  <1>17. OnTop(repo, repo') /\ Advances(repo, repo')
    BY <1>2, <1>6, NothingMoves DEF SameRefs
  <1>18. Shown
    BY <1>1, <1>4, <1>6 DEF Shown, SameRefs, Without
  <1> QED BY <1>8, <1>16, <1>17, <1>18 DEF GoodStep

LEMMA ClickMergeGood ==
  ASSUME SoundState, Ready, ClickMerge
  PROVE  GoodStep
  <1>1. chosen.at \in Nat /\ Len(lgit.branches) \in Nat
        /\ DOMAIN lgit.branches = 1 .. Len(lgit.branches)
    BY ListsFields DEF SoundState, SoundLists, SoundChoice
  <1>2. CASE chosen.at > Len(lgit.branches)
    <2>1. /\ halted' = "no such entry" /\ Take(If(Nested, "nested"))
          /\ UNCHANGED <<repo, lgit, handle, dialog, pending>>
          /\ UNCHANGED <<upstream, chosen, offers, tracker>>
          /\ dialog \in {"pull", "fetching", "fetched"} /\ chosen.at # 0
      BY <1>2 DEF ClickMerge, Click
    <2>2. /\ met \subseteq met' /\ met' \subseteq Liberties
          /\ dialog # "pull" => "nested" \in met'
      BY <2>1, Taken DEF If, Nested
    <2>3. "nested" \in met'
      <3>1. chosen.at \notin DOMAIN lgit.branches
        BY <1>1, <1>2
      <3>2. ~Pointed(lgit, chosen)
        BY <2>1, <3>1 DEF Pointed
      <3> QED BY <2>2, <3>2 DEF Ready
    <2>4. SoundRepo(repo) /\ Grown(repo, repo')
      <3>1. repo' = repo /\ SoundRepo(repo)
        BY <2>1 DEF SoundState
      <3>2. Len(repo.commits) \in Nat
        BY <3>1, RepoFields
      <3> QED BY <3>1, <3>2 DEF Grown
    <2>5. SoundState'
      BY <2>1, <2>2, <2>4, SoundNext DEF SoundState, Halts
    <2>6. HaltsOnlyWhenNested' /\ ConflictsBelongToAMerge' /\ ~Without({"outside", "nested"})'
      BY <2>1, <2>2, <2>3 DEF Ready, HaltsOnlyWhenNested, ConflictsBelongToAMerge, Without
    <2>7. Ready'
      BY <2>1, <2>3, <2>6 DEF Ready
    <2> QED BY <2>1, <2>5, <2>7, ReadingStep
  <1>3. CASE chosen.at <= Len(lgit.branches)
    <2>1. ~(chosen.at > Len(lgit.branches))
      BY <1>1, <1>3
    <2>2. /\ \/ FastForward(lgit.branches[chosen.at])
             \/ Merge(lgit.branches[chosen.at])
          /\ handle' = FALSE /\ UNCHANGED halted
      BY <2>1 DEF ClickMerge
    <2> QED BY <1>3, <2>2, FastForwardGood, MergeGood
  <1> QED BY <1>1, <1>2, <1>3

(* The commit dialog is closed, and the pull dialog is as it was.            *)
LEMMA BackToPull ==
  ASSUME SoundState, Ready, dialog = "committing",
         dialog' = pending.back, pending' = NotPending,
         UNCHANGED <<upstream, lgit, handle, chosen, offers, tracker, halted, met>>,
         Committed(repo, repo'), Len(repo'.commits) <= MaxCommits
  PROVE  GoodStep
  <1>1. /\ SoundRepo(repo) /\ SoundRepo(repo') /\ Grown(repo, repo')
        /\ OnTop(repo, repo') /\ Advances(repo, repo')
        /\ repo'.head.branch = repo.head.branch
        /\ repo'.mergeHead = repo.mergeHead
        /\ repo'.index.conflicts = repo.index.conflicts
    BY DEF SoundState, Committed
  <1>2. SoundPending(pending', Len(repo'.commits)) /\ dialog' \in Dialogs
    BY DEF SoundPending, NotPending, Dialogs, Ready
  <1>3. SoundState'
    BY <1>1, <1>2, SoundNext DEF SoundState
  <1>4. HaltsOnlyWhenNested' /\ ConflictsBelongToAMerge'
    BY <1>1 DEF Ready, HaltsOnlyWhenNested, ConflictsBelongToAMerge, Without
  <1>5. /\ lgit.analysis = "normal" /\ dialog' \in {"pull", "fetching", "fetched"}
        /\ "nested" \notin met => dialog' = "pull" /\ Pointed(lgit, chosen)
        /\ Without({"outside", "nested"}) => Analysed(repo, lgit, chosen)
    BY DEF Ready
  <1>6. Pointed(lgit, chosen) => Pointed(lgit, chosen)'
    BY DEF Pointed
  <1>7. Analysed(repo, lgit, chosen) => Analysed(repo, lgit, chosen)'
    BY <1>1, <1>5 DEF Analysed
  <1>8. Without({"outside", "nested"})' => Without({"outside", "nested"})
    BY DEF Without
  <1>9. Ready'
    BY <1>4, <1>5, <1>6, <1>7, <1>8 DEF Ready
  <1> QED BY <1>1, <1>3, <1>9 DEF GoodStep, Shown

LEMMA CommitMergeGood ==
  ASSUME SoundState, Ready, CommitMerge
  PROVE  GoodStep
  <1>1. SoundRepo(repo) /\ Len(repo.commits) \in Nat /\ Len(repo.commits) < MaxCommits
        /\ repo.index.dirty \in BOOLEAN /\ DOMAIN repo.commits = 1 .. Len(repo.commits)
    BY RepoFields DEF SoundState, CommitMerge, Room
  <1>2. PICK stays \in BOOLEAN : repo' = commit(repo, pending.parents, stays).repo
    BY <1>1 DEF CommitMerge
  <1>3. pending.parents \in Seq(DOMAIN repo.commits) /\ HeadOf(repo) # None
    BY <1>1 DEF SoundState, SoundPending, Ready, CommitMerge
  <1>4. Committed(repo, repo')
    BY <1>1, <1>2, <1>3, CommitSound
  <1>5. Len(repo'.commits) <= MaxCommits
    BY <1>1, <1>4, RepoFields, BoundAssumption DEF Committed
  <1> QED BY <1>4, <1>5, BackToPull DEF CommitMerge

LEMMA StopCommitGood ==
  ASSUME SoundState, Ready, StopCommit
  PROVE  GoodStep
  BY NothingCommitted, BackToPull DEF StopCommit, SoundState
-----------------------------------------------------------------------------
(* The behaviours.                                                           *)

LEMMA InitGood ==
  ASSUME Init
  PROVE  SoundState /\ Ready
  <1> DEFINE first == [parents |-> <<>>, past |-> {1}, tree |-> {1}]
             commits == << first >>
             heads == [b \in Branches |-> IF b = Master THEN 1 ELSE None]
             head == [branch |-> Master, at |-> None]
             index == [tree |-> {1}, dirty |-> FALSE, conflicts |-> FALSE]
             fetchHead == [b \in Branches |-> None]
  <1>1. first \in Commit /\ first.past = {1}
    BY DEF Commit
  <1> HIDE DEF first
  <1>2. /\ commits \in Seq(Commit) /\ Len(commits) = 1 /\ DOMAIN commits = {1}
        /\ commits[1] = first
    BY <1>1
  <1> HIDE DEF commits
  <1>3. heads \in [Branches -> 0 .. 1] /\ fetchHead \in [Branches -> 0 .. 1]
    BY DEF None
  <1>4. head \in Head0 /\ head.at = 0
    BY MasterAssumption DEF Head0, None
  <1>5. index \in Index /\ ~index.conflicts
    BY DEF Index
  <1>6. repo = Repo(commits, heads, 1, head, index, None, fetchHead)
    BY DEF Init, Repo, commits, first
  <1> HIDE DEF heads, head, index, fetchHead
  <1>7. /\ repo.commits = commits /\ repo.heads = heads /\ repo.tag = 1
        /\ repo.head = head /\ repo.index = index /\ repo.mergeHead = 0
        /\ repo.fetchHead = fetchHead
    BY <1>6 DEF Repo, None
  <1>8. repo \in Repository
    <2>1. heads \in [Branches -> Nat] /\ fetchHead \in [Branches -> Nat] /\ None \in Nat
      BY <1>3 DEF None
    <2> QED BY <1>2, <1>4, <1>5, <1>6, <2>1 DEF Repository, Repo, Head0, Index
  <1>9. SoundRepo(repo)
    <2>1. \A c \in DOMAIN repo.commits : /\ {1, c} \subseteq repo.commits[c].past
                                         /\ repo.commits[c].past \subseteq 1 .. c
      BY <1>1, <1>2, <1>7
    <2>2. \A b \in Branches :
            {repo.heads[b], repo.fetchHead[b]} \subseteq 0 .. 1
      BY <1>3, <1>7
    <2>3. {repo.tag, repo.head.at, repo.mergeHead} \subseteq 0 .. 1
      BY <1>4, <1>7
    <2>4. Len(repo.commits) = 1
      BY <1>2, <1>7
    <2> QED BY <1>8, <2>1, <2>2, <2>3, <2>4 DEF SoundRepo
  <1>10. SoundLists(lgit, 1)
    <2>1. NoLists \in Lists
      BY DEF NoLists, Lists, None
    <2>2. NoLists.branches = <<>> /\ NoLists.current.oid = 0
          /\ NoLists.current.branch = NoBranch
      BY DEF NoLists, None
    <2>3. lgit = NoLists
      BY DEF Init
    <2> HIDE DEF NoLists
    <2> QED BY <2>1, <2>2, <2>3 DEF SoundLists
  <1>11. SoundChoice(chosen, 1)
    BY DEF Init, NoChoice, SoundChoice, None
  <1>12. SoundPending(pending, 1)
    BY DEF Init, NotPending, SoundPending, Dialogs
  <1>13. SoundOffers(offers, 1)
    BY DEF Init, NoOffers, SoundOffers, None
  <1>14. SoundState
    <2>1. Len(repo.commits) = 1
      BY <1>2, <1>7
    <2>2. Len(repo.commits) <= MaxCommits
      BY <2>1, BoundAssumption
    <2>3. upstream \in [Branches -> 1 .. 1]
      BY DEF Init
    <2>4. /\ handle \in BOOLEAN /\ dialog \in Dialogs /\ tracker \in BOOLEAN
          /\ halted \in Halts /\ met \subseteq Liberties
      BY DEF Init, Dialogs, Halts
    <2> QED BY <1>9, <1>10, <1>11, <1>12, <1>13, <2>1, <2>2, <2>3, <2>4 DEF SoundState
  <1>15. HaltsOnlyWhenNested /\ ConflictsBelongToAMerge
    BY <1>5, <1>7 DEF Init, HaltsOnlyWhenNested, ConflictsBelongToAMerge
  <1>16. Ready
    BY <1>15 DEF Init, Ready
  <1> QED BY <1>14, <1>16

LEMMA StepGood ==
  ASSUME SoundState, Ready, Next
  PROVE  GoodStep
  <1>1. CASE Others
    BY <1>1, EditFilesGood, ResolveConflictsGood, CommitOutsideGood, MoveOutsideGood
    DEF Others
  <1>2. CASE MainWindow
    BY <1>2, GitResetGood, GitCommitGood, DeleteTagGood, DeleteBranchGood, NewBranchGood,
       OpenCheckoutGood, CheckoutTagGood, CloseCheckoutGood, CheckoutBranchGood
    DEF MainWindow
  <1>3. CASE Pull
    BY <1>3, OpenPullGood, ClosePullGood, StartFetchGood, FetchFailsGood,
       ResetAfterFetchGood, ChooseFetchedGood, EndFetchGood, ClickMergeGood,
       CommitMergeGood, StopCommitGood
    DEF Pull
  <1> QED BY <1>1, <1>2, <1>3 DEF Next

LEMMA StutterGood ==
  ASSUME SoundState, Ready, UNCHANGED vars
  PROVE  SoundState' /\ Ready'
  <1>1. SoundState'
    BY DEF vars, SoundState
  <1>2. HaltsOnlyWhenNested' /\ ConflictsBelongToAMerge'
    BY DEF vars, Ready, HaltsOnlyWhenNested, ConflictsBelongToAMerge, Without
  <1>3. Ready'
    BY <1>2 DEF vars, Ready, Without, Pointed, Analysed
  <1> QED BY <1>1, <1>3

(* The inductive invariant: what a dialog remembers exists, and what it is   *)
(* about to use is still so.                                                 *)
THEOREM Inductive == Spec => [](SoundState /\ Ready)
  <1>1. Init => SoundState /\ Ready
    BY InitGood
  <1>2. SoundState /\ Ready /\ [Next]_vars => (SoundState /\ Ready)'
    BY StepGood, StutterGood DEF GoodStep
  <1> QED BY <1>1, <1>2, PTL DEF Spec

LEMMA SoundIsTyped ==
  ASSUME SoundState
  PROVE  TypeOK
  <1> DEFINE n == Len(repo.commits)
  <1>1. n \in Nat /\ repo \in Repository /\ 1 .. n \subseteq Nat \ {0} /\ 0 .. n \subseteq Nat
    BY RepoFields DEF SoundState, SoundRepo
  <1> HIDE DEF n
  <1>2. upstream \in [Branches -> Nat \ {0}]
    BY <1>1 DEF SoundState, n
  <1>3. chosen \in [at : Nat, name : Branches \cup {NoBranch}, tip : Nat]
    BY <1>1 DEF SoundState, SoundChoice, n
  <1>4. pending \in [parents : Seq(Nat), back : Dialogs]
    <2>1. Seq(1 .. n) \subseteq Seq(Nat)
      <3> SUFFICES ASSUME NEW s \in Seq(1 .. n) PROVE s \in Seq(Nat)
        OBVIOUS
      <3>1. Len(s) \in Nat /\ s \in [1 .. Len(s) -> 1 .. n]
        BY LenProperties
      <3>2. s \in [1 .. Len(s) -> Nat]
        BY <1>1, <3>1
      <3> QED BY <3>1, <3>2, SeqDef
    <2> QED BY <2>1 DEF SoundState, SoundPending, n
  <1>5. offers \in [branches : [Branches -> Nat], tag : Nat]
    <2>1. [Branches -> 0 .. n] \subseteq [Branches -> Nat]
      BY <1>1
    <2> QED BY <1>1, <2>1 DEF SoundState, SoundOffers, n
  <1> QED BY <1>1, <1>2, <1>3, <1>4, <1>5 DEF SoundState, SoundLists, Halts, TypeOK

(* Type correctness: no list, dialog or reference holds a commit or an entry *)
(* of a wrong kind, whatever is clicked and whatever git does outside.       *)
THEOREM TypeCorrect == Spec => []TypeOK
  <1>1. SoundState => TypeOK
    BY SoundIsTyped
  <1> QED BY <1>1, Inductive, PTL

(* openRepo and closeRepo share repo_, and on_merge_clicked indexes the list *)
(* with a remembered place: both go wrong only inside of a fetch.            *)
THEOREM NullOnlyWhenNested == Spec => []HaltsOnlyWhenNested
  <1>1. Ready => HaltsOnlyWhenNested
    BY DEF Ready
  <1> QED BY <1>1, Inductive, PTL

(* Conflicts in the index are those of the merge that MERGE_HEAD names, so   *)
(* that the commit that ends them records it.                                *)
THEOREM ConflictsAreOfAMerge == Spec => []ConflictsBelongToAMerge
  <1>1. Ready => ConflictsBelongToAMerge
    BY DEF Ready
  <1> QED BY <1>1, Inductive, PTL

(* lgit::commit never leaves the tip of HEAD behind: the parents a pull      *)
(* remembered are compared with it by git_commit_create.                     *)
THEOREM CommitsOnTop == Spec => CommitsAreOnTop
  <1>1. /\ SoundState /\ Ready /\ [Next]_vars
        => [Len(repo'.commits) > Len(repo.commits) /\ upstream' = upstream =>
              Last(repo'.commits).parents[1] = HeadOf(repo)]_vars
    BY StepGood DEF GoodStep, OnTop, Last
  <1> QED BY <1>1, Inductive, PTL DEF Spec, CommitsAreOnTop

(* A fast-forward of the pull dialog, and every other move of a branch, only *)
(* adds to what the branch contains: the analysis is still true when the tip *)
(* is set.                                                                   *)
THEOREM NoBranchGoesBack == Spec => BranchesOnlyAdvance
  <1>1. /\ SoundState /\ Ready /\ [Next]_vars
        => [Without({"outside", "nested"})' =>
              \A b \in Branches :
                None \notin {repo.heads[b], repo'.heads[b]} =>
                  repo.heads[b] \in Past(repo', repo'.heads[b])]_vars
    BY StepGood DEF GoodStep, Advances
  <1> QED BY <1>1, Inductive, PTL DEF Spec, BranchesOnlyAdvance

(* on_merge_clicked merges the entry at the place it remembers, and that is  *)
(* the commit whose log the dialog shows.                                    *)
THEOREM ShownIsMerged == Spec => MergesWhatIsShown
  <1>1. /\ SoundState /\ Ready /\ [Next]_vars
        => [Without({"nested"})' /\ dialog = "pull" /\ "outside" \notin met' \ met =>
              /\ repo'.mergeHead \in {None, repo.mergeHead, chosen.tip}
              /\ \A b \in Branches :
                   repo'.heads[b] # repo.heads[b] =>
                     b = chosen.name /\ repo'.heads[b] = chosen.tip]_vars
    BY StepGood DEF GoodStep, Shown
  <1> QED BY <1>1, Inductive, PTL DEF Spec, MergesWhatIsShown


=============================================================================
