-------------------------- MODULE GitTrees_proofs --------------------------
(***************************************************************************)
(* What the commits of the git dialogs contain: a commit has the changes   *)
(* of everything it says it descends from, and no others.                  *)
(***************************************************************************)
EXTENDS GitDialogs_proofs

-----------------------------------------------------------------------------
(* Commits and their trees.                                                  *)

(* What a commit descends from descends from less, and a commit contains     *)
(* its own change.                                                           *)
History(r) ==
  \A c \in DOMAIN r.commits :
    /\ c \in Tree(r, c)
    /\ \A d \in Past(r, c) : Past(r, d) \subseteq Past(r, c)

(* A commit contains what the commits before it contain ...                  *)
Monotone(r) ==
  \A c \in DOMAIN r.commits : \A d \in Past(r, c) : Tree(r, d) \subseteq Tree(r, c)

(* ... and nothing that they do not stand for.                               *)
Contained(r) == \A c \in DOMAIN r.commits : Tree(r, c) \subseteq Past(r, c)

(* The index has what a commit of it will say that it has, and no more.      *)
Carried(r) == Tree(r, HeadOf(r)) \cup Tree(r, r.mergeHead) \subseteq r.index.tree
Accounted(r) == r.index.tree \subseteq Tree(r, HeadOf(r)) \cup Tree(r, r.mergeHead)

Kept(r) == Monotone(r) /\ Carried(r)
Pure(r) == Contained(r) /\ Accounted(r)

(* The same commits, with the same trees.                                    *)
LEMMA GrownTrees ==
  ASSUME NEW r, SoundRepo(r), NEW s, Grown(r, s), NEW c \in 0 .. Len(r.commits)
  PROVE  Past(s, c) = Past(r, c) /\ Tree(s, c) = Tree(r, c)
  BY RepoFields DEF Past, Tree, Grown, None

LEMMA SameCommits ==
  ASSUME NEW r, NEW s, s.commits = r.commits
  PROVE  /\ \A c : Past(s, c) = Past(r, c) /\ Tree(s, c) = Tree(r, c)
         /\ History(r) => History(s)
         /\ Monotone(r) => Monotone(s)
         /\ Contained(r) => Contained(s)
  <1>1. \A c : Past(s, c) = Past(r, c) /\ Tree(s, c) = Tree(r, c)
    BY DEF Past, Tree
  <1>2. History(r) => History(s)
    BY <1>1 DEF History
  <1>3. Monotone(r) => Monotone(s)
    BY <1>1 DEF Monotone
  <1>4. Contained(r) => Contained(s)
    BY <1>1 DEF Contained
  <1> QED BY <1>1, <1>2, <1>3, <1>4

(* Nothing that a commit would record differs.                               *)
LEMMA SameIndex ==
  ASSUME NEW r, NEW s, s.commits = r.commits, s.index.tree = r.index.tree,
         HeadOf(s) = HeadOf(r), s.mergeHead = r.mergeHead
  PROVE  (Kept(r) => Kept(s)) /\ (Pure(r) => Pure(s))
  BY SameCommits DEF Kept, Pure, Carried, Accounted

(* One commit more, made of the parents.                                     *)
MadeOf(r, s, parents, tree) ==
  /\ Grown(r, s) /\ Len(s.commits) = Len(r.commits) + 1
  /\ Past(s, Len(s.commits))
       = {Len(s.commits)} \cup UNION {Past(r, parents[k]) : k \in DOMAIN parents}
  /\ Tree(s, Len(s.commits)) = tree \cup {Len(s.commits)}

LEMMA OneMore ==
  ASSUME NEW r, SoundRepo(r), NEW s, SoundRepo(s), NEW parents \in Seq(DOMAIN r.commits),
         NEW tree, MadeOf(r, s, parents, tree)
  PROVE  /\ History(r) => History(s)
         /\ Monotone(r) /\ (\A k \in DOMAIN parents : Tree(r, parents[k]) \subseteq tree)
              => Monotone(s)
         /\ Contained(r)
            /\ tree \subseteq UNION {Past(r, parents[k]) : k \in DOMAIN parents}
              => Contained(s)
  <1> DEFINE n == Len(s.commits)
             past == UNION {Past(r, parents[k]) : k \in DOMAIN parents}
  <1>1. /\ Len(r.commits) \in Nat /\ n = Len(r.commits) + 1
        /\ DOMAIN r.commits = 1 .. Len(r.commits) /\ DOMAIN s.commits = 1 .. n
        /\ DOMAIN s.commits = DOMAIN r.commits \cup {n}
        /\ Past(s, n) = {n} \cup past /\ Tree(s, n) = tree \cup {n}
    <2>1. /\ Len(r.commits) \in Nat /\ n = Len(r.commits) + 1
          /\ DOMAIN r.commits = 1 .. Len(r.commits) /\ DOMAIN s.commits = 1 .. n
      BY RepoFields DEF MadeOf
    <2>2. DOMAIN s.commits = DOMAIN r.commits \cup {n}
      BY <2>1
    <2> QED BY <2>1, <2>2 DEF MadeOf
  <1>2. \A c \in 0 .. Len(r.commits) : Past(s, c) = Past(r, c) /\ Tree(s, c) = Tree(r, c)
    BY GrownTrees DEF MadeOf
  <1>3. \A c \in DOMAIN r.commits :
          /\ Past(s, c) = Past(r, c) /\ Tree(s, c) = Tree(r, c)
          /\ Past(r, c) \subseteq DOMAIN r.commits
    <2> SUFFICES ASSUME NEW c \in DOMAIN r.commits
                 PROVE  /\ Past(s, c) = Past(r, c) /\ Tree(s, c) = Tree(r, c)
                        /\ Past(r, c) \subseteq DOMAIN r.commits
      OBVIOUS
    <2>1. c \in 0 .. Len(r.commits) /\ c \in 1 .. Len(r.commits)
      BY <1>1
    <2>2. Past(r, c) \subseteq 1 .. c
      BY <2>1, PastAndTree
    <2> QED BY <1>1, <1>2, <2>1, <2>2
  <1>4. \A k \in DOMAIN parents : parents[k] \in DOMAIN r.commits
    BY ElementOfSeq, LenProperties
  <1>5. past \subseteq DOMAIN r.commits
    BY <1>3, <1>4
  <1>6. \A d \in past : \E k \in DOMAIN parents : d \in Past(r, parents[k])
    OBVIOUS
  <1>7. \A k \in DOMAIN parents : Past(r, parents[k]) \subseteq past
    OBVIOUS
  <1> HIDE DEF past, n
  <1>8. ASSUME History(r) PROVE History(s)
    <2>1. ASSUME NEW d \in past PROVE Past(r, d) \subseteq past
      <3>1. PICK k \in DOMAIN parents : d \in Past(r, parents[k])
        BY <1>6
      <3>2. Past(r, d) \subseteq Past(r, parents[k])
        BY <1>4, <1>8, <3>1 DEF History
      <3> QED BY <1>7, <3>2
    <2>2. \A d \in Past(s, n) : Past(s, d) \subseteq Past(s, n)
      BY <1>1, <1>3, <1>5, <2>1
    <2>3. \A c \in DOMAIN r.commits : c \in Tree(s, c)
            /\ \A d \in Past(s, c) : Past(s, d) \subseteq Past(s, c)
      BY <1>3, <1>8 DEF History
    <2>4. n \in Tree(s, n)
      BY <1>1
    <2> QED BY <1>1, <2>2, <2>3, <2>4 DEF History
  <1>9. ASSUME Monotone(r), \A k \in DOMAIN parents : Tree(r, parents[k]) \subseteq tree
        PROVE  Monotone(s)
    <2>1. ASSUME NEW d \in past PROVE Tree(r, d) \subseteq tree
      <3>1. PICK k \in DOMAIN parents : d \in Past(r, parents[k])
        BY <1>6
      <3>2. Tree(r, d) \subseteq Tree(r, parents[k])
        BY <1>4, <1>9, <3>1 DEF Monotone
      <3> QED BY <1>9, <3>2
    <2>2. \A d \in Past(s, n) : Tree(s, d) \subseteq Tree(s, n)
      BY <1>1, <1>3, <1>5, <2>1
    <2>3. \A c \in DOMAIN r.commits : \A d \in Past(s, c) : Tree(s, d) \subseteq Tree(s, c)
      BY <1>3, <1>9 DEF Monotone
    <2> QED BY <1>1, <2>2, <2>3 DEF Monotone
  <1>10. ASSUME Contained(r), tree \subseteq past
         PROVE  Contained(s)
    <2>1. \A c \in DOMAIN r.commits : Tree(s, c) \subseteq Past(s, c)
      BY <1>3, <1>10 DEF Contained
    <2>2. Tree(s, n) \subseteq Past(s, n)
      BY <1>1, <1>10
    <2> QED BY <1>1, <2>1, <2>2 DEF Contained
  <1> QED BY <1>8, <1>9, <1>10 DEF past

(* AddCommit does that.                                                      *)
LEMMA AddCommitMade ==
  ASSUME NEW r, SoundRepo(r), NEW parents \in Seq(DOMAIN r.commits), parents # <<>>,
         NEW tree \in SUBSET Nat
  PROVE  MadeOf(r, AddCommit(r, parents, tree), parents, tree)
  <1> DEFINE s == AddCommit(r, parents, tree)
             n == Len(r.commits) + 1
             past == {n} \cup UNION {Past(r, parents[k]) : k \in DOMAIN parents}
             new == [parents |-> parents, past |-> past, tree |-> tree \cup {n}]
  <1>1. Grown(r, s) /\ Len(s.commits) = n /\ Len(r.commits) \in Nat /\ n # None
    BY AddCommitSound, RepoFields DEF None
  <1>2. s.commits = Append(r.commits, new)
    <2>1. r = Repo(r.commits, r.heads, r.tag, r.head, r.index, r.mergeHead, r.fetchHead)
      BY Shape
    <2>2. s = [r EXCEPT !.commits = Append(@, new)]
      BY DEF AddCommit
    <2> HIDE DEF new, s
    <2> QED BY <2>1, <2>2 DEF Repo
  <1>3. r.commits \in Seq(Commit)
    BY RepoFields
  <1>4. new.past = past /\ new.tree = tree \cup {n}
    OBVIOUS
  <1> HIDE DEF new, s, past
  <1>5. s.commits[n] = new
    BY <1>1, <1>2, <1>3
  <1>6. Past(s, n) = past /\ Tree(s, n) = tree \cup {n}
    BY <1>1, <1>4, <1>5 DEF Past, Tree
  <1> QED BY <1>1, <1>6 DEF MadeOf, s, past

-----------------------------------------------------------------------------
(* What the operations on a repository do to commits and index.              *)

(* A commit of the index, on top of HEAD.                                    *)
LEMMA CommitCreateMade ==
  ASSUME NEW r, SoundRepo(r), NEW parents \in Seq(DOMAIN r.commits), parents # <<>>,
         NEW dirty \in BOOLEAN, HeadOf(r) # None
  PROVE  LET s == git_commit_create(r, parents, dirty).repo
         IN  \/ s = r
             \/ /\ HeadOf(r) = parents[1]
                /\ MadeOf(r, s, parents, r.index.tree)
                /\ s.index.tree = r.index.tree \cup {Len(s.commits)}
                /\ HeadOf(s) = Len(s.commits) /\ s.mergeHead = r.mergeHead
  <1> DEFINE t == AddCommit(r, parents, r.index.tree)
             n == Len(r.commits) + 1
             u == MoveHead(t, n)
             i == [u.index EXCEPT !.tree = @ \cup {n}, !.dirty = dirty]
             s == [u EXCEPT !.index = i]
  <1>1. CASE r.index.conflicts \/ HeadOf(r) \notin {None, parents[1]}
    <2>1. git_commit_create(r, parents, dirty).repo = r
      BY <1>1 DEF git_commit_create, Refused
    <2> QED BY <2>1
  <1>2. CASE ~ (r.index.conflicts \/ HeadOf(r) \notin {None, parents[1]})
    <2>1. HeadOf(r) = parents[1]
      BY <1>2
    <2>2. Len(r.commits) \in Nat /\ n \in Nat /\ r.index.tree \in SUBSET Nat
      BY RepoFields
    <2>3. /\ SoundRepo(t) /\ Len(t.commits) = n
          /\ t = Repo(t.commits, r.heads, r.tag, r.head, r.index, r.mergeHead, r.fetchHead)
          /\ MadeOf(r, t, parents, r.index.tree)
      BY <2>2, AddCommitSound, AddCommitMade
    <2> HIDE DEF t
    <2>4. t.index = r.index /\ t.mergeHead = r.mergeHead
      BY <2>3 DEF Repo
    <2>5. n \in 1 .. Len(t.commits)
      BY <2>2, <2>3
    <2>6. /\ SoundRepo(u) /\ u.commits = t.commits /\ u.index = t.index
          /\ u.mergeHead = t.mergeHead /\ HeadOf(u) = n
      BY <2>3, <2>5, MoveHeadSound
    <2>7. git_commit_create(r, parents, dirty).repo = s
      BY <1>2, <2>3 DEF git_commit_create, Done, t
    <2> HIDE DEF u
    <2> DEFINE j == u.index
               x == j.tree \cup {n}
    <2>8. x = r.index.tree \cup {n}
      BY <2>4, <2>6
    <2>16. j \in Index
      BY <2>4, <2>6, RepoFields
    <2>9. i = Committing(j, x, dirty)
      BY DEF Committing
    <2> HIDE DEF i, x, j
    <2>10. i = [tree |-> x, dirty |-> dirty, conflicts |-> j.conflicts]
      BY ONLY <2>9, <2>16, ExceptTwo
    <2>11. i.tree = x
      BY <2>10
    <2> HIDE DEF s
    <2>12. s = Repo(u.commits, u.heads, u.tag, u.head, i, u.mergeHead, u.fetchHead)
      BY <2>6, Except DEF s
    <2>13. /\ s.commits = u.commits /\ s.heads = u.heads /\ s.head = u.head
           /\ s.index = i /\ s.mergeHead = u.mergeHead
      BY <2>12 DEF Repo
    <2>14. HeadOf(s) = n /\ Len(s.commits) = n
      BY <2>3, <2>6, <2>13 DEF HeadOf
    <2>15. MadeOf(r, s, parents, r.index.tree)
      <3>1. s.commits = t.commits
        BY <2>6, <2>13
      <3> QED BY <2>3, <3>1, SameCommits DEF MadeOf, Grown
    <2> QED BY <2>1, <2>4, <2>6, <2>7, <2>8, <2>11, <2>13, <2>14, <2>15
  <1> QED BY <1>1, <1>2

(* The parents of a commit that records what was merged.                     *)
Recorded(r, parents) ==
  \/ r.mergeHead = None /\ \E p \in DOMAIN r.commits : parents = << p >>
  \/ /\ r.mergeHead # None
     /\ \E p \in DOMAIN r.commits : parents = << p, r.mergeHead >>

LEMMA ListParts ==
  ASSUME NEW a, NEW b
  PROVE  /\ DOMAIN << a >> = {1} /\ << a >>[1] = a
         /\ DOMAIN << a, b >> = {1, 2} /\ << a, b >>[1] = a /\ << a, b >>[2] = b
  OBVIOUS

LEMMA RecordedParents ==
  ASSUME NEW r, SoundRepo(r), NEW parents, Recorded(r, parents)
  PROVE  /\ parents \in Seq(DOMAIN r.commits) /\ parents # <<>>
         /\ UNION {Past(r, parents[k]) : k \in DOMAIN parents}
              = Past(r, parents[1]) \cup Past(r, r.mergeHead)
         /\ \A k \in DOMAIN parents : parents[k] \in {parents[1], r.mergeHead}
  <1>1. /\ r.mergeHead \in 0 .. Len(r.commits) /\ DOMAIN r.commits = 1 .. Len(r.commits)
        /\ Len(r.commits) \in Nat
    BY RepoFields, Shape
  <1>2. CASE r.mergeHead = None /\ \E p \in DOMAIN r.commits : parents = << p >>
    <2>1. PICK p \in DOMAIN r.commits : parents = << p >>
      BY <1>2
    <2>2. Past(r, r.mergeHead) = {}
      BY <1>2 DEF Past
    <2>3. /\ parents \in Seq(DOMAIN r.commits) /\ parents # <<>>
          /\ DOMAIN parents = {1} /\ parents[1] = p
      BY <2>1, ShortLists, ListParts
    <2> QED BY <2>2, <2>3
  <1>3. CASE r.mergeHead # None /\ \E p \in DOMAIN r.commits : parents = << p, r.mergeHead >>
    <2>1. PICK p \in DOMAIN r.commits : parents = << p, r.mergeHead >>
      BY <1>3
    <2>2. r.mergeHead \in DOMAIN r.commits
      BY <1>1, <1>3 DEF None
    <2>3. /\ parents \in Seq(DOMAIN r.commits) /\ parents # <<>>
          /\ DOMAIN parents = {1, 2} /\ parents[1] = p /\ parents[2] = r.mergeHead
      BY <2>1, <2>2, ShortLists, ListParts
    <2> QED BY <2>3
  <1> QED BY <1>2, <1>3 DEF Recorded

(* A commit that records what was merged contains it, and nothing else.      *)
LEMMA CommitCreateTrees ==
  ASSUME NEW r, SoundRepo(r), NEW parents, Recorded(r, parents),
         NEW dirty \in BOOLEAN, HeadOf(r) # None
  PROVE  LET s == git_commit_create(r, parents, dirty).repo
         IN  /\ History(r) => History(s)
             /\ Kept(r) => Kept(s)
             /\ Kept(r) /\ Pure(r) /\ History(r) => Pure(s)
  <1> DEFINE s == git_commit_create(r, parents, dirty).repo
             n == Len(s.commits)
  <1>1. /\ parents \in Seq(DOMAIN r.commits) /\ parents # <<>>
        /\ UNION {Past(r, parents[k]) : k \in DOMAIN parents}
             = Past(r, parents[1]) \cup Past(r, r.mergeHead)
        /\ \A k \in DOMAIN parents : parents[k] \in {parents[1], r.mergeHead}
    BY RecordedParents
  <1>2. SoundRepo(s)
    BY <1>1, CommitCreateSound DEF Committed
  <1>3. CASE s = r
    BY <1>3
  <1>4. CASE /\ HeadOf(r) = parents[1]
             /\ MadeOf(r, s, parents, r.index.tree)
             /\ s.index.tree = r.index.tree \cup {n}
             /\ HeadOf(s) = n /\ s.mergeHead = r.mergeHead
    <2> HIDE DEF s
    <2>1. /\ r.mergeHead \in 0 .. Len(r.commits) /\ HeadOf(r) \in 0 .. Len(r.commits)
          /\ Len(r.commits) \in Nat
      BY RepoFields, Shape
    <2>2. /\ Tree(s, n) = r.index.tree \cup {n}
          /\ Past(s, n) = {n} \cup (Past(r, HeadOf(r)) \cup Past(r, r.mergeHead))
      BY <1>1, <1>4 DEF MadeOf
    <2>3. Tree(s, r.mergeHead) = Tree(r, r.mergeHead)
      BY <1>4, <2>1, GrownTrees DEF MadeOf
    <2>4. History(r) => History(s)
      BY <1>1, <1>2, <1>4, OneMore
    <2>5. ASSUME Kept(r) PROVE Kept(s)
      <3>1. \A k \in DOMAIN parents : Tree(r, parents[k]) \subseteq r.index.tree
        BY <1>1, <1>4, <2>5 DEF Kept, Carried
      <3>2. Monotone(s)
        BY <1>1, <1>2, <1>4, <2>5, <3>1, OneMore DEF Kept
      <3>3. Carried(s)
        BY <1>4, <2>2, <2>3, <2>5 DEF Kept, Carried
      <3> QED BY <3>2, <3>3 DEF Kept
    <2>6. ASSUME Pure(r) PROVE Pure(s)
      <3>1. Tree(r, HeadOf(r)) \subseteq Past(r, HeadOf(r))
            /\ Tree(r, r.mergeHead) \subseteq Past(r, r.mergeHead)
        <4>1. \A c \in 0 .. Len(r.commits) : Tree(r, c) \subseteq Past(r, c)
          <5> SUFFICES ASSUME NEW c \in 0 .. Len(r.commits)
                       PROVE  Tree(r, c) \subseteq Past(r, c)
            OBVIOUS
          <5>1. CASE c = None
            BY <5>1 DEF Tree
          <5>2. CASE c # None
            <6>1. c \in DOMAIN r.commits
              BY <5>2, RepoFields DEF None
            <6> QED BY <2>6, <6>1 DEF Pure, Contained
          <5> QED BY <5>1, <5>2
        <4> QED BY <2>1, <4>1
      <3>2. r.index.tree \subseteq Past(r, HeadOf(r)) \cup Past(r, r.mergeHead)
        BY <2>6, <3>1 DEF Pure, Accounted
      <3>3. r.index.tree \subseteq UNION {Past(r, parents[k]) : k \in DOMAIN parents}
        BY <1>1, <1>4, <3>2
      <3>4. Contained(s)
        BY <1>1, <1>2, <1>4, <2>6, <3>3, OneMore DEF Pure
      <3>5. Accounted(s)
        BY <1>4, <2>2 DEF Accounted
      <3> QED BY <3>4, <3>5 DEF Pure
    <2> QED BY <2>4, <2>5, <2>6 DEF s
  <1> QED BY <1>1, <1>3, <1>4, CommitCreateMade

LEMMA CommitTrees ==
  ASSUME NEW r, SoundRepo(r), NEW parents, parents = <<>> \/ Recorded(r, parents),
         NEW dirty \in BOOLEAN, HeadOf(r) # None
  PROVE  LET s == commit(r, parents, dirty).repo
         IN  /\ History(r) => History(s)
             /\ Kept(r) => Kept(s)
             /\ Kept(r) /\ Pure(r) /\ History(r) => Pure(s)
  <1> DEFINE heads == IF r.mergeHead = None THEN << HeadOf(r) >>
                      ELSE << HeadOf(r), r.mergeHead >>
             used == IF parents # <<>> THEN parents ELSE heads
  <1>1. Recorded(r, heads)
    <2>1. HeadOf(r) \in DOMAIN r.commits
      BY RepoFields DEF None
    <2> QED BY <2>1 DEF Recorded
  <1>2. Recorded(r, used)
    BY <1>1
  <1>3. commit(r, parents, dirty) = git_commit_create(r, used, dirty)
    BY DEF commit
  <1> HIDE DEF used
  <1> QED BY <1>2, <1>3, CommitCreateTrees

(* Where everything that the common ancestor contains is kept, the three-way *)
(* merge is the union of the two trees.                                      *)
LEMMA MergedAll ==
  ASSUME NEW r, SoundRepo(r), Monotone(r), NEW our \in DOMAIN r.commits,
         NEW their \in DOMAIN r.commits
  PROVE  Merged(r, our, their) = Tree(r, our) \cup Tree(r, their)
  <1> DEFINE common == Past(r, our) \cap Past(r, their)
             base == Max(common)
  <1>1. /\ Len(r.commits) \in Nat /\ DOMAIN r.commits = 1 .. Len(r.commits)
        /\ our \in 0 .. Len(r.commits) /\ their \in 0 .. Len(r.commits)
        /\ our # None /\ their # None /\ our \in Nat
    BY RepoFields DEF None
  <1>2. Past(r, our) \subseteq 1 .. our /\ 1 \in Past(r, our) /\ 1 \in Past(r, their)
    BY <1>1, PastAndTree
  <1>3. common \in SUBSET (1 .. our) /\ common # {}
    BY <1>2
  <1>4. base \in common
    BY <1>1, <1>3, GreatestExists
  <1>5. Base(r, our, their) = base
    BY DEF Base
  <1> HIDE DEF base
  <1>6. Tree(r, base) \subseteq Tree(r, our) /\ Tree(r, base) \subseteq Tree(r, their)
    BY <1>4 DEF Monotone
  <1>7. Merged(r, our, their)
          = (Tree(r, our) \cap Tree(r, their)) \cup (Tree(r, our) \ Tree(r, base))
            \cup (Tree(r, their) \ Tree(r, base))
    BY <1>5 DEF Merged
  <1> QED BY <1>6, <1>7

(* What a merge leaves behind.                                               *)
LEMMA MergeMade ==
  ASSUME NEW r, SoundRepo(r), NEW their \in 1 .. Len(r.commits),
         NEW o \in git_merge(r, their)
  PROVE  \/ /\ ~o.ok /\ o.repo.mergeHead = None
            /\ o.repo.index.tree = r.index.tree
         \/ /\ o.ok /\ HeadOf(r) # None /\ o.repo.mergeHead = their
            /\ o.repo.index.tree = Merged(r, HeadOf(r), their)
  <1> DEFINE our == HeadOf(r)
             result == Merged(r, our, their)
             refused == Refused([r EXCEPT !.mergeHead = None])
             merged(c) == Done(WhileMerging(r, their, MergedIndex(result, c)))
  <1>1. o = refused \/ (our # None /\ \E c \in BOOLEAN : o = merged(c))
    <2>1. CASE our = None
      BY <2>1 DEF git_merge, WhileMerging, MergedIndex
    <2>2. CASE our # None
      BY <2>2 DEF git_merge, WhileMerging, MergedIndex
    <2> QED BY <2>1, <2>2
  <1> HIDE DEF result
  <1>2. r = Repo(r.commits, r.heads, r.tag, r.head, r.index, r.mergeHead, r.fetchHead)
    BY Shape
  <1>3. CASE o = refused
    <2>1. o.repo = [r EXCEPT !.mergeHead = None] /\ ~o.ok
      BY <1>3 DEF Refused
    <2>2. o.repo = Repo(r.commits, r.heads, r.tag, r.head, r.index, None, r.fetchHead)
      BY <2>1, Except
    <2>3. o.repo.mergeHead = None /\ o.repo.index = r.index
      BY <2>2 DEF Repo
    <2> QED BY <2>1, <2>3
  <1>4. ASSUME NEW c \in BOOLEAN, o = merged(c), our # None
        PROVE  /\ o.ok /\ our # None /\ o.repo.mergeHead = their
               /\ o.repo.index.tree = result
    <2> DEFINE i == MergedIndex(result, c)
    <2>1. o.repo = WhileMerging(r, their, i) /\ o.ok
      BY <1>4 DEF Done
    <2>2. i.tree = result
      BY DEF MergedIndex
    <2> HIDE DEF i
    <2>3. o.repo = Repo(r.commits, r.heads, r.tag, r.head, i, their, r.fetchHead)
      BY <2>1, ExceptMerge
    <2>4. o.repo.index = i /\ o.repo.mergeHead = their
      BY <2>3 DEF Repo
    <2> QED BY <1>4, <2>1, <2>2, <2>4
  <1> QED BY <1>1, <1>3, <1>4 DEF result

(* A merge puts into the index what MERGE_HEAD stands for.  When it fails    *)
(* and forgets MERGE_HEAD, nothing is left that came from there if what was  *)
(* merged before has been committed.                                         *)
LEMMA MergeTrees ==
  ASSUME NEW r, SoundRepo(r), NEW their \in 1 .. Len(r.commits),
         NEW o \in git_merge(r, their), HeadOf(r) # None
  PROVE  /\ Kept(r) => Kept(o.repo)
         /\ Kept(r) /\ Pure(r)
            /\ (r.mergeHead = None \/ r.mergeHead \in Past(r, HeadOf(r))) => Pure(o.repo)
         /\ o.ok => o.repo.mergeHead = their
  <1> DEFINE s == o.repo
  <1>1. SoundRepo(s) /\ SameRefs(r, s)
    BY MergeSound
  <1>2. s.commits = r.commits /\ HeadOf(s) = HeadOf(r)
    BY <1>1 DEF SameRefs, HeadOf
  <1>3. \A c : Past(s, c) = Past(r, c) /\ Tree(s, c) = Tree(r, c)
    BY <1>2, SameCommits
  <1>4. /\ Monotone(r) => Monotone(s)
        /\ Contained(r) => Contained(s)
    BY <1>2, SameCommits
  <1>5. HeadOf(r) \in DOMAIN r.commits /\ their \in DOMAIN r.commits
    BY RepoFields DEF None
  <1> HIDE DEF s
  <1>6. CASE ~o.ok /\ s.mergeHead = None /\ s.index.tree = r.index.tree
    <2>1. Tree(s, s.mergeHead) = {}
      BY <1>6 DEF Tree
    <2>2. ASSUME Kept(r) PROVE Kept(s)
      BY <1>2, <1>3, <1>4, <1>6, <2>1, <2>2 DEF Kept, Carried
    <2>3. ASSUME Kept(r), Pure(r), r.mergeHead = None \/ r.mergeHead \in Past(r, HeadOf(r))
          PROVE  Pure(s)
      <3>1. Tree(r, r.mergeHead) \subseteq Tree(r, HeadOf(r))
        <4>1. CASE r.mergeHead = None
          BY <4>1 DEF Tree
        <4>2. CASE r.mergeHead \in Past(r, HeadOf(r))
          BY <1>5, <2>3, <4>2 DEF Kept, Monotone
        <4> QED BY <2>3, <4>1, <4>2
      <3> QED BY <1>2, <1>3, <1>4, <1>6, <2>3, <3>1 DEF Pure, Accounted
    <2> QED BY <1>6, <2>2, <2>3 DEF s
  <1>7. CASE o.ok /\ s.mergeHead = their /\ s.index.tree = Merged(r, HeadOf(r), their)
    <2>1. ASSUME Kept(r) PROVE s.index.tree = Tree(s, HeadOf(s)) \cup Tree(s, s.mergeHead)
      BY <1>2, <1>3, <1>5, <1>7, <2>1, MergedAll DEF Kept
    <2>2. Kept(r) => Kept(s)
      BY <1>4, <2>1 DEF Kept, Carried
    <2>3. Kept(r) /\ Pure(r) => Pure(s)
      BY <1>4, <2>1 DEF Pure, Accounted
    <2> QED BY <1>7, <2>2, <2>3 DEF s
  <1> QED BY <1>6, <1>7, MergeMade DEF s

(* The index is what HEAD is, and no merge goes on.                          *)
LEMMA ReplacedTrees ==
  ASSUME NEW r, NEW s, s.commits = r.commits, s.mergeHead = None,
         s.index.tree = Tree(r, HeadOf(s))
  PROVE  (Monotone(r) => Kept(s)) /\ (Contained(r) => Pure(s))
  <1>1. Tree(s, HeadOf(s)) = Tree(r, HeadOf(s)) /\ Tree(s, s.mergeHead) = {}
    BY SameCommits DEF Tree
  <1> QED BY <1>1, SameCommits DEF Kept, Carried, Pure, Accounted

LEMMA CheckoutTree ==
  ASSUME NEW r, SoundRepo(r), NEW c \in 0 .. Len(r.commits)
  PROVE  LET s == git_checkout_tree(r, c)
         IN  SoundRepo(s) /\ SameRefs(r, s) /\ s.mergeHead = r.mergeHead
             /\ s.index.tree = Tree(r, c)
  <1> DEFINE i == [tree |-> Tree(r, c), dirty |-> FALSE, conflicts |-> FALSE]
  <1>1. git_checkout_tree(r, c)
          = Repo(r.commits, r.heads, r.tag, r.head, i, r.mergeHead, r.fetchHead)
    BY Except DEF git_checkout_tree
  <1>2. i.tree = Tree(r, c)
    OBVIOUS
  <1> HIDE DEF i
  <1>3. git_checkout_tree(r, c).index = i
    BY <1>1 DEF Repo
  <1> QED BY <1>2, <1>3, CheckoutSound

LEMMA HeadBranchTree ==
  ASSUME NEW r, SoundRepo(r), NEW c \in 0 .. Len(r.commits), NEW b \in Branches
  PROVE  LET s == set_head_branch(git_checkout_tree(r, c), b)
         IN  /\ s.commits = r.commits /\ s.heads = r.heads /\ s.tag = r.tag
             /\ s.mergeHead = r.mergeHead
             /\ s.index.tree = Tree(r, c) /\ HeadOf(s) = r.heads[b]
  <1> DEFINE t == git_checkout_tree(r, c)
             h == [branch |-> b, at |-> None]
             s == [t EXCEPT !.head = h]
  <1>1. SoundRepo(t) /\ SameRefs(r, t) /\ t.mergeHead = r.mergeHead
        /\ t.index.tree = Tree(r, c)
    BY CheckoutTree
  <1> HIDE DEF t
  <1>2. h.branch = b
    OBVIOUS
  <1>3. set_head_branch(t, b) = s
    BY DEF set_head_branch
  <1> HIDE DEF h
  <1>4. s = Repo(t.commits, t.heads, t.tag, h, t.index, t.mergeHead, t.fetchHead)
    BY <1>1, Except
  <1> HIDE DEF s
  <1>5. /\ s.commits = t.commits /\ s.heads = t.heads /\ s.tag = t.tag /\ s.head = h
        /\ s.index = t.index /\ s.mergeHead = t.mergeHead
    BY <1>4 DEF Repo
  <1>6. HeadOf(s) = t.heads[b]
    BY <1>2, <1>5, NoBranchAssumption DEF HeadOf
  <1> QED BY <1>1, <1>3, <1>5, <1>6 DEF SameRefs, t

LEMMA HeadTagTree ==
  ASSUME NEW r, SoundRepo(r), NEW c \in 0 .. Len(r.commits), r.tag # None
  PROVE  LET s == checkoutTag(r, c).repo
         IN  /\ s.commits = r.commits /\ s.heads = r.heads /\ s.tag = r.tag
             /\ s.mergeHead = r.mergeHead
             /\ s.index.tree = Tree(r, c) /\ HeadOf(s) = r.tag
  <1> DEFINE t == git_checkout_tree(r, c)
             h == [branch |-> NoBranch, at |-> t.tag]
             s == [t EXCEPT !.head = h]
  <1>1. SoundRepo(t) /\ SameRefs(r, t) /\ t.mergeHead = r.mergeHead
        /\ t.index.tree = Tree(r, c)
    BY CheckoutTree
  <1>2. checkoutTag(r, c).repo = IF t.tag = None THEN t ELSE s
    BY DEF checkoutTag, set_head_tag, Done, Refused
  <1> HIDE DEF t
  <1>3. h.branch = NoBranch /\ h.at = t.tag
    OBVIOUS
  <1> HIDE DEF h
  <1>4. s = Repo(t.commits, t.heads, t.tag, h, t.index, t.mergeHead, t.fetchHead)
    BY <1>1, Except
  <1> HIDE DEF s
  <1>5. /\ s.commits = t.commits /\ s.heads = t.heads /\ s.tag = t.tag /\ s.head = h
        /\ s.index = t.index /\ s.mergeHead = t.mergeHead
    BY <1>4 DEF Repo
  <1>6. HeadOf(s) = t.tag
    BY <1>3, <1>5 DEF HeadOf
  <1>7. checkoutTag(r, c).repo = s
    BY <1>1, <1>2 DEF SameRefs
  <1> QED BY <1>1, <1>5, <1>6, <1>7 DEF SameRefs

LEMMA ResetTree ==
  ASSUME NEW r, SoundRepo(r), HeadOf(r) # None
  PROVE  LET s == hardReset(r).repo
         IN  /\ s.commits = r.commits /\ HeadOf(s) = HeadOf(r)
             /\ s.mergeHead = None /\ s.index.tree = Tree(r, HeadOf(s))
  <1> DEFINE t == git_checkout_tree(r, HeadOf(r))
             s == git_reset(r)
  <1>1. SoundRepo(t) /\ SameRefs(r, t) /\ t.index.tree = Tree(r, HeadOf(r))
    BY RepoFields, CheckoutTree
  <1>2. s = [t EXCEPT !.mergeHead = None]
    BY DEF git_reset
  <1> HIDE DEF t, s
  <1>3. s = Repo(t.commits, t.heads, t.tag, t.head, t.index, None, t.fetchHead)
    BY <1>1, <1>2, Except
  <1>4. /\ s.commits = t.commits /\ s.heads = t.heads /\ s.head = t.head
        /\ s.index = t.index /\ s.mergeHead = None
    BY <1>3 DEF Repo
  <1>5. hardReset(r).repo = s
    BY DEF hardReset, Done, s
  <1> QED BY <1>1, <1>4, <1>5 DEF SameRefs, HeadOf

(* A fast-forward of HEAD's branch, with nothing that is uncommitted.        *)
LEMMA FastForwardTree ==
  ASSUME NEW r, SoundRepo(r), NEW target \in Branches, NEW tip \in 0 .. Len(r.commits),
         NEW o \in fastForwardSha(r, target, tip),
         Clean(r), target = r.head.branch, HeadOf(r) # None
  PROVE  /\ o.repo.commits = r.commits /\ HeadOf(o.repo) = tip
         /\ o.repo.mergeHead = r.mergeHead /\ o.repo.index.tree = Tree(r, tip)
  <1>1. PICK p \in checkout_safe(r, tip) :
          o = IF p.ok /\ r.heads[target] # None
                THEN Done([p.repo EXCEPT !.heads[target] = tip]) ELSE Refused(p.repo)
    BY DEF fastForwardSha
  <1>2. p = Done([r EXCEPT !.index.tree = Tree(r, tip)])
    BY DEF checkout_safe, Clean
  <1> DEFINE t == [r EXCEPT !.index.tree = Tree(r, tip)]
             s == [t EXCEPT !.heads[target] = tip]
  <1>3. p.ok /\ p.repo = t
    BY <1>2 DEF Done
  <1>4. r.heads[target] # None
    BY NoBranchAssumption DEF HeadOf
  <1>5. o.repo = s
    BY <1>1, <1>3, <1>4 DEF Done
  <1>6. SoundRepo(t) /\ SameRefs(r, t) /\ t.mergeHead = r.mergeHead
    BY PastAndTree, TreeSet
  <1>7. t.index.tree = Tree(r, tip)
    <2> DEFINE j == r.index
               i == [j EXCEPT !.tree = Tree(r, tip)]
    <2>1. t = [r EXCEPT !.index = i]
      OBVIOUS
    <2>2. j \in Index
      BY RepoFields
    <2> HIDE DEF j
    <2>3. i = [tree |-> Tree(r, tip), dirty |-> j.dirty, conflicts |-> j.conflicts]
      BY <2>2, ExceptIndex
    <2>4. i.tree = Tree(r, tip)
      BY <2>3
    <2> HIDE DEF i, t
    <2>5. t = Repo(r.commits, r.heads, r.tag, r.head, i, r.mergeHead, r.fetchHead)
      BY <2>1, Except
    <2> QED BY <2>4, <2>5 DEF Repo
  <1> HIDE DEF t
  <1>8. Moved(t, s, target, tip)
    BY <1>6, HeadsSet DEF SameRefs
  <1> HIDE DEF s
  <1>9. HeadOf(s) = tip
    BY <1>6, <1>8, NoBranchAssumption DEF HeadOf, Moved, SameRefs
  <1> QED BY <1>5, <1>6, <1>7, <1>8, <1>9 DEF Moved, SameRefs

(* HEAD and MERGE_HEAD are both contained in what is fast-forwarded to.      *)
LEMMA ForwardTrees ==
  ASSUME NEW r, SoundRepo(r), NEW s, s.commits = r.commits, s.mergeHead = r.mergeHead,
         s.index.tree = Tree(r, HeadOf(s)), Clean(r),
         HeadOf(s) \in DOMAIN r.commits, HeadOf(r) \in Past(r, HeadOf(s))
  PROVE  (Kept(r) => Kept(s)) /\ (Pure(r) => Pure(s))
  <1>1. /\ \A c : Past(s, c) = Past(r, c) /\ Tree(s, c) = Tree(r, c)
        /\ Monotone(r) => Monotone(s)
        /\ Contained(r) => Contained(s)
    BY SameCommits
  <1>2. Kept(r) => Kept(s)
    BY <1>1 DEF Kept, Carried, Clean, Monotone
  <1>3. Pure(r) => Pure(s)
    BY <1>1 DEF Pure, Accounted
  <1> QED BY <1>2, <1>3

(* The list of branches says where the local branches are.                   *)
LEMMA EntryTips ==
  ASSUME NEW refs, NEW kind
  PROVE  \A k \in DOMAIN entries(refs, kind) :
           /\ entries(refs, kind)[k].kind = kind
           /\ entries(refs, kind)[k].tip = refs[entries(refs, kind)[k].name]
  <1> DEFINE names == Sublist(Order, {k \in DOMAIN Order : refs[Order[k]] # None})
             entry(k) == [name |-> names[k], kind |-> kind, tip |-> refs[names[k]]]
             s == [k \in DOMAIN names |-> entry(k)]
  <1>1. entries(refs, kind) = s
    BY DEF entries
  <1> HIDE DEF names
  <1>2. \A k \in DOMAIN s : s[k].kind = kind /\ s[k].tip = refs[s[k].name]
    OBVIOUS
  <1> HIDE DEF s
  <1> QED BY <1>1, <1>2

LEMMA ListTips ==
  ASSUME NEW r, SoundRepo(r)
  PROVE  \A k \in DOMAIN list(r) :
           list(r)[k].kind = "local" => list(r)[k].tip = r.heads[list(r)[k].name]
  <1> DEFINE s == entries(r.heads, "local")
             t == entries(r.fetchHead, "fetched")
             n == Len(r.commits)
  <1>1. n \in Nat /\ r.heads \in [Branches -> 0 .. n]
        /\ r.fetchHead \in [Branches -> 0 .. n]
    BY RepoFields, Shape
  <1>2. s \in Seq(Entry) /\ \A k \in DOMAIN s : s[k].tip = r.heads[s[k].name]
    <2>1. s \in Seq(Entry)
      BY <1>1, EntriesListed
    <2>2. \A k \in DOMAIN s : s[k].tip = r.heads[s[k].name]
      <3> DEFINE heads == r.heads
      <3>1. s = entries(heads, "local")
        OBVIOUS
      <3> HIDE DEF heads, s
      <3>2. \A k \in DOMAIN s : s[k].tip = heads[s[k].name]
        BY <3>1, EntryTips
      <3> QED BY <3>2 DEF heads
    <2> QED BY <2>1, <2>2
  <1>3. t \in Seq(Entry) /\ \A k \in DOMAIN t : t[k].kind = "fetched"
    BY <1>1, EntriesListed
  <1>4. list(r) = s \o t
    BY DEF list
  <1> HIDE DEF s, t
  <1>5. /\ DOMAIN s = 1 .. Len(s) /\ DOMAIN t = 1 .. Len(t)
        /\ Len(s) \in Nat /\ Len(t) \in Nat
        /\ DOMAIN list(r) = 1 .. Len(s) + Len(t)
        /\ \A k \in DOMAIN list(r) :
             list(r)[k] = IF k <= Len(s) THEN s[k] ELSE t[k - Len(s)]
    BY <1>2, <1>3, <1>4, ConcatProperties, LenProperties
  <1> SUFFICES ASSUME NEW k \in DOMAIN list(r), list(r)[k].kind = "local"
               PROVE  list(r)[k].tip = r.heads[list(r)[k].name]
    OBVIOUS
  <1>6. CASE k <= Len(s)
    <2>1. k \in DOMAIN s /\ list(r)[k] = s[k]
      BY <1>5, <1>6
    <2> QED BY <1>2, <2>1
  <1>7. CASE ~ (k <= Len(s))
    <2>1. k - Len(s) \in DOMAIN t /\ list(r)[k] = t[k - Len(s)]
      BY <1>5, <1>7
    <2> QED BY <1>3, <2>1
  <1> QED BY <1>6, <1>7

-----------------------------------------------------------------------------
(* The state.                                                                *)

(* Without git used outside: HEAD is a commit, the checkout dialog offers    *)
(* what there is, and the commit dialog of a pull records the merge.         *)
Remembered ==
  Without({"outside"}) =>
    /\ HeadOf(repo) # None
    /\ dialog = "checkout" => offers = [branches |-> repo.heads, tag |-> repo.tag]
    /\ dialog = "committing" => Recorded(repo, pending.parents)

(* The liberties of NothingMergedAway and of NothingSmuggledIn.              *)
Careful == Without({"outside", "nested", "switched", "covered"})
Finished == Without({"outside", "nested", "switched", "again", "covered"})

(* The inductive invariant of both, on top of SoundState and Ready.          *)
Trees ==
  /\ History(repo)
  /\ Remembered
  /\ Careful => Kept(repo)
  /\ Finished => Pure(repo)

LEMMA TreesNext ==
  ASSUME Trees, met \subseteq met',
         History(repo) => History(repo'), Remembered',
         Careful' /\ Kept(repo) => Kept(repo'),
         Finished' /\ Kept(repo) /\ Pure(repo) => Pure(repo')
  PROVE  Trees'
  <1>1. (Careful' => Careful) /\ (Finished' => Finished) /\ (Finished => Careful)
    BY DEF Careful, Finished, Without
  <1> QED BY <1>1 DEF Trees

(* Commits, HEAD, MERGE_HEAD and the tree of the index are as they were.     *)
LEMMA NothingRecorded ==
  ASSUME Trees, met \subseteq met',
         repo'.commits = repo.commits, HeadOf(repo') = HeadOf(repo),
         repo'.mergeHead = repo.mergeHead, repo'.index.tree = repo.index.tree,
         dialog' = "checkout" => offers' = [branches |-> repo'.heads, tag |-> repo'.tag],
         dialog' # "committing"
  PROVE  Trees'
  <1>1. /\ History(repo) => History(repo')
        /\ Kept(repo) => Kept(repo')
        /\ Pure(repo) => Pure(repo')
    BY SameCommits, SameIndex
  <1>2. Without({"outside"})' => Without({"outside"})
    BY DEF Without
  <1>3. Remembered'
    BY <1>2 DEF Trees, Remembered
  <1> QED BY <1>1, <1>3, TreesNext

(* The lists are read, a dialog is opened, or closed.                        *)
LEMMA OnlyReading ==
  ASSUME Trees, UNCHANGED repo, met \subseteq met', dialog' # "committing",
         dialog' = "checkout" => offers' = [branches |-> repo'.heads, tag |-> repo'.tag]
  PROVE  Trees'
  <1>1. /\ repo'.commits = repo.commits /\ HeadOf(repo') = HeadOf(repo)
        /\ repo'.mergeHead = repo.mergeHead /\ repo'.index.tree = repo.index.tree
    OBVIOUS
  <1> QED BY <1>1, NothingRecorded

LEMMA ReadingTrees ==
  ASSUME SoundState, Ready, Trees, Next,
         \/ OpenCheckout \/ CloseCheckout \/ OpenPull \/ ClosePull \/ StartFetch
         \/ FetchFails \/ ResetAfterFetch \/ StopCommit
         \/ \E b \in Branches : ChooseFetched(b)
  PROVE  Trees'
  <1>1. UNCHANGED repo /\ met \subseteq met'
    BY Taken DEF OpenCheckout, CloseCheckout, OpenPull, ClosePull, StartFetch, FetchFails,
       ResetAfterFetch, StopCommit, ChooseFetched
  <1>2. dialog' # "committing"
    BY DEF OpenCheckout, CloseCheckout, OpenPull, ClosePull, StartFetch, FetchFails,
       ResetAfterFetch, StopCommit, ChooseFetched, Click, Ready
  <1>3. dialog' = "checkout" => offers' = [branches |-> repo.heads, tag |-> repo.tag]
    BY DEF OpenCheckout, CloseCheckout, OpenPull, ClosePull, StartFetch, FetchFails,
       ResetAfterFetch, StopCommit, ChooseFetched, Click, Ready
  <1> QED BY <1>1, <1>2, <1>3, OnlyReading

(* The liberties that are not taken in a careful step.                       *)
LEMMA OutsideTrees ==
  ASSUME Trees, "outside" \in met', met \subseteq met', History(repo) => History(repo')
  PROVE  Trees'
  <1>1. ~Without({"outside"})' /\ ~Careful' /\ ~Finished'
    BY DEF Without, Careful, Finished
  <1> QED BY <1>1, TreesNext DEF Remembered

-----------------------------------------------------------------------------
(* The actions.                                                              *)

LEMMA FilesTrees ==
  ASSUME SoundState, Ready, Trees, EditFiles \/ ResolveConflicts \/ DeleteTag
  PROVE  Trees'
  <1> DEFINE j == repo.index
  <1>1. SoundRepo(repo) /\ j \in Index
    BY RepoFields DEF SoundState
  <1>2. UNCHANGED met /\ dialog' = "none"
    BY DEF EditFiles, ResolveConflicts, DeleteTag
  <1>3. ASSUME NEW i, i.tree = j.tree, repo' = [repo EXCEPT !.index = i]
        PROVE  /\ repo'.commits = repo.commits /\ HeadOf(repo') = HeadOf(repo)
               /\ repo'.mergeHead = repo.mergeHead /\ repo'.index.tree = repo.index.tree
    <2>1. repo' = Repo(repo.commits, repo.heads, repo.tag, repo.head, i, repo.mergeHead,
                       repo.fetchHead)
      BY <1>1, <1>3, Except
    <2> QED BY <1>3, <2>1 DEF Repo, HeadOf
  <1>4. CASE DeleteTag
    <2>1. /\ repo'.commits = repo.commits /\ repo'.heads = repo.heads
          /\ repo'.head = repo.head
          /\ repo'.index = repo.index /\ repo'.mergeHead = repo.mergeHead
      BY <1>1, <1>4, TagSet DEF DeleteTag
    <2>2. HeadOf(repo') = HeadOf(repo)
      BY <2>1 DEF HeadOf
    <2> QED BY <1>2, <2>1, <2>2, NothingRecorded
  <1>5. CASE EditFiles
    <2> DEFINE i == [j EXCEPT !.dirty = TRUE]
    <2>1. repo' = [repo EXCEPT !.index = i]
      BY <1>5 DEF EditFiles
    <2> HIDE DEF j
    <2>2. i = [tree |-> j.tree, dirty |-> TRUE, conflicts |-> j.conflicts]
      BY <1>1, ExceptIndex
    <2>3. i.tree = j.tree
      BY <2>2
    <2> HIDE DEF i
    <2> QED BY <1>2, <1>3, <2>1, <2>3, NothingRecorded
  <1>6. CASE ResolveConflicts
    <2> DEFINE i == [j EXCEPT !.conflicts = FALSE]
    <2>1. repo' = [repo EXCEPT !.index = i]
      BY <1>6 DEF ResolveConflicts
    <2> HIDE DEF j
    <2>2. i = [tree |-> j.tree, dirty |-> j.dirty, conflicts |-> FALSE]
      BY <1>1, ExceptIndex
    <2>3. i.tree = j.tree
      BY <2>2
    <2> HIDE DEF i
    <2> QED BY <1>2, <1>3, <2>1, <2>3, NothingRecorded
  <1> QED BY <1>4, <1>5, <1>6

(* git used outside of the program.                                          *)
LEMMA CommitOutsideTrees ==
  ASSUME SoundState, Ready, Trees, CommitOutside
  PROVE  Trees'
  <1> DEFINE o == commit(repo, <<>>, FALSE)
             r == o.repo
  <1>1. SoundRepo(repo) /\ <<>> \in Seq(DOMAIN repo.commits)
    BY DEF SoundState
  <1>2. repo' = [r EXCEPT !.mergeHead = None] /\ o.ok
    BY DEF CommitOutside
  <1>3. HeadOf(repo) # None
    BY <1>2 DEF commit, Refused
  <1>4. History(repo) => History(r)
    BY <1>1, <1>3, CommitTrees
  <1>5. SoundRepo(r)
    BY <1>1, CommitSound DEF Committed
  <1> HIDE DEF r
  <1>6. repo' = Repo(r.commits, r.heads, r.tag, r.head, r.index, None, r.fetchHead)
    BY <1>2, <1>5, Except
  <1>7. History(r) => History(repo')
    BY <1>6, SameCommits DEF Repo
  <1>8. met \subseteq met' /\ "outside" \in met'
    BY Taken DEF CommitOutside
  <1> QED BY <1>4, <1>7, <1>8, OutsideTrees

LEMMA MoveOutsideTrees ==
  ASSUME SoundState, Ready, Trees, NEW b \in Branches, NEW c \in {None} \cup Tips,
         MoveOutside(b, c)
  PROVE  Trees'
  <1>1. SoundRepo(repo)
    BY DEF SoundState
  <1>2. repo'.commits = repo.commits
    <2>1. CASE repo' = [repo EXCEPT !.heads[b] = c]
      <3> DEFINE H == [repo.heads EXCEPT ![b] = c]
      <3>1. repo' = [repo EXCEPT !.heads = H]
        BY <2>1
      <3> HIDE DEF H
      <3> QED BY <1>1, <3>1, Except DEF Repo
    <2>2. CASE repo' = [repo EXCEPT !.tag = None]
      BY <1>1, <2>2, TagSet
    <2> QED BY <2>1, <2>2 DEF MoveOutside
  <1>3. History(repo) => History(repo')
    BY <1>2, SameCommits
  <1>4. met \subseteq met' /\ "outside" \in met'
    BY Taken DEF MoveOutside
  <1> QED BY <1>3, <1>4, OutsideTrees

(* The main window.                                                          *)
LEMMA GitResetTrees ==
  ASSUME SoundState, Ready, Trees, GitReset
  PROVE  Trees'
  <1>1. SoundRepo(repo) /\ UNCHANGED met /\ dialog' = "none"
    BY DEF SoundState, GitReset
  <1>2. CASE HeadOf(repo) = None
    <2>1. repo' = repo
      BY <1>2 DEF GitReset, hardReset, Refused
    <2> QED BY <1>1, <2>1, OnlyReading
  <1>3. CASE HeadOf(repo) # None
    <2>1. /\ repo'.commits = repo.commits /\ HeadOf(repo') = HeadOf(repo)
          /\ repo'.mergeHead = None /\ repo'.index.tree = Tree(repo, HeadOf(repo'))
      BY <1>1, <1>3, ResetTree DEF GitReset
    <2>2. (Kept(repo) => Kept(repo')) /\ (Pure(repo) => Pure(repo'))
      BY <2>1, ReplacedTrees DEF Kept, Pure
    <2>3. History(repo) => History(repo')
      BY <2>1, SameCommits
    <2>4. Remembered'
      BY <1>1, <1>3, <2>1 DEF Remembered
    <2> QED BY <1>1, <2>2, <2>3, <2>4, TreesNext
  <1> QED BY <1>2, <1>3

(* A commit of the program, from the main window or a pull.                  *)
LEMMA CommitStepTrees ==
  ASSUME SoundState, Ready, Trees, NEW parents, NEW stays \in BOOLEAN,
         repo' = commit(repo, parents, stays).repo,
         parents \in Seq(DOMAIN repo.commits),
         Without({"outside"}) => parents = <<>> \/ Recorded(repo, parents),
         HeadOf(repo) = None => parents = <<>>,
         UNCHANGED met, dialog' \notin {"checkout", "committing"}
  PROVE  Trees'
  <1>1. SoundRepo(repo)
    BY DEF SoundState
  <1>2. CASE HeadOf(repo) = None
    <2>1. repo' = repo
      BY <1>2 DEF commit, Refused
    <2> QED BY <2>1, OnlyReading
  <1>3. CASE HeadOf(repo) # None /\ Without({"outside"})
    <2>1. /\ History(repo) => History(repo')
          /\ Kept(repo) => Kept(repo')
          /\ Kept(repo) /\ Pure(repo) /\ History(repo) => Pure(repo')
      BY <1>1, <1>3, CommitTrees
    <2>2. HeadOf(repo') # None
      BY <1>1, <1>3, CommitSound DEF Committed
    <2>3. Remembered'
      BY <2>2 DEF Remembered
    <2> QED BY <2>1, <2>3, TreesNext DEF Trees
  <1>4. CASE HeadOf(repo) # None /\ ~Without({"outside"})
    <2>1. "outside" \in met'
      BY <1>4 DEF Without
    <2>2. History(repo) => History(repo')
      <3>1. CASE parents = <<>>
        BY <1>1, <1>4, <3>1, CommitTrees
      <3>2. CASE parents # <<>>
        <4>1. repo' = git_commit_create(repo, parents, stays).repo
          BY <3>2 DEF commit
        <4>2. repo' = repo \/ MadeOf(repo, repo', parents, repo.index.tree)
          BY <1>1, <1>4, <3>2, <4>1, CommitCreateMade
        <4>3. SoundRepo(repo')
          BY <1>1, <1>4, CommitSound DEF Committed
        <4> QED BY <1>1, <4>2, <4>3, OneMore
      <3> QED BY <3>1, <3>2
    <2> QED BY <2>1, <2>2, OutsideTrees
  <1> QED BY <1>2, <1>3, <1>4

LEMMA GitCommitTrees ==
  ASSUME SoundState, Ready, Trees, GitCommit
  PROVE  Trees'
  <1>1. repo.index.dirty \in BOOLEAN /\ <<>> \in Seq(DOMAIN repo.commits)
    BY RepoFields DEF SoundState
  <1>2. PICK stays \in BOOLEAN : repo' = commit(repo, <<>>, stays).repo
    BY <1>1 DEF GitCommit
  <1>3. UNCHANGED met /\ dialog' = "none"
    BY DEF GitCommit
  <1> QED BY <1>1, <1>2, <1>3, CommitStepTrees

LEMMA CommitMergeTrees ==
  ASSUME SoundState, Ready, Trees, CommitMerge
  PROVE  Trees'
  <1>1. repo.index.dirty \in BOOLEAN /\ DOMAIN repo.commits = 1 .. Len(repo.commits)
    BY RepoFields DEF SoundState
  <1>2. PICK stays \in BOOLEAN : repo' = commit(repo, pending.parents, stays).repo
    BY <1>1 DEF CommitMerge
  <1>3. pending.parents \in Seq(DOMAIN repo.commits) /\ HeadOf(repo) # None
        /\ pending.back \in {"pull", "fetching", "fetched"}
    BY <1>1 DEF SoundState, SoundPending, Ready, CommitMerge
  <1>4. UNCHANGED met /\ dialog' = pending.back
    BY DEF CommitMerge
  <1>5. Without({"outside"}) => Recorded(repo, pending.parents)
    BY DEF Trees, Remembered, CommitMerge
  <1> QED BY <1>2, <1>3, <1>4, <1>5, CommitStepTrees

LEMMA DeleteBranchTrees ==
  ASSUME SoundState, Ready, Trees, NEW b \in Branches, DeleteBranch(b)
  PROVE  Trees'
  <1> DEFINE deleted == git_branch_delete(repo, b)
  <1>1. SoundRepo(repo) /\ None \in 0 .. Len(repo.commits)
        /\ repo.head.branch \in Branches \cup {NoBranch}
    BY RepoFields DEF SoundState, None
  <1>2. repo' = deleted.repo /\ UNCHANGED met /\ dialog' = "none"
    BY DEF DeleteBranch
  <1>3. CASE repo.heads[b] = None \/ repo.head.branch = b
    <2>1. repo' = repo
      BY <1>2, <1>3 DEF git_branch_delete, Refused
    <2> QED BY <1>2, <2>1, OnlyReading
  <1>4. CASE ~ (repo.heads[b] = None \/ repo.head.branch = b)
    <2>1. repo' = [repo EXCEPT !.heads[b] = None]
      BY <1>2, <1>4 DEF git_branch_delete, Done
    <2>2. Moved(repo, repo', b, None)
      BY <1>1, <2>1, HeadsSet
    <2>3. HeadOf(repo') = HeadOf(repo)
      BY <1>1, <1>4, <2>2 DEF Moved, HeadOf
    <2> QED BY <1>2, <2>2, <2>3, NothingRecorded DEF Moved
  <1> QED BY <1>3, <1>4

(* A checkout of the program: the index becomes what HEAD is then.           *)
LEMMA CheckedOutTrees ==
  ASSUME SoundState, Trees, met \subseteq met', repo'.commits = repo.commits,
         "outside" \in met' \/
           /\ HeadOf(repo') # None
           /\ repo'.index.tree = Tree(repo, HeadOf(repo'))
           /\ repo'.mergeHead = repo.mergeHead
           /\ dialog' = "checkout" =>
                offers' = [branches |-> repo'.heads, tag |-> repo'.tag],
         repo.mergeHead # None => "switched" \in met',
         dialog' # "committing"
  PROVE  Trees'
  <1>1. History(repo) => History(repo')
    BY SameCommits
  <1>2. CASE "outside" \in met'
    BY <1>1, <1>2, OutsideTrees
  <1>3. CASE "outside" \notin met'
    <2>1. Remembered'
      BY <1>3 DEF Remembered
    <2>2. (Careful' => repo.mergeHead = None) /\ (Finished' => Careful')
      BY DEF Careful, Finished, Without
    <2>3. ASSUME Careful'
          PROVE  (Kept(repo) => Kept(repo')) /\ (Pure(repo) => Pure(repo'))
      BY <1>3, <2>2, <2>3, ReplacedTrees DEF Kept, Pure
    <2> QED BY <1>1, <2>1, <2>2, <2>3, TreesNext
  <1> QED BY <1>2, <1>3

LEMMA NewBranchTrees ==
  ASSUME SoundState, Ready, Trees, NEW b \in Branches,
         NEW c \in DOMAIN repo.commits, NewBranch(b, c)
  PROVE  Trees'
  <1> DEFINE created == git_branch_create(repo, b, c)
             r == created.repo
             l == loadBranches(r, lgit)
  <1>1. /\ SoundRepo(repo) /\ Len(repo.commits) \in Nat
        /\ HeadOf(repo) \in 0 .. Len(repo.commits)
        /\ repo.head.branch \in Branches \cup {NoBranch}
    BY RepoFields DEF SoundState
  <1>2. c \in 0 .. Len(repo.commits) /\ c # None
    BY <1>1, RepoFields DEF None
  <1>3. created.ok
    BY DEF NewBranch
  <1>4. repo.heads[b] = None /\ r = [repo EXCEPT !.heads[b] = c]
    BY <1>3 DEF git_branch_create, Refused, Done
  <1>5. Moved(repo, [repo EXCEPT !.heads[b] = c], b, c)
    BY <1>1, <1>2, HeadsSet
  <1>6. Moved(repo, r, b, c)
    BY <1>4, <1>5
  <1>7. SoundRepo(r) /\ r.commits = repo.commits /\ r.heads[b] = c
    BY <1>6 DEF Moved
  <1> HIDE DEF r
  <1>8. SoundLists(l, Len(repo.commits)) /\ l.branches = list(r)
    BY <1>7, LoadSound DEF SoundState
  <1>9. CASE repo' = r /\ UNCHANGED <<lgit, halted, met>>
    <2>1. CASE HeadOf(repo) = None
      <3>1. "outside" \in met'
        BY <1>9, <2>1 DEF Trees, Remembered, Without
      <3> QED BY <1>7, <1>9, <3>1, OutsideTrees, SameCommits
    <2>2. CASE HeadOf(repo) # None
      <3>1. HeadOf(r) = HeadOf(repo)
        BY <1>1, <1>4, <1>6, <2>2 DEF Moved, HeadOf
      <3>2. dialog' = "none"
        BY DEF NewBranch
      <3> QED BY <1>6, <1>9, <3>1, <3>2, NothingRecorded DEF Moved
    <2> QED BY <2>1, <2>2
  <1>10. CASE /\ repo' = checkoutNew(r, l, b).repo
              /\ \E L : Take(L \cup If(repo.mergeHead # None, "switched"))
    <2> DEFINE k == CHOOSE j \in DOMAIN l.branches :
                      l.branches[j].name = b /\ l.branches[j].kind = "local"
               tip == l.branches[k].tip
    <2>1. \E j \in DOMAIN l.branches :
            l.branches[j].name = b /\ l.branches[j].kind = "local"
      BY <1>2, <1>7, <1>8, ListSound
    <2>2. k \in DOMAIN l.branches /\ l.branches[k].name = b /\ l.branches[k].kind = "local"
      BY <2>1
    <2>3. tip = c
      BY <1>7, <1>8, <2>2, ListTips
    <2>4. repo' = set_head_branch(git_checkout_tree(r, tip), b)
      BY <1>10 DEF checkoutNew, Done
    <2> HIDE DEF tip, k, l
    <2>5. /\ repo'.commits = r.commits /\ repo'.mergeHead = r.mergeHead
          /\ repo'.index.tree = Tree(r, c) /\ HeadOf(repo') = c
      BY <1>2, <1>7, <2>3, <2>4, HeadBranchTree
    <2>6. /\ repo'.commits = repo.commits /\ repo'.mergeHead = repo.mergeHead
          /\ repo'.index.tree = Tree(repo, HeadOf(repo')) /\ HeadOf(repo') # None
      BY <1>2, <1>6, <1>7, <2>5, SameCommits DEF Moved
    <2>7. met \subseteq met' /\ (repo.mergeHead # None => "switched" \in met')
      BY <1>10, Taken DEF If
    <2>8. dialog' = "none"
      BY DEF NewBranch
    <2> QED BY <2>6, <2>7, <2>8, CheckedOutTrees
  <1> QED BY <1>9, <1>10 DEF NewBranch, r

LEMMA CheckoutBranchTrees ==
  ASSUME SoundState, Ready, Trees, NEW b \in Branches, CheckoutBranch(b)
  PROVE  Trees'
  <1> DEFINE l == loadBranches(repo, lgit)
             tip == offers.branches[b]
             o == checkoutBranch(repo, l, b, tip)
  <1>1. SoundRepo(repo)
    BY DEF SoundState
  <1>2. tip \in 0 .. Len(repo.commits)
    BY DEF SoundState, SoundOffers
  <1>3. /\ repo' = o.repo /\ dialog = "checkout" /\ UNCHANGED <<dialog, offers>>
        /\ Take(If(o.ok /\ repo.mergeHead # None, "switched")) /\ tip # None
    BY DEF CheckoutBranch
  <1>4. met \subseteq met' /\ (o.ok /\ repo.mergeHead # None => "switched" \in met')
    BY <1>3, Taken DEF If
  <1>5. Without({"outside"}) =>
          offers = [branches |-> repo.heads, tag |-> repo.tag] /\ tip = repo.heads[b]
    BY <1>3 DEF Trees, Remembered
  <1>6. "outside" \in met' \/ Without({"outside"})
    BY <1>4 DEF Without
  <1>7. CASE UpToDate(l, tip)
    <2>1. o.ok /\ repo' = set_head_branch(git_checkout_tree(repo, tip), b)
      BY <1>3, <1>7 DEF checkoutBranch, Done
    <2> HIDE DEF tip, o
    <2>2. /\ repo'.commits = repo.commits /\ repo'.heads = repo.heads
          /\ repo'.tag = repo.tag /\ repo'.mergeHead = repo.mergeHead
          /\ repo'.index.tree = Tree(repo, tip) /\ HeadOf(repo') = repo.heads[b]
      BY <1>1, <1>2, <2>1, HeadBranchTree
    <2> QED BY <1>3, <1>4, <1>5, <1>6, <2>1, <2>2, CheckedOutTrees
  <1>8. CASE ~UpToDate(l, tip)
    <2>1. repo' = repo
      BY <1>3, <1>8 DEF checkoutBranch, Refused
    <2>2. CASE Without({"outside"})
      BY <1>3, <1>4, <1>5, <2>1, <2>2, OnlyReading
    <2>3. CASE "outside" \in met'
      BY <1>4, <2>1, <2>3, OutsideTrees
    <2> QED BY <1>6, <2>2, <2>3
  <1> QED BY <1>7, <1>8

LEMMA CheckoutTagTrees ==
  ASSUME SoundState, Ready, Trees, CheckoutTag
  PROVE  Trees'
  <1>1. SoundRepo(repo) /\ offers.tag \in 0 .. Len(repo.commits)
    BY DEF SoundState, SoundOffers
  <1>2. /\ repo' = checkoutTag(repo, offers.tag).repo
        /\ dialog = "checkout" /\ UNCHANGED <<dialog, offers>> /\ offers.tag # None
        /\ Take(If(repo.mergeHead # None, "switched"))
    BY DEF CheckoutTag
  <1>3. met \subseteq met' /\ (repo.mergeHead # None => "switched" \in met')
    BY <1>2, Taken DEF If
  <1>4. repo'.commits = repo.commits
    BY <1>1, <1>2, CheckoutTagSound DEF CheckedOut
  <1>5. CASE Without({"outside"})
    <2>1. offers = [branches |-> repo.heads, tag |-> repo.tag] /\ repo.tag = offers.tag
      BY <1>2, <1>5 DEF Trees, Remembered
    <2>2. /\ repo'.heads = repo.heads /\ repo'.tag = repo.tag
          /\ repo'.mergeHead = repo.mergeHead
          /\ repo'.index.tree = Tree(repo, repo.tag) /\ HeadOf(repo') = repo.tag
      BY <1>1, <1>2, <2>1, HeadTagTree
    <2> QED BY <1>2, <1>3, <1>4, <2>1, <2>2, CheckedOutTrees
  <1>6. CASE ~Without({"outside"})
    <2>1. "outside" \in met'
      BY <1>3, <1>6 DEF Without
    <2> QED BY <1>3, <1>4, <2>1, OutsideTrees, SameCommits
  <1> QED BY <1>5, <1>6

(* What a fetch brings has all that it was made of, and is in no index.      *)
LEMMA EndFetchTrees ==
  ASSUME SoundState, Ready, Trees, NEW b \in Branches, NEW all \in BOOLEAN,
         NEW grows \in BOOLEAN, EndFetch(b, all, grows), SoundState'
  PROVE  Trees'
  <1> DEFINE r == Upstream(b, grows)
             n == Len(r.commits)
             tips == IF grows THEN [upstream EXCEPT ![b] = n] ELSE upstream
             F == [c \in Branches |-> IF all \/ c = b THEN tips[c] ELSE None]
             u == upstream[b]
             parents == << u >>
             tree == Tree(repo, u)
  <1>1. /\ SoundRepo(repo) /\ Len(repo.commits) \in Nat
        /\ DOMAIN repo.commits = 1 .. Len(repo.commits) /\ u \in 1 .. Len(repo.commits)
        /\ HeadOf(repo) \in 0 .. Len(repo.commits) /\ repo.mergeHead \in 0 .. Len(repo.commits)
    BY RepoFields, Shape DEF SoundState
  <1>2. SoundRepo(r)
    BY UpstreamSound
  <1>3. repo' = [r EXCEPT !.fetchHead = F] /\ UNCHANGED met
        /\ dialog' \in {"fetched", "fetching"}
    BY DEF EndFetch
  <1>4. u \in DOMAIN repo.commits /\ parents \in Seq(DOMAIN repo.commits) /\ parents # <<>>
        /\ DOMAIN parents = {1} /\ parents[1] = u
    BY <1>1, ShortLists, ListParts
  <1>5. tree \in SUBSET Nat
    BY <1>1, PastAndTree
  <1>6. r = IF grows THEN AddCommit(repo, parents, tree) ELSE repo
    BY DEF Upstream
  <1> HIDE DEF r, F, parents
  <1>7. repo' = Repo(r.commits, r.heads, r.tag, r.head, r.index, r.mergeHead, F)
    BY <1>2, <1>3, Except
  <1>8. /\ repo'.commits = r.commits /\ repo'.heads = r.heads /\ repo'.head = r.head
        /\ repo'.index = r.index /\ repo'.mergeHead = r.mergeHead
    BY <1>7 DEF Repo
  <1>9. CASE ~grows
    <2>1. r = repo
      BY <1>6, <1>9
    <2>2. HeadOf(repo') = HeadOf(repo)
      BY <1>8, <2>1 DEF HeadOf
    <2> QED BY <1>3, <1>8, <2>1, <2>2, NothingRecorded
  <1>10. CASE grows
    <2> DEFINE t == AddCommit(repo, parents, tree)
    <2>1. r = t
      BY <1>6, <1>10
    <2>2. /\ t = Repo(t.commits, repo.heads, repo.tag, repo.head, repo.index,
                      repo.mergeHead, repo.fetchHead)
          /\ MadeOf(repo, t, parents, tree)
      BY <1>1, <1>4, <1>5, AddCommitSound, AddCommitMade
    <2> HIDE DEF t, tree
    <2>3. /\ repo'.commits = t.commits /\ repo'.index = repo.index
          /\ repo'.mergeHead = repo.mergeHead /\ HeadOf(repo') = HeadOf(repo)
      BY <1>8, <2>1, <2>2 DEF Repo, HeadOf
    <2>4. MadeOf(repo, repo', parents, tree)
      BY <2>2, <2>3, SameCommits DEF MadeOf, Grown
    <2>5. SoundRepo(repo')
      BY DEF SoundState
    <2>6. /\ History(repo) => History(repo')
          /\ Monotone(repo) => Monotone(repo')
          /\ Contained(repo) => Contained(repo')
      <3>1. \A k \in DOMAIN parents : Tree(repo, parents[k]) \subseteq tree
        BY <1>4 DEF tree
      <3>2. UNION {Past(repo, parents[k]) : k \in DOMAIN parents} = Past(repo, u)
        BY <1>4
      <3>3. Contained(repo) =>
              tree \subseteq UNION {Past(repo, parents[k]) : k \in DOMAIN parents}
        BY <1>4, <3>2 DEF Contained, tree
      <3> QED BY <1>1, <1>4, <2>4, <2>5, <3>1, <3>3, OneMore
    <2>7. /\ Tree(repo', HeadOf(repo')) = Tree(repo, HeadOf(repo))
          /\ Tree(repo', repo'.mergeHead) = Tree(repo, repo.mergeHead)
      BY <1>1, <2>3, <2>4, GrownTrees DEF MadeOf
    <2>8. (Kept(repo) => Kept(repo')) /\ (Pure(repo) => Pure(repo'))
      BY <2>3, <2>6, <2>7 DEF Kept, Carried, Pure, Accounted
    <2>9. Remembered'
      BY <1>3, <2>3 DEF Trees, Remembered, Without
    <2> QED BY <1>3, <2>6, <2>8, <2>9, TreesNext
  <1> QED BY <1>9, <1>10

LEMMA FastForwardTrees ==
  ASSUME SoundState, Ready, Trees, ClickMerge, chosen.at <= Len(lgit.branches),
         FastForward(lgit.branches[chosen.at])
  PROVE  Trees'
  <1> DEFINE e == lgit.branches[chosen.at]
             n == Len(repo.commits)
  <1>1. /\ e.name \in Branches /\ e.name = lgit.current.branch /\ e.tip \in 1 .. n
        /\ "nested" \notin met /\ dialog = "pull" =>
             e.name = chosen.name /\ e.tip = chosen.tip
        /\ Without({"outside", "nested"}) /\ dialog = "pull" => Analysed(repo, lgit, chosen)
    BY EntryClicked
  <1>2. SoundRepo(repo) /\ n \in Nat /\ e.tip \in 0 .. n /\ e.tip # None
        /\ DOMAIN repo.commits = 1 .. n
    BY <1>1, RepoFields DEF SoundState, None
  <1>3. /\ lgit.analysis = "fastforward" /\ UNCHANGED dialog
        /\ dialog \in {"pull", "fetching", "fetched"}
        /\ Take(If(Nested, "nested") \cup If(~Clean(repo), "covered"))
    BY DEF FastForward, ClickMerge, Click
  <1>4. /\ met \subseteq met'
        /\ dialog # "pull" => "nested" \in met'
        /\ ~Clean(repo) => "covered" \in met'
    BY <1>3, Taken DEF If, Nested
  <1>5. PICK o \in fastForwardSha(repo, e.name, e.tip) : repo' = o.repo
    BY DEF FastForward
  <1> HIDE DEF e
  <1>6. /\ repo'.commits = repo.commits /\ repo'.head = repo.head
        /\ \/ repo'.heads = repo.heads
           \/ \A b \in Branches : repo'.heads[b] = IF b = e.name THEN e.tip ELSE repo.heads[b]
    BY <1>1, <1>2, <1>5, FastForwardSound
  <1>7. History(repo) => History(repo')
    BY <1>6, SameCommits
  <1>8. HeadOf(repo) # None => HeadOf(repo') # None
    <2>1. repo.head.branch \in Branches \cup {NoBranch}
      BY <1>2, RepoFields
    <2> QED BY <1>2, <1>6, <2>1 DEF HeadOf
  <1>9. Remembered'
    BY <1>3, <1>4, <1>8 DEF Trees, Remembered, Without
  <1>10. ASSUME Careful'
         PROVE  (Kept(repo) => Kept(repo')) /\ (Pure(repo) => Pure(repo'))
    <2>1. /\ Without({"outside", "nested"}) /\ Without({"outside"}) /\ dialog = "pull"
          /\ Clean(repo) /\ "nested" \notin met
      BY <1>3, <1>4, <1>10 DEF Careful, Without
    <2>2. HeadOf(repo) # None /\ e.name # NoBranch
      BY <1>1, <2>1, NoBranchAssumption DEF Trees, Remembered
    <2>3. /\ e.name = chosen.name /\ e.tip = chosen.tip
          /\ e.name = repo.head.branch /\ HeadOf(repo) \in Past(repo, e.tip)
      BY <1>1, <1>3, <2>1, <2>2 DEF Analysed
    <2>4. /\ HeadOf(repo') = e.tip
          /\ repo'.mergeHead = repo.mergeHead /\ repo'.index.tree = Tree(repo, e.tip)
      BY <1>1, <1>2, <1>5, <2>1, <2>2, <2>3, FastForwardTree
    <2>5. HeadOf(repo') \in DOMAIN repo.commits
      BY <1>1, <1>2, <2>4
    <2> QED BY <1>2, <1>6, <2>1, <2>3, <2>4, <2>5, ForwardTrees
  <1>11. Finished' => Careful'
    BY DEF Careful, Finished, Without
  <1> QED BY <1>4, <1>7, <1>9, <1>10, <1>11, TreesNext

LEMMA MergeStepTrees ==
  ASSUME SoundState, Ready, Trees, ClickMerge, chosen.at <= Len(lgit.branches),
         Merge(lgit.branches[chosen.at])
  PROVE  Trees'
  <1> DEFINE e == lgit.branches[chosen.at]
             n == Len(repo.commits)
             parents == << lgit.current.oid, e.tip >>
  <1>1. e.tip \in 1 .. n /\ lgit.current.oid \in 1 .. n
    BY EntryClicked
  <1>2. /\ SoundRepo(repo) /\ DOMAIN repo.commits = 1 .. n
        /\ HeadOf(repo) \in 0 .. n
    BY RepoFields DEF SoundState
  <1>3. /\ dialog \in {"pull", "fetching", "fetched"}
        /\ Take(If(Nested, "nested") \cup If(Unfinished, "again"))
    BY DEF Merge, ClickMerge, Click
  <1>4. met \subseteq met' /\ (Unfinished => "again" \in met')
    BY <1>3, Taken DEF If
  <1>5. PICK o \in git_merge(repo, e.tip) :
          /\ repo' = o.repo
          /\ \/ /\ o.ok /\ dialog' = "committing"
                /\ pending' = [parents |-> parents, back |-> dialog]
             \/ UNCHANGED <<dialog, pending>>
    BY DEF Merge, mergeBranch
  <1> HIDE DEF e
  <1>6. SameRefs(repo, repo')
    BY <1>1, <1>2, <1>5, MergeSound
  <1>7. repo'.commits = repo.commits /\ HeadOf(repo') = HeadOf(repo)
    BY <1>6 DEF SameRefs, HeadOf
  <1>8. History(repo) => History(repo')
    BY <1>7, SameCommits
  <1>9. Without({"outside"})' => Without({"outside"}) /\ HeadOf(repo) # None
    BY <1>4 DEF Without, Trees, Remembered
  <1>10. ASSUME HeadOf(repo) # None
         PROVE  /\ Kept(repo) => Kept(repo')
                /\ Kept(repo) /\ Pure(repo)
                   /\ (repo.mergeHead = None \/ repo.mergeHead \in Past(repo, HeadOf(repo)))
                     => Pure(repo')
                /\ o.ok => repo'.mergeHead = e.tip
    BY <1>1, <1>2, <1>5, <1>10, MergeTrees
  <1>11. ASSUME Without({"outside"})', dialog' = "committing"
         PROVE  Recorded(repo', pending'.parents)
    <2>1. o.ok /\ pending'.parents = parents
      BY <1>3, <1>5, <1>11
    <2>2. repo'.mergeHead = e.tip /\ e.tip # None
      BY <1>1, <1>9, <1>10, <1>11, <2>1 DEF None
    <2>3. lgit.current.oid \in DOMAIN repo'.commits
      BY <1>1, <1>2, <1>7
    <2> QED BY <2>1, <2>2, <2>3 DEF Recorded
  <1>12. Remembered'
    <2>1. dialog' # "checkout"
      BY <1>3, <1>5
    <2> QED BY <1>7, <1>9, <1>11, <2>1 DEF Remembered
  <1>13. Careful' /\ Kept(repo) => Kept(repo')
    BY <1>9, <1>10 DEF Careful, Without
  <1>14. Finished' /\ Kept(repo) /\ Pure(repo) => Pure(repo')
    BY <1>4, <1>9, <1>10 DEF Finished, Without, Unfinished
  <1> QED BY <1>4, <1>8, <1>12, <1>13, <1>14, TreesNext

LEMMA ClickMergeTrees ==
  ASSUME SoundState, Ready, Trees, ClickMerge
  PROVE  Trees'
  <1>1. chosen.at \in Nat /\ Len(lgit.branches) \in Nat
    BY ListsFields DEF SoundState, SoundLists, SoundChoice
  <1>2. CASE chosen.at > Len(lgit.branches)
    <2>1. /\ Take(If(Nested, "nested")) /\ UNCHANGED <<repo, dialog>>
          /\ dialog \in {"pull", "fetching", "fetched"}
      BY <1>2 DEF ClickMerge, Click
    <2>2. met \subseteq met'
      BY <2>1, Taken
    <2> QED BY <2>1, <2>2, OnlyReading
  <1>3. CASE chosen.at <= Len(lgit.branches)
    <2>1. ~(chosen.at > Len(lgit.branches))
      BY <1>1, <1>3
    <2>2. FastForward(lgit.branches[chosen.at]) \/ Merge(lgit.branches[chosen.at])
      BY <2>1 DEF ClickMerge
    <2> QED BY <1>3, <2>2, FastForwardTrees, MergeStepTrees
  <1> QED BY <1>1, <1>2, <1>3

-----------------------------------------------------------------------------
(* The behaviours.                                                           *)

LEMMA InitTrees ==
  ASSUME Init
  PROVE  Trees
  <1> DEFINE first == [parents |-> <<>>, past |-> {1}, tree |-> {1}]
             commits == << first >>
             heads == [b \in Branches |-> IF b = Master THEN 1 ELSE None]
             head == [branch |-> Master, at |-> None]
             index == [tree |-> {1}, dirty |-> FALSE, conflicts |-> FALSE]
             fetchHead == [b \in Branches |-> None]
  <1>1. first.past = {1} /\ first.tree = {1}
    OBVIOUS
  <1> HIDE DEF first
  <1>2. DOMAIN commits = {1} /\ commits[1] = first
    BY ListParts
  <1> HIDE DEF commits
  <1>3. repo = Repo(commits, heads, 1, head, index, None, fetchHead)
    BY DEF Init, Repo, commits, first
  <1>4. index.tree = {1} /\ head.branch = Master /\ heads[Master] = 1
    BY MasterAssumption
  <1> HIDE DEF heads, head, index, fetchHead
  <1>5. /\ repo.commits = commits /\ repo.heads = heads
        /\ repo.head = head /\ repo.index = index /\ repo.mergeHead = None
    BY <1>3 DEF Repo
  <1>6. HeadOf(repo) = 1
    BY <1>4, <1>5, MasterAssumption, NoBranchAssumption DEF HeadOf
  <1>7. Past(repo, 1) = {1} /\ Tree(repo, 1) = {1} /\ Tree(repo, None) = {}
    BY <1>1, <1>2, <1>5 DEF Past, Tree, None
  <1>8. History(repo) /\ Monotone(repo) /\ Contained(repo)
    BY <1>2, <1>5, <1>7 DEF History, Monotone, Contained
  <1>9. Carried(repo) /\ Accounted(repo)
    BY <1>4, <1>5, <1>6, <1>7 DEF Carried, Accounted
  <1>10. Remembered
    BY <1>6 DEF Init, Remembered, None
  <1> QED BY <1>8, <1>9, <1>10 DEF Trees, Kept, Pure

LEMMA StepTrees ==
  ASSUME SoundState, Ready, Trees, Next
  PROVE  Trees'
  <1>1. SoundState'
    BY StepGood DEF GoodStep
  <1>2. CASE Others
    BY <1>2, FilesTrees, CommitOutsideTrees, MoveOutsideTrees DEF Others
  <1>3. CASE MainWindow
    BY <1>3, FilesTrees, GitResetTrees, GitCommitTrees, DeleteBranchTrees, NewBranchTrees,
       ReadingTrees, CheckoutTagTrees, CheckoutBranchTrees DEF MainWindow
  <1>4. CASE Pull
    BY <1>1, <1>4, ReadingTrees, EndFetchTrees, ClickMergeTrees, CommitMergeTrees DEF Pull
  <1> QED BY <1>2, <1>3, <1>4 DEF Next

(* The inductive invariant: the index holds HEAD and what MERGE_HEAD names,  *)
(* and nothing else, so that a commit of both contains what it says.         *)
THEOREM TreesKept == Spec => []Trees
  <1>1. Init => Trees
    BY InitTrees
  <1>2. SoundState /\ Ready /\ Trees /\ [Next]_vars => Trees'
    <2>1. ASSUME SoundState, Ready, Trees, UNCHANGED vars PROVE Trees'
      <3>1. /\ repo' = repo /\ met' = met /\ dialog' = dialog /\ offers' = offers
            /\ pending' = pending
        BY <2>1 DEF vars
      <3>2. Remembered'
        BY <2>1, <3>1 DEF Trees, Remembered, Without
      <3> QED BY <2>1, <3>1, <3>2, TreesNext
    <2> QED BY <2>1, StepTrees
  <1> QED BY <1>1, <1>2, Inductive, PTL DEF Spec

(* Whatever is merged, committed, checked out or fetched in the dialogs, a   *)
(* commit contains the changes of every commit in its history: lgit::commit  *)
(* commits the index the merge was made in, and not another.                 *)
THEOREM NothingIsMergedAway == Spec => []NothingMergedAway
  <1>1. SoundState /\ Trees => NothingMergedAway
    <2> SUFFICES ASSUME SoundState, Trees, Careful, NEW c \in DOMAIN repo.commits,
                        NEW d \in repo.commits[c].past
                 PROVE  d \in repo.commits[c].tree
      BY DEF NothingMergedAway, Careful
    <2>1. c # None /\ d \in DOMAIN repo.commits
      BY RepoFields DEF SoundState, SoundRepo, None
    <2>2. d \in Past(repo, c) /\ Tree(repo, c) = repo.commits[c].tree
      BY <2>1 DEF Past, Tree
    <2>3. d \in Tree(repo, d)
      BY <2>1 DEF Trees, History
    <2>4. Tree(repo, d) \subseteq Tree(repo, c)
      BY <2>2 DEF Trees, Kept, Monotone
    <2> QED BY <2>2, <2>3, <2>4
  <1> QED BY <1>1, Inductive, TreesKept, PTL

(* And the changes in a commit are those of its history: what a merge put    *)
(* into the index is committed with MERGE_HEAD as a parent.                  *)
THEOREM NothingIsSmuggledIn == Spec => []NothingSmuggledIn
  <1>1. SoundState /\ Trees => NothingSmuggledIn
    <2> SUFFICES ASSUME SoundState, Trees, Finished, NEW c \in DOMAIN repo.commits
                 PROVE  repo.commits[c].tree \subseteq repo.commits[c].past
      BY DEF NothingSmuggledIn, Finished
    <2>1. c # None
      BY RepoFields DEF SoundState, None
    <2> QED BY <2>1 DEF Trees, Pure, Contained, Past, Tree
  <1> QED BY <1>1, Inductive, TreesKept, PTL

=============================================================================
