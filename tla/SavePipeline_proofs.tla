------------------------- MODULE SavePipeline_proofs -------------------------
(***************************************************************************)
(* Proofs about Save, for every repository, every table, every sequence of *)
(* edits and Saves and every failure of the programs.                      *)
(***************************************************************************)
EXTENDS SavePipeline, Sublists_proofs

-----------------------------------------------------------------------------
(* The listing of an index.                                                  *)

LEMMA NameFields ==
  ASSUME NEW n \in Name
  PROVE  n.zekyll \in Nat /\ n.label \in Nat /\ n.label \in Labels
  BY InputsAssumption DEF Name

LEMMA SameName ==
  ASSUME NEW m \in Name, NEW n \in Name, m.zekyll = n.zekyll, m.label = n.label
  PROVE  m = n
  BY DEF Name

(* Some name of a set comes before all others.                               *)
LEMMA FirstName ==
  ASSUME NEW S \in SUBSET Name, S # {}
  PROVE  \E m \in S : \A n \in S \ {m} : Before(m, n)
  <1> DEFINE Z == {n.zekyll : n \in S}
  <1>1. Z \in SUBSET Nat /\ Z # {}
    BY NameFields
  <1>2. PICK z \in Z : \A y \in Z : z <= y
    BY <1>1, LeastExists
  <1> DEFINE L == {n.label : n \in {n \in S : n.zekyll = z}}
  <1>3. L \in SUBSET Nat /\ L # {}
    BY NameFields
  <1>4. PICK l \in L : \A y \in L : l <= y
    BY <1>3, LeastExists
  <1>5. PICK m \in S : m.zekyll = z /\ m.label = l
    OBVIOUS
  <1>6. ASSUME NEW n \in S \ {m} PROVE Before(m, n)
    <2>1. z <= n.zekyll /\ z \in Nat /\ n.zekyll \in Nat
      BY <1>1, <1>2
    <2>2. CASE z < n.zekyll
      BY <2>2, <1>5 DEF Before
    <2>3. CASE z = n.zekyll
      <3>1. n.label \in L
        BY <2>3
      <3>2. l <= n.label /\ l \in Nat /\ n.label \in Nat
        BY <3>1, <1>3, <1>4
      <3>3. l # n.label
        <4>1. m \in Name /\ n \in Name
          OBVIOUS
        <4> QED BY <4>1, <1>5, <2>3, SameName
      <3> QED BY <3>2, <3>3, <2>3, <1>5 DEF Before
    <2> QED BY <2>1, <2>2, <2>3
  <1> QED BY <1>6

(* The names of S in their order.                                            *)
Ordering(S, s) ==
  /\ s \in [1 .. Cardinality(S) -> S]
  /\ \A j, k \in DOMAIN s : j < k => Before(s[j], s[k])

(* Every finite set of names can be put in order: if one could not, take a   *)
(* smallest one, put the others in order behind its first name.              *)
LEMMA OrderingExists ==
  ASSUME NEW S \in SUBSET Name, IsFiniteSet(S)
  PROVE  \E s : Ordering(S, s)
  <1> DEFINE Bad(n) == \E U \in SUBSET Name :
                         IsFiniteSet(U) /\ Cardinality(U) = n /\ ~ \E s : Ordering(U, s)
             T == {n \in Nat : Bad(n)}
  <1>1. SUFFICES ASSUME ~ \E s : Ordering(S, s) PROVE FALSE
    OBVIOUS
  <1>2. Cardinality(S) \in T
    BY <1>1, FS_CardinalityType
  <1>3. PICK n \in T : \A m \in T : n <= m
    BY <1>2, LeastExists
  <1>4. PICK U \in SUBSET Name :
          IsFiniteSet(U) /\ Cardinality(U) = n /\ ~ \E s : Ordering(U, s)
    BY <1>3
  <1>5. n \in Nat
    OBVIOUS
  <1>6. U # {}
    <2>1. ASSUME U = {} PROVE FALSE
      <3>1. Cardinality(U) = 0
        BY <2>1, FS_EmptySet
      <3>2. Ordering(U, [k \in 1 .. 0 |-> CHOOSE x \in U : TRUE])
        BY <3>1 DEF Ordering
      <3> QED BY <3>2, <1>4
    <2> QED BY <2>1
  <1>7. PICK m \in U : \A x \in U \ {m} : Before(m, x)
    BY <1>6, FirstName
  <1> DEFINE V == U \ {m}
  <1>8. IsFiniteSet(V) /\ Cardinality(V) = n - 1 /\ n - 1 \in Nat
    <2>1. IsFiniteSet(V) /\ Cardinality(V) = Cardinality(U) - 1
      BY <1>4, FS_RemoveElement
    <2>2. Cardinality(V) \in Nat
      BY <2>1, FS_CardinalityType
    <2> QED BY <2>1, <2>2, <1>4
  <1>9. PICK s : Ordering(V, s)
    <2>1. V \in SUBSET Name /\ n - 1 \notin T
      BY <1>3, <1>8, <1>5
    <2> QED BY <2>1, <1>8
  <1> DEFINE t == [k \in 1 .. n |-> IF k = 1 THEN m ELSE s[k - 1]]
  <1>10. s \in [1 .. n - 1 -> V] /\ \A j, k \in 1 .. n - 1 : j < k => Before(s[j], s[k])
    BY <1>8, <1>9 DEF Ordering
  <1>11. \A k \in 1 .. n : k = 1 \/ k - 1 \in 1 .. n - 1
    BY <1>5
  <1>12. t \in [1 .. n -> U]
    BY <1>10, <1>11
  <1>13. ASSUME NEW j \in 1 .. n, NEW k \in 1 .. n, j < k
         PROVE  Before(t[j], t[k])
    <2>1. k # 1 /\ k - 1 \in 1 .. n - 1
      BY <1>13, <1>11
    <2>2. t[k] = s[k - 1] /\ t[k] \in V
      BY <2>1, <1>10
    <2>3. CASE j = 1
      BY <2>2, <2>3, <1>7
    <2>4. CASE j # 1
      <3>1. j - 1 \in 1 .. n - 1 /\ j - 1 < k - 1
        BY <2>4, <1>13, <1>11
      <3>2. t[j] = s[j - 1]
        BY <2>4
      <3> QED BY <3>1, <3>2, <2>1, <2>2, <1>10
    <2> QED BY <2>3, <2>4
  <1>14. Ordering(U, t)
    BY <1>4, <1>12, <1>13 DEF Ordering
  <1> QED BY <1>14, <1>4

(* The files: finitely many texts, each with a name of its own.              *)
SoundFiles(f) ==
  /\ DOMAIN f \subseteq Texts /\ IsFiniteSet(DOMAIN f)
  /\ \A t \in DOMAIN f : f[t] \in Name
  /\ Unique(f)

IndexNames(f) == {f[t] : t \in {t \in DOMAIN f : f[t].zekyll \in Slots}}

Index(f) == {t \in DOMAIN f : f[t].zekyll \in Slots}

(* A listing shows names of the index, none of them twice, and all of them.  *)
LEMMA ListingSound ==
  ASSUME NEW f, SoundFiles(f)
  PROVE  /\ Listing(f) \in Seq(Name)
         /\ \A k \in DOMAIN Listing(f) :
              /\ Listing(f)[k].zekyll \in Slots
              /\ Named(f, Listing(f)[k]) # {}
         /\ \A j, k \in DOMAIN Listing(f) : Listing(f)[j] = Listing(f)[k] => j = k
         /\ Len(Listing(f)) = Cardinality(Index(f))
         /\ \A t \in Index(f) : \E k \in DOMAIN Listing(f) : Listing(f)[k] = f[t]
  <1> DEFINE N == IndexNames(f)
             s == Listing(f)
  <1>1. N \in SUBSET Name
    BY DEF SoundFiles, IndexNames
  <1>2. IsFiniteSet(N)
    <2> DEFINE D == {t \in DOMAIN f : f[t].zekyll \in Slots}
    <2>1. IsFiniteSet(D)
      BY FS_Subset DEF SoundFiles
    <2>2. IsFiniteSet({f[t] : t \in D})
      BY <2>1, ImageFinite
    <2> QED BY <2>2 DEF IndexNames
  <1>3. \E x : Ordering(N, x)
    BY <1>1, <1>2, OrderingExists
  <1>4. Ordering(N, s)
    <2>1. s = CHOOSE x \in [1 .. Cardinality(N) -> N] :
                \A j, k \in DOMAIN x : j < k => Before(x[j], x[k])
      BY DEF Listing, IndexNames
    <2>2. \E x \in [1 .. Cardinality(N) -> N] :
            \A j, k \in DOMAIN x : j < k => Before(x[j], x[k])
      BY <1>3 DEF Ordering
    <2> HIDE DEF s, N
    <2> QED BY <2>1, <2>2 DEF Ordering
  <1>5. Cardinality(N) \in Nat
    BY <1>2, FS_CardinalityType
  <1>6. s \in [1 .. Cardinality(N) -> N]
    BY <1>4 DEF Ordering
  <1>7. s \in Seq(Name)
    <2>1. s \in [1 .. Cardinality(N) -> Name]
      BY <1>1, <1>6
    <2> QED BY <2>1, <1>5, SeqDef
  <1>8. \A k \in DOMAIN s : s[k].zekyll \in Slots /\ Named(f, s[k]) # {}
    <2> SUFFICES ASSUME NEW k \in DOMAIN s
                 PROVE  s[k].zekyll \in Slots /\ Named(f, s[k]) # {}
      OBVIOUS
    <2>1. s[k] \in N
      BY <1>6
    <2>2. PICK t \in DOMAIN f : f[t].zekyll \in Slots /\ f[t] = s[k]
      BY <2>1 DEF IndexNames
    <2> QED BY <2>2 DEF Named
  <1>9. ASSUME NEW j \in DOMAIN s, NEW k \in DOMAIN s, s[j] = s[k]
        PROVE  j = k
    <2>1. \A n \in Name : ~ Before(n, n)
      BY NameFields DEF Before
    <2>2. j \in Int /\ k \in Int
      BY <1>6, <1>5
    <2>3. s[j] \in Name /\ s[k] \in Name
      BY <1>1, <1>6
    <2>4. ~ (j < k) /\ ~ (k < j)
      BY <2>1, <2>3, <1>4, <1>9 DEF Ordering
    <2> QED BY <2>2, <2>4
  <1>10. Len(s) = Cardinality(N)
    <2>1. DOMAIN s = 1 .. Cardinality(N) /\ DOMAIN s = 1 .. Len(s) /\ Len(s) \in Nat
      BY <1>6, <1>7, LenProperties
    <2> HIDE DEF s, N
    <2> QED BY <2>1, <1>5
  <1>11. Cardinality(N) = Cardinality(Index(f))
    <2> DEFINE h == [t \in Index(f) |-> f[t]]
    <2>1. IsFiniteSet(Index(f))
      BY FS_Subset DEF Index, SoundFiles
    <2>2. h \in Bijection(Index(f), N)
      <3>1. h \in [Index(f) -> N]
        BY DEF Index, IndexNames
      <3>2. \A x \in N : \E t \in Index(f) : h[t] = x
        BY DEF Index, IndexNames
      <3>3. \A x, y \in Index(f) : h[x] = h[y] => x = y
        BY DEF Index, SoundFiles, Unique
      <3> HIDE DEF h, N
      <3> QED BY <3>1, <3>2, <3>3 DEF Bijection, Injection, Surjection, IsInjective
    <2> HIDE DEF h, N
    <2> QED BY <2>1, <2>2, FS_Bijection DEF ExistsBijection
  <1>12. ASSUME NEW t \in Index(f) PROVE \E k \in DOMAIN s : s[k] = f[t]
    <2>1. f[t] \in N
      BY DEF Index, IndexNames
    <2>2. IsFiniteSet(1 .. Cardinality(N)) /\ Cardinality(1 .. Cardinality(N)) = Cardinality(N)
      BY <1>5, FS_Interval
    <2> HIDE DEF s, N
    <2>3. s \in Injection(1 .. Cardinality(N), N)
      BY <1>6, <1>9 DEF Injection, IsInjective
    <2>4. s \in Surjection(1 .. Cardinality(N), N)
      BY <1>2, <2>2, <2>3, FS_Injection
    <2> QED BY <1>6, <2>1, <2>4 DEF Surjection
  <1> QED BY <1>7, <1>8, <1>9, <1>10, <1>11, <1>12

LEMMA EntriesSound ==
  ASSUME NEW f, SoundFiles(f)
  PROVE  /\ Entries(f) \in Seq(Entry)
         /\ TextsOf(f) \in Seq(Texts)
         /\ DOMAIN Entries(f) = DOMAIN Listing(f)
         /\ DOMAIN TextsOf(f) = DOMAIN Listing(f)
         /\ \A k \in DOMAIN Listing(f) :
              /\ Entries(f)[k] = [id |-> k, name |-> Listing(f)[k]]
              /\ TextsOf(f)[k] \in DOMAIN f /\ f[TextsOf(f)[k]] = Listing(f)[k]
         /\ Len(Listing(f)) \in Nat
  <1> DEFINE L == Listing(f)
  <1>1. /\ L \in Seq(Name)
        /\ \A k \in DOMAIN L : Named(f, L[k]) # {}
    BY ListingSound
  <1> HIDE DEF L
  <1>2. Len(L) \in Nat /\ DOMAIN L = 1 .. Len(L)
    BY <1>1, LenProperties
  <1>3. \A k \in DOMAIN L : L[k] \in Name
    BY <1>1, <1>2, ElementOfSeq
  <1>4. Entries(f) = [k \in DOMAIN L |-> [id |-> k, name |-> L[k]]]
    BY DEF Entries, L
  <1>5. Entries(f) \in [1 .. Len(L) -> Entry]
    BY <1>2, <1>3, <1>4 DEF Entry
  <1>6. TextsOf(f) = [k \in DOMAIN L |-> CHOOSE t \in DOMAIN f : f[t] = L[k]]
    BY DEF TextsOf, L
  <1>7. \A k \in DOMAIN L : TextsOf(f)[k] \in DOMAIN f /\ f[TextsOf(f)[k]] = L[k]
    <2> SUFFICES ASSUME NEW k \in DOMAIN L
                 PROVE  TextsOf(f)[k] \in DOMAIN f /\ f[TextsOf(f)[k]] = L[k]
      OBVIOUS
    <2>1. \E t \in DOMAIN f : f[t] = L[k]
      BY <1>1 DEF Named
    <2> QED BY <2>1, <1>6
  <1>8. TextsOf(f) \in [1 .. Len(L) -> Texts]
    BY <1>2, <1>6, <1>7 DEF SoundFiles
  <1>9. Entries(f) \in Seq(Entry) /\ TextsOf(f) \in Seq(Texts)
    BY <1>2, <1>5, <1>8, SeqDef
  <1> QED BY <1>2, <1>4, <1>6, <1>7, <1>9 DEF L

(* What is found by its id has it.                                           *)
LEMMA Found ==
  ASSUME NEW s \in Seq(Entry), NEW id, findIdxOfId(s, id) # 0
  PROVE  findIdxOfId(s, id) \in DOMAIN s /\ s[findIdxOfId(s, id)].id = id
  <1> DEFINE T == {k \in DOMAIN s : s[k].id = id}
  <1>1. DOMAIN s = 1 .. Len(s) /\ Len(s) \in Nat
    BY LenProperties
  <1>2. T \in SUBSET Nat /\ T # {}
    BY <1>1 DEF findIdxOfId
  <1>3. PICK k \in T : \A j \in T : k <= j
    BY <1>2, LeastExists
  <1>4. \A j \in DOMAIN s : j < k => s[j].id # id
    <2> SUFFICES ASSUME NEW j \in DOMAIN s, j < k, s[j].id = id PROVE FALSE
      OBVIOUS
    <2>1. k <= j /\ j \in Nat /\ k \in Nat
      BY <1>1, <1>3
    <2> QED BY <2>1
  <1> QED BY <1>3, <1>4 DEF findIdxOfId

-----------------------------------------------------------------------------
(* The programs.                                                             *)

(* Zekylls are renamed to the first names of the index.                      *)
SoundRun(o) ==
  /\ o \in Run
  /\ o.tool = "resize" => o.size <= Capacity
  /\ o.tool = "rewrite" => o.out = [k \in DOMAIN o.in |-> k]

LEMMA RunFields ==
  ASSUME NEW o \in Run
  PROVE  /\ o.tool \in Tools
         /\ o.tool = "resize" => o.size \in Nat
         /\ o.tool = "mv" => o.from \in Name /\ o.to \in Name
         /\ o.tool = "rm" => o.name \in Name
         /\ o.tool = "rewrite" => o.in \in Seq(Nat) /\ o.out \in Seq(Nat)
  BY DEF Run, Tools

LEMMA ResizeSound ==
  ASSUME NEW f, SoundFiles(f), NEW o, SoundRun(o), o.tool = "resize", saves \in Nat,
         NEW r \in resize(f, o)
  PROVE  SoundFiles(r.files) /\ r.outcome \in {"ok", "refused"}
  <1> DEFINE index == {t \in DOMAIN f : f[t].zekyll \in Slots}
             n == Cardinality(index)
             fresh == {<<saves, k>> : k \in n + 1 .. o.size}
             gone == {t \in index : f[t].zekyll > o.size}
             g == [t \in (DOMAIN f \ gone) \cup fresh |->
                     IF t \in fresh THEN [zekyll |-> t[2], label |-> NewLabel]
                                    ELSE f[t]]
  <1>1. CASE r = Refused(f)
    BY <1>1 DEF Refused
  <1>2. CASE r = Done(g) /\ {f[t].zekyll : t \in index} = 1 .. n
    <2>1. r.files = g /\ r.outcome = "ok"
      BY <1>2 DEF Done
    <2>2. o.size \in Nat /\ o.size <= Capacity /\ Capacity \in Nat
      BY RunFields, CapacityAssumption DEF SoundRun
    <2>3. n \in Nat
      BY FS_Subset, FS_CardinalityType DEF SoundFiles
    <2>4. \A t \in fresh : /\ t[1] = saves /\ t = <<saves, t[2]>>
                           /\ t[2] \in Nat /\ t[2] > n /\ t[2] \in Slots
      BY <2>2, <2>3 DEF Slots
    <2>5. IsFiniteSet(fresh)
      <3> DEFINE K == n + 1 .. o.size
                 h == [k \in K |-> <<saves, k>>]
      <3>1. IsFiniteSet(K)
        BY <2>2, <2>3, FS_Interval
      <3>2. fresh = {h[k] : k \in K}
        OBVIOUS
      <3>3. IsFiniteSet({h[k] : k \in K})
        <4>1. K \subseteq DOMAIN h
          OBVIOUS
        <4> HIDE DEF K, h
        <4> QED BY ONLY <3>1, <4>1, ImageFinite
      <3> QED BY <3>2, <3>3
    <2>6. \A t \in DOMAIN f : f[t].zekyll \in Slots => ~ (f[t].zekyll > n)
      <3>1. \A t \in index : f[t].zekyll \in 1 .. n
        BY <1>2
      <3> QED BY <3>1, <2>3
    <2>7. DOMAIN g = (DOMAIN f \ gone) \cup fresh
      OBVIOUS
    <2>8. \A t \in DOMAIN g :
            \/ t \in fresh /\ g[t] = [zekyll |-> t[2], label |-> NewLabel]
            \/ t \in DOMAIN f /\ t \notin fresh /\ g[t] = f[t]
      OBVIOUS
    <2> HIDE DEF g, gone, fresh, index, n
    <2>9. DOMAIN g \subseteq Texts /\ IsFiniteSet(DOMAIN g)
      <3>1. IsFiniteSet(DOMAIN f \ gone)
        BY FS_Subset DEF SoundFiles
      <3>2. IsFiniteSet(DOMAIN g)
        BY <3>1, <2>5, <2>7, FS_Union
      <3>3. \A t \in fresh : t \in Texts
        BY <2>4 DEF Texts
      <3> QED BY <3>2, <3>3, <2>7 DEF SoundFiles
    <2>10. \A t \in DOMAIN g : g[t] \in Name
      BY <2>8, <2>4, InputsAssumption DEF SoundFiles, Name
    <2>11. ASSUME NEW s \in DOMAIN g, NEW t \in DOMAIN g, g[s] = g[t]
           PROVE  s = t
      <3>1. \A u \in fresh, v \in DOMAIN f :
              [zekyll |-> u[2], label |-> NewLabel] # f[v]
        BY <2>4, <2>6
      <3>2. CASE s \in fresh /\ t \in fresh
        <4>1. s[2] = t[2]
          BY <3>2, <2>8, <2>11
        <4> QED BY <4>1, <3>2, <2>4
      <3>3. CASE s \notin fresh /\ t \notin fresh
        BY <3>3, <2>8, <2>11 DEF SoundFiles, Unique
      <3> QED BY <3>1, <3>2, <3>3, <2>8, <2>11
    <2> QED BY <2>1, <2>9, <2>10, <2>11 DEF SoundFiles, Unique
  <1> QED BY <1>1, <1>2 DEF resize

LEMMA MvSound ==
  ASSUME NEW f, SoundFiles(f), NEW o, SoundRun(o), o.tool = "mv", NEW r \in mv(f, o)
  PROVE  /\ SoundFiles(r.files) /\ r.outcome \in {"ok", "refused", "broke"}
         /\ DOMAIN r.files = DOMAIN f
         /\ \A t \in DOMAIN f : \/ r.files[t] = f[t]
                                \/ f[t] = o.from /\ r.files[t] = o.to
                                   /\ Named(f, o.to) = {}
  <1> DEFINE g == [t \in DOMAIN f |-> IF f[t] = o.from THEN o.to ELSE f[t]]
  <1>1. CASE r \in {Refused(f), Broke(f)}
    BY <1>1 DEF Refused, Broke
  <1>2. CASE r = Done(g) /\ Named(f, o.to) = {}
    <2>1. r.files = g /\ r.outcome = "ok"
      BY <1>2 DEF Done
    <2>2. \A t \in DOMAIN f : f[t] # o.to
      BY <1>2 DEF Named
    <2>3. \A t \in DOMAIN f : g[t] \in Name
      BY RunFields DEF SoundRun, SoundFiles
    <2>4. \A s, t \in DOMAIN f : g[s] = g[t] => s = t
      BY <2>2 DEF SoundFiles, Unique
    <2> QED BY <2>1, <2>3, <2>4, <1>2 DEF SoundFiles, Unique
  <1> QED BY <1>1, <1>2 DEF mv

LEMMA RmSound ==
  ASSUME NEW f, SoundFiles(f), NEW o, NEW r \in rm(f, o)
  PROVE  /\ SoundFiles(r.files) /\ r.outcome \in {"ok", "refused", "broke"}
         /\ DOMAIN r.files \subseteq DOMAIN f
         /\ \A t \in DOMAIN f : IF t \in DOMAIN r.files THEN r.files[t] = f[t]
                                ELSE f[t] = o.name
  <1> DEFINE g == Less(f, Named(f, o.name))
  <1>1. CASE r \in {Refused(f), Broke(f)}
    BY <1>1 DEF Refused, Broke
  <1>2. CASE r = Done(g)
    <2>1. r.files = g /\ r.outcome = "ok"
      BY <1>2 DEF Done
    <2>2. g = [t \in DOMAIN f \ Named(f, o.name) |-> f[t]]
      BY DEF Less
    <2>3. IsFiniteSet(DOMAIN f \ Named(f, o.name))
      BY FS_Subset DEF SoundFiles
    <2>4. \A t \in Named(f, o.name) : f[t] = o.name
      BY DEF Named
    <2> QED BY <2>1, <2>2, <2>3, <2>4 DEF SoundFiles, Unique
  <1> QED BY <1>1, <1>2 DEF rm

(* Of two elements one is more than a set of at most one has.                *)
LEMMA AtMostOne ==
  ASSUME NEW S, IsFiniteSet(S), ~ (Cardinality(S) > 1), NEW s \in S, NEW t \in S
  PROVE  s = t
  <1> SUFFICES ASSUME s # t PROVE FALSE
    OBVIOUS
  <1>1. IsFiniteSet({s}) /\ Cardinality({s}) = 1
    BY FS_Singleton
  <1>2. Cardinality({s} \cup {t}) = 2
    BY <1>1, FS_AddElement
  <1>3. Cardinality({s} \cup {t}) <= Cardinality(S) /\ Cardinality(S) \in Nat
    BY FS_Subset, FS_CardinalityType
  <1> QED BY <1>2, <1>3

Numbered(n, z) == [n EXCEPT !.zekyll = z]

LEMMA NumberedName ==
  ASSUME NEW n \in Name, NEW z \in Nat
  PROVE  /\ Numbered(n, z) \in Name /\ Numbered(n, z).zekyll = z
         /\ Numbered(n, z).label = n.label
  BY DEF Numbered, Name

(* Names given by a rewriting are names.                                     *)
LEMMA RewrittenNames ==
  ASSUME NEW f, SoundFiles(f), NEW o, SoundRun(o), o.tool = "rewrite",
         NEW ks \in SUBSET DOMAIN o.in
  PROVE  /\ DOMAIN rewritten(f, o, ks) = DOMAIN f
         /\ \A t \in DOMAIN f :
              /\ rewritten(f, o, ks)[t] \in Name
              /\ \/ /\ rewritten(f, o, ks)[t] = f[t]
                    /\ \A k \in ks : o.in[k] # f[t].zekyll
                 \/ \E k \in ks : /\ o.in[k] = f[t].zekyll
                                  /\ rewritten(f, o, ks)[t] = Numbered(f[t], k)
  <1> DEFINE g == rewritten(f, o, ks)
  <1>1. /\ DOMAIN g = DOMAIN f
        /\ \A t \in DOMAIN f :
             g[t] = IF \E k \in ks : o.in[k] = f[t].zekyll
                      THEN [f[t] EXCEPT !.zekyll =
                              o.out[CHOOSE k \in ks : o.in[k] = f[t].zekyll]]
                      ELSE f[t]
    BY DEF rewritten
  <1>2. \A k \in ks : o.out[k] = k /\ k \in Nat
    <2>1. o.in \in Seq(Nat) /\ o.out = [k \in DOMAIN o.in |-> k]
      BY RunFields DEF SoundRun
    <2>2. DOMAIN o.in = 1 .. Len(o.in) /\ Len(o.in) \in Nat
      BY <2>1, LenProperties
    <2> QED BY <2>1, <2>2
  <1> HIDE DEF g
  <1>3. ASSUME NEW t \in DOMAIN f
        PROVE  /\ g[t] \in Name
               /\ \/ g[t] = f[t] /\ \A k \in ks : o.in[k] # f[t].zekyll
                  \/ \E k \in ks : /\ o.in[k] = f[t].zekyll
                                   /\ g[t] = Numbered(f[t], k)
    <2>1. f[t] \in Name
      BY DEF SoundFiles
    <2>2. CASE \E k \in ks : o.in[k] = f[t].zekyll
      <3> DEFINE c == CHOOSE k \in ks : o.in[k] = f[t].zekyll
      <3>1. c \in ks /\ o.in[c] = f[t].zekyll
        BY <2>2
      <3>2. g[t] = [f[t] EXCEPT !.zekyll = o.out[c]]
        BY <1>1, <2>2
      <3> HIDE DEF c
      <3>3. g[t] = Numbered(f[t], c) /\ c \in Nat
        BY <1>2, <3>1, <3>2 DEF Numbered
      <3>4. Numbered(f[t], c) \in Name
        BY <2>1, <3>3, NumberedName
      <3> QED BY <3>1, <3>3, <3>4
    <2>3. CASE \A k \in ks : o.in[k] # f[t].zekyll
      BY <1>1, <2>1, <2>3
    <2> QED BY <2>2, <2>3
  <1> QED BY <1>1, <1>3 DEF g

(* A rewriting gives no name twice: what gets the name of another has been   *)
(* told to give way, or there is no other.                                   *)
LEMMA RewriteSound ==
  ASSUME NEW f, SoundFiles(f), NEW o, SoundRun(o), o.tool = "rewrite",
         NEW r \in rewrite(f, o)
  PROVE  /\ SoundFiles(r.files) /\ r.outcome \in {"ok", "refused", "broke"}
         /\ DOMAIN r.files = DOMAIN f
  <1> DEFINE ks == DOMAIN o.in
             given == {o.in[k] : k \in ks}
             g == rewritten(f, o, ks)
  <1>1. CASE r = Refused(f)
    BY <1>1 DEF Refused
  <1>4. \A k \in ks : k \in Nat
    <2>1. o.in \in Seq(Nat)
      BY RunFields DEF SoundRun
    <2> QED BY <2>1, LenProperties
  <1>5. /\ DOMAIN g = DOMAIN f
        /\ \A u \in DOMAIN f :
             /\ g[u] \in Name
             /\ \/ g[u] = f[u] /\ \A k \in ks : o.in[k] # f[u].zekyll
                \/ \E k \in ks : o.in[k] = f[u].zekyll /\ g[u] = Numbered(f[u], k)
    BY RewrittenNames
  <1> HIDE DEF g
  <1>2. CASE \E some \in SUBSET ks :
               r = Broke(rewritten(f, o, some)) /\ Unique(rewritten(f, o, some))
    <2>1. PICK some \in SUBSET ks :
            r = Broke(rewritten(f, o, some)) /\ Unique(rewritten(f, o, some))
      BY <1>2
    <2>2. r.files = rewritten(f, o, some) /\ r.outcome = "broke"
      BY <2>1 DEF Broke
    <2> QED BY <2>1, <2>2, RewrittenNames DEF SoundFiles
  <1>3. CASE /\ r = Done(g)
             /\ \A z \in given : ~ (Cardinality(Owners(f, z)) > 1)
             /\ \A k \in ks : o.out[k] \in given \/ Owners(f, o.out[k]) = {}
    <2>1. r.files = g /\ r.outcome = "ok"
      BY <1>3 DEF Done
    <2>2. ASSUME NEW s \in DOMAIN f, NEW t \in DOMAIN f, NEW k \in ks,
                 o.in[k] = f[s].zekyll, g[s] = Numbered(f[s], k),
                 \A j \in ks : o.in[j] # f[t].zekyll, g[t] = f[t]
          PROVE  g[s] # g[t]
      <3>1. SUFFICES ASSUME g[s] = g[t] PROVE FALSE
        OBVIOUS
      <3>2. f[s] \in Name
        BY DEF SoundFiles
      <3>3. f[t].zekyll = k
        <4>1. Numbered(f[s], k).zekyll = k
          BY <3>2, <1>4, NumberedName
        <4>2. f[t] = Numbered(f[s], k)
          BY <2>2, <3>1
        <4> QED BY <4>1, <4>2
      <3>4. o.out[k] = k
        BY DEF SoundRun
      <3>5. t \in Owners(f, k)
        BY <3>3 DEF Owners
      <3>6. k \in given
        BY <1>3, <3>4, <3>5
      <3> QED BY <3>6, <3>3, <2>2
    <2>3. ASSUME NEW s \in DOMAIN f, NEW t \in DOMAIN f, g[s] = g[t] PROVE s = t
      <3>1. \A u \in DOMAIN f :
              \/ g[u] = f[u] /\ \A k \in ks : o.in[k] # f[u].zekyll
              \/ \E k \in ks : /\ o.in[k] = f[u].zekyll
                               /\ g[u] = Numbered(f[u], k)
        BY <1>5
      <3>2. CASE g[s] = f[s] /\ g[t] = f[t]
        BY <3>2, <2>3 DEF SoundFiles, Unique
      <3>3. CASE \E j, k \in ks : /\ o.in[j] = f[s].zekyll /\ o.in[k] = f[t].zekyll
                                  /\ g[s] = Numbered(f[s], j)
                                  /\ g[t] = Numbered(f[t], k)
        <4>1. PICK j \in ks, k \in ks :
                /\ o.in[j] = f[s].zekyll /\ o.in[k] = f[t].zekyll
                /\ g[s] = Numbered(f[s], j)
                /\ g[t] = Numbered(f[t], k)
          BY <3>3
        <4>2. f[s] \in Name /\ f[t] \in Name
          BY DEF SoundFiles
        <4>3. j = k
          <5>1. Numbered(f[s], j).zekyll = j /\ Numbered(f[t], k).zekyll = k
            BY <4>2, <1>4, NumberedName
          <5>2. Numbered(f[s], j) = Numbered(f[t], k)
            BY <4>1, <2>3
          <5> QED BY <5>1, <5>2
        <4>4. s \in Owners(f, o.in[j]) /\ t \in Owners(f, o.in[j])
          BY <4>1, <4>3 DEF Owners
        <4>5. IsFiniteSet(Owners(f, o.in[j]))
          BY FS_Subset DEF Owners, SoundFiles
        <4>6. ~ (Cardinality(Owners(f, o.in[j])) > 1)
          BY <1>3
        <4> QED BY <4>4, <4>5, <4>6, AtMostOne
      <3> QED BY <3>1, <3>2, <3>3, <2>2, <2>3
    <2>4. SoundFiles(g)
      BY <2>3, <1>5 DEF SoundFiles, Unique
    <2> QED BY <2>1, <2>4, <1>5
  <1> QED BY <1>1, <1>2, <1>3 DEF rewrite, g

(* Whatever a program does, the files stay sound.                            *)
LEMMA OutcomesSound ==
  ASSUME NEW f, SoundFiles(f), NEW o, SoundRun(o), saves \in Nat,
         NEW r \in Outcomes(f, o)
  PROVE  SoundFiles(r.files) /\ r.outcome \in {"ok", "refused", "broke"}
  <1>1. o.tool \in Tools
    BY RunFields DEF SoundRun
  <1>2. CASE o.tool = "resize"
    <2>1. r \in resize(f, o)
      BY <1>2 DEF Outcomes
    <2> QED BY <1>2, <2>1, ResizeSound
  <1>3. CASE o.tool = "mv"
    <2>1. r \in mv(f, o)
      BY <1>3 DEF Outcomes
    <2> QED BY <1>3, <2>1, MvSound
  <1>4. CASE o.tool = "rm"
    <2>1. r \in rm(f, o)
      BY <1>4 DEF Outcomes
    <2> QED BY <1>4, <2>1, RmSound
  <1>5. CASE o.tool = "rewrite"
    <2>1. r \in rewrite(f, o)
      BY <1>5 DEF Outcomes
    <2> QED BY <1>5, <2>1, RewriteSound
  <1> QED BY <1>1, <1>2, <1>3, <1>4, <1>5 DEF Tools

-----------------------------------------------------------------------------
(* Lists of entries.                                                         *)

LEMMA SeqElement ==
  ASSUME NEW S, NEW s \in Seq(S), NEW k \in DOMAIN s
  PROVE  s[k] \in S
  BY LenProperties

LEMMA MoveKeepsEntries ==
  ASSUME NEW l \in Seq(Entry), NEW a, NEW b
  PROVE  LZCSDE_move(l, a, b) \in Seq(Entry)
  <1> DEFINE j == findIdxOfId(l, a)
             k == findIdxOfId(l, b)
  <1>1. CASE j = 0 \/ k = 0
    BY <1>1 DEF LZCSDE_move
  <1>2. CASE j # 0 /\ k # 0
    <2>1. j \in DOMAIN l /\ k \in DOMAIN l
      BY <1>2, Found
    <2>2. LZCSDE_move(l, a, b) = Swapped(l, j, k)
      BY <1>2 DEF LZCSDE_move
    <2> HIDE DEF j, k
    <2>3. DOMAIN l = 1 .. Len(l) /\ l[j] \in Entry /\ l[k] \in Entry
      BY <2>1, LenProperties
    <2>4. [l EXCEPT ![j] = l[k]] \in Seq(Entry) /\ Len([l EXCEPT ![j] = l[k]]) = Len(l)
      BY <2>1, <2>3, ExceptSeq
    <2>5. [[l EXCEPT ![j] = l[k]] EXCEPT ![k] = l[j]] \in Seq(Entry)
      BY <2>1, <2>3, <2>4, ExceptSeq
    <2>6. Swapped(l, j, k) = [[l EXCEPT ![j] = l[k]] EXCEPT ![k] = l[j]]
      BY DEF Swapped
    <2> QED BY <2>2, <2>5, <2>6
  <1> QED BY <1>1, <1>2

LEMMA RemoveKeepsEntries ==
  ASSUME NEW l \in Seq(Entry), NEW a
  PROVE  removeId(l, a) \in Seq(Entry)
  <1> DEFINE k == findIdxOfId(l, a)
  <1>1. CASE k = 0
    BY <1>1 DEF removeId
  <1>2. CASE k # 0
    <2>1. k \in DOMAIN l
      BY <1>2, Found
    <2>2. removeId(l, a) = Without(l, k)
      BY <1>2 DEF removeId
    <2> HIDE DEF k
    <2>3. Len(l) \in Nat /\ DOMAIN l = 1 .. Len(l) /\ l \in [1 .. Len(l) -> Entry]
      BY LenProperties
    <2>4. Len(l) - 1 \in Nat /\ k \in Nat
      BY <2>1, <2>3
    <2>5. Without(l, k) \in [1 .. Len(l) - 1 -> Entry]
      BY <2>3, <2>4 DEF Without
    <2>6. Without(l, k) \in Seq(Entry)
      BY <2>4, <2>5, SeqDef
    <2> QED BY <2>2, <2>6
  <1> QED BY <1>1, <1>2

LEMMA EntryFields ==
  ASSUME NEW e \in Entry
  PROVE  /\ e.id \in Nat /\ e.name \in Name
         /\ \A n \in Name : [e EXCEPT !.name = n] \in Entry
  BY DEF Entry

(* An entry with another name is an entry, and so is the list with it.       *)
LEMMA EditKeepsEntries ==
  ASSUME NEW l \in Seq(Entry), NEW r \in DOMAIN l
  PROVE  /\ \A z \in Nat : [l EXCEPT ![r].name.zekyll = z] \in Seq(Entry)
         /\ \A x \in Labels : [l EXCEPT ![r].name.label = x] \in Seq(Entry)
  <1>1. r \in 1 .. Len(l) /\ l[r] \in Entry /\ l[r].name \in Name
    BY LenProperties, EntryFields
  <1>2. ASSUME NEW n \in Name PROVE [l EXCEPT ![r] = [l[r] EXCEPT !.name = n]] \in Seq(Entry)
    <2>1. [l[r] EXCEPT !.name = n] \in Entry
      BY <1>1, EntryFields
    <2> QED BY <1>1, <2>1, ExceptSeq
  <1>3. ASSUME NEW z \in Nat PROVE [l EXCEPT ![r].name.zekyll = z] \in Seq(Entry)
    <2>1. [l[r].name EXCEPT !.zekyll = z] \in Name
      BY <1>1 DEF Name
    <2> QED BY <1>2, <2>1
  <1>4. ASSUME NEW x \in Labels PROVE [l EXCEPT ![r].name.label = x] \in Seq(Entry)
    <2>1. [l[r].name EXCEPT !.label = x] \in Name
      BY <1>1 DEF Name
    <2> QED BY <1>2, <2>1
  <1> QED BY <1>3, <1>4

-----------------------------------------------------------------------------
(* What Save is to do.                                                       *)

RunsSound ==
  /\ \A k \in DOMAIN todo : SoundRun(todo[k])
  /\ \A tool \in Tools :
       running[tool] # Idle => SoundRun(running[tool]) /\ running[tool].tool = tool

(* The inductive invariant of TypeOK.                                        *)
SoundState ==
  /\ TypeOK
  /\ SoundFiles(files)
  /\ DOMAIN initial \subseteq DOMAIN shown
  /\ field \in Sizes \cup {size}
  /\ RunsSound

LEMMA ResizingSound ==
  ASSUME SoundState
  PROVE  /\ resizing \in Seq(Run)
         /\ \A k \in DOMAIN resizing :
              /\ SoundRun(resizing[k])
              /\ k = 1 /\ resizing[k].tool = "resize" /\ resizing[k].size = field
              /\ field \in Sizes \ {NotANumber}
  <1> DEFINE o == [tool |-> "resize", size |-> field]
  <1>1. CASE field \in {NotANumber, size}
    <2>1. resizing = <<>>
      BY <1>1 DEF resizing
    <2> QED BY <2>1, EmptySeq
  <1>2. CASE field \notin {NotANumber, size}
    <2>1. field \in Sizes \ {NotANumber} /\ field \in 0 .. Capacity
      BY <1>2, InputsAssumption DEF SoundState
    <2>2. SoundRun(o)
      BY <2>1, CapacityAssumption DEF SoundRun, Run
    <2>3. resizing = <<o>>
      BY <1>2 DEF resizing
    <2>4. o \in Run
      BY <2>2 DEF SoundRun
    <2> HIDE DEF o
    <2>5. DOMAIN <<o>> = {1} /\ <<o>>[1] = o /\ <<o>> \in Seq(Run)
      BY <2>4
    <2> QED BY <2>1, <2>2, <2>3, <2>5 DEF o
  <1> QED BY <1>1, <1>2

(* The entries at some places of the listing, each made into a program.      *)
LEMMA RenamesSound ==
  ASSUME SoundState
  PROVE  /\ renames \in Seq(Run)
         /\ \A n \in DOMAIN renames :
              /\ SoundRun(renames[n]) /\ renames[n].tool = "mv"
              /\ \E k \in DOMAIN initial :
                   /\ IsShown(initial[k]) /\ renames[n].from = initial[k].name
                   /\ renames[n].to = EntryOf(initial[k].id).name
                   /\ renames[n].to # renames[n].from
         /\ \A k \in DOMAIN initial :
              IsShown(initial[k]) /\ EntryOf(initial[k].id).name # initial[k].name
              => \E n \in DOMAIN renames : renames[n].from = initial[k].name
         /\ (\A j, k \in DOMAIN initial : initial[j].name = initial[k].name => j = k)
            => \A m, n \in DOMAIN renames : m # n => renames[m].from # renames[n].from
  <1> DEFINE changed(e) == IsShown(e) /\ EntryOf(e.id).name # e.name
             places == {k \in DOMAIN initial : changed(initial[k])}
             from == Sublist(initial, places)
  <1>1. initial \in Seq(Entry) /\ list \in Seq(Entry)
    BY DEF SoundState, TypeOK
  <1>2. /\ from \in Seq(Entry)
        /\ \A n \in DOMAIN from : \E k \in places : from[n] = initial[k]
        /\ \A m, n \in DOMAIN from : m # n =>
             \E i, j \in places : i # j /\ from[m] = initial[i] /\ from[n] = initial[j]
        /\ \A k \in places : \E n \in DOMAIN from : from[n] = initial[k]
    <2>1. places \in SUBSET DOMAIN initial
      OBVIOUS
    <2> HIDE DEF places
    <2> QED BY <1>1, <2>1, SublistElements, SublistPicks
  <1>3. renames = [n \in DOMAIN from |->
                     [tool |-> "mv", from |-> from[n].name,
                      to |-> EntryOf(from[n].id).name]]
    BY DEF renames
  <1>4. \A k \in places : /\ k \in DOMAIN initial /\ IsShown(initial[k])
                           /\ EntryOf(initial[k].id).name # initial[k].name
    OBVIOUS
  <1>9. \A k \in DOMAIN initial :
          IsShown(initial[k]) /\ EntryOf(initial[k].id).name # initial[k].name
          => k \in places
    OBVIOUS
  <1> HIDE DEF from, places
  <1>5. ASSUME NEW n \in DOMAIN from
        PROVE  /\ SoundRun(renames[n]) /\ renames[n].tool = "mv"
               /\ \E k \in DOMAIN initial :
                    /\ IsShown(initial[k]) /\ renames[n].from = initial[k].name
                    /\ renames[n].to = EntryOf(initial[k].id).name
                    /\ renames[n].to # renames[n].from
    <2>1. PICK k \in places : from[n] = initial[k]
      BY <1>2
    <2>2. /\ k \in DOMAIN initial /\ IsShown(initial[k])
          /\ EntryOf(initial[k].id).name # initial[k].name
      BY <1>4
    <2>3. from[n].name \in Name
      BY <1>2, SeqElement, EntryFields
    <2>4. EntryOf(from[n].id).name \in Name
      <3>1. findIdxOfId(list, from[n].id) \in DOMAIN list
        BY <1>1, <2>1, <2>2, Found DEF IsShown
      <3> QED BY <3>1, <1>1, SeqElement, EntryFields DEF EntryOf
    <2>5. renames[n] = [tool |-> "mv", from |-> from[n].name,
                        to |-> EntryOf(from[n].id).name]
      BY <1>3
    <2>6. SoundRun(renames[n])
      BY <2>3, <2>4, <2>5 DEF SoundRun, Run
    <2>7. /\ renames[n].tool = "mv" /\ renames[n].from = initial[k].name
          /\ renames[n].to = EntryOf(initial[k].id).name
      BY <2>1, <2>5
    <2> QED BY <2>2, <2>6, <2>7
  <1>6. DOMAIN renames = DOMAIN from
    BY <1>3
  <1>7. Len(from) \in Nat /\ DOMAIN from = 1 .. Len(from)
    BY <1>2, LenProperties
  <1>8. renames \in [1 .. Len(from) -> Run]
    BY <1>3, <1>5, <1>7 DEF SoundRun
  <1>10. ASSUME NEW k \in DOMAIN initial, IsShown(initial[k]),
                EntryOf(initial[k].id).name # initial[k].name
         PROVE  \E n \in DOMAIN renames : renames[n].from = initial[k].name
    <2>1. PICK n \in DOMAIN from : from[n] = initial[k]
      BY <1>2, <1>9, <1>10
    <2>2. n \in DOMAIN renames /\ renames[n].from = from[n].name
      BY <1>3
    <2> QED BY <2>1, <2>2
  <1>11. ASSUME \A j, k \in DOMAIN initial : initial[j].name = initial[k].name => j = k,
                NEW m \in DOMAIN from, NEW n \in DOMAIN from, m # n
         PROVE  renames[m].from # renames[n].from
    <2>1. PICK i \in places, j \in places :
            i # j /\ from[m] = initial[i] /\ from[n] = initial[j]
      BY <1>2, <1>11
    <2>2. renames[m].from = initial[i].name /\ renames[n].from = initial[j].name
      BY <1>3, <2>1
    <2> QED BY <1>4, <1>11, <2>1, <2>2
  <1>12. renames \in Seq(Run)
    BY <1>7, <1>8, SeqDef
  <1> QED BY <1>5, <1>6, <1>10, <1>11, <1>12

LEMMA DeletionsSound ==
  ASSUME SoundState
  PROVE  /\ deletions \in Seq(Run)
         /\ \A n \in DOMAIN deletions :
              /\ SoundRun(deletions[n]) /\ deletions[n].tool = "rm"
              /\ \E k \in DOMAIN initial :
                   ~IsShown(initial[k]) /\ deletions[n].name = initial[k].name
         /\ \A k \in DOMAIN initial :
              ~IsShown(initial[k])
              => \E n \in DOMAIN deletions : deletions[n].name = initial[k].name
         /\ (\A j, k \in DOMAIN initial : initial[j].name = initial[k].name => j = k)
            => \A m, n \in DOMAIN deletions :
                 m # n => deletions[m].name # deletions[n].name
  <1> DEFINE places == {k \in DOMAIN initial : ~IsShown(initial[k])}
             from == Sublist(initial, places)
  <1>1. initial \in Seq(Entry)
    BY DEF SoundState, TypeOK
  <1>2. /\ from \in Seq(Entry)
        /\ \A n \in DOMAIN from : \E k \in places : from[n] = initial[k]
        /\ \A m, n \in DOMAIN from : m # n =>
             \E i, j \in places : i # j /\ from[m] = initial[i] /\ from[n] = initial[j]
        /\ \A k \in places : \E n \in DOMAIN from : from[n] = initial[k]
    <2>1. places \in SUBSET DOMAIN initial
      OBVIOUS
    <2> HIDE DEF places
    <2>2. /\ from \in Seq(Entry)
          /\ \A n \in DOMAIN from : \E k \in places : from[n] = initial[k]
      BY <1>1, <2>1, SublistElements
    <2>3. /\ \A m, n \in DOMAIN from : m # n =>
               \E i, j \in places : i # j /\ from[m] = initial[i] /\ from[n] = initial[j]
          /\ \A k \in places : \E n \in DOMAIN from : from[n] = initial[k]
      BY <1>1, <2>1, SublistPicks
    <2> QED BY <2>2, <2>3
  <1>3. deletions = [n \in DOMAIN from |-> [tool |-> "rm", name |-> from[n].name]]
    BY DEF deletions
  <1>4. \A k \in places : k \in DOMAIN initial /\ ~IsShown(initial[k])
    OBVIOUS
  <1>9. \A k \in DOMAIN initial : ~IsShown(initial[k]) => k \in places
    OBVIOUS
  <1> HIDE DEF from, places
  <1>5. ASSUME NEW n \in DOMAIN from
        PROVE  /\ SoundRun(deletions[n]) /\ deletions[n].tool = "rm"
               /\ \E k \in DOMAIN initial :
                    ~IsShown(initial[k]) /\ deletions[n].name = initial[k].name
    <2>1. PICK k \in places : from[n] = initial[k]
      BY <1>2
    <2>2. from[n].name \in Name
      BY <1>2, SeqElement, EntryFields
    <2>3. deletions[n] = [tool |-> "rm", name |-> from[n].name]
      BY <1>3
    <2>4. SoundRun(deletions[n])
      BY <2>2, <2>3 DEF SoundRun, Run
    <2> QED BY <1>4, <2>1, <2>3, <2>4
  <1>6. DOMAIN deletions = DOMAIN from
    BY <1>3
  <1>7. Len(from) \in Nat /\ DOMAIN from = 1 .. Len(from)
    BY <1>2, LenProperties
  <1>8. deletions \in [1 .. Len(from) -> Run]
    BY <1>3, <1>5, <1>7 DEF SoundRun
  <1>10. \A n \in DOMAIN from : deletions[n].name = from[n].name
    BY <1>3
  <1>11. \A k \in DOMAIN initial : ~IsShown(initial[k])
           => \E n \in DOMAIN deletions : deletions[n].name = initial[k].name
    BY <1>2, <1>6, <1>9, <1>10
  <1>12. ASSUME \A j, k \in DOMAIN initial : initial[j].name = initial[k].name => j = k,
                NEW m \in DOMAIN from, NEW n \in DOMAIN from, m # n
         PROVE  deletions[m].name # deletions[n].name
    <2>1. PICK i \in places, j \in places :
            i # j /\ from[m] = initial[i] /\ from[n] = initial[j]
      BY <1>2, <1>12
    <2> QED BY <1>4, <1>10, <1>12, <2>1
  <1>13. deletions \in Seq(Run)
    BY <1>7, <1>8, SeqDef
  <1> QED BY <1>5, <1>6, <1>11, <1>12, <1>13

LEMMA RewritingSound ==
  ASSUME SoundState
  PROVE  /\ rewriting \in Seq(Run)
         /\ \A k \in DOMAIN rewriting :
              k = 1 /\ SoundRun(rewriting[k]) /\ rewriting[k].tool = "rewrite"
         /\ DOMAIN rewriting = {1}
         /\ rewriting[1].in = [k \in DOMAIN list |-> list[k].name.zekyll]
  <1> DEFINE in == [k \in DOMAIN list |-> list[k].name.zekyll]
             out == [k \in DOMAIN list |-> k]
             o == [tool |-> "rewrite", in |-> in, out |-> out]
  <1>1. list \in Seq(Entry)
    BY DEF SoundState, TypeOK
  <1>2. Len(list) \in Nat /\ DOMAIN list = 1 .. Len(list)
    BY <1>1, LenProperties
  <1>3. \A k \in DOMAIN list : list[k].name.zekyll \in Nat
    BY <1>1, SeqElement, EntryFields, NameFields
  <1>4. in \in [1 .. Len(list) -> Nat] /\ out \in [1 .. Len(list) -> Nat]
    BY <1>2, <1>3
  <1>5. in \in Seq(Nat) /\ out \in Seq(Nat) /\ DOMAIN in = DOMAIN list
    BY <1>2, <1>4, SeqDef
  <1>6. SoundRun(o)
    BY <1>5 DEF SoundRun, Run
  <1>7. rewriting = <<o>>
    BY DEF rewriting
  <1>8. o \in Run /\ o.tool = "rewrite" /\ o.in = in
    BY <1>6 DEF SoundRun
  <1> HIDE DEF o
  <1> QED BY <1>6, <1>7, <1>8

(* Two plans, one after the other.                                           *)
LEMMA Joined ==
  ASSUME NEW s \in Seq(Run), NEW t \in Seq(Run)
  PROVE  /\ s \o t \in Seq(Run)
         /\ \A k \in DOMAIN (s \o t) :
              \/ k \in DOMAIN s /\ (s \o t)[k] = s[k]
              \/ /\ k - Len(s) \in DOMAIN t /\ (s \o t)[k] = t[k - Len(s)]
                 /\ \A j \in DOMAIN s : j < k
  <1>1. Len(s) \in Nat /\ DOMAIN s = 1 .. Len(s)
    BY LenProperties
  <1>2. Len(t) \in Nat /\ DOMAIN t = 1 .. Len(t)
    BY LenProperties
  <1>3. /\ s \o t \in Seq(Run)
        /\ Len(s \o t) = Len(s) + Len(t)
        /\ \A i \in 1 .. Len(s) + Len(t) :
             (s \o t)[i] = IF i <= Len(s) THEN s[i] ELSE t[i - Len(s)]
    BY ConcatProperties
  <1>4. DOMAIN (s \o t) = 1 .. Len(s) + Len(t)
    BY <1>3, LenProperties
  <1> SUFFICES ASSUME NEW k \in 1 .. Len(s) + Len(t)
               PROVE  \/ k \in DOMAIN s /\ (s \o t)[k] = s[k]
                      \/ /\ k - Len(s) \in DOMAIN t /\ (s \o t)[k] = t[k - Len(s)]
                         /\ \A j \in DOMAIN s : j < k
    BY <1>3, <1>4
  <1>5. CASE k <= Len(s)
    BY <1>1, <1>2, <1>3, <1>5
  <1>6. CASE ~ (k <= Len(s))
    <2>1. k - Len(s) \in DOMAIN t
      BY <1>1, <1>2, <1>6
    <2>2. (s \o t)[k] = t[k - Len(s)]
      BY <1>3, <1>6
    <2>3. \A j \in DOMAIN s : j < k
      BY <1>1, <1>2, <1>6
    <2> QED BY <2>1, <2>2, <2>3
  <1> QED BY <1>5, <1>6

-----------------------------------------------------------------------------
(* The types.                                                                *)

LEMMA SoundInit == Init => SoundState
  <1> SUFFICES ASSUME Init PROVE SoundState
    OBVIOUS
  <1>1. PICK disk \in Disks : files = [t \in {<<0, k>> : k \in DOMAIN disk} |-> disk[t[2]]]
    BY DEF Init
  <1>2. disk \in Seq(Name) /\ \A j, k \in DOMAIN disk : disk[j] = disk[k] => j = k
    BY DisksAssumption
  <1>3. Len(disk) \in Nat /\ DOMAIN disk = 1 .. Len(disk)
    BY <1>2, LenProperties
  <1>4. SoundFiles(files)
    <2> DEFINE h == [k \in DOMAIN disk |-> <<0, k>>]
    <2>1. IsFiniteSet(DOMAIN disk)
      BY <1>3, FS_Interval
    <2>2. IsFiniteSet({h[k] : k \in DOMAIN disk})
      BY <2>1, ImageFinite
    <2>3. DOMAIN files = {h[k] : k \in DOMAIN disk}
      BY <1>1
    <2>4. \A t \in DOMAIN files : t[2] \in DOMAIN disk /\ t = <<0, t[2]>> /\ files[t] = disk[t[2]]
      BY <1>1
    <2>5. \A t \in DOMAIN files : t \in Texts
      BY <2>4, <1>3 DEF Texts
    <2>6. \A t \in DOMAIN files : files[t] \in Name
      BY <2>4, <1>2, SeqElement
    <2>7. Unique(files)
      <3> SUFFICES ASSUME NEW s \in DOMAIN files, NEW t \in DOMAIN files, files[s] = files[t]
                   PROVE  s = t
        BY DEF Unique
      <3>1. s[2] = t[2]
        BY <2>4, <1>2
      <3> QED BY <3>1, <2>4
    <2> QED BY <2>2, <2>3, <2>5, <2>6, <2>7 DEF SoundFiles
  <1>5. /\ Entries(files) \in Seq(Entry) /\ TextsOf(files) \in Seq(Texts)
        /\ DOMAIN Entries(files) = DOMAIN TextsOf(files)
    BY <1>4, EntriesSound
  <1>6. /\ initial = Entries(files) /\ list = Entries(files)
        /\ size = Len(initial) /\ field = size
        /\ phase = "idle" /\ todo = <<>> /\ waits = "none"
        /\ running = [tool \in Tools |-> Idle]
        /\ outcome = "ok" /\ unstarted = {} /\ shown = TextsOf(files)
        /\ dropped = {} /\ saves = 0
    BY DEF Init
  <1>7. size \in Nat
    BY <1>5, <1>6, LenProperties
  <1>8. TypeOK
    <2>1. initial \in Seq(Entry) /\ list \in Seq(Entry) /\ shown \in Seq(Texts)
      BY <1>5, <1>6
    <2>2. todo \in Seq(Run)
      BY <1>6, EmptySeq
    <2>3. running \in [Tools -> Run \cup {Idle}]
      BY <1>6
    <2>4. saves \in 0 .. MaxSaves
      BY <1>6, InputsAssumption
    <2> QED BY <1>4, <1>6, <1>7, <2>1, <2>2, <2>3, <2>4 DEF TypeOK, SoundFiles
  <1>9. RunsSound
    <2>1. DOMAIN todo = {}
      BY <1>6
    <2> QED BY <1>6, <2>1 DEF RunsSound
  <1> QED BY <1>4, <1>5, <1>6, <1>8, <1>9 DEF SoundState

(* A text that was listed is a text.                                         *)
LEMMA ShownText ==
  ASSUME TypeOK, NEW k \in DOMAIN shown
  PROVE  shown[k] \in Texts
  BY SeqElement DEF TypeOK

LEMMA EditSound ==
  ASSUME SoundState, NEW l \in Seq(Entry), Edit(l)
  PROVE  SoundState'
  <1>1. /\ list' = l
        /\ UNCHANGED <<files, initial, size, field, phase, todo, waits, running,
                       outcome, unstarted, shown, dropped, saves>>
    BY DEF Edit
  <1>2. TypeOK'
    BY <1>1 DEF SoundState, TypeOK
  <1> QED BY <1>1, <1>2 DEF SoundState, SoundFiles, Unique, RunsSound

LEMMA SaveClickedSound ==
  ASSUME SoundState, on_save_clicked
  PROVE  SoundState'
  <1> DEFINE ab == resizing \o renames
             abc == ab \o deletions
             abcd == abc \o rewriting
  <1>1. /\ ab \in Seq(Run) /\ \A k \in DOMAIN ab : SoundRun(ab[k])
    BY ResizingSound, RenamesSound, Joined
  <1> HIDE DEF ab
  <1>2. /\ abc \in Seq(Run) /\ \A k \in DOMAIN abc : SoundRun(abc[k])
    BY <1>1, DeletionsSound, Joined
  <1> HIDE DEF abc
  <1>3. /\ abcd \in Seq(Run) /\ \A k \in DOMAIN abcd : SoundRun(abcd[k])
    BY <1>2, RewritingSound, Joined
  <1>4. todo' = abcd
    <2>1. todo' = resizing \o renames \o deletions \o rewriting
      BY DEF on_save_clicked
    <2> QED BY <2>1 DEF ab, abc
  <1> HIDE DEF abcd
  <1>5. /\ phase' = "saving" /\ waits' = "none" /\ outcome' = "ok" /\ unstarted' = {}
        /\ saves < MaxSaves /\ saves' = saves + 1
        /\ UNCHANGED <<files, initial, list, size, field, running, shown>>
    BY DEF on_save_clicked
  <1>6. dropped' \subseteq Texts
    <2>1. \A k \in DOMAIN initial : k \in DOMAIN shown
      BY DEF SoundState
    <2>2. \A k \in DOMAIN shown : shown[k] \in Texts
      BY ShownText DEF SoundState
    <2>3. dropped \subseteq Texts
      BY DEF SoundState, TypeOK
    <2> QED BY <2>1, <2>2, <2>3 DEF on_save_clicked
  <1>7. saves' \in 0 .. MaxSaves
    BY <1>5, InputsAssumption DEF SoundState, TypeOK
  <1>8. TypeOK'
    BY <1>3, <1>4, <1>5, <1>6, <1>7 DEF SoundState, TypeOK
  <1>9. RunsSound'
    BY <1>3, <1>4, <1>5 DEF SoundState, RunsSound
  <1> QED BY <1>5, <1>8, <1>9 DEF SoundState, SoundFiles, Unique

(* The program that is next, and those behind it.                            *)
LEMMA NextRun ==
  ASSUME SoundState, todo # <<>>
  PROVE  /\ Head(todo) \in Run /\ SoundRun(Head(todo)) /\ Head(todo).tool \in Tools
         /\ Tail(todo) \in Seq(Run)
         /\ \A k \in DOMAIN Tail(todo) : SoundRun(Tail(todo)[k])
  <1>1. todo \in Seq(Run) /\ \A k \in DOMAIN todo : SoundRun(todo[k])
    BY DEF SoundState, TypeOK, RunsSound
  <1>2. Len(todo) \in Nat \ {0} /\ DOMAIN todo = 1 .. Len(todo)
    BY <1>1, EmptySeq, LenProperties
  <1>3. /\ Head(todo) \in Run /\ Tail(todo) \in Seq(Run)
        /\ Len(Tail(todo)) = Len(todo) - 1
        /\ \A i \in 1 .. Len(Tail(todo)) : Tail(todo)[i] = todo[i + 1]
    BY <1>1, HeadTailProperties
  <1>4. DOMAIN Tail(todo) = 1 .. Len(todo) - 1
    BY <1>3, LenProperties
  <1>5. Head(todo) = todo[1]
    BY <1>1
  <1>6. \A k \in DOMAIN Tail(todo) : k + 1 \in DOMAIN todo /\ Tail(todo)[k] = todo[k + 1]
    BY <1>2, <1>3, <1>4
  <1> QED BY <1>1, <1>2, <1>3, <1>5, <1>6, RunFields

LEMMA StartToolSound ==
  ASSUME SoundState, StartTool
  PROVE  SoundState'
  <1>1. /\ todo # <<>> /\ waits' = Head(todo).tool /\ todo' = Tail(todo)
        /\ running' = [running EXCEPT ![waits'] = Head(todo)]
        /\ UNCHANGED <<files, initial, list, size, field, phase, unstarted, shown,
                       dropped, saves>>
    BY DEF StartTool
  <1>2. running \in [Tools -> Run \cup {Idle}]
    BY DEF SoundState, TypeOK
  <1>3. /\ Head(todo) \in Run /\ SoundRun(Head(todo)) /\ waits' \in Tools
        /\ todo' \in Seq(Run) /\ \A k \in DOMAIN todo' : SoundRun(todo'[k])
    BY <1>1, NextRun
  <1>4. outcome' \in {"ok", "refused", "broke"}
    BY DEF StartTool, Worse, SoundState, TypeOK
  <1>5. running' \in [Tools -> Run \cup {Idle}]
    BY <1>1, <1>2, <1>3
  <1>6. TypeOK'
    BY <1>1, <1>3, <1>4, <1>5 DEF SoundState, TypeOK
  <1>7. RunsSound'
    <2>1. \A tool \in Tools : running'[tool] = IF tool = Head(todo).tool THEN Head(todo)
                                               ELSE running[tool]
      BY <1>1, <1>2
    <2>2. \A tool \in Tools :
            running[tool] # Idle => SoundRun(running[tool]) /\ running[tool].tool = tool
      BY DEF SoundState, RunsSound
    <2>3. \A tool \in Tools :
            running'[tool] # Idle => SoundRun(running'[tool]) /\ running'[tool].tool = tool
      BY <1>3, <2>1, <2>2
    <2> QED BY <1>3, <2>3 DEF RunsSound, SoundRun
  <1> QED BY <1>1, <1>6, <1>7 DEF SoundState, SoundFiles, Unique

LEMMA StartFailsSound ==
  ASSUME SoundState, StartFails
  PROVE  SoundState'
  <1>1. /\ todo # <<>> /\ waits' = Head(todo).tool /\ todo' = Tail(todo)
        /\ running' = [running EXCEPT ![waits'] = Idle]
        /\ UNCHANGED <<files, initial, list, size, field, phase, shown, dropped, saves>>
    BY DEF StartFails
  <1>2. running \in [Tools -> Run \cup {Idle}]
    BY DEF SoundState, TypeOK
  <1>3. /\ Head(todo) \in Run /\ waits' \in Tools
        /\ todo' \in Seq(Run) /\ \A k \in DOMAIN todo' : SoundRun(todo'[k])
    BY <1>1, NextRun
  <1>4. outcome' \in {"ok", "refused", "broke"}
    BY DEF StartFails, Worse, SoundState, TypeOK
  <1>5. unstarted' \subseteq Run
    BY <1>3 DEF StartFails, SoundState, TypeOK
  <1>6. /\ running' \in [Tools -> Run \cup {Idle}]
        /\ \A tool \in Tools : running'[tool] # Idle => running'[tool] = running[tool]
    BY <1>1, <1>2, <1>3
  <1>7. TypeOK'
    BY <1>1, <1>3, <1>4, <1>5, <1>6 DEF SoundState, TypeOK
  <1>8. RunsSound'
    <2>1. \A tool \in Tools :
            running[tool] # Idle => SoundRun(running[tool]) /\ running[tool].tool = tool
      BY DEF SoundState, RunsSound
    <2>2. \A tool \in Tools :
            running'[tool] # Idle => SoundRun(running'[tool]) /\ running'[tool].tool = tool
      BY <1>6, <2>1
    <2> QED BY <1>3, <2>2 DEF RunsSound, SoundRun
  <1> QED BY <1>1, <1>7, <1>8 DEF SoundState, SoundFiles, Unique

LEMMA ListingArrivesSound ==
  ASSUME SoundState, handle_zkiresize_list
  PROVE  SoundState'
  <1>1. /\ phase' = "idle"
        /\ initial' = Entries(files) /\ list' = Entries(files)
        /\ size' = Len(Listing(files)) /\ field' = Len(Listing(files))
        /\ shown' = TextsOf(files)
        /\ UNCHANGED <<files, todo, waits, running, outcome, unstarted, dropped, saves>>
    BY DEF handle_zkiresize_list
  <1>2. /\ Entries(files) \in Seq(Entry) /\ TextsOf(files) \in Seq(Texts)
        /\ DOMAIN Entries(files) = DOMAIN TextsOf(files)
        /\ Len(Listing(files)) \in Nat
    BY EntriesSound DEF SoundState
  <1>3. TypeOK'
    BY <1>1, <1>2 DEF SoundState, TypeOK
  <1> QED BY <1>1, <1>2, <1>3 DEF SoundState, SoundFiles, Unique, RunsSound

LEMMA ToolEndsSound ==
  ASSUME SoundState, NEW tool \in Tools, ToolEnds(tool)
  PROVE  SoundState'
  <1>1. PICK o \in Outcomes(files, running[tool]) :
          files' = o.files /\ outcome' = Worse(o.outcome)
    BY DEF ToolEnds
  <1>2. /\ running[tool] # Idle /\ running' = [running EXCEPT ![tool] = Idle]
        /\ UNCHANGED <<initial, list, size, field, phase, todo, waits, unstarted, shown,
                       dropped, saves>>
    BY DEF ToolEnds
  <1>3. SoundFiles(files) /\ SoundRun(running[tool]) /\ saves \in Nat
    BY <1>2, InputsAssumption DEF SoundState, RunsSound, TypeOK
  <1>4. SoundFiles(files') /\ o.outcome \in {"ok", "refused", "broke"}
    BY <1>1, <1>3, OutcomesSound
  <1>5. outcome' \in {"ok", "refused", "broke"}
    BY <1>1, <1>4 DEF Worse, SoundState, TypeOK
  <1>6. /\ running' \in [Tools -> Run \cup {Idle}]
        /\ \A other \in Tools : running'[other] = IF other = tool THEN Idle ELSE running[other]
    BY <1>2 DEF SoundState, TypeOK
  <1>7. TypeOK'
    BY <1>2, <1>4, <1>5, <1>6 DEF SoundState, TypeOK, SoundFiles
  <1>8. RunsSound'
    <2>1. \A other \in Tools : running'[other] # Idle =>
            SoundRun(running'[other]) /\ running'[other].tool = other
      BY <1>6 DEF SoundState, RunsSound
    <2> QED BY <1>2, <2>1 DEF SoundState, RunsSound, SoundRun
  <1> QED BY <1>2, <1>4, <1>7, <1>8 DEF SoundState, SoundFiles, Unique

LEMMA SoundStep == SoundState /\ [Next]_vars => SoundState'
  <1> SUFFICES ASSUME SoundState, [Next]_vars PROVE SoundState'
    OBVIOUS
  <1>1. list \in Seq(Entry) /\ Len(list) \in Nat /\ DOMAIN list = 1 .. Len(list)
    BY LenProperties DEF SoundState, TypeOK
  <1>2. ASSUME NEW r \in 1 .. Len(list) - 1, Move(r) PROVE SoundState'
    BY <1>1, <1>2, EditSound, MoveKeepsEntries DEF Move
  <1>3. ASSUME NEW r \in DOMAIN list, Minus(r) PROVE SoundState'
    BY <1>1, <1>3, EditSound, RemoveKeepsEntries DEF Minus
  <1>4. ASSUME NEW r \in DOMAIN list, NEW z \in Zekylls, EditZekyll(r, z) PROVE SoundState'
    BY <1>1, <1>4, EditSound, EditKeepsEntries, InputsAssumption DEF EditZekyll
  <1>5. ASSUME NEW r \in DOMAIN list, NEW l \in Labels, EditLabel(r, l) PROVE SoundState'
    BY <1>1, <1>5, EditSound, EditKeepsEntries DEF EditLabel
  <1>6. ASSUME NEW m \in Sizes, TypeSize(m) PROVE SoundState'
    <2>1. /\ field' = m
          /\ UNCHANGED <<files, initial, list, size, phase, todo, waits, running,
                         outcome, unstarted, shown, dropped, saves>>
      BY <1>6 DEF TypeSize
    <2>2. field' \in Nat \cup {NotANumber}
      BY <2>1, InputsAssumption, CapacityAssumption
    <2>3. TypeOK'
      BY <2>1, <2>2 DEF SoundState, TypeOK
    <2> QED BY <2>1, <2>3 DEF SoundState, SoundFiles, Unique, RunsSound
  <1>7. CASE on_save_clicked
    BY <1>7, SaveClickedSound
  <1>8. CASE StartTool
    BY <1>8, StartToolSound
  <1>9. CASE reloadRepository
    <2>1. /\ phase' = "loading" /\ initial' = <<>> /\ list' = <<>>
          /\ UNCHANGED <<files, size, field, todo, waits, running, outcome, unstarted,
                         shown, dropped, saves>>
      BY <1>9 DEF reloadRepository
    <2>2. initial' \in Seq(Entry) /\ list' \in Seq(Entry)
      BY <2>1, EmptySeq
    <2>3. TypeOK'
      BY <2>1, <2>2 DEF SoundState, TypeOK
    <2>4. DOMAIN initial' = {}
      BY <2>1
    <2> QED BY <2>1, <2>3, <2>4 DEF SoundState, SoundFiles, Unique, RunsSound
  <1>10. CASE handle_zkiresize_list
    BY <1>10, ListingArrivesSound
  <1>11. ASSUME NEW tool \in Tools, ToolEnds(tool) PROVE SoundState'
    BY <1>11, ToolEndsSound
  <1>12. CASE UNCHANGED vars
    BY <1>12 DEF vars, SoundState, TypeOK, SoundFiles, Unique, RunsSound
  <1>13. CASE StartFails
    BY <1>13, StartFailsSound
  <1> QED BY <1>2, <1>3, <1>4, <1>5, <1>6, <1>7, <1>8, <1>9, <1>10, <1>11, <1>12, <1>13
          DEF Next, User, Save

(* Whatever the user, the programs and the clock do, Save and its files      *)
(* have their types; above all no two files get the same name, and every     *)
(* entry has its text.                                                       *)
THEOREM TypeCorrect == Spec => []TypeOK
  <1>1. SoundState => TypeOK
    BY DEF SoundState
  <1> QED BY <1>1, SoundInit, SoundStep, PTL DEF Spec

-----------------------------------------------------------------------------
(* Nothing else vanishes.                                                    *)

(* The field of the size never asks for a smaller index.                     *)
NeverSmaller == [][on_save_clicked => field = NotANumber \/ field >= size]_vars

(* The order of the programs of one Save.                                    *)
MayPrecede(a, b) == \/ a = "resize"
                    \/ a # "rewrite" /\ b = "rewrite"
                    \/ a = "mv" /\ b \in {"mv", "rm"}
                    \/ a = "rm" /\ b = "rm"

(* Nothing is renamed twice, and nothing is removed twice.                   *)
Precedes(x, y) == /\ MayPrecede(x.tool, y.tool)
                  /\ x.tool = "mv" /\ y.tool = "mv" => x.from # y.from
                  /\ x.tool = "rm" /\ y.tool = "rm" => x.name # y.name

Sorted(plan) == \A j, k \in DOMAIN plan : j < k => Precedes(plan[j], plan[k])

AllIdle == \A tool \in Tools : running[tool] = Idle

OneAtATime ==
  /\ \A tool \in Tools : running[tool] # Idle => tool = waits /\ phase = "saving"
  /\ \A tool \in Tools, k \in DOMAIN todo :
       running[tool] # Idle => Precedes(running[tool], todo[k])
  /\ Sorted(todo)
  /\ \A k \in DOMAIN todo : todo[k].tool = "resize" => k = 1 /\ AllIdle

(* What is shown is what there is.                                           *)
Fresh ==
  phase = "idle" => /\ initial = Entries(files) /\ shown = TextsOf(files)
                    /\ size = Len(Listing(files))

(* Programs that have not ended.                                             *)
Pending == {todo[k] : k \in DOMAIN todo} \cup {running[tool] : tool \in Tools}

(* What a program is going to remove was dropped, and no program before it   *)
(* gives its name to anything else: while there may be one, the name is      *)
(* taken.                                                                    *)
RemovalsAgreed(f, d, pending) ==
  \A o \in pending : o.tool = "rm" =>
    /\ Named(f, o.name) \subseteq d
    /\ o.name.zekyll \in Slots
    /\ \A x \in pending : x.tool \in {"resize", "mv"} => Named(f, o.name) # {}
    /\ \A x \in pending : x.tool = "mv" => x.from # o.name

ResizesGrow(f, n, pending) ==
  \A o \in pending : o.tool = "resize" =>
    o.size >= Cardinality(Index(f)) /\ \A t \in DOMAIN f : t[1] < n

Orderly ==
  /\ SoundState /\ OneAtATime /\ Fresh
  /\ RemovalsAgreed(files, dropped, Pending)
  /\ ResizesGrow(files, saves, Pending)
  /\ \A t \in DOMAIN files : t[1] <= saves

LEMMA ResizeAdds ==
  ASSUME NEW f, SoundFiles(f), NEW o, SoundRun(o), o.tool = "resize", saves \in Nat,
         o.size >= Cardinality(Index(f)), \A t \in DOMAIN f : t[1] < saves,
         NEW r \in resize(f, o)
  PROVE  /\ \A t \in DOMAIN f : t \in DOMAIN r.files /\ r.files[t] = f[t]
         /\ \A t \in DOMAIN r.files : t \in DOMAIN f \/
              /\ t[1] = saves
              /\ \A s \in Index(f) : r.files[t] # f[s]
  <1> DEFINE index == {t \in DOMAIN f : f[t].zekyll \in Slots}
             n == Cardinality(index)
             fresh == {<<saves, k>> : k \in n + 1 .. o.size}
             gone == {t \in index : f[t].zekyll > o.size}
             g == [t \in (DOMAIN f \ gone) \cup fresh |->
                     IF t \in fresh THEN [zekyll |-> t[2], label |-> NewLabel]
                                    ELSE f[t]]
  <1>1. CASE r = Refused(f)
    BY <1>1 DEF Refused
  <1>2. CASE r = Done(g) /\ {f[t].zekyll : t \in index} = 1 .. n
    <2>1. r.files = g
      BY <1>2 DEF Done
    <2>2. o.size \in Nat
      BY RunFields DEF SoundRun
    <2>3. n \in Nat
      BY FS_Subset, FS_CardinalityType DEF SoundFiles
    <2>4. index = Index(f)
      BY DEF Index
    <2>5. n <= o.size
      BY <2>2, <2>3, <2>4
    <2>6. \A t \in index : f[t].zekyll \in 1 .. n
      BY <1>2
    <2>7. gone = {}
      BY <2>2, <2>3, <2>5, <2>6
    <2>8. \A t \in fresh : t[1] = saves /\ t[2] \in Nat /\ t[2] > n
      BY <2>2, <2>3
    <2>9. DOMAIN g = (DOMAIN f \ gone) \cup fresh
      OBVIOUS
    <2>10. \A t \in DOMAIN g :
             g[t] = IF t \in fresh THEN [zekyll |-> t[2], label |-> NewLabel] ELSE f[t]
      OBVIOUS
    <2> HIDE DEF g, gone, fresh, n
    <2>11. \A t \in DOMAIN f : t \notin fresh
      <3>1. ASSUME NEW t \in DOMAIN f, t \in fresh PROVE FALSE
        <4>1. t[1] = saves /\ t[1] < saves
          BY <3>1, <2>8
        <4> QED BY <4>1
      <3> QED BY <3>1
    <2>12. \A t \in DOMAIN f : t \in DOMAIN g /\ g[t] = f[t]
      BY <2>7, <2>9, <2>10, <2>11
    <2>13. ASSUME NEW t \in DOMAIN g, t \notin DOMAIN f
           PROVE  t[1] = saves /\ \A s \in index : g[t] # f[s]
      <3>1. t \in fresh
        BY <2>9, <2>13
      <3>2. g[t].zekyll = t[2] /\ t[2] \in Nat /\ t[2] > n
        BY <3>1, <2>8, <2>10
      <3>3. \A s \in index : f[s].zekyll # t[2]
        BY <2>3, <2>6, <3>2
      <3> QED BY <3>1, <3>2, <3>3, <2>8
    <2> QED BY <2>1, <2>4, <2>12, <2>13
  <1> QED BY <1>1, <1>2 DEF resize

(* What was agreed stays agreed when programs start or are asked no more.    *)
LEMMA AgreedStays ==
  ASSUME NEW f, NEW n, NEW d, NEW e, d \subseteq e, NEW P, NEW Q \in SUBSET P
  PROVE  /\ RemovalsAgreed(f, d, P) => RemovalsAgreed(f, e, Q)
         /\ ResizesGrow(f, n, P) => ResizesGrow(f, n, Q)
  BY DEF RemovalsAgreed, ResizesGrow

LEMMA SameLength ==
  ASSUME NEW m \in Nat, NEW n \in Nat, 1 .. m = 1 .. n
  PROVE  m = n
  <1>1. m <= n
    <2>1. m = 0 \/ m \in 1 .. n
      OBVIOUS
    <2> QED BY <2>1
  <1>2. n <= m
    <2>1. n = 0 \/ n \in 1 .. m
      OBVIOUS
    <2> QED BY <2>1
  <1> QED BY <1>1, <1>2

LEMMA OrderlyInit ==
  ASSUME Init PROVE Orderly
  <1>1. SoundState
    BY SoundInit
  <1>2. /\ initial = Entries(files) /\ shown = TextsOf(files) /\ size = Len(initial)
        /\ todo = <<>> /\ running = [tool \in Tools |-> Idle] /\ saves = 0
    BY DEF Init
  <1>3. DOMAIN todo = {} /\ \A tool \in Tools : running[tool] = Idle
    BY <1>2
  <1>4. OneAtATime
    BY <1>3 DEF OneAtATime, Sorted
  <1>5. Fresh
    <2>1. /\ Entries(files) \in Seq(Entry) /\ DOMAIN Entries(files) = DOMAIN Listing(files)
          /\ Listing(files) \in Seq(Name)
      BY <1>1, EntriesSound, ListingSound DEF SoundState
    <2>2. /\ Len(Entries(files)) \in Nat /\ Len(Listing(files)) \in Nat
          /\ DOMAIN Entries(files) = 1 .. Len(Entries(files))
          /\ DOMAIN Listing(files) = 1 .. Len(Listing(files))
      BY <2>1, LenProperties
    <2>3. Len(Entries(files)) = Len(Listing(files))
      BY <2>1, <2>2, SameLength
    <2> QED BY <1>2, <2>3 DEF Fresh
  <1>6. \A o \in Pending : o.tool = "none"
    BY <1>3 DEF Pending, Idle
  <1>7. RemovalsAgreed(files, dropped, Pending) /\ ResizesGrow(files, saves, Pending)
    BY <1>6 DEF RemovalsAgreed, ResizesGrow
  <1>8. \A t \in DOMAIN files : t[1] <= saves
    <2>1. PICK disk \in Disks :
            files = [t \in {<<0, k>> : k \in DOMAIN disk} |-> disk[t[2]]]
      BY DEF Init
    <2>2. \A t \in DOMAIN files : t[1] = 0
      BY <2>1
    <2> QED BY <1>2, <2>2
  <1> QED BY <1>1, <1>4, <1>5, <1>7, <1>8 DEF Orderly

-----------------------------------------------------------------------------
(* The plan of a Save.                                                       *)

LEMMA JoinedSorted ==
  ASSUME NEW s \in Seq(Run), NEW t \in Seq(Run), Sorted(s), Sorted(t),
         \A j \in DOMAIN s, k \in DOMAIN t : Precedes(s[j], t[k])
  PROVE  Sorted(s \o t)
  <1> DEFINE u == s \o t
  <1>1. /\ Len(s) \in Nat /\ DOMAIN s = 1 .. Len(s)
        /\ \A k \in DOMAIN t : k \in Int
    BY LenProperties
  <1>2. /\ u \in Seq(Run)
        /\ \A k \in DOMAIN u :
             \/ k \in DOMAIN s /\ u[k] = s[k]
             \/ /\ k - Len(s) \in DOMAIN t /\ u[k] = t[k - Len(s)]
                /\ \A j \in DOMAIN s : j < k
    BY Joined
  <1> HIDE DEF u
  <1>3. \A k \in DOMAIN u : k \in Nat
    BY <1>2, LenProperties
  <1> SUFFICES ASSUME NEW j \in DOMAIN u, NEW k \in DOMAIN u, j < k
               PROVE  Precedes(u[j], u[k])
    BY DEF Sorted, u
  <1>4. CASE k \in DOMAIN s /\ u[k] = s[k]
    <2>1. j \in DOMAIN s /\ u[j] = s[j]
      BY <1>1, <1>2, <1>3, <1>4
    <2> QED BY <1>4, <2>1 DEF Sorted
  <1>5. CASE k - Len(s) \in DOMAIN t /\ u[k] = t[k - Len(s)]
    <2>1. CASE j \in DOMAIN s /\ u[j] = s[j]
      BY <1>5, <2>1
    <2>2. CASE j - Len(s) \in DOMAIN t /\ u[j] = t[j - Len(s)]
      <3>1. j - Len(s) < k - Len(s)
        BY <1>1, <1>3
      <3> QED BY <1>5, <2>2, <3>1 DEF Sorted
    <2> QED BY <1>2, <2>1, <2>2
  <1> QED BY <1>2, <1>4, <1>5

(* The programs are those of the four parts, in this order.                  *)
LEMMA PlanOfSave ==
  ASSUME SoundState, on_save_clicked,
         \A j, k \in DOMAIN initial : initial[j].name = initial[k].name => j = k
  PROVE  /\ Sorted(todo')
         /\ \A k \in DOMAIN todo' :
              \/ k = 1 /\ todo'[k].tool = "resize" /\ todo'[k].size = field
                 /\ field # NotANumber
              \/ todo'[k].tool = "mv" /\ \E j \in DOMAIN initial :
                   IsShown(initial[j]) /\ todo'[k].from = initial[j].name
              \/ todo'[k].tool = "rm" /\ \E j \in DOMAIN initial :
                   ~IsShown(initial[j]) /\ todo'[k].name = initial[j].name
              \/ todo'[k].tool = "rewrite"
  <1> DEFINE a == resizing
             b == renames
             c == deletions
             d == rewriting
             Mv(o) == o.tool = "mv" /\ \E j \in DOMAIN initial :
                        IsShown(initial[j]) /\ o.from = initial[j].name
             Rm(o) == o.tool = "rm" /\ \E j \in DOMAIN initial :
                        ~IsShown(initial[j]) /\ o.name = initial[j].name
             Rs(k, o) == k = 1 /\ o.tool = "resize" /\ o.size = field
                         /\ field # NotANumber
  <1>1. a \in Seq(Run) /\ b \in Seq(Run) /\ c \in Seq(Run) /\ d \in Seq(Run)
    BY ResizingSound, RenamesSound, DeletionsSound, RewritingSound
  <1>2. \A k \in DOMAIN a : Rs(k, a[k])
    BY ResizingSound
  <1>3. \A k \in DOMAIN b : Mv(b[k])
    BY RenamesSound
  <1>4. \A k \in DOMAIN c : Rm(c[k])
    BY DeletionsSound
  <1>5. \A k \in DOMAIN d : k = 1 /\ d[k].tool = "rewrite"
    BY RewritingSound
  <1>17. \A m, n \in DOMAIN b : m # n => b[m].from # b[n].from
    BY RenamesSound
  <1>18. \A m, n \in DOMAIN c : m # n => c[m].name # c[n].name
    BY DeletionsSound
  <1>6. todo' = ((a \o b) \o c) \o d
    BY DEF on_save_clicked
  <1> HIDE DEF a, b, c, d, Mv, Rm, Rs
  <1>7. Sorted(a) /\ Sorted(b) /\ Sorted(c) /\ Sorted(d)
    <2>1. \A k \in DOMAIN a \cup DOMAIN b \cup DOMAIN c \cup DOMAIN d : k \in Nat
      BY <1>1, LenProperties
    <2> QED BY <1>2, <1>3, <1>4, <1>5, <1>17, <1>18, <2>1
            DEF Sorted, Precedes, MayPrecede, Mv, Rm, Rs
  <1>8. /\ a \o b \in Seq(Run) /\ Sorted(a \o b)
        /\ \A k \in DOMAIN (a \o b) : Rs(k, (a \o b)[k]) \/ Mv((a \o b)[k])
    <2>1. \A j \in DOMAIN a, k \in DOMAIN b : Precedes(a[j], b[k])
      BY <1>2 DEF Precedes, MayPrecede, Rs
    <2>2. Sorted(a \o b)
      BY <1>1, <1>7, <2>1, JoinedSorted
    <2>3. /\ a \o b \in Seq(Run)
          /\ \A k \in DOMAIN (a \o b) :
               \/ k \in DOMAIN a /\ (a \o b)[k] = a[k]
               \/ k - Len(a) \in DOMAIN b /\ (a \o b)[k] = b[k - Len(a)]
      BY <1>1, Joined
    <2> QED BY <1>2, <1>3, <2>2, <2>3
  <1> DEFINE ab == a \o b
  <1>9. /\ ab \in Seq(Run) /\ Sorted(ab)
        /\ \A k \in DOMAIN ab : Rs(k, ab[k]) \/ Mv(ab[k])
    BY <1>8
  <1>10. todo' = (ab \o c) \o d
    BY <1>6
  <1> HIDE DEF ab
  <1>11. /\ ab \o c \in Seq(Run) /\ Sorted(ab \o c)
         /\ \A k \in DOMAIN (ab \o c) :
              Rs(k, (ab \o c)[k]) \/ Mv((ab \o c)[k]) \/ Rm((ab \o c)[k])
    <2>1. \A j \in DOMAIN ab, k \in DOMAIN c : Precedes(ab[j], c[k])
      BY <1>4, <1>9 DEF Precedes, MayPrecede, Rs, Mv, Rm
    <2>2. Sorted(ab \o c)
      BY <1>1, <1>7, <1>9, <2>1, JoinedSorted
    <2>3. /\ ab \o c \in Seq(Run)
          /\ \A k \in DOMAIN (ab \o c) :
               \/ k \in DOMAIN ab /\ (ab \o c)[k] = ab[k]
               \/ k - Len(ab) \in DOMAIN c /\ (ab \o c)[k] = c[k - Len(ab)]
      BY <1>1, <1>9, Joined
    <2> QED BY <1>4, <1>9, <2>2, <2>3
  <1> DEFINE abc == ab \o c
  <1>12. /\ abc \in Seq(Run) /\ Sorted(abc)
         /\ \A k \in DOMAIN abc : Rs(k, abc[k]) \/ Mv(abc[k]) \/ Rm(abc[k])
    BY <1>11
  <1>13. todo' = abc \o d
    BY <1>10
  <1> HIDE DEF abc
  <1>14. Sorted(abc \o d)
    <2>1. \A j \in DOMAIN abc, k \in DOMAIN d : Precedes(abc[j], d[k])
      BY <1>5, <1>12 DEF Precedes, MayPrecede, Rs, Mv, Rm
    <2> QED BY <1>1, <1>7, <1>12, <2>1, JoinedSorted
  <1>15. \A k \in DOMAIN (abc \o d) :
           \/ k \in DOMAIN abc /\ (abc \o d)[k] = abc[k]
           \/ k - Len(abc) \in DOMAIN d /\ (abc \o d)[k] = d[k - Len(abc)]
    BY <1>1, <1>12, Joined
  <1>16. \A k \in DOMAIN todo' :
           \/ Rs(k, todo'[k]) \/ Mv(todo'[k]) \/ Rm(todo'[k])
           \/ todo'[k].tool = "rewrite"
    BY <1>5, <1>12, <1>13, <1>15
  <1> QED BY <1>13, <1>14, <1>16 DEF Mv, Rm, Rs

-----------------------------------------------------------------------------
(* The steps, when Save waits for its programs and the user for the listing. *)

LEMMA QuietStep ==
  ASSUME Orderly, SoundState', OneAtATime', Fresh',
         UNCHANGED <<files, saves, dropped>>, Pending' \subseteq Pending
  PROVE  Orderly'
  <1>1. /\ RemovalsAgreed(files, dropped, Pending')
        /\ ResizesGrow(files, saves, Pending')
    BY AgreedStays DEF Orderly
  <1> QED BY <1>1 DEF Orderly

LEMMA WaitedForAll ==
  ASSUME Slow = {}, OneAtATime, Waited
  PROVE  AllIdle
  BY DEF OneAtATime, Waited, AllIdle

LEMMA EditOrderly ==
  ASSUME Orderly, SoundState',
         UNCHANGED <<files, initial, size, phase, todo, waits, running, shown,
                     dropped, saves>>
  PROVE  Orderly'
  <1>1. OneAtATime' /\ Fresh'
    BY DEF Orderly, OneAtATime, Fresh, AllIdle, Sorted
  <1>2. Pending' = Pending
    BY DEF Pending
  <1> QED BY <1>1, <1>2, QuietStep

LEMMA SaveClickedOrderly ==
  ASSUME Early = FALSE, Orderly, on_save_clicked,
         field = NotANumber \/ field >= size
  PROVE  Orderly'
  <1>1. SoundState /\ SoundState'
    BY SaveClickedSound DEF Orderly
  <1>2. /\ phase = "idle" /\ phase' = "saving" /\ saves' = saves + 1
        /\ UNCHANGED <<files, initial, list, size, field, running, shown>>
        /\ {shown[k] : k \in {k \in DOMAIN initial : ~IsShown(initial[k])}}
             \subseteq dropped'
    BY DEF on_save_clicked
  <1>3. AllIdle /\ AllIdle'
    BY <1>2 DEF Orderly, OneAtATime, AllIdle
  <1> DEFINE L == Listing(files)
  <1>4. /\ DOMAIN initial = DOMAIN L /\ shown = TextsOf(files)
        /\ \A k \in DOMAIN L : /\ initial[k].name = L[k]
                               /\ shown[k] \in DOMAIN files /\ files[shown[k]] = L[k]
                               /\ L[k].zekyll \in Slots
        /\ \A j, k \in DOMAIN L : L[j] = L[k] => j = k
        /\ size = Cardinality(Index(files))
    <2>1. initial = Entries(files) /\ shown = TextsOf(files) /\ size = Len(L)
      BY <1>2 DEF Orderly, Fresh
    <2>2. SoundFiles(files)
      BY <1>1 DEF SoundState
    <2>3. /\ DOMAIN Entries(files) = DOMAIN L
          /\ \A k \in DOMAIN L :
               /\ Entries(files)[k] = [id |-> k, name |-> L[k]]
               /\ TextsOf(files)[k] \in DOMAIN files /\ files[TextsOf(files)[k]] = L[k]
      BY <2>2, EntriesSound
    <2>4. /\ \A k \in DOMAIN L : L[k].zekyll \in Slots
          /\ \A j, k \in DOMAIN L : L[j] = L[k] => j = k
          /\ Len(L) = Cardinality(Index(files))
      BY <2>2, ListingSound
    <2> HIDE DEF L
    <2> QED BY <2>1, <2>3, <2>4
  <1> HIDE DEF L
  <1>14. \A j, k \in DOMAIN initial : initial[j].name = initial[k].name => j = k
    BY <1>4
  <1>5. Sorted(todo')
    BY <1>1, <1>14, PlanOfSave
  <1>6. \A k \in DOMAIN todo' :
          \/ k = 1 /\ todo'[k].tool = "resize" /\ todo'[k].size >= size
          \/ todo'[k].tool = "mv" /\ \E j \in DOMAIN initial :
               IsShown(initial[j]) /\ todo'[k].from = initial[j].name
          \/ todo'[k].tool = "rm" /\ \E j \in DOMAIN initial :
               ~IsShown(initial[j]) /\ todo'[k].name = initial[j].name
          \/ todo'[k].tool = "rewrite"
    BY <1>1, <1>14, PlanOfSave
  <1>7. OneAtATime'
    <2>1. \A k \in DOMAIN todo' : todo'[k].tool = "resize" => k = 1
      BY <1>6
    <2> QED BY <1>3, <1>5, <2>1 DEF OneAtATime, AllIdle
  <1>8. \A o \in Pending' :
          \/ o.tool = "resize" /\ o.size >= size
          \/ o.tool = "mv" /\ \E j \in DOMAIN initial :
               IsShown(initial[j]) /\ o.from = initial[j].name
          \/ o.tool = "rm" /\ \E j \in DOMAIN initial :
               ~IsShown(initial[j]) /\ o.name = initial[j].name
          \/ o.tool \in {"rewrite", "none"}
    BY <1>3, <1>6 DEF Pending, AllIdle, Idle
  <1>9. RemovalsAgreed(files, dropped', Pending')
    <2> SUFFICES ASSUME NEW o \in Pending', o.tool = "rm"
                 PROVE  /\ Named(files, o.name) \subseteq dropped'
                        /\ o.name.zekyll \in Slots
                        /\ Named(files, o.name) # {}
                        /\ \A x \in Pending' : x.tool = "mv" => x.from # o.name
      BY DEF RemovalsAgreed
    <2>1. PICK k \in DOMAIN initial : ~IsShown(initial[k]) /\ o.name = initial[k].name
      BY <1>8
    <2>2. o.name = L[k] /\ k \in DOMAIN L /\ shown[k] \in Named(files, o.name)
      BY <1>4, <2>1 DEF Named
    <2>3. ASSUME NEW t \in Named(files, o.name) PROVE t = shown[k]
      <3>1. files[t] = files[shown[k]] /\ t \in DOMAIN files /\ shown[k] \in DOMAIN files
        BY <1>4, <2>2 DEF Named
      <3> QED BY <1>1, <3>1 DEF SoundState, SoundFiles, Unique
    <2>4. shown[k] \in dropped'
      BY <1>2, <2>1
    <2>5. ASSUME NEW x \in Pending', x.tool = "mv" PROVE x.from # o.name
      <3>1. PICK j \in DOMAIN initial : IsShown(initial[j]) /\ x.from = initial[j].name
        BY <1>8, <2>5
      <3>2. j # k
        BY <2>1, <3>1
      <3> QED BY <1>4, <2>2, <3>1, <3>2
    <2>6. Named(files, o.name) \subseteq dropped'
      BY <2>3, <2>4
    <2>7. o.name.zekyll \in Slots
      BY <1>4, <2>2
    <2> QED BY <2>2, <2>5, <2>6, <2>7
  <1>10. \A t \in DOMAIN files : t[1] < saves' /\ t[1] <= saves'
    <2>1. \A t \in DOMAIN files : t[1] \in Nat /\ t[1] <= saves
      BY <1>1 DEF Orderly, SoundState, SoundFiles, Texts
    <2>2. saves \in Nat
      BY <1>1, InputsAssumption DEF SoundState, TypeOK
    <2> QED BY <1>2, <2>1, <2>2
  <1>11. ResizesGrow(files, saves', Pending')
    BY <1>4, <1>8, <1>10 DEF ResizesGrow
  <1>12. Fresh'
    BY <1>2 DEF Fresh
  <1> QED BY <1>1, <1>2, <1>7, <1>9, <1>10, <1>11, <1>12 DEF Orderly

LEMMA TodoTail ==
  ASSUME NEW s \in Seq(Run), s # <<>>
  PROVE  /\ 1 \in DOMAIN s /\ Head(s) = s[1] /\ s[1].tool \in Tools
         /\ \A k \in DOMAIN s : k \in Nat /\ 1 <= k
         /\ \A k \in DOMAIN Tail(s) :
              k \in Nat /\ k + 1 \in DOMAIN s /\ Tail(s)[k] = s[k + 1]
         /\ \A k \in DOMAIN Tail(s) : k + 1 # 1 /\ 1 < k + 1
         /\ \A k \in DOMAIN s :
              k = 1 \/ (k - 1 \in DOMAIN Tail(s) /\ Tail(s)[k - 1] = s[k])
  <1>1. Len(s) \in Nat \ {0} /\ DOMAIN s = 1 .. Len(s)
    BY EmptySeq, LenProperties
  <1>2. /\ Tail(s) \in Seq(Run) /\ Len(Tail(s)) = Len(s) - 1
        /\ \A i \in 1 .. Len(Tail(s)) : Tail(s)[i] = s[i + 1]
    BY HeadTailProperties
  <1>3. DOMAIN Tail(s) = 1 .. Len(s) - 1
    BY <1>2, LenProperties
  <1>4. s[1].tool \in Tools
    BY <1>1, SeqElement, RunFields
  <1>5. ASSUME NEW k \in DOMAIN s, k # 1
        PROVE  k - 1 \in DOMAIN Tail(s) /\ Tail(s)[k - 1] = s[k]
    <2>1. k - 1 \in 1 .. Len(s) - 1 /\ (k - 1) + 1 = k
      BY <1>1, <1>5
    <2> QED BY <1>2, <1>3, <2>1
  <1> QED BY <1>1, <1>2, <1>3, <1>4, <1>5

(* What is left of a plan in order is in order.                              *)
LEMMA TailSorted ==
  ASSUME NEW s \in Seq(Run), s # <<>>, Sorted(s)
  PROVE  Sorted(Tail(s)) /\ \A k \in DOMAIN Tail(s) : Precedes(s[1], Tail(s)[k])
  <1>1. /\ 1 \in DOMAIN s
        /\ \A k \in DOMAIN Tail(s) :
             k \in Nat /\ k + 1 \in DOMAIN s /\ Tail(s)[k] = s[k + 1] /\ 1 < k + 1
    BY TodoTail
  <1>2. ASSUME NEW j \in DOMAIN Tail(s), NEW k \in DOMAIN Tail(s), j < k
        PROVE  Precedes(Tail(s)[j], Tail(s)[k])
    <2>1. j + 1 \in DOMAIN s /\ k + 1 \in DOMAIN s /\ j + 1 < k + 1
      BY <1>1, <1>2
    <2> QED BY <1>1, <2>1 DEF Sorted
  <1> QED BY <1>1, <1>2 DEF Sorted

(* The first program of the plan is the next one.                            *)
LEMMA NextTool ==
  ASSUME Slow = {}, SoundState, OneAtATime, StartTool
  PROVE  /\ phase = "saving" /\ AllIdle
         /\ UNCHANGED <<files, initial, list, size, field, phase, outcome, unstarted,
                        shown, dropped, saves>>
         /\ OneAtATime'
         /\ Pending' \subseteq Pending
         /\ \A x : x.tool # "none" => (x \in Pending' <=> x \in Pending)
  <1>1. todo \in Seq(Run) /\ running \in [Tools -> Run \cup {Idle}]
    BY DEF SoundState, TypeOK
  <1>2. /\ phase = "saving" /\ todo # <<>> /\ Waited
        /\ waits' = Head(todo).tool /\ todo' = Tail(todo)
        /\ running' = [running EXCEPT ![waits'] = Head(todo)]
        /\ outcome' = IF running[waits'] = Idle THEN outcome ELSE Worse("broke")
        /\ UNCHANGED <<files, initial, list, size, field, phase, unstarted, shown,
                       dropped, saves>>
    BY DEF StartTool
  <1>3. AllIdle
    BY <1>2, WaitedForAll
  <1>4. /\ 1 \in DOMAIN todo /\ Head(todo) = todo[1] /\ todo[1].tool \in Tools
        /\ \A k \in DOMAIN todo' :
             k \in Nat /\ k + 1 \in DOMAIN todo /\ todo'[k] = todo[k + 1]
        /\ \A k \in DOMAIN todo' : k + 1 # 1 /\ 1 < k + 1
        /\ \A k \in DOMAIN todo : k = 1 \/ (k - 1 \in DOMAIN todo' /\ todo'[k - 1] = todo[k])
    BY <1>1, <1>2, TodoTail
  <1>5. \A tool \in Tools :
          running'[tool] = IF tool = todo[1].tool THEN todo[1] ELSE Idle
    BY <1>1, <1>2, <1>3, <1>4 DEF AllIdle
  <1>6. OneAtATime'
    <2>1. /\ Sorted(todo) /\ \A k \in DOMAIN todo : todo[k].tool = "resize" => k = 1
      BY DEF OneAtATime
    <2>2. Sorted(todo') /\ \A k \in DOMAIN todo' : Precedes(todo[1], todo'[k])
      BY <1>1, <1>2, <2>1, TailSorted
    <2>3. \A tool \in Tools, k \in DOMAIN todo' :
            running'[tool] # Idle => Precedes(running'[tool], todo'[k])
      BY <1>5, <2>2
    <2>4. \A k \in DOMAIN todo' : todo'[k].tool # "resize"
      BY <1>4, <2>1
    <2> QED BY <1>2, <1>4, <1>5, <2>2, <2>3, <2>4 DEF OneAtATime
  <1>7. Pending' \subseteq Pending
    <2>1. \A k \in DOMAIN todo' : todo'[k] \in Pending
      BY <1>4 DEF Pending
    <2>2. todo[1] \in Pending
      BY <1>4 DEF Pending
    <2>3. Idle \in Pending
      <3>1. running["mv"] = Idle
        BY <1>3 DEF AllIdle, Tools
      <3> QED BY <3>1 DEF Pending, Tools
    <2>4. \A tool \in Tools : running'[tool] \in Pending
      BY <1>5, <2>2, <2>3
    <2> QED BY <2>1, <2>4 DEF Pending
  <1>8. ASSUME NEW x \in Pending, x.tool # "none" PROVE x \in Pending'
    <2>1. PICK k \in DOMAIN todo : x = todo[k]
      BY <1>3, <1>8 DEF Pending, AllIdle, Idle
    <2>2. CASE k = 1
      <3>1. running'[todo[1].tool] = todo[1]
        BY <1>4, <1>5
      <3> QED BY <1>4, <2>1, <2>2, <3>1 DEF Pending
    <2>3. CASE k # 1
      BY <1>4, <2>1, <2>3 DEF Pending
    <2> QED BY <2>2, <2>3
  <1>9. outcome' = outcome
    BY <1>2, <1>3, <1>4 DEF AllIdle
  <1> QED BY <1>2, <1>3, <1>6, <1>7, <1>8, <1>9

(* A program that does not start is asked no more; what is left comes after  *)
(* it.                                                                       *)
LEMMA NotStarted ==
  ASSUME Slow = {}, SoundState, OneAtATime, StartFails
  PROVE  /\ phase = "saving" /\ AllIdle'
         /\ UNCHANGED <<files, initial, list, size, field, phase, shown, dropped, saves>>
         /\ outcome' \in {outcome, "broke"}
         /\ todo[1] \in Pending /\ todo[1].tool \in Tools
         /\ unstarted' = IF todo[1].tool = "resize" THEN unstarted
                         ELSE unstarted \cup {todo[1]}
         /\ todo[1].tool = "resize" => outcome' # "ok"
         /\ OneAtATime'
         /\ Pending' \subseteq Pending
         /\ \A x \in Pending' : x.tool # "none" => Precedes(todo[1], x)
         /\ \A x \in Pending : x.tool # "none" => x = todo[1] \/ x \in Pending'
  <1>1. todo \in Seq(Run) /\ running \in [Tools -> Run \cup {Idle}]
    BY DEF SoundState, TypeOK
  <1>2. /\ phase = "saving" /\ todo # <<>> /\ Waited
        /\ waits' = Head(todo).tool /\ todo' = Tail(todo)
        /\ running' = [running EXCEPT ![waits'] = Idle]
        /\ outcome' = IF running[waits'] = Idle /\ waits' # "resize"
                        THEN outcome ELSE Worse("broke")
        /\ unstarted' = IF waits' = "resize" THEN unstarted
                          ELSE unstarted \cup {Head(todo)}
        /\ UNCHANGED <<files, initial, list, size, field, phase, shown, dropped, saves>>
    BY DEF StartFails
  <1>3. AllIdle
    BY <1>2, WaitedForAll
  <1>4. /\ 1 \in DOMAIN todo /\ Head(todo) = todo[1] /\ todo[1].tool \in Tools
        /\ \A k \in DOMAIN todo' :
             k \in Nat /\ k + 1 \in DOMAIN todo /\ todo'[k] = todo[k + 1]
        /\ \A k \in DOMAIN todo' : k + 1 # 1 /\ 1 < k + 1
        /\ \A k \in DOMAIN todo : k = 1 \/ (k - 1 \in DOMAIN todo' /\ todo'[k - 1] = todo[k])
    BY <1>1, <1>2, TodoTail
  <1>5. AllIdle' /\ running' = running
    BY <1>1, <1>2, <1>3, <1>4 DEF AllIdle
  <1>6. /\ Sorted(todo') /\ \A k \in DOMAIN todo' : Precedes(todo[1], todo'[k])
        /\ \A k \in DOMAIN todo' : todo'[k].tool # "resize"
    <2>1. Sorted(todo) /\ \A k \in DOMAIN todo : todo[k].tool = "resize" => k = 1
      BY DEF OneAtATime
    <2>2. Sorted(todo') /\ \A k \in DOMAIN todo' : Precedes(todo[1], todo'[k])
      BY <1>1, <1>2, <2>1, TailSorted
    <2> QED BY <1>4, <2>1, <2>2
  <1>7. OneAtATime'
    BY <1>5, <1>6 DEF OneAtATime, AllIdle
  <1>8. todo[1] \in Pending /\ Pending' \subseteq Pending
    BY <1>4, <1>5 DEF Pending
  <1>9. \A x \in Pending' : x.tool # "none" => Precedes(todo[1], x)
    BY <1>5, <1>6 DEF Pending, AllIdle, Idle
  <1>10. ASSUME NEW x \in Pending, x.tool # "none" PROVE x = todo[1] \/ x \in Pending'
    <2>1. PICK k \in DOMAIN todo : x = todo[k]
      BY <1>3, <1>10 DEF Pending, AllIdle, Idle
    <2> QED BY <1>4, <2>1 DEF Pending
  <1>11. /\ outcome' \in {outcome, "broke"}
         /\ todo[1].tool = "resize" => outcome' # "ok"
    BY <1>2, <1>4 DEF Worse
  <1> QED BY <1>2, <1>4, <1>5, <1>7, <1>8, <1>9, <1>10, <1>11

LEMMA StartToolOrderly ==
  ASSUME Slow = {}, Orderly, StartTool
  PROVE  Orderly'
  <1>1. SoundState' /\ SoundState
    BY StartToolSound DEF Orderly
  <1>2. /\ OneAtATime' /\ Pending' \subseteq Pending
        /\ UNCHANGED <<files, initial, size, phase, shown, dropped, saves>>
    BY <1>1, NextTool DEF Orderly
  <1>3. Fresh'
    BY <1>2 DEF Orderly, Fresh
  <1> QED BY <1>1, <1>2, <1>3, QuietStep

LEMMA StartFailsOrderly ==
  ASSUME Slow = {}, Orderly, StartFails
  PROVE  Orderly'
  <1>1. SoundState' /\ SoundState
    BY StartFailsSound DEF Orderly
  <1>2. /\ OneAtATime' /\ Pending' \subseteq Pending
        /\ UNCHANGED <<files, initial, size, phase, shown, dropped, saves>>
    BY <1>1, NotStarted DEF Orderly
  <1>3. Fresh'
    BY <1>2 DEF Orderly, Fresh
  <1> QED BY <1>1, <1>2, <1>3, QuietStep

(* When the one program at work ends, what is left comes after it.           *)
LEMMA ToolDone ==
  ASSUME SoundState, OneAtATime, NEW tool \in Tools, ToolEnds(tool)
  PROVE  /\ running[tool] \in Pending /\ running[tool].tool = tool
         /\ SoundRun(running[tool]) /\ phase = "saving"
         /\ AllIdle' /\ OneAtATime'
         /\ \A x \in Pending' : x.tool # "none" =>
              x \in Pending /\ x.tool # "resize" /\ Precedes(running[tool], x)
         /\ \A x \in Pending : x.tool # "none" => x = running[tool] \/ x \in Pending'
  <1> DEFINE o == running[tool]
  <1>1. /\ o # Idle /\ running' = [running EXCEPT ![tool] = Idle]
        /\ UNCHANGED <<phase, todo, waits>>
    BY DEF ToolEnds
  <1>2. SoundRun(o) /\ o.tool = tool /\ o \in Pending
    BY <1>1 DEF SoundState, RunsSound, Pending
  <1>3. /\ phase = "saving" /\ Sorted(todo)
        /\ \A k \in DOMAIN todo : todo[k].tool # "resize" /\ Precedes(o, todo[k])
    BY <1>1 DEF OneAtATime, AllIdle
  <1>4. /\ AllIdle'
        /\ \A other \in Tools : other # tool => running[other] = Idle
    <2>1. \A other \in Tools : running'[other] = IF other = tool THEN Idle
                                                 ELSE running[other]
      BY <1>1 DEF SoundState, TypeOK
    <2>2. \A other \in Tools : other # tool => running[other] = Idle
      BY <1>1 DEF OneAtATime
    <2> QED BY <2>1, <2>2 DEF AllIdle
  <1>5. OneAtATime'
    BY <1>1, <1>3, <1>4 DEF OneAtATime, AllIdle, Sorted
  <1>6. \A x \in Pending' : x.tool # "none" => \E k \in DOMAIN todo : x = todo[k]
    BY <1>1, <1>4 DEF Pending, AllIdle, Idle
  <1>7. \A x \in Pending : x.tool # "none" => x = o \/ \E k \in DOMAIN todo : x = todo[k]
    BY <1>4 DEF Pending, Idle
  <1>8. \A k \in DOMAIN todo : todo[k] \in Pending /\ todo[k] \in Pending'
    BY <1>1 DEF Pending
  <1> QED BY <1>2, <1>3, <1>4, <1>5, <1>6, <1>7, <1>8

(* A program that ends removes what was dropped, and nothing else.           *)
LEMMA ToolEndsOrderly ==
  ASSUME Orderly, NEW tool \in Tools, ToolEnds(tool)
  PROVE  /\ Orderly'
         /\ \A t \in DOMAIN files : t \in DOMAIN files' \/ t \in dropped
  <1> DEFINE o == running[tool]
  <1>1. /\ o # Idle /\ running' = [running EXCEPT ![tool] = Idle]
        /\ UNCHANGED <<initial, list, size, field, phase, todo, waits, shown,
                       dropped, saves>>
    BY DEF ToolEnds
  <1>2. PICK r \in Outcomes(files, o) : files' = r.files
    BY DEF ToolEnds
  <1>3. /\ SoundState /\ SoundState' /\ SoundFiles(files)
        /\ SoundRun(o) /\ o.tool = tool /\ saves \in Nat /\ o \in Pending
    <2>1. SoundState /\ SoundState'
      BY ToolEndsSound DEF Orderly
    <2>2. SoundRun(o) /\ o.tool = tool
      BY <1>1, <2>1 DEF SoundState, RunsSound
    <2>3. saves \in Nat
      BY <2>1, InputsAssumption DEF SoundState, TypeOK
    <2> QED BY <2>1, <2>2, <2>3 DEF SoundState, Pending
  <1>4. /\ phase = "saving" /\ OneAtATime'
        /\ \A x \in Pending' : x.tool # "none" =>
             x \in Pending /\ x.tool # "resize" /\ Precedes(o, x)
    BY <1>3, ToolDone DEF Orderly
  <1>7. Fresh'
    BY <1>1, <1>4 DEF Fresh
  <1>8. \A x \in Pending' :
          \/ x \in Pending /\ x.tool # "resize" /\ MayPrecede(tool, x.tool)
          \/ x.tool = "none"
    BY <1>3, <1>4 DEF Precedes
  <1>9. ResizesGrow(files', saves', Pending')
    BY <1>8 DEF ResizesGrow
  <1> HIDE DEF o
  <1>10. \A x \in Pending : x.tool = "rm" =>
           /\ Named(files, x.name) \subseteq dropped
           /\ x.name.zekyll \in Slots
           /\ \A y \in Pending : y.tool \in {"resize", "mv"} => Named(files, x.name) # {}
           /\ \A y \in Pending : y.tool = "mv" => y.from # x.name
    BY DEF Orderly, RemovalsAgreed
  <1>11. ResizesGrow(files, saves, Pending) /\ \A t \in DOMAIN files : t[1] <= saves
    BY DEF Orderly
  <1>12. SUFFICES
           /\ \A t \in DOMAIN files : t \in DOMAIN files' \/ t \in dropped
           /\ \A t \in DOMAIN files' : t \in DOMAIN files \/ t[1] = saves
           /\ \A x \in Pending : x.tool = "rm" /\ MayPrecede(tool, "rm") =>
                /\ Named(files', x.name) \subseteq dropped
                /\ tool \in {"resize", "mv"} => Named(files', x.name) # {}
    <2>1. ASSUME /\ \A t \in DOMAIN files : t \in DOMAIN files' \/ t \in dropped
                 /\ \A t \in DOMAIN files' : t \in DOMAIN files \/ t[1] = saves
                 /\ \A x \in Pending : x.tool = "rm" /\ MayPrecede(tool, "rm") =>
                      /\ Named(files', x.name) \subseteq dropped
                      /\ tool \in {"resize", "mv"} => Named(files', x.name) # {}
          PROVE  Orderly'
      <3>1. \A t \in DOMAIN files' : t[1] <= saves'
        BY <1>1, <1>3, <1>11, <2>1
      <3>2. RemovalsAgreed(files', dropped', Pending')
        <4> SUFFICES ASSUME NEW x \in Pending', x.tool = "rm"
                     PROVE  /\ Named(files', x.name) \subseteq dropped
                            /\ x.name.zekyll \in Slots
                            /\ \A y \in Pending' :
                                 y.tool \in {"resize", "mv"} => Named(files', x.name) # {}
                            /\ \A y \in Pending' : y.tool = "mv" => y.from # x.name
          BY <1>1 DEF RemovalsAgreed
        <4>1. x \in Pending /\ MayPrecede(tool, "rm")
          BY <1>8
        <4>2. \A y \in Pending' : y.tool = "mv" => y \in Pending /\ MayPrecede(tool, "mv")
          BY <1>8
        <4>3. \A y \in Pending' : y.tool # "resize"
          BY <1>8
        <4>4. MayPrecede(tool, "mv") => tool \in {"resize", "mv"}
          BY DEF MayPrecede
        <4>5. x.name.zekyll \in Slots /\ \A y \in Pending : y.tool = "mv" => y.from # x.name
          BY <1>10, <4>1
        <4>6. /\ Named(files', x.name) \subseteq dropped
              /\ tool \in {"resize", "mv"} => Named(files', x.name) # {}
          BY <2>1, <4>1
        <4> QED BY <4>2, <4>3, <4>4, <4>5, <4>6
      <3> QED BY <1>3, <1>4, <1>7, <1>9, <3>1, <3>2 DEF Orderly
    <2> QED BY <2>1
  <1>13. CASE tool = "resize"
    <2>1. r \in resize(files, o) /\ o.tool = "resize"
      BY <1>2, <1>3, <1>13 DEF Outcomes
    <2>2. o.size >= Cardinality(Index(files)) /\ \A t \in DOMAIN files : t[1] < saves
      BY <1>3, <1>11, <2>1 DEF ResizesGrow
    <2>3. /\ \A t \in DOMAIN files : t \in DOMAIN files' /\ files'[t] = files[t]
          /\ \A t \in DOMAIN files' : t \in DOMAIN files \/
               /\ t[1] = saves
               /\ \A s \in Index(files) : files'[t] # files[s]
      BY <1>2, <1>3, <2>1, <2>2, ResizeAdds
    <2>4. ASSUME NEW x \in Pending, x.tool = "rm"
          PROVE  Named(files', x.name) \subseteq dropped /\ Named(files', x.name) # {}
      <3>1. /\ Named(files, x.name) # {} /\ x.name.zekyll \in Slots
            /\ Named(files, x.name) \subseteq dropped
        BY <1>3, <1>10, <2>1, <2>4
      <3>2. PICK s \in DOMAIN files : files[s] = x.name
        BY <3>1 DEF Named
      <3>3. s \in Index(files) /\ s \in Named(files', x.name)
        BY <2>3, <3>1, <3>2 DEF Index, Named
      <3>4. \A t \in Named(files', x.name) : t \in Named(files, x.name)
        BY <2>3, <3>2, <3>3 DEF Named
      <3> QED BY <3>1, <3>3, <3>4
    <2> QED BY <2>3, <2>4
  <1>14. CASE tool = "mv"
    <2>1. r \in mv(files, o) /\ o.tool = "mv"
      BY <1>2, <1>3, <1>14 DEF Outcomes
    <2>2. /\ DOMAIN files' = DOMAIN files
          /\ \A t \in DOMAIN files : \/ files'[t] = files[t]
                                     \/ files[t] = o.from /\ files'[t] = o.to
                                        /\ Named(files, o.to) = {}
      BY <1>2, <1>3, <2>1, MvSound
    <2>3. ASSUME NEW x \in Pending, x.tool = "rm"
          PROVE  Named(files', x.name) = Named(files, x.name)
      <3>1. Named(files, x.name) # {} /\ o.from # x.name
        BY <1>3, <1>10, <2>1, <2>3
      <3>2. \A t \in DOMAIN files : files'[t] = x.name <=> files[t] = x.name
        BY <2>2, <3>1
      <3> QED BY <2>2, <3>2 DEF Named
    <2>4. \A x \in Pending : x.tool = "rm" =>
            Named(files, x.name) \subseteq dropped /\ Named(files, x.name) # {}
      BY <1>3, <1>10, <2>1
    <2> QED BY <2>2, <2>3, <2>4
  <1>15. CASE tool = "rm"
    <2>1. r \in rm(files, o) /\ o.tool = "rm"
      BY <1>2, <1>3, <1>15 DEF Outcomes
    <2>2. /\ DOMAIN files' \subseteq DOMAIN files
          /\ \A t \in DOMAIN files : IF t \in DOMAIN files' THEN files'[t] = files[t]
                                     ELSE files[t] = o.name
      BY <1>2, <1>3, <2>1, RmSound
    <2>3. Named(files, o.name) \subseteq dropped
      BY <1>3, <1>10, <2>1
    <2>4. \A t \in DOMAIN files : t \in DOMAIN files' \/ t \in dropped
      BY <2>2, <2>3 DEF Named
    <2>5. \A x \in Pending : x.tool = "rm" => Named(files', x.name) \subseteq dropped
      BY <1>10, <2>2 DEF Named
    <2> QED BY <1>15, <2>2, <2>4, <2>5
  <1>16. CASE tool = "rewrite"
    <2>1. r \in rewrite(files, o) /\ o.tool = "rewrite"
      BY <1>2, <1>3, <1>16 DEF Outcomes
    <2>2. DOMAIN files' = DOMAIN files
      BY <1>2, <1>3, <2>1, RewriteSound
    <2>3. ~ MayPrecede("rewrite", "rm")
      BY DEF MayPrecede
    <2> QED BY <1>16, <2>2, <2>3
  <1> QED BY <1>13, <1>14, <1>15, <1>16 DEF Tools

LEMMA OrderlyStep ==
  ASSUME Slow = {}, Early = FALSE, Orderly, [Next]_vars,
         on_save_clicked => field = NotANumber \/ field >= size
  PROVE  /\ Orderly'
         /\ \A t \in DOMAIN files : t \in DOMAIN files' \/ t \in dropped
  <1>1. SoundState /\ SoundState'
    BY SoundStep DEF Orderly
  <1>2. ASSUME NEW l, Edit(l)
        PROVE  Orderly' /\ files' = files
    BY <1>1, <1>2, EditOrderly DEF Edit
  <1>3. ASSUME NEW m \in Sizes, TypeSize(m)
        PROVE  Orderly' /\ files' = files
    BY <1>1, <1>3, EditOrderly DEF TypeSize
  <1>4. CASE on_save_clicked
    BY <1>4, SaveClickedOrderly DEF on_save_clicked
  <1>5. CASE StartTool
    BY <1>5, StartToolOrderly DEF StartTool
  <1>6. CASE reloadRepository
    <2>1. /\ Waited /\ phase' = "loading" /\ todo = <<>>
          /\ UNCHANGED <<files, todo, waits, running, dropped, saves>>
      BY <1>6 DEF reloadRepository
    <2>2. AllIdle
      BY <2>1, WaitedForAll DEF Orderly
    <2>3. OneAtATime'
      BY <2>1, <2>2 DEF OneAtATime, AllIdle, Sorted
    <2>4. Fresh' /\ Pending' = Pending
      BY <2>1 DEF Fresh, Pending
    <2> QED BY <1>1, <2>1, <2>3, <2>4, QuietStep
  <1>7. CASE handle_zkiresize_list
    <2>1. /\ phase = "loading"
          /\ initial' = Entries(files) /\ size' = Len(Listing(files))
          /\ shown' = TextsOf(files)
          /\ UNCHANGED <<files, todo, waits, running, dropped, saves>>
      BY <1>7 DEF handle_zkiresize_list
    <2>2. AllIdle
      BY <2>1 DEF Orderly, OneAtATime, AllIdle
    <2>3. OneAtATime'
      BY <2>1, <2>2 DEF Orderly, OneAtATime, AllIdle, Sorted
    <2>4. Fresh' /\ Pending' = Pending
      BY <2>1 DEF Fresh, Pending
    <2> QED BY <1>1, <2>1, <2>3, <2>4, QuietStep
  <1>8. ASSUME NEW tool \in Tools, ToolEnds(tool)
        PROVE  /\ Orderly'
               /\ \A t \in DOMAIN files : t \in DOMAIN files' \/ t \in dropped
    BY <1>8, ToolEndsOrderly DEF Orderly
  <1>9. CASE UNCHANGED vars
    BY <1>1, <1>9, EditOrderly DEF vars
  <1>10. CASE StartFails
    BY <1>10, StartFailsOrderly DEF StartFails
  <1> QED BY <1>2, <1>3, <1>4, <1>5, <1>6, <1>7, <1>8, <1>9, <1>10
          DEF Next, User, Save, Move, Minus, EditZekyll, EditLabel

(* When Save waits until its programs end, the user until the listing is     *)
(* there, and no size smaller than the listed one is saved, nothing vanishes *)
(* but what was removed from the list, in any repository, whatever is        *)
(* renamed to what, and whichever of the programs fail.                      *)
THEOREM NothingVanishes ==
  ASSUME Slow = {}, Early = FALSE
  PROVE  Spec /\ NeverSmaller => NothingElseVanishes
  <1>1. Init => Orderly
    BY OrderlyInit
  <1>2. /\ Orderly /\ [Next]_vars
        /\ [on_save_clicked => field = NotANumber \/ field >= size]_vars
        => /\ Orderly'
           /\ [\A t \in DOMAIN files : t \in DOMAIN files' \/ t \in dropped]_vars
    <2>1. CASE UNCHANGED vars
      <3> SUFFICES ASSUME Orderly PROVE Orderly'
        BY <2>1
      <3>1. SoundState'
        BY <2>1, SoundStep DEF Orderly
      <3> QED BY <2>1, <3>1, EditOrderly DEF vars
    <2>2. CASE ~ UNCHANGED vars
      BY <2>2, OrderlyStep
    <2> QED BY <2>1, <2>2
  <1> QED BY <1>1, <1>2, PTL DEF Spec, NeverSmaller, NothingElseVanishes

-----------------------------------------------------------------------------
(* Silence is success, but for what did not start.                           *)

(* The rows are entries of the listing, each at most once.                   *)
Listed ==
  /\ \A k \in DOMAIN initial : initial[k].id = k
  /\ \A j, k \in DOMAIN initial :
       (shown[j] = shown[k] => j = k) /\ (initial[j].name = initial[k].name => j = k)
  /\ \A r \in DOMAIN list : list[r].id \in DOMAIN initial
  /\ \A q, r \in DOMAIN list : list[q].id = list[r].id => q = r

TextOf(r) == shown[list[r].id]
InPlace(r) == [zekyll |-> r, label |-> list[r].name.label]

Renaming(x, r) == x.tool = "mv" /\ x.from = initial[list[r].id].name
RewritePending == \E x \in Pending : x.tool = "rewrite"

(* The renaming of the row did not start.                                    *)
Missed(r) == \E x \in unstarted : Renaming(x, r)

(* The name of a row in the end.                                             *)
Due(r) == IF Started("rewrite") THEN InPlace(r) ELSE list[r].name

(* While nothing was refused and nothing broke: what is to be renamed has    *)
(* still its name, what is not has the one of its row, nothing that is       *)
(* removed is a row, and in the end every row has the name of its place, or  *)
(* that of the table when there was no rewriting; where no renaming was      *)
(* missed.                                                                   *)
OnTheWay ==
  /\ (\E x \in Pending : x.tool # "none") => RewritePending
  /\ RewritePending => Started("rewrite")
  /\ \A x \in Pending :
       /\ x.tool = "mv" => \E r \in DOMAIN list :
            Renaming(x, r) /\ x.to = list[r].name /\ files[TextOf(r)] = x.from
       /\ x.tool = "rm" => \A r \in DOMAIN list : files[TextOf(r)] # x.name
       /\ x.tool = "rewrite" => x.in = [k \in DOMAIN list |-> list[k].name.zekyll]
  /\ \A r \in DOMAIN list :
       /\ TextOf(r) \in DOMAIN files
       /\ \/ Missed(r)
          \/ IF RewritePending
             THEN \/ files[TextOf(r)] = list[r].name
                  \/ \E x \in Pending : Renaming(x, r)
             ELSE files[TextOf(r)] = Due(r)

Silent ==
  /\ Orderly /\ Listed
  /\ phase = "saving" /\ outcome = "ok" => OnTheWay

(* A list has rows of another one, each at most once.                        *)
RowsOf(m, l) ==
  \E p \in [DOMAIN m -> DOMAIN l] :
    /\ \A r \in DOMAIN m : m[r].id = l[p[r]].id
    /\ \A q, r \in DOMAIN m : p[q] = p[r] => q = r

LEMMA EditListed ==
  ASSUME Listed, RowsOf(list', list), UNCHANGED <<initial, shown>>
  PROVE  Listed'
  <1>1. PICK p \in [DOMAIN list' -> DOMAIN list] :
          /\ \A r \in DOMAIN list' : list'[r].id = list[p[r]].id
          /\ \A q, r \in DOMAIN list' : p[q] = p[r] => q = r
    BY DEF RowsOf
  <1> QED BY <1>1 DEF Listed

LEMMA SameRows ==
  ASSUME NEW l, NEW m, DOMAIN m = DOMAIN l, \A r \in DOMAIN l : m[r].id = l[r].id
  PROVE  RowsOf(m, l)
  <1> DEFINE p == [r \in DOMAIN l |-> r]
  <1>1. p \in [DOMAIN m -> DOMAIN l] /\ \A r \in DOMAIN l : p[r] = r
    OBVIOUS
  <1> HIDE DEF p
  <1> QED BY <1>1 DEF RowsOf

LEMMA MoveRows ==
  ASSUME NEW l \in Seq(Entry), NEW a, NEW b
  PROVE  RowsOf(LZCSDE_move(l, a, b), l)
  <1> DEFINE j == findIdxOfId(l, a)
             k == findIdxOfId(l, b)
  <1>1. CASE j = 0 \/ k = 0
    <2>1. LZCSDE_move(l, a, b) = l
      BY <1>1 DEF LZCSDE_move
    <2> QED BY <2>1, SameRows
  <1>2. CASE j # 0 /\ k # 0
    <2>1. j \in DOMAIN l /\ k \in DOMAIN l
      BY <1>2, Found
    <2>2. LZCSDE_move(l, a, b) = Swapped(l, j, k)
      BY <1>2 DEF LZCSDE_move
    <2> HIDE DEF j, k
    <2> DEFINE m == Swapped(l, j, k)
               p == [r \in DOMAIN l |-> IF r = k THEN j ELSE IF r = j THEN k ELSE r]
    <2>3. DOMAIN m = DOMAIN l /\ \A r \in DOMAIN m : m[r] = l[p[r]]
      BY <2>1 DEF Swapped
    <2>4. p \in [DOMAIN l -> DOMAIN l] /\ \A q, r \in DOMAIN l : p[q] = p[r] => q = r
      BY <2>1
    <2> HIDE DEF m, p
    <2>5. RowsOf(m, l)
      BY <2>3, <2>4 DEF RowsOf
    <2> QED BY <2>2, <2>5 DEF m
  <1> QED BY <1>1, <1>2

LEMMA RemoveRows ==
  ASSUME NEW l \in Seq(Entry), NEW a
  PROVE  RowsOf(removeId(l, a), l)
  <1> DEFINE k == findIdxOfId(l, a)
  <1>1. CASE k = 0
    <2>1. removeId(l, a) = l
      BY <1>1 DEF removeId
    <2> QED BY <2>1, SameRows
  <1>2. CASE k # 0
    <2>1. k \in DOMAIN l
      BY <1>2, Found
    <2>2. removeId(l, a) = Without(l, k)
      BY <1>2 DEF removeId
    <2> HIDE DEF k
    <2>3. Len(l) \in Nat /\ DOMAIN l = 1 .. Len(l)
      BY LenProperties
    <2> DEFINE m == Without(l, k)
               p == [r \in 1 .. Len(l) - 1 |-> IF r < k THEN r ELSE r + 1]
    <2>4. DOMAIN m = 1 .. Len(l) - 1 /\ \A r \in DOMAIN m : m[r] = l[p[r]]
      BY DEF Without
    <2>5. /\ p \in [1 .. Len(l) - 1 -> DOMAIN l]
          /\ \A q, r \in 1 .. Len(l) - 1 : p[q] = p[r] => q = r
      BY <2>1, <2>3
    <2> HIDE DEF m, p
    <2>6. RowsOf(m, l)
      BY <2>4, <2>5 DEF RowsOf
    <2> QED BY <2>2, <2>6 DEF m
  <1> QED BY <1>1, <1>2

LEMMA EditRows ==
  ASSUME NEW l \in Seq(Entry), NEW r \in DOMAIN l, NEW n
  PROVE  /\ RowsOf([l EXCEPT ![r].name.zekyll = n], l)
         /\ RowsOf([l EXCEPT ![r].name.label = n], l)
  <1>3. \A q \in DOMAIN l : l[q] \in Entry
    BY SeqElement
  <1>4. ASSUME NEW x
        PROVE  RowsOf([l EXCEPT ![r] = [l[r] EXCEPT !.name = x]], l)
    <2> DEFINE m == [l EXCEPT ![r] = [l[r] EXCEPT !.name = x]]
    <2>1. [l[r] EXCEPT !.name = x].id = l[r].id
      BY <1>3 DEF Entry
    <2>2. DOMAIN m = DOMAIN l /\ \A q \in DOMAIN l : m[q].id = l[q].id
      BY <2>1
    <2> HIDE DEF m
    <2>3. RowsOf(m, l)
      BY <2>2, SameRows
    <2> QED BY <2>3 DEF m
  <1>5. /\ [l EXCEPT ![r].name.zekyll = n]
             = [l EXCEPT ![r] = [l[r] EXCEPT !.name = [l[r].name EXCEPT !.zekyll = n]]]
        /\ [l EXCEPT ![r].name.label = n]
             = [l EXCEPT ![r] = [l[r] EXCEPT !.name = [l[r].name EXCEPT !.label = n]]]
    OBVIOUS
  <1> QED BY <1>4, <1>5

(* The entry of the row's id is the row.                                     *)
LEMMA RowFound ==
  ASSUME SoundState, Listed, NEW r \in DOMAIN list
  PROVE  /\ IsShown(initial[list[r].id])
         /\ EntryOf(initial[list[r].id].id) = list[r]
         /\ initial[list[r].id].id = list[r].id
  <1> DEFINE k == findIdxOfId(list, list[r].id)
  <1>1. list \in Seq(Entry) /\ DOMAIN list = 1 .. Len(list) /\ Len(list) \in Nat
    BY LenProperties DEF SoundState, TypeOK
  <1>2. initial[list[r].id].id = list[r].id
    BY DEF Listed
  <1>3. k # 0
    <2> DEFINE T == {j \in DOMAIN list : list[j].id = list[r].id}
    <2>1. T \in SUBSET Nat /\ T # {}
      BY <1>1
    <2>2. PICK j \in T : \A i \in T : j <= i
      BY <2>1, LeastExists
    <2>3. \A i \in DOMAIN list : i < j => list[i].id # list[r].id
      <3> SUFFICES ASSUME NEW i \in DOMAIN list, i < j, list[i].id = list[r].id PROVE FALSE
        OBVIOUS
      <3>1. j <= i /\ i \in Nat /\ j \in Nat
        BY <1>1, <2>2
      <3> QED BY <3>1
    <2>4. k \in DOMAIN list
      BY <2>2, <2>3 DEF findIdxOfId
    <2> QED BY <1>1, <2>4
  <1>4. k \in DOMAIN list /\ list[k].id = list[r].id
    BY <1>1, <1>3, Found
  <1>5. k = r
    BY <1>4 DEF Listed
  <1> QED BY <1>2, <1>3, <1>5 DEF IsShown, EntryOf

LEMMA OnTheWayNext ==
  ASSUME UNCHANGED <<initial, list, shown>>,
         (\E x \in Pending' : x.tool # "none") => \E x \in Pending' : x.tool = "rewrite",
         (\E x \in Pending' : x.tool = "rewrite") => \A x \in unstarted' : x.tool # "rewrite",
         \A x \in Pending' :
           /\ x.tool = "mv" => \E r \in DOMAIN list :
                Renaming(x, r) /\ x.to = list[r].name /\ files'[TextOf(r)] = x.from
           /\ x.tool = "rm" => \A r \in DOMAIN list : files'[TextOf(r)] # x.name
           /\ x.tool = "rewrite" => x.in = [k \in DOMAIN list |-> list[k].name.zekyll],
         \A r \in DOMAIN list :
           /\ TextOf(r) \in DOMAIN files'
           /\ \/ \E x \in unstarted' : Renaming(x, r)
              \/ IF \E x \in Pending' : x.tool = "rewrite"
                 THEN \/ files'[TextOf(r)] = list[r].name
                      \/ \E x \in Pending' : Renaming(x, r)
                 ELSE files'[TextOf(r)] = IF \A x \in unstarted' : x.tool # "rewrite"
                                            THEN InPlace(r) ELSE list[r].name
  PROVE  OnTheWay'
  BY DEF OnTheWay, Renaming, RewritePending, TextOf, InPlace, Missed, Due, Started

LEMMA FreshListing ==
  ASSUME NEW f, SoundFiles(f)
  PROVE  /\ DOMAIN Entries(f) = DOMAIN Listing(f)
         /\ \A k \in DOMAIN Entries(f) :
              /\ Entries(f)[k].id = k
              /\ TextsOf(f)[k] \in DOMAIN f /\ f[TextsOf(f)[k]] = Entries(f)[k].name
         /\ \A j, k \in DOMAIN Entries(f) :
              /\ TextsOf(f)[j] = TextsOf(f)[k] => j = k
              /\ Entries(f)[j].name = Entries(f)[k].name => j = k
  <1> DEFINE L == Listing(f)
  <1>1. /\ DOMAIN Entries(f) = DOMAIN L
        /\ \A k \in DOMAIN L :
             /\ Entries(f)[k] = [id |-> k, name |-> L[k]]
             /\ TextsOf(f)[k] \in DOMAIN f /\ f[TextsOf(f)[k]] = L[k]
    BY EntriesSound
  <1>2. \A j, k \in DOMAIN L : L[j] = L[k] => j = k
    BY ListingSound
  <1> HIDE DEF L
  <1>3. \A k \in DOMAIN L : Entries(f)[k].id = k /\ Entries(f)[k].name = L[k]
    BY <1>1
  <1>4. \A j, k \in DOMAIN L : TextsOf(f)[j] = TextsOf(f)[k] => j = k
    BY <1>1, <1>2
  <1> QED BY <1>1, <1>2, <1>3, <1>4 DEF L

In(x, s) == \E k \in DOMAIN s : s[k] = x

LEMMA JoinedElements ==
  ASSUME NEW s \in Seq(Run), NEW t \in Seq(Run)
  PROVE  s \o t \in Seq(Run) /\ \A x : In(x, s \o t) <=> In(x, s) \/ In(x, t)
  <1>1. Len(s) \in Nat /\ DOMAIN s = 1 .. Len(s)
    BY LenProperties
  <1>2. Len(t) \in Nat /\ DOMAIN t = 1 .. Len(t)
    BY LenProperties
  <1>3. /\ s \o t \in Seq(Run)
        /\ Len(s \o t) = Len(s) + Len(t)
        /\ \A i \in 1 .. Len(s) + Len(t) :
             (s \o t)[i] = IF i <= Len(s) THEN s[i] ELSE t[i - Len(s)]
    BY ConcatProperties
  <1>4. DOMAIN (s \o t) = 1 .. Len(s) + Len(t)
    BY <1>3, LenProperties
  <1>5. \A k \in DOMAIN s : k \in DOMAIN (s \o t) /\ (s \o t)[k] = s[k]
    BY <1>1, <1>2, <1>3, <1>4
  <1>6. ASSUME NEW k \in DOMAIN t
        PROVE  k + Len(s) \in DOMAIN (s \o t) /\ (s \o t)[k + Len(s)] = t[k]
    <2>1. k + Len(s) \in 1 .. Len(s) + Len(t) /\ ~ (k + Len(s) <= Len(s))
      BY <1>1, <1>2
    <2>2. (k + Len(s)) - Len(s) = k
      BY <1>1, <1>2
    <2> QED BY <1>3, <1>4, <2>1, <2>2
  <1>7. \A k \in DOMAIN (s \o t) :
          \/ k \in DOMAIN s /\ (s \o t)[k] = s[k]
          \/ k - Len(s) \in DOMAIN t /\ (s \o t)[k] = t[k - Len(s)]
    BY Joined
  <1>8. ASSUME NEW x PROVE In(x, s \o t) <=> In(x, s) \/ In(x, t)
    BY <1>5, <1>6, <1>7 DEF In
  <1> QED BY <1>3, <1>8

LEMMA PlanElements ==
  ASSUME SoundState, on_save_clicked
  PROVE  \A x : In(x, todo') <=>
           In(x, resizing) \/ In(x, renames) \/ In(x, deletions) \/ In(x, rewriting)
  <1> DEFINE a == resizing
             b == renames
             c == deletions
             d == rewriting
  <1>1. a \in Seq(Run) /\ b \in Seq(Run) /\ c \in Seq(Run) /\ d \in Seq(Run)
    BY ResizingSound, RenamesSound, DeletionsSound, RewritingSound
  <1>2. todo' = ((a \o b) \o c) \o d
    BY DEF on_save_clicked
  <1> HIDE DEF a, b, c, d
  <1>3. a \o b \in Seq(Run) /\ \A x : In(x, a \o b) <=> In(x, a) \/ In(x, b)
    BY <1>1, JoinedElements
  <1>4. /\ (a \o b) \o c \in Seq(Run)
        /\ \A x : In(x, (a \o b) \o c) <=> In(x, a \o b) \/ In(x, c)
    BY <1>1, <1>3, JoinedElements
  <1>5. \A x : In(x, ((a \o b) \o c) \o d) <=> In(x, (a \o b) \o c) \/ In(x, d)
    BY <1>1, <1>4, JoinedElements
  <1> HIDE DEF In
  <1>6. ASSUME NEW x
        PROVE  In(x, todo') <=> In(x, a) \/ In(x, b) \/ In(x, c) \/ In(x, d)
    BY <1>2, <1>3, <1>4, <1>5
  <1> QED BY <1>6 DEF a, b, c, d

LEMMA SaveClickedSilent ==
  ASSUME Early = FALSE, Silent, on_save_clicked,
         field = NotANumber \/ field >= size
  PROVE  Silent'
  <1>1. Orderly' /\ SoundState /\ Listed /\ SoundFiles(files)
    BY SaveClickedOrderly DEF Silent, Orderly, SoundState
  <1>2. /\ phase = "idle"
        /\ unstarted' = {}
        /\ UNCHANGED <<files, initial, list, size, field, running, shown>>
    BY DEF on_save_clicked
  <1>3. \A tool \in Tools : running'[tool] = Idle
    BY <1>2 DEF Silent, Orderly, OneAtATime
  <1>4. Listed'
    BY <1>1, <1>2 DEF Listed
  <1>5. /\ initial = Entries(files) /\ shown = TextsOf(files)
    BY <1>2 DEF Silent, Orderly, Fresh
  <1>6. \A k \in DOMAIN initial :
          /\ initial[k].id = k
          /\ shown[k] \in DOMAIN files /\ files[shown[k]] = initial[k].name
    BY <1>1, <1>5, FreshListing
  <1>7. \A j, k \in DOMAIN initial : initial[j].name = initial[k].name => j = k
    BY <1>1 DEF Listed
  <1>8. \A x \in Pending' : x.tool = "none" \/ In(x, todo')
    BY <1>3 DEF Pending, In, Idle
  <1>9. \A x : In(x, todo') => x \in Pending'
    BY DEF Pending, In
  <1>10. \A x \in Pending' :
           \/ x.tool = "none" \/ x.tool = "resize"
           \/ In(x, renames) /\ x.tool = "mv"
           \/ In(x, deletions) /\ x.tool = "rm"
           \/ In(x, rewriting) /\ x.tool = "rewrite"
    <2>1. /\ \A x : In(x, resizing) => x.tool = "resize"
          /\ \A x : In(x, renames) => x.tool = "mv"
          /\ \A x : In(x, deletions) => x.tool = "rm"
          /\ \A x : In(x, rewriting) => x.tool = "rewrite"
      BY <1>1, ResizingSound, RenamesSound, DeletionsSound, RewritingSound DEF In
    <2> QED BY <1>1, <1>8, <2>1, PlanElements
  <1>11. \E x \in Pending' : x.tool = "rewrite"
    <2>1. In(rewriting[1], rewriting) /\ rewriting[1].tool = "rewrite"
      BY <1>1, RewritingSound DEF In
    <2> QED BY <1>1, <1>9, <2>1, PlanElements
  <1>12. ASSUME NEW x \in Pending', x.tool = "mv"
         PROVE  \E r \in DOMAIN list :
                  Renaming(x, r) /\ x.to = list[r].name /\ files'[TextOf(r)] = x.from
    <2>1. PICK n \in DOMAIN renames : renames[n] = x
      BY <1>10, <1>12 DEF In
    <2>2. PICK k \in DOMAIN initial :
            /\ IsShown(initial[k]) /\ x.from = initial[k].name
            /\ x.to = EntryOf(initial[k].id).name
      BY <1>1, <2>1, RenamesSound
    <2> DEFINE r == findIdxOfId(list, initial[k].id)
    <2>3. r \in DOMAIN list /\ list[r].id = initial[k].id
      <3>1. list \in Seq(Entry)
        BY <1>1 DEF SoundState, TypeOK
      <3> QED BY <2>2, <3>1, Found DEF IsShown
    <2>4. x.to = list[r].name
      BY <2>2 DEF EntryOf
    <2> HIDE DEF r
    <2>5. list[r].id = k
      BY <1>6, <2>3
    <2> QED BY <1>2, <1>6, <1>12, <2>2, <2>3, <2>4, <2>5 DEF Renaming, TextOf
  <1>13. ASSUME NEW x \in Pending', x.tool = "rm", NEW r \in DOMAIN list
         PROVE  files'[TextOf(r)] # x.name
    <2>1. PICK n \in DOMAIN deletions : deletions[n] = x
      BY <1>10, <1>13 DEF In
    <2>2. PICK k \in DOMAIN initial : ~IsShown(initial[k]) /\ x.name = initial[k].name
      BY <1>1, <2>1, DeletionsSound
    <2>3. IsShown(initial[list[r].id]) /\ list[r].id \in DOMAIN initial
      BY <1>1, RowFound DEF Listed
    <2>4. files[TextOf(r)] = initial[list[r].id].name
      BY <1>6, <2>3 DEF TextOf
    <2> QED BY <1>2, <1>7, <2>2, <2>3, <2>4
  <1>14. \A x \in Pending' : x.tool = "rewrite" =>
           x.in = [k \in DOMAIN list |-> list[k].name.zekyll]
    BY <1>1, <1>10, RewritingSound DEF In
  <1>15. ASSUME NEW r \in DOMAIN list
         PROVE  /\ TextOf(r) \in DOMAIN files'
                /\ \/ files'[TextOf(r)] = list[r].name
                   \/ \E x \in Pending' : Renaming(x, r)
    <2>1. /\ list[r].id \in DOMAIN initial /\ IsShown(initial[list[r].id])
          /\ EntryOf(initial[list[r].id].id) = list[r]
      BY <1>1, RowFound DEF Listed
    <2>2. TextOf(r) \in DOMAIN files /\ files[TextOf(r)] = initial[list[r].id].name
      BY <1>6, <2>1 DEF TextOf
    <2>3. CASE list[r].name = initial[list[r].id].name
      BY <1>2, <2>2, <2>3
    <2>4. CASE list[r].name # initial[list[r].id].name
      <3>1. PICK n \in DOMAIN renames : renames[n].from = initial[list[r].id].name
        BY <1>1, <2>1, <2>4, RenamesSound
      <3>2. In(renames[n], renames) /\ renames[n].tool = "mv"
        BY <1>1, RenamesSound DEF In
      <3>3. renames[n] \in Pending'
        BY <1>1, <1>9, <3>2, PlanElements
      <3>4. Renaming(renames[n], r)
        BY <3>1, <3>2 DEF Renaming
      <3> QED BY <1>2, <2>2, <3>3, <3>4
    <2> QED BY <2>3, <2>4
  <1>16. OnTheWay'
    BY <1>2, <1>11, <1>12, <1>13, <1>14, <1>15, OnTheWayNext
  <1> QED BY <1>1, <1>4, <1>16 DEF Silent

(* Another plan, with the files as they are.                                 *)
LEMMA SamePlan ==
  ASSUME UNCHANGED <<files, initial, list, shown>>, OnTheWay,
         (\E x \in Pending' : x.tool # "none") => \E x \in Pending' : x.tool = "rewrite",
         (\E x \in Pending' : x.tool = "rewrite") => \A x \in unstarted' : x.tool # "rewrite",
         \A x \in Pending' : x.tool # "none" => x \in Pending,
         \A r \in DOMAIN list :
           \/ \E x \in unstarted' : Renaming(x, r)
           \/ IF \E x \in Pending' : x.tool = "rewrite"
              THEN \/ files[TextOf(r)] = list[r].name
                   \/ \E x \in Pending' : Renaming(x, r)
              ELSE files[TextOf(r)] = IF \A x \in unstarted' : x.tool # "rewrite"
                                        THEN InPlace(r) ELSE list[r].name
  PROVE  OnTheWay'
  <1>1. \A x \in Pending' :
          /\ x.tool = "mv" => \E r \in DOMAIN list :
               Renaming(x, r) /\ x.to = list[r].name /\ files'[TextOf(r)] = x.from
          /\ x.tool = "rm" => \A r \in DOMAIN list : files'[TextOf(r)] # x.name
          /\ x.tool = "rewrite" => x.in = [k \in DOMAIN list |-> list[k].name.zekyll]
    <2> SUFFICES ASSUME NEW x \in Pending', x.tool # "none"
                 PROVE  /\ x.tool = "mv" => \E r \in DOMAIN list :
                             Renaming(x, r) /\ x.to = list[r].name /\ files[TextOf(r)] = x.from
                        /\ x.tool = "rm" => \A r \in DOMAIN list : files[TextOf(r)] # x.name
                        /\ x.tool = "rewrite" =>
                             x.in = [k \in DOMAIN list |-> list[k].name.zekyll]
      OBVIOUS
    <2>1. x \in Pending
      OBVIOUS
    <2> QED BY <2>1 DEF OnTheWay
  <1>2. \A r \in DOMAIN list : TextOf(r) \in DOMAIN files'
    BY DEF OnTheWay
  <1> QED BY <1>1, <1>2, OnTheWayNext

LEMMA StartToolSilent ==
  ASSUME Slow = {}, Silent, StartTool
  PROVE  Silent'
  <1>1. Orderly' /\ Orderly /\ Listed
    BY StartToolOrderly DEF Silent
  <1>2. /\ UNCHANGED <<files, initial, list, phase, outcome, unstarted, shown>>
        /\ \A x : x.tool # "none" => (x \in Pending' <=> x \in Pending)
    BY <1>1, NextTool DEF Orderly
  <1>3. Listed'
    BY <1>1, <1>2 DEF Listed
  <1>4. ASSUME OnTheWay PROVE OnTheWay'
    <2>1. RewritePending <=> \E x \in Pending' : x.tool = "rewrite"
      BY <1>2 DEF RewritePending
    <2>2. \A r : (\E x \in Pending : Renaming(x, r)) => \E x \in Pending' : Renaming(x, r)
      BY <1>2 DEF Renaming
    <2>3. /\ (\E x \in Pending' : x.tool # "none") => \E x \in Pending' : x.tool = "rewrite"
          /\ (\E x \in Pending' : x.tool = "rewrite") => \A x \in unstarted' : x.tool # "rewrite"
      BY <1>2, <1>4, <2>1 DEF OnTheWay, Started
    <2>4. \A r \in DOMAIN list :
            \/ \E x \in unstarted' : Renaming(x, r)
            \/ IF \E x \in Pending' : x.tool = "rewrite"
               THEN \/ files[TextOf(r)] = list[r].name
                    \/ \E x \in Pending' : Renaming(x, r)
               ELSE files[TextOf(r)] = IF \A x \in unstarted' : x.tool # "rewrite"
                                         THEN InPlace(r) ELSE list[r].name
      BY <1>2, <1>4, <2>1, <2>2 DEF OnTheWay, Missed, Due, Started
    <2> QED BY <1>2, <1>4, <2>3, <2>4, SamePlan
  <1> QED BY <1>1, <1>2, <1>3, <1>4 DEF Silent

(* A renaming that did not start is missed by its row only; without a        *)
(* rewriting the rows keep the names they have.                              *)
LEMMA StartFailsSilent ==
  ASSUME Slow = {}, Silent, StartFails
  PROVE  Silent'
  <1> DEFINE o == todo[1]
  <1>1. Orderly' /\ Orderly /\ Listed
    BY StartFailsOrderly DEF Silent
  <1>2. /\ phase = "saving" /\ outcome' \in {outcome, "broke"}
        /\ UNCHANGED <<files, initial, list, phase, shown>>
        /\ o \in Pending /\ o.tool \in Tools
        /\ unstarted' = IF o.tool = "resize" THEN unstarted ELSE unstarted \cup {o}
        /\ o.tool = "resize" => outcome' # "ok"
        /\ Pending' \subseteq Pending
        /\ \A x \in Pending' : x.tool # "none" => Precedes(o, x)
        /\ \A x \in Pending : x.tool # "none" => x = o \/ x \in Pending'
    BY <1>1, NotStarted DEF Orderly
  <1> HIDE DEF o
  <1>3. Listed'
    BY <1>1, <1>2 DEF Listed
  <1>4. SUFFICES ASSUME outcome' = "ok" PROVE OnTheWay'
    BY <1>1, <1>3 DEF Silent
  <1>5. OnTheWay /\ o.tool # "none" /\ unstarted' = unstarted \cup {o}
    BY <1>2, <1>4 DEF Silent, Tools
  <1>6. RewritePending /\ Started("rewrite")
    BY <1>2, <1>5 DEF OnTheWay
  <1>7. o.tool # "rewrite" =>
          /\ \E x \in Pending' : x.tool = "rewrite"
          /\ \A x \in unstarted' : x.tool # "rewrite"
    <2>1. PICK x \in Pending : x.tool = "rewrite"
      BY <1>6 DEF RewritePending
    <2> QED BY <1>2, <1>5, <1>6, <2>1 DEF Started
  <1>8. o.tool = "rewrite" =>
          /\ \A x \in Pending' : x.tool = "none"
          /\ o \in unstarted'
    BY <1>2, <1>5 DEF Precedes, MayPrecede
  <1>9. /\ (\E x \in Pending' : x.tool # "none") => \E x \in Pending' : x.tool = "rewrite"
        /\ (\E x \in Pending' : x.tool = "rewrite") => \A x \in unstarted' : x.tool # "rewrite"
    BY <1>7, <1>8
  <1>10. ASSUME NEW r \in DOMAIN list
         PROVE  \/ \E x \in unstarted' : Renaming(x, r)
                \/ IF \E x \in Pending' : x.tool = "rewrite"
                   THEN \/ files[TextOf(r)] = list[r].name
                        \/ \E x \in Pending' : Renaming(x, r)
                   ELSE files[TextOf(r)] = IF \A x \in unstarted' : x.tool # "rewrite"
                                             THEN InPlace(r) ELSE list[r].name
    <2>1. \/ Missed(r) \/ files[TextOf(r)] = list[r].name
          \/ \E x \in Pending : Renaming(x, r)
      BY <1>5, <1>6 DEF OnTheWay
    <2>2. CASE Missed(r)
      BY <1>5, <2>2 DEF Missed
    <2>3. CASE files[TextOf(r)] = list[r].name
      BY <1>7, <1>8, <2>3
    <2>4. CASE \E x \in Pending : Renaming(x, r)
      <3>1. PICK x \in Pending : Renaming(x, r)
        BY <2>4
      <3>2. x = o \/ x \in Pending'
        BY <1>2, <3>1 DEF Renaming
      <3>3. CASE x = o
        BY <1>5, <3>1, <3>3
      <3>4. CASE x \in Pending'
        <4>1. o.tool # "rewrite"
          BY <1>8, <3>1, <3>4 DEF Renaming
        <4> QED BY <1>7, <3>1, <3>4, <4>1
      <3> QED BY <3>2, <3>3, <3>4
    <2> QED BY <2>1, <2>2, <2>3, <2>4
  <1> QED BY <1>2, <1>5, <1>9, <1>10, SamePlan

(* A program that does what it was asked for does its part.                  *)
LEMMA ToolEndsSilent ==
  ASSUME Silent, NEW tool \in Tools, ToolEnds(tool)
  PROVE  Silent'
  <1> DEFINE o == running[tool]
  <1>1. Orderly' /\ Orderly /\ Listed
    BY ToolEndsOrderly DEF Silent
  <1>2. /\ o # Idle /\ running' = [running EXCEPT ![tool] = Idle]
        /\ UNCHANGED <<initial, list, phase, todo, unstarted, shown>>
    BY DEF ToolEnds
  <1>3. PICK r \in Outcomes(files, o) : files' = r.files /\ outcome' = Worse(r.outcome)
    BY DEF ToolEnds
  <1>4. /\ SoundState /\ SoundFiles(files) /\ SoundRun(o) /\ o.tool = tool
        /\ o \in Pending /\ saves \in Nat /\ o \in Run /\ list \in Seq(Entry)
    <2>1. SoundState
      BY <1>1 DEF Orderly
    <2>2. SoundRun(o) /\ o.tool = tool
      BY <1>2, <2>1 DEF SoundState, RunsSound
    <2>3. saves \in Nat /\ list \in Seq(Entry)
      BY <2>1, InputsAssumption DEF SoundState, TypeOK
    <2> QED BY <2>1, <2>2, <2>3 DEF SoundState, SoundRun, Pending
  <1>5. Listed'
    BY <1>1, <1>2 DEF Listed
  <1>6. phase = "saving"
    BY <1>1, <1>4, ToolDone DEF Orderly
  <1>8. /\ \A x \in Pending' : x.tool # "none" => x \in Pending /\ Precedes(o, x)
        /\ \A x \in Pending : x.tool # "none" => x = o \/ x \in Pending'
    BY <1>1, <1>4, ToolDone DEF Orderly
  <1> HIDE DEF o
  <1>9. SUFFICES ASSUME phase' = "saving", outcome' = "ok"
                 PROVE  OnTheWay'
    BY <1>1, <1>5 DEF Silent
  <1>10. r.outcome = "ok" /\ outcome = "ok"
    BY <1>3, <1>9 DEF Worse
  <1>11. /\ (\E x \in Pending : x.tool # "none") => RewritePending
         /\ \A x \in Pending :
              /\ x.tool = "mv" => \E q \in DOMAIN list :
                   Renaming(x, q) /\ x.to = list[q].name /\ files[TextOf(q)] = x.from
              /\ x.tool = "rm" => \A q \in DOMAIN list : files[TextOf(q)] # x.name
              /\ x.tool = "rewrite" => x.in = [k \in DOMAIN list |-> list[k].name.zekyll]
         /\ \A q \in DOMAIN list :
              /\ TextOf(q) \in DOMAIN files
              /\ \/ Missed(q)
                 \/ RewritePending =>
                      \/ files[TextOf(q)] = list[q].name
                      \/ \E x \in Pending : Renaming(x, q)
         /\ RewritePending => Started("rewrite")
    BY <1>6, <1>10 DEF Silent, OnTheWay
  <1>12. /\ RewritePending /\ tool # "none"
         /\ \A x \in unstarted' : x.tool # "rewrite"
    BY <1>2, <1>4, <1>11 DEF Tools, Started
  <1>13. tool # "rewrite" => \E x \in Pending' : x.tool = "rewrite"
    <2>1. PICK x \in Pending : x.tool = "rewrite"
      BY <1>12 DEF RewritePending
    <2> QED BY <1>4, <1>8, <2>1
  <1>14. tool = "rewrite" => \A x \in Pending' : x.tool = "none"
    BY <1>4, <1>8 DEF Precedes, MayPrecede
  <1>15. (\E x \in Pending' : x.tool # "none") => \E x \in Pending' : x.tool = "rewrite"
    BY <1>13, <1>14
  <1>16. \A x \in Pending' : x.tool = "rewrite" =>
           x.in = [k \in DOMAIN list |-> list[k].name.zekyll]
    BY <1>8, <1>11
  (* The names of the rows' texts decide.                                    *)
  <1>17. ASSUME tool # "rewrite",
                \A q \in DOMAIN list :
                  /\ TextOf(q) \in DOMAIN files'
                  /\ \/ files'[TextOf(q)] = files[TextOf(q)]
                     \/ /\ tool = "mv" /\ files[TextOf(q)] = o.from
                        /\ files'[TextOf(q)] = o.to /\ Named(files, o.to) = {},
                tool = "mv" => \A q \in DOMAIN list :
                                 files[TextOf(q)] = o.from => files'[TextOf(q)] = o.to
         PROVE  OnTheWay'
    <2>1. ASSUME NEW x \in Pending', x.tool = "mv"
          PROVE  \E q \in DOMAIN list :
                   Renaming(x, q) /\ x.to = list[q].name /\ files'[TextOf(q)] = x.from
      <3>1. x \in Pending /\ Precedes(o, x)
        BY <1>8, <2>1
      <3>2. PICK q \in DOMAIN list :
              Renaming(x, q) /\ x.to = list[q].name /\ files[TextOf(q)] = x.from
        BY <1>11, <2>1, <3>1
      <3>3. tool = "mv" => o.from # x.from
        BY <1>4, <2>1, <3>1 DEF Precedes
      <3> QED BY <1>17, <3>2, <3>3
    <2>2. ASSUME NEW x \in Pending', x.tool = "rm", NEW q \in DOMAIN list
          PROVE  files'[TextOf(q)] # x.name
      <3>1. x \in Pending
        BY <1>8, <2>2
      <3>2. files[TextOf(q)] # x.name
        BY <1>11, <2>2, <3>1
      <3>3. tool = "mv" => Named(files, x.name) # {}
        BY <1>1, <1>4, <2>2, <3>1 DEF Orderly, RemovalsAgreed
      <3> QED BY <1>17, <3>2, <3>3
    <2>3. ASSUME NEW q \in DOMAIN list
          PROVE  \/ \E x \in unstarted' : Renaming(x, q)
                 \/ files'[TextOf(q)] = list[q].name
                 \/ \E x \in Pending' : Renaming(x, q)
      <3>1. \/ Missed(q) \/ files[TextOf(q)] = list[q].name
            \/ \E x \in Pending : Renaming(x, q)
        BY <1>11, <1>12
      <3>5. CASE Missed(q)
        BY <1>2, <3>5 DEF Missed
      <3>2. CASE \E x \in Pending' : Renaming(x, q)
        BY <3>2
      <3>3. CASE tool = "mv" /\ (files[TextOf(q)] = o.from \/ Renaming(o, q))
        <4>1. PICK p \in DOMAIN list :
                Renaming(o, p) /\ o.to = list[p].name /\ files[TextOf(p)] = o.from
          BY <1>4, <1>11, <3>3
        <4>2. p = q
          <5>1. list[p].id \in DOMAIN initial /\ list[q].id \in DOMAIN initial
            BY <1>1 DEF Listed
          <5>2. CASE files[TextOf(q)] = o.from
            <6>1. TextOf(p) \in DOMAIN files /\ TextOf(q) \in DOMAIN files
              BY <1>11
            <6>2. TextOf(p) = TextOf(q)
              BY <1>4, <4>1, <5>2, <6>1 DEF SoundFiles, Unique
            <6> QED BY <1>1, <5>1, <6>2 DEF Listed, TextOf
          <5>3. CASE Renaming(o, q)
            <6>1. initial[list[p].id].name = initial[list[q].id].name
              BY <4>1, <5>3 DEF Renaming
            <6>2. list[p].id = list[q].id
              BY <1>1, <5>1, <6>1 DEF Listed
            <6> QED BY <1>1, <6>2 DEF Listed
          <5> QED BY <3>3, <5>2, <5>3
        <4> QED BY <1>17, <3>3, <4>1, <4>2
      <3>4. CASE ~ Missed(q) /\ ~ (tool = "mv" /\ (files[TextOf(q)] = o.from \/ Renaming(o, q)))
        <4>1. CASE files[TextOf(q)] = list[q].name
          BY <1>17, <3>4, <4>1
        <4>2. CASE \E x \in Pending : Renaming(x, q)
          <5>1. PICK x \in Pending : Renaming(x, q)
            BY <4>2
          <5>2. x # o /\ x.tool # "none"
            BY <1>4, <3>4, <5>1 DEF Renaming
          <5> QED BY <1>8, <5>1, <5>2
        <4> QED BY <3>1, <3>4, <4>1, <4>2
      <3> QED BY <3>2, <3>3, <3>4, <3>5
    <2>4. \A q \in DOMAIN list : TextOf(q) \in DOMAIN files'
      BY <1>17
    <2> QED BY <1>2, <1>12, <1>13, <1>15, <1>16, <1>17, <2>1, <2>2, <2>3, <2>4, OnTheWayNext
  <1>18. CASE tool = "resize"
    <2>1. r \in resize(files, o) /\ o.tool = "resize"
      BY <1>3, <1>4, <1>18 DEF Outcomes
    <2>2. o.size >= Cardinality(Index(files)) /\ \A t \in DOMAIN files : t[1] < saves
      BY <1>1, <1>4, <2>1 DEF Orderly, ResizesGrow
    <2>3. \A t \in DOMAIN files : t \in DOMAIN files' /\ files'[t] = files[t]
      BY <1>3, <1>4, <2>1, <2>2, ResizeAdds
    <2> QED BY <1>11, <1>17, <1>18, <2>3
  <1>19. CASE tool = "mv"
    <2>1. r \in mv(files, o)
      BY <1>3, <1>4, <1>19 DEF Outcomes
    <2>2. /\ r = Done([t \in DOMAIN files |-> IF files[t] = o.from THEN o.to ELSE files[t]])
          /\ Named(files, o.to) = {}
      BY <1>10, <2>1 DEF mv, Refused, Broke
    <2>3. files' = [t \in DOMAIN files |-> IF files[t] = o.from THEN o.to ELSE files[t]]
      BY <1>3, <2>2 DEF Done
    <2>4. \A t \in DOMAIN files :
            t \in DOMAIN files' /\ files'[t] = IF files[t] = o.from THEN o.to ELSE files[t]
      BY <2>3
    <2> QED BY <1>11, <1>17, <1>19, <2>2, <2>4
  <1>20. CASE tool = "rm"
    <2>1. r \in rm(files, o)
      BY <1>3, <1>4, <1>20 DEF Outcomes
    <2>2. \A t \in DOMAIN files : IF t \in DOMAIN files' THEN files'[t] = files[t]
                                  ELSE files[t] = o.name
      BY <1>3, <1>4, <2>1, RmSound
    <2>3. \A q \in DOMAIN list : files[TextOf(q)] # o.name
      BY <1>4, <1>11, <1>20
    <2> QED BY <1>11, <1>17, <1>20, <2>2, <2>3
  <1>21. CASE tool = "rewrite"
    <2> DEFINE ks == DOMAIN o.in
               g == rewritten(files, o, ks)
    <2>1. r \in rewrite(files, o)
      BY <1>3, <1>4, <1>21 DEF Outcomes
    <2>2. r = Done(g) /\ Cardinality({o.in[k] : k \in ks}) = Cardinality(ks)
      BY <1>10, <2>1 DEF rewrite, Refused, Broke
    <2>3. files' = g
      BY <1>3, <2>2 DEF Done
    <2>4. /\ DOMAIN g = DOMAIN files
          /\ \A t \in DOMAIN files :
               \/ g[t] = files[t] /\ \A k \in ks : o.in[k] # files[t].zekyll
               \/ \E k \in ks : o.in[k] = files[t].zekyll /\ g[t] = Numbered(files[t], k)
      BY <1>4, <1>21, RewrittenNames
    <2> HIDE DEF g
    <2>5. ks = DOMAIN list /\ \A k \in ks : o.in[k] = list[k].name.zekyll
      <3>1. o.in = [k \in DOMAIN list |-> list[k].name.zekyll]
        BY <1>4, <1>11, <1>21
      <3> QED BY <3>1
    <2>6. \A x \in Pending : x.tool # "mv"
      BY <1>4, <1>8, <1>14, <1>21
    <2>7. \A q \in DOMAIN list :
            TextOf(q) \in DOMAIN files /\ (Missed(q) \/ files[TextOf(q)] = list[q].name)
      BY <1>11, <1>12, <2>6 DEF Renaming
    (* zkrewrite refuses a zekyll that is given twice.                       *)
    <2>10. \A j, k \in ks : o.in[j] = o.in[k] => j = k
      <3>1. IsFiniteSet(ks)
        <4>1. Len(list) \in Nat /\ ks = 1 .. Len(list)
          BY <1>4, <2>5, LenProperties
        <4> QED BY <4>1, FS_Interval
      <3> DEFINE given == {o.in[k] : k \in ks}
                 h == [k \in ks |-> o.in[k]]
      <3>2. h \in [ks -> given] /\ \A x \in given : \E k \in ks : h[k] = x
        OBVIOUS
      <3>3. \A k \in ks : h[k] = o.in[k]
        OBVIOUS
      <3>4. Cardinality(given) = Cardinality(ks)
        BY <2>2
      <3> HIDE DEF h, given, ks
      <3>5. h \in Surjection(ks, given)
        BY <3>2 DEF Surjection
      <3>6. h \in Injection(ks, given)
        BY <3>1, <3>4, <3>5, FS_Surjection
      <3> QED BY <3>3, <3>6 DEF Injection, IsInjective
    <2>8. ASSUME NEW q \in DOMAIN list, ~ Missed(q)
          PROVE  files'[TextOf(q)] = InPlace(q)
      <3>1. TextOf(q) \in DOMAIN files /\ files[TextOf(q)] = list[q].name
        BY <2>7, <2>8
      <3>2. PICK k \in ks : /\ o.in[k] = files[TextOf(q)].zekyll
                            /\ g[TextOf(q)] = Numbered(files[TextOf(q)], k)
        BY <2>4, <2>5, <3>1
      <3>3. k = q
        BY <2>5, <2>10, <3>1, <3>2
      <3>4. list[q].name \in Name /\ q \in Nat
        BY <1>4, SeqElement, EntryFields, LenProperties
      <3>5. Numbered(list[q].name, q) = InPlace(q)
        BY <3>4 DEF Numbered, InPlace, Name
      <3> QED BY <2>3, <2>4, <3>1, <3>2, <3>3, <3>5
    <2>9. \A x \in Pending' : x.tool = "none"
      BY <1>14, <1>21
    <2>11. \A q \in DOMAIN list :
             /\ TextOf(q) \in DOMAIN files'
             /\ (\E x \in unstarted' : Renaming(x, q)) \/ files'[TextOf(q)] = InPlace(q)
      BY <1>2, <2>3, <2>4, <2>7, <2>8 DEF Missed
    <2> QED BY <1>2, <1>12, <2>9, <2>11, OnTheWayNext
  <1> QED BY <1>18, <1>19, <1>20, <1>21 DEF Tools

LEMMA SilentInit ==
  ASSUME Init PROVE Silent
  <1>1. Orderly /\ SoundFiles(files)
    BY OrderlyInit DEF Orderly, SoundState
  <1>2. /\ initial = Entries(files) /\ list = Entries(files) /\ shown = TextsOf(files)
        /\ phase = "idle"
    BY DEF Init
  <1>3. Listed
    BY <1>1, <1>2, FreshListing DEF Listed
  <1> QED BY <1>1, <1>2, <1>3 DEF Silent

LEMMA SilentStep ==
  ASSUME Slow = {}, Early = FALSE, Silent, [Next]_vars,
         on_save_clicked => field = NotANumber \/ field >= size
  PROVE  Silent'
  <1>1. Orderly' /\ Orderly /\ Listed /\ SoundFiles(files)
    BY OrderlyStep DEF Silent, Orderly, SoundState
  <1>2. list \in Seq(Entry) /\ DOMAIN list = 1 .. Len(list) /\ Len(list) \in Nat
    BY <1>1, LenProperties DEF Orderly, SoundState, TypeOK
  <1>3. ASSUME NEW l, RowsOf(l, list), Edit(l)
        PROVE  Silent'
    <2>1. list' = l /\ phase' = "idle" /\ UNCHANGED <<initial, shown>>
      BY <1>3 DEF Edit
    <2>2. Listed'
      BY <1>1, <1>3, <2>1, EditListed
    <2> QED BY <1>1, <2>1, <2>2 DEF Silent
  <1>4. ASSUME NEW m \in Sizes, TypeSize(m) PROVE Silent'
    <2>1. phase' = phase /\ phase # "saving" /\ UNCHANGED <<initial, shown, list>>
      BY <1>4 DEF TypeSize
    <2> QED BY <1>1, <2>1 DEF Silent, Listed
  <1>5. CASE on_save_clicked
    BY <1>5, SaveClickedSilent
  <1>6. CASE StartTool
    BY <1>6, StartToolSilent
  <1>7. CASE reloadRepository
    <2>1. phase' = "loading" /\ initial' = <<>> /\ list' = <<>>
      BY <1>7 DEF reloadRepository
    <2>2. DOMAIN initial' = {} /\ DOMAIN list' = {}
      BY <2>1
    <2> QED BY <1>1, <2>1, <2>2 DEF Silent, Listed
  <1>8. CASE handle_zkiresize_list
    <2>1. /\ phase' = "idle" /\ initial' = Entries(files) /\ list' = Entries(files)
          /\ shown' = TextsOf(files)
      BY <1>8 DEF handle_zkiresize_list
    <2>2. Listed'
      BY <1>1, <2>1, FreshListing DEF Listed
    <2> QED BY <1>1, <2>1, <2>2 DEF Silent
  <1>9. ASSUME NEW tool \in Tools, ToolEnds(tool) PROVE Silent'
    BY <1>9, ToolEndsSilent
  <1>10. CASE UNCHANGED vars
    <2>1. UNCHANGED <<initial, list, shown, phase, outcome, unstarted, files, todo, running>>
      BY <1>10 DEF vars
    <2>2. Listed'
      BY <1>1, <2>1 DEF Listed
    <2>3. OnTheWay => OnTheWay'
      BY <2>1 DEF OnTheWay, Pending, RewritePending, Renaming, TextOf, InPlace, Missed, Due,
                  Started
    <2> QED BY <1>1, <2>1, <2>2, <2>3 DEF Silent
  <1>11. ASSUME NEW q \in 1 .. Len(list) - 1, Move(q) PROVE Silent'
    BY <1>2, <1>3, <1>11, MoveRows DEF Move
  <1>12. ASSUME NEW q \in DOMAIN list, Minus(q) PROVE Silent'
    BY <1>2, <1>3, <1>12, RemoveRows DEF Minus
  <1>13. ASSUME NEW q \in DOMAIN list, NEW z \in Zekylls, EditZekyll(q, z) PROVE Silent'
    BY <1>2, <1>3, <1>13, EditRows DEF EditZekyll
  <1>14. ASSUME NEW q \in DOMAIN list, NEW l \in Labels, EditLabel(q, l) PROVE Silent'
    BY <1>2, <1>3, <1>14, EditRows DEF EditLabel
  <1>15. CASE StartFails
    BY <1>15, StartFailsSilent
  <1> QED BY <1>4, <1>5, <1>6, <1>7, <1>8, <1>9, <1>10, <1>11, <1>12, <1>13, <1>14, <1>15
          DEF Next, User, Save

LEMMA SilentSucceeds ==
  ASSUME Silent PROVE OnlyUnstartedIsSilent
  <1> SUFFICES ASSUME Saved, outcome = "ok", NEW r \in DOMAIN list
               PROVE  TextOf(r) \in DOMAIN files /\ (Missed(r) \/ files[TextOf(r)] = Due(r))
    BY DEF OnlyUnstartedIsSilent, TextOf, InPlace, Missed, Renaming, Due
  <1>1. \A x \in Pending : x.tool = "none"
    BY DEF Saved, Pending, Idle
  <1>2. ~ RewritePending
    BY <1>1 DEF RewritePending
  <1> QED BY <1>2 DEF Saved, Silent, OnTheWay

(* Under the same conditions a Save of which no program complains has done   *)
(* what the table shows, but for the programs that did not start: each row   *)
(* whose own renaming started has its section and description and the file   *)
(* name of its place, or its zekyll of the table when zkrewrite did not      *)
(* start, in spite of all the names that the steps take and give up on the   *)
(* way, and of those that are not given up when a program is passed over.    *)
THEOREM OnlyUnstartedSilent ==
  ASSUME Slow = {}, Early = FALSE
  PROVE  Spec /\ NeverSmaller => []OnlyUnstartedIsSilent
  <1>1. Init => Silent
    BY SilentInit
  <1>2. /\ Silent /\ [Next]_vars
        /\ [on_save_clicked => field = NotANumber \/ field >= size]_vars
        => Silent'
    <2>1. CASE UNCHANGED vars
      <3> SUFFICES ASSUME Silent PROVE Silent'
        BY <2>1
      <3>1. Orderly'
        <4>1. SoundState'
          BY <2>1, SoundStep DEF Silent, Orderly
        <4> QED BY <2>1, <4>1, EditOrderly DEF vars, Silent
      <3>2. UNCHANGED <<initial, list, shown, phase, outcome, unstarted, files, todo,
                        running>>
        BY <2>1 DEF vars
      <3>3. Listed'
        BY <3>2 DEF Silent, Listed
      <3>4. OnTheWay => OnTheWay'
        BY <3>2 DEF OnTheWay, Pending, RewritePending, Renaming, TextOf, InPlace, Missed,
                    Due, Started
      <3> QED BY <3>1, <3>2, <3>3, <3>4 DEF Silent
    <2>2. CASE ~ UNCHANGED vars
      BY <2>2, SilentStep
    <2> QED BY <2>1, <2>2
  <1>3. Silent => OnlyUnstartedIsSilent
    BY SilentSucceeds
  <1> QED BY <1>1, <1>2, <1>3, PTL DEF Spec, NeverSmaller

-----------------------------------------------------------------------------
(* A table without duplicates can be saved: no program of the Save refuses   *)
(* what it is asked for.                                                     *)

(* What git mv and git rm are going to be asked for can be done: a row has   *)
(* still its listed name and nothing has the new one; what is to be removed  *)
(* is there and is no row.                                                   *)
MayMove(f, x) ==
  /\ Named(f, x.to) = {}
  /\ \E r \in DOMAIN list :
       Renaming(x, r) /\ x.to = list[r].name /\ TextOf(r) \in Named(f, x.from)
MayRemove(f, x) ==
  /\ Named(f, x.name) # {}
  /\ \A r \in DOMAIN list : TextOf(r) \notin Named(f, x.name)

(* The programs that are left can all be run.                                *)
Runnable(f, pending) ==
  \A x \in pending :
    /\ x.tool # "resize"
    /\ x.tool = "mv" => MayMove(f, x)
    /\ x.tool = "rm" => MayRemove(f, x)
    /\ x.tool = "rewrite" => x.in = [k \in DOMAIN list |-> list[k].name.zekyll]

(* Before the rewriting a row has the name of the table or will be given it, *)
(* and what is not a row will be removed.                                    *)
Underway(f, pending) ==
  (\E x \in pending : x.tool = "rewrite") =>
    /\ \A r \in DOMAIN list : \/ TextOf(r) \in Named(f, list[r].name)
                              \/ \E x \in pending : Renaming(x, r)
    /\ \A t \in Index(f) : \/ \E r \in DOMAIN list : t = TextOf(r)
                           \/ \E x \in pending : x.tool = "rm" /\ x.name = f[t]

Agreed(f, pending) == Runnable(f, pending) /\ Underway(f, pending)

(* The inductive invariant, for every environment that Save waits in.        *)
Calm ==
  /\ SoundState /\ OneAtATime /\ Fresh /\ Listed
  /\ phase = "loading" => list = <<>>
  /\ phase = "saving" /\ CleanTable /\ unstarted = {} =>
       outcome # "refused" /\ (outcome = "ok" => Agreed(files, Pending))

LEMMA SameTable ==
  ASSUME UNCHANGED <<initial, list, size, field, shown>>
  PROVE  /\ CleanTable' = CleanTable
         /\ Agreed(files', Pending') => Agreed(files, Pending)'
  <1>1. CleanTable' = CleanTable
    BY DEF CleanTable
  <1>2. \A x : /\ MayMove(files', x) => MayMove(files, x)'
               /\ MayRemove(files', x) => MayRemove(files, x)'
    BY DEF MayMove, MayRemove, Renaming, TextOf
  <1>3. Runnable(files', Pending') => Runnable(files, Pending)'
    BY <1>2 DEF Runnable
  <1>4. Underway(files', Pending') => Underway(files, Pending)'
    BY DEF Underway, Renaming, TextOf
  <1> QED BY <1>1, <1>3, <1>4 DEF Agreed

(* The names of the rows are different, and so are those they are listed by. *)
LEMMA RowsDiffer ==
  ASSUME Listed, CleanTable, NEW q \in DOMAIN list, NEW r \in DOMAIN list,
         \/ list[q].name = list[r].name
         \/ initial[list[q].id].name = initial[list[r].id].name
         \/ TextOf(q) = TextOf(r)
  PROVE  q = r
  <1>1. CASE list[q].name = list[r].name
    BY <1>1 DEF CleanTable
  <1>2. CASE initial[list[q].id].name = initial[list[r].id].name \/ TextOf(q) = TextOf(r)
    <2>1. list[q].id \in DOMAIN initial /\ list[r].id \in DOMAIN initial
      BY DEF Listed
    <2>2. list[q].id = list[r].id
      BY <1>2, <2>1 DEF Listed, TextOf
    <2> QED BY <2>2 DEF Listed
  <1> QED BY <1>1, <1>2

(* Of one name there is one text.                                            *)
LEMMA OneText ==
  ASSUME NEW f, SoundFiles(f), NEW n, NEW s \in Named(f, n), NEW t \in Named(f, n)
  PROVE  s = t
  BY DEF Named, SoundFiles, Unique

-----------------------------------------------------------------------------
(* The plan of a Save.                                                       *)

LEMMA SaveClickedCalm ==
  ASSUME Calm, on_save_clicked
  PROVE  Calm'
  <1>1. /\ SoundState' /\ SoundState /\ Listed /\ SoundFiles(files)
        /\ initial \in Seq(Entry) /\ list \in Seq(Entry)
    BY SaveClickedSound DEF Calm, SoundState, TypeOK
  <1>2. /\ phase \in {"idle", "loading"} /\ phase' = "saving" /\ outcome' = "ok"
        /\ UNCHANGED <<files, initial, list, size, field, running, shown>>
    BY DEF on_save_clicked
  <1>3. \A tool \in Tools : running[tool] = Idle /\ running'[tool] = Idle
    BY <1>2 DEF Calm, OneAtATime
  <1>4. Listed' /\ Fresh'
    BY <1>1, <1>2 DEF Listed, Fresh
  <1>5. \A j, k \in DOMAIN initial : initial[j].name = initial[k].name => j = k
    BY <1>1 DEF Listed
  <1>6. OneAtATime'
    <2>1. Sorted(todo') /\ \A k \in DOMAIN todo' : todo'[k].tool = "resize" => k = 1
      BY <1>1, <1>5, PlanOfSave
    <2> QED BY <1>3, <2>1 DEF OneAtATime, AllIdle
  <1>7. SUFFICES ASSUME CleanTable PROVE Agreed(files, Pending')
    BY <1>1, <1>2, <1>4, <1>6, SameTable DEF Calm
  (* The table is a listing, edited.                                         *)
  <1>8. initial = Entries(files) /\ shown = TextsOf(files)
    <2>1. phase # "loading"
      BY <1>7 DEF Calm, CleanTable
    <2> QED BY <1>2, <2>1 DEF Calm, Fresh
  <1>9. /\ \A k \in DOMAIN initial :
             /\ initial[k].id = k
             /\ shown[k] \in DOMAIN files /\ files[shown[k]] = initial[k].name
        /\ \A t \in Index(files) : \E k \in DOMAIN initial : initial[k].name = files[t]
    <2>1. \A k \in DOMAIN initial :
            /\ initial[k].id = k
            /\ shown[k] \in DOMAIN files /\ files[shown[k]] = initial[k].name
      BY <1>1, <1>8, FreshListing
    <2>2. /\ DOMAIN initial = DOMAIN Listing(files)
          /\ \A k \in DOMAIN Listing(files) : files[shown[k]] = Listing(files)[k]
      BY <1>1, <1>8, EntriesSound
    <2>3. \A t \in Index(files) : \E k \in DOMAIN Listing(files) : Listing(files)[k] = files[t]
      BY <1>1, ListingSound
    <2> QED BY <2>1, <2>2, <2>3
  <1>10. \A r \in DOMAIN list :
           list[r].id \in DOMAIN initial /\ TextOf(r) \in Named(files, initial[list[r].id].name)
    BY <1>1, <1>9 DEF Listed, TextOf, Named
  (* What is to be done is one of the four parts.                            *)
  <1>11. \A x \in Pending' :
           \/ x.tool = "none"
           \/ In(x, renames) /\ x.tool = "mv"
           \/ In(x, deletions) /\ x.tool = "rm"
           \/ In(x, rewriting) /\ x.tool = "rewrite"
    <2>1. /\ \A x : ~ In(x, resizing)
          /\ \A x : In(x, renames) => x.tool = "mv"
          /\ \A x : In(x, deletions) => x.tool = "rm"
          /\ \A x : In(x, rewriting) => x.tool = "rewrite"
      <3>1. DOMAIN resizing = {}
        BY <1>7 DEF CleanTable, resizing
      <3> QED BY <1>1, <3>1, RenamesSound, DeletionsSound, RewritingSound DEF In
    <2>2. \A x \in Pending' : x.tool = "none" \/ In(x, todo')
      BY <1>3 DEF Pending, In, Idle
    <2> QED BY <1>1, <2>1, <2>2, PlanElements
  <1>12. \A x : In(x, renames) \/ In(x, deletions) => x \in Pending'
    <2>1. \A x : In(x, todo') => x \in Pending'
      BY DEF Pending, In
    <2> QED BY <1>1, <2>1, PlanElements
  <1>13. ASSUME NEW x \in Pending', x.tool = "mv"
         PROVE  MayMove(files, x)
    <2>1. PICK n \in DOMAIN renames : renames[n] = x
      BY <1>11, <1>13 DEF In
    <2>2. PICK k \in DOMAIN initial :
            /\ IsShown(initial[k]) /\ x.from = initial[k].name
            /\ x.to = EntryOf(initial[k].id).name /\ x.to # x.from
      BY <1>1, <2>1, RenamesSound
    <2> DEFINE r == findIdxOfId(list, initial[k].id)
    <2>3. r \in DOMAIN list /\ list[r].id = initial[k].id
      BY <1>1, <2>2, Found DEF IsShown
    <2>4. x.to = list[r].name
      BY <2>2 DEF EntryOf
    <2> HIDE DEF r
    <2>5. list[r].id = k
      BY <1>9, <2>3
    <2>6. ASSUME NEW t \in Named(files, x.to) PROVE FALSE
      <3>1. t \in Index(files) /\ files[t] = list[r].name
        BY <1>7, <2>3, <2>4 DEF Named, Index, CleanTable
      <3>2. PICK j \in DOMAIN initial : initial[j].name = list[r].name
        BY <1>9, <3>1
      <3>3. list[r].id = initial[j].id
        BY <1>7, <2>3, <3>2 DEF CleanTable
      <3>4. j = k
        BY <1>9, <2>5, <3>3
      <3> QED BY <2>2, <2>4, <3>2, <3>4
    <2>7. Renaming(x, r) /\ TextOf(r) \in Named(files, x.from)
      BY <1>10, <1>13, <2>2, <2>3, <2>5 DEF Renaming
    <2> QED BY <2>3, <2>4, <2>6, <2>7 DEF MayMove
  <1>14. ASSUME NEW x \in Pending', x.tool = "rm"
         PROVE  MayRemove(files, x)
    <2>1. PICK n \in DOMAIN deletions : deletions[n] = x
      BY <1>11, <1>14 DEF In
    <2>2. PICK k \in DOMAIN initial : ~IsShown(initial[k]) /\ x.name = initial[k].name
      BY <1>1, <2>1, DeletionsSound
    <2>3. shown[k] \in Named(files, x.name)
      BY <1>9, <2>2 DEF Named
    <2>4. ASSUME NEW r \in DOMAIN list, TextOf(r) \in Named(files, x.name)
          PROVE  FALSE
      <3>1. initial[list[r].id].name = initial[k].name
        BY <1>10, <2>2, <2>4 DEF Named
      <3>2. list[r].id = k
        BY <1>5, <1>10, <3>1
      <3> QED BY <1>1, <2>2, <3>2, RowFound
    <2> QED BY <2>3, <2>4 DEF MayRemove
  <1>15. \A x \in Pending' : x.tool = "rewrite" =>
           x.in = [k \in DOMAIN list |-> list[k].name.zekyll]
    BY <1>1, <1>11, RewritingSound DEF In
  <1>16. ASSUME NEW r \in DOMAIN list
         PROVE  TextOf(r) \in Named(files, list[r].name) \/ \E x \in Pending' : Renaming(x, r)
    <2>1. /\ list[r].id \in DOMAIN initial /\ IsShown(initial[list[r].id])
          /\ EntryOf(initial[list[r].id].id) = list[r]
      BY <1>1, <1>10, RowFound
    <2>2. CASE list[r].name = initial[list[r].id].name
      BY <1>10, <2>2
    <2>3. CASE list[r].name # initial[list[r].id].name
      <3>1. PICK n \in DOMAIN renames : renames[n].from = initial[list[r].id].name
        BY <1>1, <2>1, <2>3, RenamesSound
      <3>2. In(renames[n], renames) /\ renames[n].tool = "mv"
        BY <1>1, RenamesSound DEF In
      <3> QED BY <1>12, <3>1, <3>2 DEF Renaming
    <2> QED BY <2>2, <2>3
  <1>17. ASSUME NEW t \in Index(files)
         PROVE  \/ \E r \in DOMAIN list : t = TextOf(r)
                \/ \E x \in Pending' : x.tool = "rm" /\ x.name = files[t]
    <2>1. PICK k \in DOMAIN initial : initial[k].name = files[t]
      BY <1>9
    <2>2. t = shown[k]
      BY <1>1, <1>9, <2>1 DEF Index, SoundFiles, Unique
    <2>3. CASE IsShown(initial[k])
      <3> DEFINE r == findIdxOfId(list, initial[k].id)
      <3>1. r \in DOMAIN list /\ list[r].id = initial[k].id
        BY <1>1, <2>3, Found DEF IsShown
      <3> HIDE DEF r
      <3> QED BY <1>9, <2>2, <3>1 DEF TextOf
    <2>4. CASE ~ IsShown(initial[k])
      <3>1. PICK n \in DOMAIN deletions : deletions[n].name = initial[k].name
        BY <1>1, <2>4, DeletionsSound
      <3>2. In(deletions[n], deletions) /\ deletions[n].tool = "rm"
        BY <1>1, DeletionsSound DEF In
      <3> QED BY <1>12, <2>1, <3>1, <3>2
    <2> QED BY <2>3, <2>4
  <1>18. Runnable(files, Pending')
    BY <1>11, <1>13, <1>14, <1>15 DEF Runnable
  <1>19. Underway(files, Pending')
    BY <1>16, <1>17 DEF Underway
  <1> QED BY <1>18, <1>19 DEF Agreed

-----------------------------------------------------------------------------
(* The programs.  None refuses, and what is left can still be run.           *)

(* The hypotheses the three have in common.                                  *)
Ending(f, o, pending, rest) ==
  /\ SoundFiles(f) /\ SoundRun(o) /\ Listed /\ CleanTable /\ list \in Seq(Entry)
  /\ o \in pending /\ Agreed(f, pending)
  /\ \A x \in rest : x.tool # "none" => x \in pending /\ Precedes(o, x)
  /\ \A x \in pending : x.tool # "none" => x = o \/ x \in rest

LEMMA MvAgreed ==
  ASSUME NEW f, NEW o, NEW pending, NEW rest, Ending(f, o, pending, rest),
         o.tool = "mv", NEW r \in mv(f, o)
  PROVE  r.outcome # "refused" /\ (r.outcome = "ok" => Agreed(r.files, rest))
  <1> DEFINE g == [t \in DOMAIN f |-> IF f[t] = o.from THEN o.to ELSE f[t]]
  <1>1. /\ SoundFiles(f) /\ Listed /\ CleanTable
        /\ Runnable(f, pending) /\ Underway(f, pending)
        /\ \A x \in rest : x.tool # "none" => x \in pending /\ Precedes(o, x)
        /\ \A x \in pending : x.tool # "none" => x = o \/ x \in rest
    BY DEF Ending, Agreed
  <1>2. /\ Named(f, o.to) = {}
        /\ \E p \in DOMAIN list :
             Renaming(o, p) /\ o.to = list[p].name /\ TextOf(p) \in Named(f, o.from)
    BY DEF Ending, Agreed, Runnable, MayMove
  <1>3. PICK p \in DOMAIN list :
          Renaming(o, p) /\ o.to = list[p].name /\ TextOf(p) \in Named(f, o.from)
    BY <1>2
  <1>4. r = Done(g) \/ r = Broke(f)
    <2>1. Named(f, o.from) # {} /\ Named(f, o.to) = {}
      BY <1>2, <1>3
    <2> QED BY <2>1 DEF mv
  <1>5. CASE r = Broke(f)
    BY <1>5 DEF Broke
  <1>6. CASE r = Done(g)
    <2>1. r.outcome = "ok" /\ r.files = g
      BY <1>6 DEF Done
    <2>2. DOMAIN g = DOMAIN f /\ \A t \in DOMAIN f : g[t] = IF f[t] = o.from THEN o.to ELSE f[t]
      OBVIOUS
    <2> HIDE DEF g
    <2>3. \A n : n # o.from /\ n # o.to => Named(g, n) = Named(f, n)
      BY <2>2 DEF Named
    <2>4. Named(g, o.to) = Named(f, o.from)
      BY <1>2, <2>2 DEF Named
    <2>5. ASSUME NEW x \in rest, x.tool = "mv"
          PROVE  MayMove(g, x)
      <3>1. x \in pending /\ x.from # o.from
        BY <1>1, <2>5 DEF Precedes, Ending
      <3>2. /\ Named(f, x.to) = {}
            /\ \E q \in DOMAIN list :
                 Renaming(x, q) /\ x.to = list[q].name /\ TextOf(q) \in Named(f, x.from)
        BY <1>1, <2>5, <3>1 DEF Runnable, MayMove
      <3>3. PICK q \in DOMAIN list :
              Renaming(x, q) /\ x.to = list[q].name /\ TextOf(q) \in Named(f, x.from)
        BY <3>2
      <3>4. x.to # o.to
        <4>1. CASE p = q
          BY <1>3, <3>1, <3>3, <4>1 DEF Renaming
        <4>2. CASE p # q
          BY <1>1, <1>3, <3>3, <4>2, RowsDiffer
        <4> QED BY <4>1, <4>2
      <3>5. x.to # o.from /\ x.from # o.to
        BY <1>2, <1>3, <3>2, <3>3
      <3>6. Named(g, x.to) = {} /\ Named(g, x.from) = Named(f, x.from)
        BY <2>3, <3>1, <3>2, <3>4, <3>5
      <3> QED BY <3>3, <3>6 DEF MayMove
    <2>6. ASSUME NEW x \in rest, x.tool = "rm"
          PROVE  Named(g, x.name) = Named(f, x.name) /\ MayRemove(f, x)
      <3>1. MayRemove(f, x)
        BY <1>1, <2>6 DEF Runnable
      <3>2. x.name # o.from /\ x.name # o.to
        BY <1>2, <1>3, <3>1 DEF MayRemove
      <3> QED BY <2>3, <3>1, <3>2
    <2>7. Runnable(g, rest)
      <3>1. \A x \in rest : x.tool = "rm" => MayRemove(g, x)
        BY <2>6 DEF MayRemove
      <3>2. \A x \in rest :
              /\ x.tool # "resize"
              /\ x.tool = "rewrite" => x.in = [k \in DOMAIN list |-> list[k].name.zekyll]
        BY <1>1 DEF Runnable
      <3> QED BY <2>5, <3>1, <3>2 DEF Runnable
    <2>8. ASSUME NEW x \in rest, x.tool = "rewrite"
          PROVE  /\ \A q \in DOMAIN list : \/ TextOf(q) \in Named(f, list[q].name)
                                           \/ \E y \in pending : Renaming(y, q)
                 /\ \A t \in Index(f) :
                      \/ \E q \in DOMAIN list : t = TextOf(q)
                      \/ \E y \in pending : y.tool = "rm" /\ y.name = f[t]
      BY <1>1, <2>8 DEF Underway
    <2>9. ASSUME NEW q \in DOMAIN list,
                 TextOf(q) \in Named(f, list[q].name) \/ \E y \in pending : Renaming(y, q)
          PROVE  TextOf(q) \in Named(g, list[q].name) \/ \E y \in rest : Renaming(y, q)
      <3>1. CASE q = p
        BY <1>3, <2>4, <3>1
      <3>2. CASE q # p /\ TextOf(q) \in Named(f, list[q].name)
        <4>1. list[q].name # o.to
          BY <1>2, <3>2
        <4>2. list[q].name # o.from
          BY <1>1, <1>3, <3>2, OneText, RowsDiffer
        <4> QED BY <2>3, <3>2, <4>1, <4>2
      <3>3. CASE q # p /\ \E y \in pending : Renaming(y, q)
        <4>1. PICK y \in pending : Renaming(y, q)
          BY <3>3
        <4>2. y # o
          BY <1>1, <1>3, <3>3, <4>1, RowsDiffer DEF Renaming
        <4> QED BY <1>1, <4>1, <4>2 DEF Renaming
      <3> QED BY <2>9, <3>1, <3>2, <3>3
    <2>10. ASSUME NEW t \in Index(g),
                  t \in Index(f) => \/ \E q \in DOMAIN list : t = TextOf(q)
                                    \/ \E y \in pending : y.tool = "rm" /\ y.name = f[t]
           PROVE  \/ \E q \in DOMAIN list : t = TextOf(q)
                  \/ \E y \in rest : y.tool = "rm" /\ y.name = g[t]
      <3>1. t \in DOMAIN f /\ g[t].zekyll \in Slots
        BY <2>2 DEF Index
      <3>2. CASE f[t] = o.from
        <4>1. t \in Named(f, o.from)
          BY <3>1, <3>2 DEF Named
        <4> QED BY <1>1, <1>3, <4>1, OneText
      <3>3. CASE f[t] # o.from
        <4>1. g[t] = f[t] /\ t \in Index(f)
          BY <2>2, <3>1, <3>3 DEF Index
        <4>2. \A y \in pending : y.tool = "rm" => y \in rest
          BY <1>1
        <4> QED BY <2>10, <4>1, <4>2
      <3> QED BY <3>2, <3>3
    <2>11. Underway(g, rest)
      BY <2>8, <2>9, <2>10 DEF Underway
    <2> QED BY <2>1, <2>7, <2>11 DEF Agreed
  <1> QED BY <1>4, <1>5, <1>6

LEMMA RmAgreed ==
  ASSUME NEW f, NEW o, NEW pending, NEW rest, Ending(f, o, pending, rest),
         o.tool = "rm", NEW r \in rm(f, o)
  PROVE  r.outcome # "refused" /\ (r.outcome = "ok" => Agreed(r.files, rest))
  <1> DEFINE g == Less(f, Named(f, o.name))
  <1>1. /\ Runnable(f, pending) /\ Underway(f, pending)
        /\ \A x \in rest : x.tool # "none" => x \in pending /\ Precedes(o, x)
        /\ \A x \in pending : x.tool # "none" => x = o \/ x \in rest
    BY DEF Ending, Agreed
  <1>2. MayRemove(f, o)
    BY DEF Ending, Agreed, Runnable
  <1>3. r = Done(g) \/ r = Broke(f)
    BY <1>2 DEF rm, MayRemove
  <1>4. CASE r = Broke(f)
    BY <1>4 DEF Broke
  <1>5. CASE r = Done(g)
    <2>1. r.outcome = "ok" /\ r.files = g
      BY <1>5 DEF Done
    <2>2. /\ DOMAIN g = DOMAIN f \ Named(f, o.name)
          /\ \A t \in DOMAIN g : g[t] = f[t]
      BY DEF Less
    <2> HIDE DEF g
    <2>3. \A n : n # o.name => Named(g, n) = Named(f, n)
      BY <2>2 DEF Named
    <2>4. \A x \in rest : /\ x.tool # "mv"
                          /\ x.tool = "rm" => x.name # o.name
      BY <1>1 DEF Precedes, MayPrecede
    <2>5. Runnable(g, rest)
      <3>1. ASSUME NEW x \in rest, x.tool = "rm" PROVE MayRemove(g, x)
        BY <1>1, <2>3, <2>4, <3>1 DEF Runnable, MayRemove
      <3>2. \A x \in rest :
              /\ x.tool # "resize"
              /\ x.tool = "rewrite" => x.in = [k \in DOMAIN list |-> list[k].name.zekyll]
        BY <1>1 DEF Runnable
      <3> QED BY <2>4, <3>1, <3>2 DEF Runnable
    <2>6. ASSUME NEW x \in rest, x.tool = "rewrite"
          PROVE  /\ \A q \in DOMAIN list : \/ TextOf(q) \in Named(f, list[q].name)
                                           \/ \E y \in pending : Renaming(y, q)
                 /\ \A t \in Index(f) :
                      \/ \E q \in DOMAIN list : t = TextOf(q)
                      \/ \E y \in pending : y.tool = "rm" /\ y.name = f[t]
      BY <1>1, <2>6 DEF Underway
    <2>7. ASSUME NEW q \in DOMAIN list,
                 TextOf(q) \in Named(f, list[q].name) \/ \E y \in pending : Renaming(y, q)
          PROVE  TextOf(q) \in Named(g, list[q].name) \/ \E y \in rest : Renaming(y, q)
      <3>1. TextOf(q) \notin Named(f, o.name)
        BY <1>2 DEF MayRemove
      <3>2. CASE TextOf(q) \in Named(f, list[q].name)
        BY <2>3, <3>1, <3>2
      <3>3. CASE \E y \in pending : Renaming(y, q)
        BY <1>1, <3>3 DEF Renaming
      <3> QED BY <2>7, <3>2, <3>3
    <2>8. ASSUME NEW t \in Index(g),
                 t \in Index(f) => \/ \E q \in DOMAIN list : t = TextOf(q)
                                   \/ \E y \in pending : y.tool = "rm" /\ y.name = f[t]
          PROVE  \/ \E q \in DOMAIN list : t = TextOf(q)
                 \/ \E y \in rest : y.tool = "rm" /\ y.name = g[t]
      <3>1. t \in Index(f) /\ g[t] = f[t] /\ f[t] # o.name
        BY <2>2 DEF Index, Named
      <3> QED BY <1>1, <2>8, <3>1
    <2>9. Underway(g, rest)
      BY <2>6, <2>7, <2>8 DEF Underway
    <2> QED BY <2>1, <2>5, <2>9 DEF Agreed
  <1> QED BY <1>3, <1>4, <1>5

(* Every file of the index is a row by now, and no two rows have one zekyll: *)
(* what zkrewrite refuses is not there.                                      *)
LEMMA RewriteAgreed ==
  ASSUME NEW f, NEW o, NEW pending, NEW rest, Ending(f, o, pending, rest),
         o.tool = "rewrite", NEW r \in rewrite(f, o)
  PROVE  r.outcome # "refused" /\ (r.outcome = "ok" => Agreed(r.files, rest))
  <1> DEFINE ks == DOMAIN list
             given == {o.in[k] : k \in ks}
  <1>1. /\ SoundFiles(f) /\ Listed /\ CleanTable /\ list \in Seq(Entry)
        /\ Runnable(f, pending) /\ Underway(f, pending)
        /\ \A x \in rest : x.tool # "none" => x \in pending /\ Precedes(o, x)
        /\ \A x \in pending : x.tool # "none" => x = o \/ x \in rest
    BY DEF Ending, Agreed
  <1>2. \A x \in rest : x.tool = "none"
    BY <1>1 DEF Ending, Precedes, MayPrecede
  <1>3. \A x \in pending : x.tool \notin {"mv", "rm"}
    BY <1>1, <1>2
  <1>4. \A q \in ks : TextOf(q) \in Named(f, list[q].name)
    BY <1>1, <1>3 DEF Ending, Underway, Renaming
  <1>5. \A t \in Index(f) : \E q \in ks : t = TextOf(q)
    BY <1>1, <1>3 DEF Ending, Underway
  <1>6. /\ o.in = [k \in ks |-> list[k].name.zekyll] /\ DOMAIN o.in = ks
        /\ o.out = [k \in DOMAIN o.in |-> k]
    BY <1>1 DEF Ending, Runnable, SoundRun
  <1>7. \A k \in ks : o.in[k] = list[k].name.zekyll /\ o.in[k] \in Slots
    BY <1>1, <1>6 DEF CleanTable
  <1>8. \A j, k \in ks : o.in[j] = o.in[k] => j = k
    BY <1>1, <1>7 DEF CleanTable
  <1>9. ks # {} /\ IsFiniteSet(ks) /\ Cardinality(given) = Cardinality(ks)
    <2>1. Len(list) \in Nat /\ ks = 1 .. Len(list) /\ list # <<>>
      BY <1>1, LenProperties DEF CleanTable
    <2>2. ks # {}
      BY <1>1, <2>1, EmptySeq
    <2>3. IsFiniteSet(ks)
      BY <2>1, FS_Interval
    <2> DEFINE h == [k \in ks |-> o.in[k]]
    <2>4. h \in [ks -> given] /\ (\A x \in given : \E k \in ks : h[k] = x)
      OBVIOUS
    <2>5. \A j, k \in ks : h[j] = h[k] => j = k
      BY <1>8
    <2> HIDE DEF h, ks, given
    <2>6. h \in Bijection(ks, given)
      BY <2>4, <2>5 DEF Bijection, Injection, Surjection, IsInjective
    <2> QED BY <2>2, <2>3, <2>6, FS_Bijection DEF ExistsBijection
  <1>10. ASSUME NEW t \in DOMAIN f, f[t].zekyll \in Slots
         PROVE  \E q \in ks : t = TextOf(q) /\ o.in[q] = f[t].zekyll
    <2>1. PICK q \in ks : t = TextOf(q)
      BY <1>5, <1>10 DEF Index
    <2> QED BY <1>4, <1>7, <2>1 DEF Named
  <1>11. ASSUME NEW k \in ks PROVE Owners(f, o.in[k]) = {TextOf(k)}
    <2>1. TextOf(k) \in Owners(f, o.in[k])
      BY <1>4, <1>7 DEF Owners, Named
    <2>2. ASSUME NEW t \in Owners(f, o.in[k]) PROVE t = TextOf(k)
      <3>1. t \in DOMAIN f /\ f[t].zekyll = o.in[k] /\ o.in[k] \in Slots
        BY <1>7 DEF Owners
      <3>2. PICK q \in ks : t = TextOf(q) /\ o.in[q] = f[t].zekyll
        BY <1>10, <3>1
      <3> QED BY <1>8, <3>1, <3>2
    <2> QED BY <2>1, <2>2
  <1>12. \A z \in given : ~ (Cardinality(Owners(f, z)) > 1) /\ Owners(f, z) # {}
    <2> SUFFICES ASSUME NEW k \in ks
                 PROVE  ~ (Cardinality(Owners(f, o.in[k])) > 1) /\ Owners(f, o.in[k]) # {}
      OBVIOUS
    <2>1. Cardinality({TextOf(k)}) = 1
      BY FS_Singleton
    <2> QED BY <1>11, <2>1
  <1>13. ASSUME NEW k \in ks, o.out[k] \notin given PROVE Owners(f, o.out[k]) = {}
    <2>1. o.out[k] = k /\ k \in Slots
      <3>1. Len(list) \in Nat /\ ks = 1 .. Len(list)
        BY <1>1, LenProperties
      <3>2. Len(list) <= Capacity
        <4>1. given \in SUBSET Slots
          BY <1>7
        <4>2. IsFiniteSet(Slots) /\ Cardinality(Slots) = Capacity
          BY CapacityAssumption, FS_Interval DEF Slots
        <4>3. Cardinality(given) <= Capacity
          BY <4>1, <4>2, FS_Subset
        <4>4. Cardinality(ks) = Len(list)
          <5>1. Len(list) \in Nat
            BY <3>1
          <5>2. \A n \in Nat : Cardinality(1 .. n) = n
            BY FS_Interval
          <5> QED BY <3>1, <5>1, <5>2
        <4> QED BY <1>9, <4>3, <4>4
      <3> QED BY <1>6, <3>1, <3>2, CapacityAssumption DEF Slots
    <2>2. ASSUME NEW t \in Owners(f, k) PROVE FALSE
      <3>1. t \in DOMAIN f /\ f[t].zekyll = k
        BY DEF Owners
      <3>2. PICK q \in ks : t = TextOf(q) /\ o.in[q] = f[t].zekyll
        BY <1>10, <2>1, <3>1
      <3> QED BY <1>13, <2>1, <3>1, <3>2
    <2> QED BY <2>1, <2>2
  <1>14. r.outcome # "refused"
    <2>1. /\ ~ (\E z \in given : Cardinality(Owners(f, z)) > 1)
          /\ ~ (\E z \in given : Owners(f, z) = {})
          /\ ~ (\E k \in ks : o.out[k] \notin given /\ Owners(f, o.out[k]) # {})
          /\ ks # {} /\ Cardinality(given) = Cardinality(ks)
      BY <1>9, <1>12, <1>13
    <2>2. \/ r = Done(rewritten(f, o, ks))
          \/ \E g : r = Broke(g)
      BY <1>6, <2>1 DEF rewrite
    <2> QED BY <2>2 DEF Done, Broke
  <1>15. \A g : Agreed(g, rest)
    BY <1>2 DEF Agreed, Runnable, Underway
  <1> QED BY <1>14, <1>15

LEMMA ToolEndsCalm ==
  ASSUME Calm, NEW tool \in Tools, ToolEnds(tool)
  PROVE  Calm'
  <1> DEFINE o == running[tool]
  <1>1. SoundState /\ SoundState'
    BY ToolEndsSound DEF Calm
  <1>2. /\ o \in Pending /\ o.tool = tool /\ SoundRun(o) /\ phase = "saving" /\ OneAtATime'
        /\ \A x \in Pending' : x.tool # "none" => x \in Pending /\ Precedes(o, x)
        /\ \A x \in Pending : x.tool # "none" => x = o \/ x \in Pending'
    BY ToolDone DEF Calm
  <1>3. UNCHANGED <<initial, list, size, field, phase, unstarted, shown>>
    BY DEF ToolEnds
  <1>4. PICK r \in Outcomes(files, o) : files' = r.files /\ outcome' = Worse(r.outcome)
    BY DEF ToolEnds
  <1> HIDE DEF o
  <1>5. Listed' /\ Fresh' /\ (phase' = "loading" => list' = <<>>)
    BY <1>2, <1>3 DEF Calm, Listed, Fresh
  <1>6. SUFFICES ASSUME CleanTable, unstarted = {}
                 PROVE  outcome' # "refused" /\ (outcome' = "ok" => Agreed(files', Pending'))
    BY <1>1, <1>2, <1>3, <1>5, SameTable DEF Calm
  <1>7. outcome # "refused" /\ (outcome = "ok" => Agreed(files, Pending))
    BY <1>2, <1>6 DEF Calm
  <1>8. CASE outcome # "ok"
    BY <1>4, <1>7, <1>8 DEF Worse
  <1>9. CASE outcome = "ok"
    <2>1. outcome' = r.outcome
      BY <1>4, <1>9 DEF Worse
    <2>2. Ending(files, o, Pending, Pending')
      BY <1>1, <1>2, <1>6, <1>7, <1>9 DEF Ending, Calm, SoundState, TypeOK
    <2>3. tool # "resize"
      BY <1>2, <1>7, <1>9 DEF Agreed, Runnable
    <2>4. \/ tool = "mv" /\ r \in mv(files, o)
          \/ tool = "rm" /\ r \in rm(files, o)
          \/ tool = "rewrite" /\ r \in rewrite(files, o)
      BY <1>2, <1>4, <2>3 DEF Outcomes, Tools
    <2>5. r.outcome # "refused" /\ (r.outcome = "ok" => Agreed(r.files, Pending'))
      BY <1>2, <2>2, <2>4, MvAgreed, RmAgreed, RewriteAgreed
    <2> QED BY <1>4, <2>1, <2>5
  <1> QED BY <1>8, <1>9

LEMMA StartToolCalm ==
  ASSUME Slow = {}, Calm, StartTool
  PROVE  Calm'
  <1>1. SoundState /\ SoundState'
    BY StartToolSound DEF Calm
  <1>2. /\ UNCHANGED <<files, initial, list, size, field, phase, outcome, unstarted,
                       shown>>
        /\ phase = "saving" /\ OneAtATime' /\ Pending' \subseteq Pending
        /\ \A x : x.tool # "none" => (x \in Pending' <=> x \in Pending)
    BY NextTool DEF Calm
  <1>3. Listed' /\ Fresh'
    BY <1>2 DEF Calm, Listed, Fresh
  <1>4. ASSUME Agreed(files, Pending) PROVE Agreed(files', Pending')
    <2>1. Runnable(files, Pending')
      BY <1>2, <1>4 DEF Agreed, Runnable
    <2>2. \A r : (\E x \in Pending : Renaming(x, r)) => \E x \in Pending' : Renaming(x, r)
      BY <1>2 DEF Renaming
    <2>3. /\ (\E x \in Pending' : x.tool = "rewrite") => \E x \in Pending : x.tool = "rewrite"
          /\ \A n : (\E x \in Pending : x.tool = "rm" /\ x.name = n)
                    => \E x \in Pending' : x.tool = "rm" /\ x.name = n
      BY <1>2
    <2>4. Underway(files, Pending')
      BY <1>4, <2>2, <2>3 DEF Agreed, Underway
    <2> QED BY <1>2, <2>1, <2>4 DEF Agreed
  <1> QED BY <1>1, <1>2, <1>3, <1>4, SameTable DEF Calm

(* After a program that did not start nothing is claimed but of a table      *)
(* whose size is not changed: zkiresize has complained.                      *)
LEMMA StartFailsCalm ==
  ASSUME Slow = {}, Calm, StartFails
  PROVE  Calm'
  <1>1. SoundState /\ SoundState'
    BY StartFailsSound DEF Calm
  <1>2. /\ UNCHANGED <<files, initial, list, size, field, phase, shown>>
        /\ phase = "saving" /\ OneAtATime'
        /\ outcome' \in {outcome, "broke"}
        /\ unstarted' = {} => unstarted = {} /\ outcome' # "ok"
    BY NotStarted DEF Calm
  <1>3. Listed' /\ Fresh'
    BY <1>2 DEF Calm, Listed, Fresh
  <1>4. CleanTable' = CleanTable
    BY <1>2, SameTable
  <1> QED BY <1>1, <1>2, <1>3, <1>4 DEF Calm

-----------------------------------------------------------------------------
(* The steps of the user and of the listing.                                 *)

LEMMA EditCalm ==
  ASSUME Calm, SoundState', NEW l, RowsOf(l, list), Edit(l)
  PROVE  Calm'
  <1>1. /\ phase = "idle" /\ list' = l
        /\ UNCHANGED <<files, initial, size, phase, todo, waits, running, shown>>
    BY DEF Edit
  <1>2. Listed'
    BY <1>1, EditListed DEF Calm
  <1>3. OneAtATime' /\ Fresh'
    BY <1>1 DEF Calm, OneAtATime, Fresh, AllIdle, Sorted
  <1> QED BY <1>1, <1>2, <1>3 DEF Calm

LEMMA CalmStep ==
  ASSUME Slow = {}, Calm, [Next]_vars
  PROVE  Calm'
  <1>1. SoundState /\ SoundState' /\ list \in Seq(Entry) /\ SoundFiles(files)
    BY SoundStep DEF Calm, SoundState, TypeOK
  <1>2. DOMAIN list = 1 .. Len(list) /\ Len(list) \in Nat
    BY <1>1, LenProperties
  <1>3. ASSUME NEW l, RowsOf(l, list), Edit(l) PROVE Calm'
    BY <1>1, <1>3, EditCalm
  <1>4. ASSUME NEW m \in Sizes, TypeSize(m) PROVE Calm'
    <2>1. /\ phase # "saving"
          /\ UNCHANGED <<files, initial, list, size, phase, todo, waits, running, shown>>
      BY <1>4 DEF TypeSize
    <2>2. OneAtATime' /\ Fresh' /\ Listed'
      BY <2>1 DEF Calm, OneAtATime, Fresh, Listed, AllIdle, Sorted
    <2> QED BY <1>1, <2>1, <2>2 DEF Calm
  <1>5. CASE on_save_clicked
    BY <1>5, SaveClickedCalm
  <1>6. CASE StartTool
    BY <1>6, StartToolCalm
  <1>7. CASE reloadRepository
    <2>1. /\ phase' = "loading" /\ Waited /\ todo = <<>> /\ initial' = <<>> /\ list' = <<>>
          /\ UNCHANGED <<todo, running>>
      BY <1>7 DEF reloadRepository
    <2>2. AllIdle
      BY <2>1, WaitedForAll DEF Calm
    <2>3. OneAtATime'
      BY <2>1, <2>2 DEF OneAtATime, AllIdle, Sorted
    <2>4. Listed'
      BY <2>1 DEF Listed
    <2> QED BY <1>1, <2>1, <2>3, <2>4 DEF Calm, Fresh
  <1>8. CASE handle_zkiresize_list
    <2>1. /\ phase = "loading" /\ phase' = "idle"
          /\ initial' = Entries(files) /\ list' = Entries(files) /\ shown' = TextsOf(files)
          /\ size' = Len(Listing(files)) /\ UNCHANGED <<files, todo, running, waits>>
      BY <1>8 DEF handle_zkiresize_list
    <2>2. AllIdle
      BY <2>1 DEF Calm, OneAtATime, AllIdle
    <2>3. OneAtATime'
      BY <2>1, <2>2 DEF Calm, OneAtATime, AllIdle, Sorted
    <2>4. Listed'
      BY <1>1, <2>1, FreshListing DEF Listed
    <2> QED BY <1>1, <2>1, <2>3, <2>4 DEF Calm, Fresh
  <1>9. ASSUME NEW tool \in Tools, ToolEnds(tool) PROVE Calm'
    BY <1>9, ToolEndsCalm
  <1>10. CASE UNCHANGED vars
    <2>1. UNCHANGED <<files, initial, list, size, field, phase, todo, waits, running,
                      outcome, unstarted, shown>>
      BY <1>10 DEF vars
    <2>2. OneAtATime' /\ Fresh' /\ Listed' /\ Pending' = Pending
      BY <2>1 DEF Calm, OneAtATime, Fresh, Listed, AllIdle, Sorted, Pending
    <2> QED BY <1>1, <2>1, <2>2, SameTable DEF Calm
  <1>11. ASSUME NEW q \in 1 .. Len(list) - 1, Move(q) PROVE Calm'
    BY <1>1, <1>3, <1>11, MoveRows DEF Move
  <1>12. ASSUME NEW q \in DOMAIN list, Minus(q) PROVE Calm'
    BY <1>1, <1>3, <1>12, RemoveRows DEF Minus
  <1>13. ASSUME NEW q \in DOMAIN list, NEW z \in Zekylls, EditZekyll(q, z) PROVE Calm'
    BY <1>1, <1>3, <1>13, EditRows DEF EditZekyll
  <1>14. ASSUME NEW q \in DOMAIN list, NEW l \in Labels, EditLabel(q, l) PROVE Calm'
    BY <1>1, <1>3, <1>14, EditRows DEF EditLabel
  <1>15. CASE StartFails
    BY <1>15, StartFailsCalm
  <1> QED BY <1>4, <1>5, <1>6, <1>7, <1>8, <1>9, <1>10, <1>11, <1>12, <1>13, <1>14, <1>15
          DEF Next, User, Save

LEMMA CalmInit ==
  ASSUME Init PROVE Calm
  <1>1. SoundState /\ Listed /\ Fresh /\ OneAtATime
    BY OrderlyInit, SilentInit DEF Orderly, Silent
  <1>2. phase = "idle"
    BY DEF Init
  <1> QED BY <1>1, <1>2 DEF Calm

(* A table without duplicates can be saved, whatever was saved before, from  *)
(* a listing with duplicates too: while Save waits for its programs and all  *)
(* of them start, none refuses what it is asked for (on_save_clicked,        *)
(* mainwindow.cpp:1041).                                                     *)
(* Neither the sizes nor the patience of the user matter: a second click     *)
(* during the load finds an empty table, which is not a clean one.           *)
THEOREM CleanIsSaved == Spec => []CleanTableIsSaved
  <1>1. CASE Slow # {}
    <2>1. CleanTableIsSaved
      BY <1>1 DEF CleanTableIsSaved
    <2> QED BY <2>1, PTL
  <1>2. CASE Slow = {}
    <2>1. Init => Calm
      BY CalmInit
    <2>2. Calm /\ [Next]_vars => Calm'
      BY <1>2, CalmStep
    <2>3. Calm => CleanTableIsSaved
      BY DEF Calm, CleanTableIsSaved, Saved
    <2> QED BY <2>1, <2>2, <2>3, PTL DEF Spec
  <1> QED BY <1>1, <1>2

=============================================================================
