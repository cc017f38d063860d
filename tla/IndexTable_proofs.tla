------------------------- MODULE IndexTable_proofs --------------------------
(***************************************************************************)
(* The properties of the index table, for every index, listing and         *)
(* sequence of the user's operations: the entries mirror the rows, the     *)
(* copies of the selection agree, visiting the Zcode changes nothing and   *)
(* gathering follows the order that Save will write.                       *)
(***************************************************************************)
EXTENDS IndexTable, Sublists_proofs

UniqueIds(s) == \A j, k \in DOMAIN s : s[j].id = s[k].id => j = k

(* The inductive invariant of the mirror: entries are found by id and rows   *)
(* by position, so it needs that ids stay unique.                            *)
IInv == TypeOK /\ UniqueIds(table) /\ ListMirrorsTable

(* Sequences as functions.                                                   *)
LEMMA SeqFcn ==
  ASSUME NEW S, NEW n \in Nat, NEW f, f \in [1 .. n -> S]
  PROVE  f \in Seq(S) /\ Len(f) = n /\ DOMAIN f = 1 .. n
  OBVIOUS

LEMMA FcnSeq ==
  ASSUME NEW S, NEW s \in Seq(S)
  PROVE  /\ Len(s) \in Nat
         /\ DOMAIN s = 1 .. Len(s)
         /\ s \in [1 .. Len(s) -> S]
         /\ \A k \in 1 .. Len(s) : s[k] \in S
  BY LenProperties, ElementOfSeq

(* A record whose id is unique is found where it is.                         *)
LEMMA FindUnique ==
  ASSUME NEW n \in Nat, NEW s, DOMAIN s = 1 .. n, UniqueIds(s), NEW r \in 1 .. n
  PROVE  findIdxOfId(s, s[r].id) = r
  <1> DEFINE found(k) == /\ s[k].id = s[r].id
                         /\ \A j \in DOMAIN s : j < k => s[j].id # s[r].id
  <1>1. found(r)
    BY DEF UniqueIds
  <1>2. \A k \in DOMAIN s : found(k) => k = r
    BY DEF UniqueIds
  <1>3. findIdxOfId(s, s[r].id) = CHOOSE k \in DOMAIN s : found(k)
    BY DEF findIdxOfId
  <1> HIDE DEF found
  <1>4. r \in DOMAIN s
    OBVIOUS
  <1>5. (CHOOSE k \in DOMAIN s : found(k)) = r
    BY <1>1, <1>2, <1>4
  <1> QED BY <1>3, <1>5

(* An id is found in the sequence, or nowhere.                               *)
LEMMA FindRange ==
  ASSUME NEW n \in Nat, NEW s, DOMAIN s = 1 .. n, UniqueIds(s), NEW id
  PROVE  \/ findIdxOfId(s, id) = 0
         \/ findIdxOfId(s, id) \in 1 .. n /\ s[findIdxOfId(s, id)].id = id
  <1>1. CASE \E k \in DOMAIN s : s[k].id = id
    <2>1. PICK k \in 1 .. n : s[k].id = id
      BY <1>1
    <2> QED BY <2>1, FindUnique
  <1>2. CASE ~ \E k \in DOMAIN s : s[k].id = id
    BY <1>2 DEF findIdxOfId
  <1> QED BY <1>1, <1>2

LEMMA WithoutType ==
  ASSUME NEW S, NEW s \in Seq(S), NEW k \in 1 .. Len(s)
  PROVE  /\ Without(s, k) \in Seq(S)
         /\ Len(Without(s, k)) = Len(s) - 1
         /\ DOMAIN Without(s, k) = 1 .. Len(s) - 1
         /\ \A j \in 1 .. Len(s) - 1 :
              Without(s, k)[j] = IF j < k THEN s[j] ELSE s[j + 1]
  <1>1. Len(s) \in Nat /\ Len(s) - 1 \in Nat
    BY FcnSeq
  <1>2. \A j \in 1 .. Len(s) - 1 :
          (IF j < k THEN s[j] ELSE s[j + 1]) \in S
    BY <1>1, FcnSeq
  <1>3. Without(s, k) \in [1 .. Len(s) - 1 -> S]
    BY <1>2 DEF Without
  <1>4. \A j \in 1 .. Len(s) - 1 :
          Without(s, k)[j] = IF j < k THEN s[j] ELSE s[j + 1]
    BY DEF Without
  <1> HIDE DEF Without
  <1> QED BY <1>1, <1>3, <1>4, SeqFcn

LEMMA SwappedType ==
  ASSUME NEW S, NEW s \in Seq(S), NEW j \in 1 .. Len(s), NEW k \in 1 .. Len(s)
  PROVE  /\ Swapped(s, j, k) \in Seq(S)
         /\ Len(Swapped(s, j, k)) = Len(s)
         /\ DOMAIN Swapped(s, j, k) = 1 .. Len(s)
         /\ Swapped(s, j, k)[k] = s[j]
         /\ Swapped(s, j, k)[j] = s[k]
         /\ \A m \in 1 .. Len(s) : m \notin {j, k} => Swapped(s, j, k)[m] = s[m]
  <1> DEFINE new == Swapped(s, j, k)
  <1>1. /\ Len(s) \in Nat /\ s \in [1 .. Len(s) -> S]
        /\ s[j] \in S /\ s[k] \in S
    BY FcnSeq
  <1>2. /\ new \in [1 .. Len(s) -> S]
        /\ new[k] = s[j] /\ new[j] = s[k]
        /\ \A m \in 1 .. Len(s) : m \notin {j, k} => new[m] = s[m]
    BY <1>1 DEF Swapped
  <1> HIDE DEF new
  <1>3. new \in Seq(S) /\ Len(new) = Len(s) /\ DOMAIN new = 1 .. Len(s)
    BY <1>1, <1>2, SeqFcn
  <1> QED BY <1>2, <1>3 DEF new

(* Two sequences with the same ids and zekylls.                              *)
SameNames(s, u) ==
  /\ Len(s) = Len(u)
  /\ \A r \in 1 .. Len(u) : s[r].id = u[r].id /\ s[r].zekyll = u[r].zekyll

(* Marking an entry changes neither its id nor its zekyll.                   *)
LEMMA MarkEntry ==
  ASSUME NEW e \in Entry, NEW value \in BOOLEAN
  PROVE  /\ [e EXCEPT !.checked = value] \in Entry
         /\ [e EXCEPT !.checked = value].id = e.id
         /\ [e EXCEPT !.checked = value].zekyll = e.zekyll
         /\ [e EXCEPT !.checked = value].checked = value
  BY DEF Entry

LEMMA MarkBox ==
  ASSUME NEW b \in Seq(Box), NEW r \in 1 .. Len(b), NEW value \in BOOLEAN
  PROVE  /\ [b EXCEPT ![r].checked = value] \in Seq(Box)
         /\ Len([b EXCEPT ![r].checked = value]) = Len(b)
  <1>1. b[r] \in Box
    BY FcnSeq
  <1>2. [b[r] EXCEPT !.checked = value] \in Box
    BY <1>1 DEF Box
  <1>3. [b EXCEPT ![r].checked = value] = [b EXCEPT ![r] = [b[r] EXCEPT !.checked = value]]
    BY <1>1, FcnSeq DEF Box
  <1> QED BY <1>2, <1>3, ExceptSeq

LEMMA SetCheckedKeeps ==
  ASSUME NEW s \in Seq(Entry), UniqueIds(s), NEW id, NEW value \in BOOLEAN
  PROVE  setChecked(s, id, value) \in Seq(Entry) /\ SameNames(setChecked(s, id, value), s)
  <1> DEFINE k == findIdxOfId(s, id)
             new == [s EXCEPT ![k].checked = value]
             e == [s[k] EXCEPT !.checked = value]
  <1>1. Len(s) \in Nat /\ DOMAIN s = 1 .. Len(s) /\ s \in [1 .. Len(s) -> Entry]
    BY FcnSeq
  <1>2. k = 0 \/ k \in 1 .. Len(s)
    BY <1>1, FindRange
  <1>3. CASE k = 0
    BY <1>3 DEF setChecked, SameNames
  <1>4. CASE k \in 1 .. Len(s)
    <2> HIDE DEF k
    <2>1. s[k] \in Entry
      BY <1>1, <1>4
    <2>2. e \in Entry /\ e.id = s[k].id /\ e.zekyll = s[k].zekyll
      BY <2>1, MarkEntry
    <2>3. new = [s EXCEPT ![k] = e]
      OBVIOUS
    <2> HIDE DEF e, new
    <2>4. /\ new \in Seq(Entry) /\ Len(new) = Len(s)
          /\ \A j \in 1 .. Len(s) : new[j] = IF j = k THEN e ELSE s[j]
      BY <1>4, <2>2, <2>3, ExceptSeq
    <2>5. SameNames(new, s)
      BY <2>2, <2>4 DEF SameNames
    <2>6. setChecked(s, id, value) = new
      BY <1>1, <1>4 DEF setChecked, k, new
    <2> QED BY <2>4, <2>5, <2>6
  <1> QED BY <1>2, <1>3, <1>4

LEMMA SyncedKeeps ==
  ASSUME NEW s \in Seq(Entry), NEW t \in Seq(Item), UniqueIds(t),
         NEW b \in Seq(Box), Len(b) = Len(t)
  PROVE  synced(s, t, b) \in Seq(Entry) /\ SameNames(synced(s, t, b), s)
  <1> DEFINE new == synced(s, t, b)
  <1>1. /\ Len(s) \in Nat /\ DOMAIN s = 1 .. Len(s)
        /\ \A k \in 1 .. Len(s) : s[k] \in Entry
        /\ Len(t) \in Nat /\ DOMAIN t = 1 .. Len(t)
        /\ \A r \in 1 .. Len(b) : b[r] \in Box
    BY FcnSeq
  <1>2. ASSUME NEW k \in 1 .. Len(s)
        PROVE  new[k] \in Entry /\ new[k].id = s[k].id /\ new[k].zekyll = s[k].zekyll
    <2> DEFINE r == findIdxOfId(t, s[k].id)
    <2>1. r = 0 \/ r \in 1 .. Len(t)
      BY <1>1, FindRange
    <2>2. new[k] = IF r = 0 THEN s[k] ELSE [s[k] EXCEPT !.checked = b[r].checked]
      BY <1>1, <1>2 DEF synced
    <2> HIDE DEF r, new
    <2>3. r # 0 => b[r].checked \in BOOLEAN
      BY <1>1, <2>1 DEF Box
    <2> QED BY <1>1, <2>2, <2>3, MarkEntry
  <1>3. new = [k \in 1 .. Len(s) |-> new[k]]
    BY <1>1 DEF synced
  <1> HIDE DEF new
  <1>4. new \in [1 .. Len(s) -> Entry]
    BY <1>2, <1>3
  <1>5. new \in Seq(Entry) /\ Len(new) = Len(s)
    BY <1>1, <1>4, SeqFcn
  <1> QED BY <1>2, <1>5 DEF new, SameNames

-----------------------------------------------------------------------------

LEMMA InitIInv == Init => IInv
  <1> SUFFICES ASSUME Init PROVE IInv
    OBVIOUS
  <1>1. /\ Len(Listing) \in Nat /\ Ids = 1 .. Len(Listing)
        /\ \A k \in Ids : Listing[k] \in Nat
    BY ListingAssumption, CapacityAssumption, FcnSeq DEF Ids, Slots
  <1>2. /\ table \in [1 .. Len(Listing) -> Item]
        /\ boxes \in [1 .. Len(Listing) -> Box]
        /\ list \in [1 .. Len(Listing) -> Entry]
    BY <1>1 DEF Init, Item, Box, Entry
  <1>3. /\ table \in Seq(Item) /\ Len(table) = Len(Listing)
        /\ boxes \in Seq(Box) /\ Len(boxes) = Len(Listing)
        /\ list \in Seq(Entry) /\ Len(list) = Len(Listing)
    BY <1>1, <1>2, SeqFcn
  <1> QED BY <1>1, <1>3 DEF Init, IInv, TypeOK, UniqueIds, ListMirrorsTable

(* Facts about a state of the invariant that every action needs.             *)
LEMMA Shape ==
  ASSUME IInv
  PROVE  /\ Len(table) \in Nat
         /\ DOMAIN table = 1 .. Len(table) /\ DOMAIN list = 1 .. Len(table)
         /\ DOMAIN boxes = 1 .. Len(table)
         /\ Len(list) = Len(table) /\ Len(boxes) = Len(table)
         /\ \A r \in 1 .. Len(table) :
              /\ table[r] \in Item /\ list[r] \in Entry /\ boxes[r] \in Box
              /\ list[r].id = table[r].id /\ list[r].zekyll = table[r].zekyll
         /\ UniqueIds(list)
         /\ \A r \in 1 .. Len(table) : /\ findIdxOfId(list, table[r].id) = r
                                        /\ findIdxOfId(table, table[r].id) = r
  <1>1. /\ Len(table) \in Nat
        /\ DOMAIN table = 1 .. Len(table) /\ DOMAIN list = 1 .. Len(table)
        /\ DOMAIN boxes = 1 .. Len(table)
        /\ Len(list) = Len(table) /\ Len(boxes) = Len(table)
        /\ \A r \in 1 .. Len(table) :
              table[r] \in Item /\ list[r] \in Entry /\ boxes[r] \in Box
    BY FcnSeq DEF IInv, TypeOK, ListMirrorsTable
  <1>2. \A r \in 1 .. Len(table) :
          list[r].id = table[r].id /\ list[r].zekyll = table[r].zekyll
    BY <1>1 DEF IInv, ListMirrorsTable
  <1>3. UniqueIds(list)
    BY <1>1, <1>2 DEF IInv, UniqueIds
  <1>4. ASSUME NEW r \in 1 .. Len(table)
        PROVE  findIdxOfId(list, table[r].id) = r /\ findIdxOfId(table, table[r].id) = r
    <2>1. findIdxOfId(list, list[r].id) = r
      BY <1>1, <1>3, FindUnique
    <2>2. findIdxOfId(table, table[r].id) = r
      BY <1>1, FindUnique DEF IInv
    <2> QED BY <1>2, <2>1, <2>2
  <1> QED BY <1>1, <1>2, <1>3, <1>4

(* A step that leaves the items alone and only marks boxes and entries.      *)
LEMMA MarkingStep ==
  ASSUME IInv, UNCHANGED table,
         boxes' \in Seq(Box), Len(boxes') = Len(boxes),
         list' \in Seq(Entry), SameNames(list', list),
         boxes2' \in [Ids -> BOOLEAN]
  PROVE  IInv'
  <1>1. TypeOK' /\ UniqueIds(table)'
    BY DEF IInv, TypeOK
  <1>2. ListMirrorsTable'
    BY Shape DEF ListMirrorsTable, SameNames
  <1> QED BY <1>1, <1>2 DEF IInv

LEMMA MoveIInv ==
  ASSUME IInv, NEW r \in DOMAIN table, NEW q \in DOMAIN table, Move(r, q)
  PROVE  IInv'
  <1>1. /\ r \in 1 .. Len(table) /\ q \in 1 .. Len(table)
        /\ r \in 1 .. Len(list) /\ q \in 1 .. Len(list)
        /\ table \in Seq(Item) /\ list \in Seq(Entry)
    BY Shape DEF IInv, TypeOK
  <1>2. table' = Swapped(table, r, q) /\ UNCHANGED <<boxes, boxes2>>
    BY DEF Move
  <1>3. list' = Swapped(list, r, q)
    <2>1. findIdxOfId(list, table[r].id) = r /\ findIdxOfId(list, table[q].id) = q
      BY <1>1, Shape
    <2> QED BY <1>1, <2>1 DEF Move, LZCSDE_move
  <1>4. /\ table' \in Seq(Item) /\ Len(table') = Len(table)
        /\ DOMAIN table' = 1 .. Len(table)
        /\ table'[q] = table[r] /\ table'[r] = table[q]
        /\ \A m \in 1 .. Len(table) : m \notin {r, q} => table'[m] = table[m]
    <2>1. /\ Swapped(table, r, q) \in Seq(Item)
          /\ Len(Swapped(table, r, q)) = Len(table)
          /\ DOMAIN Swapped(table, r, q) = 1 .. Len(table)
          /\ Swapped(table, r, q)[q] = table[r]
          /\ Swapped(table, r, q)[r] = table[q]
          /\ \A m \in 1 .. Len(table) :
               m \notin {r, q} => Swapped(table, r, q)[m] = table[m]
      BY <1>1, SwappedType, ZenonT(40)
    <2> QED BY <1>2, <2>1
  <1>5. /\ list' \in Seq(Entry) /\ Len(list') = Len(list)
        /\ list'[q] = list[r] /\ list'[r] = list[q]
        /\ \A m \in 1 .. Len(list) : m \notin {r, q} => list'[m] = list[m]
    <2>1. /\ Swapped(list, r, q) \in Seq(Entry)
          /\ Len(Swapped(list, r, q)) = Len(list)
          /\ DOMAIN Swapped(list, r, q) = 1 .. Len(list)
          /\ Swapped(list, r, q)[q] = list[r]
          /\ Swapped(list, r, q)[r] = list[q]
          /\ \A m \in 1 .. Len(list) :
               m \notin {r, q} => Swapped(list, r, q)[m] = list[m]
      BY <1>1, SwappedType, ZenonT(40)
    <2> QED BY <1>3, <2>1
  <1>6. TypeOK'
    BY <1>2, <1>4, <1>5 DEF IInv, TypeOK
  <1>7. UniqueIds(table')
    BY <1>1, <1>4, Shape DEF IInv, UniqueIds
  <1>8. ListMirrorsTable'
    BY <1>1, <1>4, <1>5, Shape DEF ListMirrorsTable
  <1> QED BY <1>6, <1>7, <1>8 DEF IInv

LEMMA MinusIInv ==
  ASSUME IInv, NEW r \in DOMAIN table, Minus(r)
  PROVE  IInv'
  <1>1. /\ r \in 1 .. Len(table) /\ r \in 1 .. Len(list) /\ r \in 1 .. Len(boxes)
        /\ table \in Seq(Item) /\ list \in Seq(Entry) /\ boxes \in Seq(Box)
    BY Shape DEF IInv, TypeOK
  <1>2. table' = Without(table, r) /\ boxes' = Without(boxes, r) /\ UNCHANGED boxes2
    BY DEF Minus
  <1>3. list' = Without(list, r)
    <2>1. findIdxOfId(list, table[r].id) = r
      BY <1>1, Shape
    <2> QED BY <1>1, <2>1 DEF Minus, removeId
  <1>4. /\ table' \in Seq(Item) /\ Len(table') = Len(table) - 1
        /\ DOMAIN table' = 1 .. Len(table) - 1
        /\ \A m \in 1 .. Len(table) - 1 :
             table'[m] = IF m < r THEN table[m] ELSE table[m + 1]
    BY <1>1, <1>2, WithoutType
  <1>5. /\ list' \in Seq(Entry) /\ Len(list') = Len(list) - 1
        /\ \A m \in 1 .. Len(list) - 1 :
             list'[m] = IF m < r THEN list[m] ELSE list[m + 1]
    BY <1>1, <1>3, WithoutType
  <1>6. boxes' \in Seq(Box) /\ Len(boxes') = Len(boxes) - 1
    BY <1>1, <1>2, WithoutType
  <1>7. TypeOK'
    BY <1>2, <1>4, <1>5, <1>6, Shape DEF IInv, TypeOK
  <1>8. UniqueIds(table')
    <2> SUFFICES ASSUME NEW j \in 1 .. Len(table) - 1, NEW k \in 1 .. Len(table) - 1,
                        table'[j].id = table'[k].id
                 PROVE  j = k
      BY <1>4 DEF UniqueIds
    <2> DEFINE from(m) == IF m < r THEN m ELSE m + 1
    <2>1. /\ from(j) \in 1 .. Len(table) /\ from(k) \in 1 .. Len(table)
          /\ table'[j] = table[from(j)] /\ table'[k] = table[from(k)]
      BY <1>1, <1>4, Shape
    <2>2. from(j) = from(k)
      BY <2>1, Shape DEF IInv, UniqueIds
    <2> QED BY <1>1, <2>2, Shape
  <1>9. ListMirrorsTable'
    <2>1. Len(list') = Len(table')
      BY <1>4, <1>5, Shape
    <2>2. ASSUME NEW m \in 1 .. Len(table) - 1
          PROVE  list'[m].id = table'[m].id /\ list'[m].zekyll = table'[m].zekyll
      <3>1. m \in 1 .. Len(table) /\ m + 1 \in 1 .. Len(table)
        BY Shape
      <3> QED BY <1>4, <1>5, <3>1, Shape
    <2> QED BY <1>4, <2>1, <2>2 DEF ListMirrorsTable
  <1> QED BY <1>7, <1>8, <1>9 DEF IInv

LEMMA EditIInv ==
  ASSUME IInv, NEW r \in DOMAIN table, NEW z \in Texts, EditZekyll(r, z)
  PROVE  IInv'
  <1> DEFINE item == [table[r] EXCEPT !.zekyll = z]
             entry == [list[r] EXCEPT !.zekyll = z]
  <1>1. /\ r \in 1 .. Len(table) /\ r \in 1 .. Len(list)
        /\ table \in Seq(Item) /\ list \in Seq(Entry)
        /\ table[r] \in Item /\ list[r] \in Entry
        /\ z \in Nat
    BY TextsAssumption, Shape DEF IInv, TypeOK
  <1>2. table' = [table EXCEPT ![r] = item] /\ UNCHANGED <<boxes, boxes2>>
    BY DEF EditZekyll
  <1>3. list' = [list EXCEPT ![r] = entry]
    <2>1. findIdxOfId(list, table[r].id) = r
      BY <1>1, Shape
    <2> QED BY <1>1, <2>1 DEF EditZekyll
  <1>4. /\ item \in Item /\ item.id = table[r].id /\ item.zekyll = z
        /\ entry \in Entry /\ entry.id = list[r].id /\ entry.zekyll = z
    BY <1>1 DEF Item, Entry
  <1> HIDE DEF item, entry
  <1>5. /\ table' \in Seq(Item) /\ Len(table') = Len(table)
        /\ DOMAIN table' = 1 .. Len(table)
        /\ \A m \in 1 .. Len(table) : table'[m] = IF m = r THEN item ELSE table[m]
    BY <1>1, <1>2, <1>4, ExceptSeq, FcnSeq
  <1>6. /\ list' \in Seq(Entry) /\ Len(list') = Len(list)
        /\ \A m \in 1 .. Len(list) : list'[m] = IF m = r THEN entry ELSE list[m]
    BY <1>1, <1>3, <1>4, ExceptSeq
  <1>7. TypeOK'
    BY <1>2, <1>5, <1>6 DEF IInv, TypeOK
  <1>8. UniqueIds(table')
    BY <1>1, <1>4, <1>5, Shape DEF IInv, UniqueIds
  <1>9. ListMirrorsTable'
    BY <1>1, <1>4, <1>5, <1>6, Shape DEF ListMirrorsTable
  <1> QED BY <1>7, <1>8, <1>9 DEF IInv

(* Marking an entry and gathering afterwards.                                *)
LEMMA MarkAndGather ==
  ASSUME IInv, NEW id, NEW value \in BOOLEAN,
         NEW b \in Seq(Box), Len(b) = Len(table),
         NEW l, l = synced(setChecked(list, id, value), table, b)
  PROVE  l \in Seq(Entry) /\ SameNames(l, list)
  <1> DEFINE marked == setChecked(list, id, value)
  <1>1. marked \in Seq(Entry) /\ SameNames(marked, list)
    BY Shape, SetCheckedKeeps DEF IInv, TypeOK
  <1> HIDE DEF marked
  <1>2. l \in Seq(Entry) /\ SameNames(l, marked)
    BY <1>1, SyncedKeeps DEF IInv, TypeOK, marked
  <1> QED BY <1>1, <1>2 DEF SameNames

LEMMA SameNamesSelf == SameNames(list, list)
  BY DEF SameNames

LEMMA ClickIInv ==
  ASSUME IInv, NEW r \in DOMAIN boxes, ClickBox(r)
  PROVE  IInv'
  <1> DEFINE id == boxes[r].id
             value == ~boxes[r].checked
  <1>1. /\ r \in 1 .. Len(boxes) /\ boxes[r] \in Box /\ boxes \in Seq(Box)
        /\ Len(boxes) = Len(table)
    BY Shape DEF IInv, TypeOK
  <1>2. value \in BOOLEAN /\ id \in Ids
    BY <1>1 DEF Box
  <1> HIDE DEF value, id
  <1>3. boxes' = [boxes EXCEPT ![r].checked = value] /\ UNCHANGED table
    BY DEF ClickBox, value
  <1>4. boxes' \in Seq(Box) /\ Len(boxes') = Len(boxes)
    BY <1>1, <1>2, <1>3, MarkBox
  <1>5. CASE UNCHANGED <<list, boxes2>>
    <2>1. SameNames(list', list)
      BY <1>5, SameNamesSelf
    <2> QED BY <1>3, <1>4, <1>5, <2>1, MarkingStep DEF IInv, TypeOK
  <1>6. CASE /\ boxes2' = [boxes2 EXCEPT ![id] = value]
             /\ list' = synced(setChecked(list, id, value), table, boxes')
    <2>1. list' \in Seq(Entry) /\ SameNames(list', list)
      BY <1>1, <1>2, <1>4, <1>6, MarkAndGather
    <2>2. boxes2' \in [Ids -> BOOLEAN]
      BY <1>2, <1>6 DEF IInv, TypeOK
    <2> QED BY <1>3, <1>4, <2>1, <2>2, MarkingStep
  <1> QED BY <1>5, <1>6 DEF ClickBox, id, value

LEMMA Click2IInv ==
  ASSUME IInv, NEW id \in Ids, ClickBox2(id)
  PROVE  IInv'
  <1> DEFINE value == ~boxes2[id]
             r == findIdxOfId(table, id)
  <1>1. value \in BOOLEAN
    BY DEF IInv, TypeOK
  <1>2. r = 0 \/ r \in 1 .. Len(boxes)
    BY Shape, FindRange DEF IInv
  <1> HIDE DEF value, r
  <1>3. boxes2' \in [Ids -> BOOLEAN] /\ UNCHANGED table
    BY <1>1 DEF ClickBox2, value, IInv, TypeOK
  <1>4. CASE UNCHANGED <<list, boxes>>
    <2>1. SameNames(list', list)
      BY <1>4, SameNamesSelf
    <2> QED BY <1>3, <1>4, <2>1, MarkingStep DEF IInv, TypeOK
  <1>5. CASE /\ boxes' = IF r = 0 THEN boxes
                         ELSE [boxes EXCEPT ![r].checked = value]
             /\ list' = synced(setChecked(list, id, value), table, boxes')
    <2>1. boxes' \in Seq(Box) /\ Len(boxes') = Len(boxes)
      BY <1>1, <1>2, <1>5, MarkBox DEF IInv, TypeOK
    <2>2. list' \in Seq(Entry) /\ SameNames(list', list)
      BY <1>1, <1>5, <2>1, Shape, MarkAndGather
    <2> QED BY <1>3, <2>1, <2>2, MarkingStep
  <1> QED BY <1>4, <1>5 DEF ClickBox2, r, value

(* Applying selectors after gathering.                                       *)
LEMMA ApplyIInv ==
  ASSUME IInv, NEW bits, applyCodeSelectors(bits, synced(list, table, boxes))
  PROVE  IInv'
  <1> DEFINE l == synced(list, table, boxes)
             marked(r) == [boxes[r] EXCEPT !.checked = table[r].zekyll \in bits]
  <1>1. /\ l \in Seq(Entry) /\ SameNames(l, list)
        /\ Len(boxes) \in Nat /\ DOMAIN boxes = 1 .. Len(boxes)
    BY Shape, SyncedKeeps DEF IInv, TypeOK
  <1> HIDE DEF l
  <1>2. boxes' = [r \in 1 .. Len(boxes) |-> marked(r)] /\ UNCHANGED table
    BY <1>1 DEF applyCodeSelectors
  <1>3. \A r \in 1 .. Len(boxes) : marked(r) \in Box
    <2> SUFFICES ASSUME NEW r \in 1 .. Len(boxes) PROVE marked(r) \in Box
      OBVIOUS
    <2> DEFINE c == table[r].zekyll \in bits
    <2>1. c \in BOOLEAN
      OBVIOUS
    <2>2. boxes[r] \in Box
      BY Shape
    <2> HIDE DEF c
    <2>3. [boxes[r] EXCEPT !.checked = c] \in Box
      BY <2>1, <2>2 DEF Box
    <2> QED BY <2>3 DEF c
  <1>4. boxes' \in Seq(Box) /\ Len(boxes') = Len(boxes)
    <2> HIDE DEF marked
    <2>1. boxes' \in [1 .. Len(boxes) -> Box]
      BY <1>2, <1>3
    <2> QED BY <1>1, <2>1, SeqFcn
  <1>5. list' \in Seq(Entry) /\ SameNames(list', list)
    <2>1. list' = synced(l, table, boxes')
      BY DEF applyCodeSelectors, l
    <2>2. list' \in Seq(Entry) /\ SameNames(list', l)
      BY <1>1, <1>4, <2>1, Shape, SyncedKeeps DEF IInv, TypeOK
    <2> QED BY <1>1, <2>2 DEF SameNames
  <1>6. boxes2' \in [Ids -> BOOLEAN]
    <2> DEFINE new(id) == LET r == findIdxOfId(table, id)
                          IN  IF r = 0 THEN boxes2[id] ELSE table[r].zekyll \in bits
    <2>1. ASSUME NEW id \in Ids PROVE new(id) \in BOOLEAN
      <3>1. CASE findIdxOfId(table, id) = 0
        BY <3>1 DEF IInv, TypeOK
      <3>2. CASE findIdxOfId(table, id) # 0
        BY <3>2
      <3> QED BY <3>1, <3>2
    <2>2. boxes2' = [id \in Ids |-> new(id)]
      BY DEF applyCodeSelectors
    <2> HIDE DEF new
    <2> QED BY <2>1, <2>2
  <1> QED BY <1>2, <1>4, <1>5, <1>6, MarkingStep

LEMMA VisitIInv ==
  ASSUME IInv, VisitZcode
  PROVE  IInv'
  <1>1. CASE applyCodeSelectors(gather(table, boxes), synced(list, table, boxes))
    BY <1>1, ApplyIInv
  <1>2. CASE list' = synced(list, table, boxes) /\ UNCHANGED <<table, boxes, boxes2>>
    <2>1. list' \in Seq(Entry) /\ SameNames(list', list)
      BY <1>2, Shape, SyncedKeeps DEF IInv, TypeOK
    <2> QED BY <1>2, <2>1, MarkingStep DEF IInv, TypeOK
  <1> QED BY <1>1, <1>2 DEF VisitZcode

LEMMA InductiveStep ==
  ASSUME IInv, [Next]_vars
  PROVE  IInv'
  <1>1. CASE UNCHANGED vars
    BY <1>1 DEF vars, IInv, TypeOK, UniqueIds, ListMirrorsTable
  <1> QED
    BY <1>1, MoveIInv, MinusIInv, EditIInv, ClickIInv, Click2IInv,
       ApplyIInv, VisitIInv DEF Next, EnterZcode

LEMMA Inductive == Spec => []IInv
  <1>1. Init => IInv
    BY InitIInv
  <1>2. IInv /\ [Next]_vars => IInv'
    BY InductiveStep
  <1> QED BY <1>1, <1>2, PTL DEF Spec

(* The types of the table's state.                                           *)
THEOREM TypeCorrect == Spec => []TypeOK
  <1>1. IInv => TypeOK
    BY DEF IInv
  <1> QED BY <1>1, Inductive, PTL

(* The entries mirror the rows, after any moves, removals, renamings, clicks *)
(* and Zcodes, in an index of any size.                                      *)
THEOREM MirrorKept == Spec => []ListMirrorsTable
  <1>1. IInv => ListMirrorsTable
    BY DEF IInv
  <1> QED BY <1>1, Inductive, PTL

-----------------------------------------------------------------------------
(* The copies of the selection.  Moving a row exchanges the items of two     *)
(* rows and leaves their check boxes, which are found by the id of the row   *)
(* they were made for: without it every box stays with its row.              *)

Paired ==
  \A r \in 1 .. Len(table) :
    /\ boxes[r].id = table[r].id
    /\ list[r].checked = boxes[r].checked
    /\ boxes2[table[r].id] = boxes[r].checked

(* Every entry has the state of the box in its row.                          *)
Matches(l, b) == \A r \in 1 .. Len(b) : l[r].checked = b[r].checked

(* One box has been marked.                                                  *)
Marked(new, b, r, value) ==
  /\ new \in Seq(Box) /\ Len(new) = Len(b)
  /\ \A k \in 1 .. Len(b) : /\ new[k].id = b[k].id
                            /\ k # r => new[k].checked = b[k].checked
  /\ new[r].checked = value

(* Gathering gives every entry the state of the box in its row.              *)
LEMMA SyncedMatches ==
  ASSUME IInv, NEW l \in Seq(Entry), SameNames(l, list),
         NEW b \in Seq(Box), Len(b) = Len(table),
         NEW new, new = synced(l, table, b)
  PROVE  Matches(new, b)
  <1> SUFFICES ASSUME NEW r \in 1 .. Len(table)
               PROVE  synced(l, table, b)[r].checked = b[r].checked
    BY DEF Matches
  <1>1. /\ Len(list) = Len(table) /\ list[r].id = table[r].id
        /\ findIdxOfId(table, table[r].id) = r
        /\ Len(table) \in Nat
    BY Shape
  <1>2. Len(l) = Len(table) /\ l[r].id = table[r].id
    BY <1>1 DEF SameNames
  <1>3. r \in DOMAIN l /\ l[r] \in Entry /\ b[r] \in Box
    BY <1>2, FcnSeq
  <1>4. synced(l, table, b)[r] =
          LET q == findIdxOfId(table, l[r].id)
          IN  IF q = 0 THEN l[r] ELSE [l[r] EXCEPT !.checked = b[q].checked]
    BY <1>3 DEF synced
  <1>5. synced(l, table, b)[r] = [l[r] EXCEPT !.checked = b[r].checked]
    BY <1>1, <1>2, <1>4
  <1>6. b[r].checked \in BOOLEAN
    BY <1>3 DEF Box
  <1> QED BY <1>3, <1>5, <1>6, MarkEntry

LEMMA MarkedBox ==
  ASSUME NEW b \in Seq(Box), NEW r \in 1 .. Len(b), NEW value \in BOOLEAN
  PROVE  Marked([b EXCEPT ![r].checked = value], b, r, value)
  <1> DEFINE box == [b[r] EXCEPT !.checked = value]
             new == [b EXCEPT ![r].checked = value]
  <1>1. new \in Seq(Box) /\ Len(new) = Len(b)
    BY MarkBox
  <1>2. DOMAIN b = 1 .. Len(b) /\ b[r] \in Box
    BY FcnSeq
  <1>3. new = [b EXCEPT ![r] = box]
    OBVIOUS
  <1>4. box.id = b[r].id /\ box.checked = value
    BY <1>2 DEF Box
  <1> HIDE DEF box
  <1>5. \A k \in 1 .. Len(b) : new[k] = IF k = r THEN box ELSE b[k]
    BY <1>2, <1>3
  <1> HIDE DEF new
  <1>6. Marked(new, b, r, value)
    BY <1>1, <1>4, <1>5 DEF Marked
  <1> QED BY <1>6 DEF new

LEMMA InitPaired == Init => Paired
  <1> SUFFICES ASSUME Init PROVE Paired
    OBVIOUS
  <1>1. Ids = 1 .. Len(table) /\ DOMAIN Listing = 1 .. Len(Listing)
    BY ListingAssumption, FcnSeq, SeqFcn, InitIInv, Shape DEF Init, Ids
  <1> QED BY <1>1 DEF Init, Paired

LEMMA MinusPaired ==
  ASSUME IInv, Paired, NEW r \in DOMAIN table, Minus(r)
  PROVE  Paired'
  <1>1. /\ r \in 1 .. Len(table) /\ r \in 1 .. Len(list) /\ r \in 1 .. Len(boxes)
        /\ Len(list) = Len(table) /\ Len(boxes) = Len(table) /\ Len(table) \in Nat
        /\ table \in Seq(Item) /\ list \in Seq(Entry) /\ boxes \in Seq(Box)
        /\ findIdxOfId(list, table[r].id) = r
    BY Shape DEF IInv, TypeOK
  <1>2. /\ table' = Without(table, r) /\ boxes' = Without(boxes, r)
        /\ list' = Without(list, r) /\ UNCHANGED boxes2
    BY <1>1 DEF Minus, removeId
  <1> DEFINE from(m) == IF m < r THEN m ELSE m + 1
  <1>3. /\ Len(table') = Len(table) - 1
        /\ \A m \in 1 .. Len(table) - 1 : table'[m] = table[from(m)]
    BY <1>1, <1>2, WithoutType
  <1>4. \A m \in 1 .. Len(table) - 1 : boxes'[m] = boxes[from(m)]
    BY <1>1, <1>2, WithoutType
  <1>5. \A m \in 1 .. Len(table) - 1 : list'[m] = list[from(m)]
    BY <1>1, <1>2, WithoutType
  <1>6. \A m \in 1 .. Len(table) - 1 : from(m) \in 1 .. Len(table)
    BY <1>1
  <1> HIDE DEF from
  <1>7. ASSUME NEW m \in 1 .. Len(table')
        PROVE  /\ boxes'[m].id = table'[m].id
               /\ list'[m].checked = boxes'[m].checked
               /\ boxes2'[table'[m].id] = boxes'[m].checked
    <2>1. m \in 1 .. Len(table) - 1 /\ from(m) \in 1 .. Len(table)
      BY <1>3, <1>6
    <2>2. /\ table'[m] = table[from(m)] /\ boxes'[m] = boxes[from(m)]
          /\ list'[m] = list[from(m)] /\ boxes2' = boxes2
      BY <1>2, <1>3, <1>4, <1>5, <2>1
    <2> QED BY <2>1, <2>2 DEF Paired
  <1> QED BY <1>7 DEF Paired

LEMMA EditPaired ==
  ASSUME IInv, Paired, NEW r \in DOMAIN table, NEW z \in Texts, EditZekyll(r, z)
  PROVE  Paired'
  <1> DEFINE item == [table[r] EXCEPT !.zekyll = z]
             entry == [list[r] EXCEPT !.zekyll = z]
  <1>1. /\ r \in 1 .. Len(table) /\ r \in 1 .. Len(list)
        /\ Len(list) = Len(table)
        /\ table \in Seq(Item) /\ list \in Seq(Entry)
        /\ table[r] \in Item /\ list[r] \in Entry
        /\ z \in Nat
        /\ findIdxOfId(list, table[r].id) = r
    BY TextsAssumption, Shape DEF IInv, TypeOK
  <1>2. /\ table' = [table EXCEPT ![r] = item] /\ UNCHANGED <<boxes, boxes2>>
        /\ list' = [list EXCEPT ![r] = entry]
    BY <1>1 DEF EditZekyll
  <1>3. /\ item \in Item /\ item.id = table[r].id
        /\ entry \in Entry /\ entry.checked = list[r].checked
    BY <1>1 DEF Item, Entry
  <1> HIDE DEF item, entry
  <1>4. /\ Len(table') = Len(table)
        /\ \A m \in 1 .. Len(table) : table'[m] = IF m = r THEN item ELSE table[m]
    BY <1>1, <1>2, <1>3, ExceptSeq
  <1>5. \A m \in 1 .. Len(list) : list'[m] = IF m = r THEN entry ELSE list[m]
    BY <1>1, <1>2, <1>3, ExceptSeq
  <1>6. \A m \in 1 .. Len(table) : /\ table'[m].id = table[m].id
                                   /\ list'[m].checked = list[m].checked
    BY <1>1, <1>3, <1>4, <1>5
  <1> QED BY <1>2, <1>4, <1>6 DEF Paired

LEMMA ClickPaired ==
  ASSUME IInv, Paired, NEW r \in DOMAIN boxes, ClickBox(r)
  PROVE  Paired'
  <1> DEFINE id == boxes[r].id
             value == ~boxes[r].checked
             marked == setChecked(list, id, value)
  <1>1. /\ r \in 1 .. Len(boxes) /\ Len(boxes) = Len(table) /\ r \in 1 .. Len(table)
        /\ boxes \in Seq(Box) /\ boxes[r] \in Box
        /\ findIdxOfId(list, table[r].id) = r
        /\ \A k \in 1 .. Len(table) : table[k].id \in Ids
        /\ \A j, k \in 1 .. Len(table) : table[j].id = table[k].id => j = k
    BY Shape DEF IInv, TypeOK, UniqueIds, Item
  <1>2. id = table[r].id /\ value \in BOOLEAN /\ r # 0
    BY <1>1 DEF Paired, Box
  <1>3. /\ boxes' = [boxes EXCEPT ![r].checked = value]
        /\ boxes2' = [boxes2 EXCEPT ![id] = value]
        /\ list' = synced(marked, table, boxes')
        /\ UNCHANGED table
    BY <1>1, <1>2 DEF ClickBox
  <1> HIDE DEF id, value
  <1>4. marked \in Seq(Entry) /\ SameNames(marked, list)
    BY <1>2, Shape, SetCheckedKeeps DEF IInv, TypeOK
  <1> HIDE DEF marked
  <1>5. Marked(boxes', boxes, r, value)
    BY <1>1, <1>2, <1>3, MarkedBox
  <1>6. Matches(list', boxes')
    BY <1>1, <1>3, <1>4, <1>5, SyncedMatches DEF Marked
  <1>7. \A k \in 1 .. Len(table) :
          boxes2'[table[k].id] = IF k = r THEN value ELSE boxes2[table[k].id]
    BY <1>1, <1>2, <1>3 DEF IInv, TypeOK
  <1>8. ASSUME NEW k \in 1 .. Len(table)
        PROVE  /\ boxes'[k].id = table[k].id
               /\ list'[k].checked = boxes'[k].checked
               /\ boxes2'[table[k].id] = boxes'[k].checked
    <2>1. boxes'[k].id = boxes[k].id
      BY <1>1, <1>5 DEF Marked
    <2>2. boxes'[k].checked = IF k = r THEN value ELSE boxes[k].checked
      BY <1>1, <1>5 DEF Marked
    <2>3. list'[k].checked = boxes'[k].checked
      BY <1>1, <1>5, <1>6 DEF Marked, Matches
    <2>4. boxes[k].id = table[k].id /\ boxes2[table[k].id] = boxes[k].checked
      BY DEF Paired
    <2>5. boxes2'[table[k].id] = IF k = r THEN value ELSE boxes2[table[k].id]
      BY <1>7
    <2> QED BY <2>1, <2>2, <2>3, <2>4, <2>5
  <1> QED BY <1>3, <1>8 DEF Paired

LEMMA Click2Paired ==
  ASSUME IInv, Paired, NEW id \in Ids, ClickBox2(id)
  PROVE  Paired'
  <1> DEFINE value == ~boxes2[id]
             r == findIdxOfId(table, id)
             marked == setChecked(list, id, value)
  <1>1. /\ Len(boxes) = Len(table) /\ Len(list) = Len(table) /\ Len(table) \in Nat
        /\ DOMAIN list = 1 .. Len(table) /\ DOMAIN table = 1 .. Len(table)
        /\ boxes \in Seq(Box)
        /\ \A k \in 1 .. Len(table) : /\ table[k].id \in Ids
                                      /\ list[k].id = table[k].id
                                      /\ findIdxOfId(list, table[k].id) = k
                                      /\ findIdxOfId(table, table[k].id) = k
    BY Shape DEF IInv, TypeOK, Item
  <1>2. value \in BOOLEAN /\ UNCHANGED table /\ boxes2' = [boxes2 EXCEPT ![id] = value]
    BY DEF IInv, TypeOK, ClickBox2
  <1>3. \A k \in 1 .. Len(table) :
          boxes2'[table[k].id] = IF table[k].id = id THEN value ELSE boxes2[table[k].id]
    BY <1>1, <1>2 DEF IInv, TypeOK
  <1>4. CASE \A k \in 1 .. Len(table) : table[k].id # id
    <2>1. findIdxOfId(list, id) = 0
      BY <1>1, <1>4 DEF findIdxOfId
    <2>2. UNCHANGED <<list, boxes>>
      BY <2>1 DEF ClickBox2
    <2> QED BY <1>2, <1>3, <1>4, <2>2 DEF Paired
  <1>5. CASE \E k \in 1 .. Len(table) : table[k].id = id
    <2>1. PICK q \in 1 .. Len(table) : table[q].id = id
      BY <1>5
    <2>2. q # 0 /\ r = q /\ findIdxOfId(list, id) = q
      BY <1>1, <2>1
    <2>3. /\ boxes' = [boxes EXCEPT ![q].checked = value]
          /\ list' = synced(marked, table, boxes')
      BY <2>2 DEF ClickBox2
    <2> HIDE DEF value, r
    <2>4. marked \in Seq(Entry) /\ SameNames(marked, list)
      BY <1>2, Shape, SetCheckedKeeps DEF IInv, TypeOK
    <2> HIDE DEF marked
    <2>5. Marked(boxes', boxes, q, value)
      BY <1>1, <1>2, <2>1, <2>3, MarkedBox
    <2>6. Matches(list', boxes')
      BY <1>1, <2>3, <2>4, <2>5, SyncedMatches DEF Marked
    <2>7. \A k \in 1 .. Len(table) : table[k].id = id => k = q
      BY <1>1, <2>1
    <2> QED BY <1>1, <1>2, <1>3, <2>1, <2>5, <2>6, <2>7 DEF Paired, Marked, Matches
  <1> QED BY <1>4, <1>5

(* Applying selectors writes the same bit to the three copies of each row.   *)
LEMMA ApplyPaired ==
  ASSUME IInv, Paired, NEW bits, applyCodeSelectors(bits, synced(list, table, boxes))
  PROVE  Paired'
  <1> DEFINE l == synced(list, table, boxes)
             chosen(r) == table[r].zekyll \in bits
             marked(r) == [boxes[r] EXCEPT !.checked = chosen(r)]
  <1>0. /\ Len(boxes) \in Nat /\ DOMAIN boxes = 1 .. Len(boxes) /\ Len(boxes) = Len(table)
        /\ \A r \in 1 .. Len(table) : /\ boxes[r] \in Box
                                      /\ table[r].id \in Ids /\ r # 0
                                      /\ findIdxOfId(table, table[r].id) = r
    BY Shape DEF Item
  <1>1. l \in Seq(Entry) /\ SameNames(l, list)
    BY Shape, SyncedKeeps DEF IInv, TypeOK
  <1>2. /\ boxes' = [r \in DOMAIN boxes |-> marked(r)]
        /\ list' = synced(l, table, boxes')
        /\ boxes2' = [id \in Ids |-> LET r == findIdxOfId(table, id)
                                     IN  IF r = 0 THEN boxes2[id] ELSE chosen(r)]
        /\ UNCHANGED table
    BY DEF applyCodeSelectors
  <1>3. \A r \in 1 .. Len(table) : boxes2'[table[r].id] = chosen(r)
    BY <1>0, <1>2
  <1>4. \A r \in 1 .. Len(table) : chosen(r) \in BOOLEAN
    OBVIOUS
  <1> HIDE DEF l, chosen
  <1>5. \A r \in 1 .. Len(table) :
          marked(r) \in Box /\ marked(r).id = boxes[r].id /\ marked(r).checked = chosen(r)
    BY <1>0, <1>4 DEF Box
  <1> HIDE DEF marked
  <1>6. /\ boxes' \in [1 .. Len(table) -> Box]
        /\ \A r \in 1 .. Len(table) : boxes'[r] = marked(r)
    BY <1>0, <1>2, <1>5
  <1>7. boxes' \in Seq(Box) /\ Len(boxes') = Len(table)
    BY <1>0, <1>6, SeqFcn
  <1>8. Matches(list', boxes')
    BY <1>1, <1>2, <1>7, SyncedMatches
  <1> QED BY <1>2, <1>3, <1>5, <1>6, <1>7, <1>8 DEF Paired, Matches

LEMMA VisitPaired ==
  ASSUME IInv, Paired, VisitZcode
  PROVE  Paired'
  <1>1. CASE applyCodeSelectors(gather(table, boxes), synced(list, table, boxes))
    BY <1>1, ApplyPaired
  <1>2. CASE list' = synced(list, table, boxes) /\ UNCHANGED <<table, boxes, boxes2>>
    <2>1. Matches(list', boxes)
      BY <1>2, SyncedMatches, SameNamesSelf, Shape DEF IInv, TypeOK
    <2> QED BY <1>2, <2>1, Shape DEF Paired, Matches
  <1> QED BY <1>1, <1>2 DEF VisitZcode

LEMMA PairedInductive ==
  ASSUME "move" \notin Ops
  PROVE  Spec => []Paired
  <1>1. Init => Paired
    BY InitPaired
  <1>2. IInv /\ Paired /\ [Next]_vars => Paired'
    <2> SUFFICES ASSUME IInv, Paired, [Next]_vars PROVE Paired'
      OBVIOUS
    <2>1. CASE UNCHANGED vars
      BY <2>1 DEF vars, Paired
    <2>2. ASSUME NEW r \in DOMAIN table, NEW q \in DOMAIN table, Move(r, q)
          PROVE  FALSE
      BY <2>2 DEF Move
    <2> QED
      BY <2>1, <2>2, MinusPaired, EditPaired, ClickPaired, Click2Paired,
         ApplyPaired, VisitPaired DEF Next, EnterZcode
  <1> QED BY <1>1, <1>2, Inductive, PTL DEF Spec

(* The boxes of both tables and the entries agree on the selection, after    *)
(* any clicks, Zcodes, removals and renamings, as long as no row is moved    *)
(* (checkBoxClicked finds entry and box by the id of the box).               *)
THEOREM CopiesAgree ==
  ASSUME "move" \notin Ops
  PROVE  Spec => []SelectionCopiesAgree
  <1>1. IInv /\ Paired => SelectionCopiesAgree
    BY Shape DEF SelectionCopiesAgree, EntriesMatchBoxes, Paired
  <1> QED BY <1>1, Inductive, PairedInductive, PTL

-----------------------------------------------------------------------------
(* What gathering returns.  RowsTaken is a recursive function: first that    *)
(* there is one, then what its values are.                                   *)

RowStep(t, i, f) ==
  IF i = 0 THEN 0
  ELSE IF TakesRow(t, i, f[i - 1]) THEN f[i - 1] + 1
  ELSE f[i - 1]

LEMMA RowsExist ==
  ASSUME NEW t, NEW n \in Nat
  PROVE  \E f : f = [i \in 0 .. n |-> RowStep(t, i, f)]
  <1> DEFINE after(i, m) == IF TakesRow(t, i, m) THEN m + 1 ELSE m
             step == [p \in (1 .. n) \X Nat |-> after(p[1], p[2])]
  <1>1. \A i \in 1 .. n, m \in Nat : after(i, m) \in Nat
    OBVIOUS
  <1>2. step \in [(1 .. n) \X Nat -> Nat]
    BY <1>1
  <1>3. \A i \in 1 .. n, m \in Nat : step[<<i, m>>] = after(i, m)
    OBVIOUS
  <1> HIDE DEF step
  <1>4. PICK f : Steps(f, n, Nat, 0, step)
    BY <1>2, StepsExist
  <1>5. ASSUME NEW i \in 0 .. n PROVE f[i] = RowStep(t, i, f)
    <2>1. CASE i = 0
      BY <1>4, <2>1 DEF RowStep, Steps
    <2>2. CASE i # 0
      <3>1. i \in 1 .. n /\ i - 1 \in 0 .. n
        BY <2>2
      <3>2. f[i - 1] \in Nat
        BY <1>4, <3>1 DEF Steps
      <3>3. f[i] = after(i, f[i - 1])
        BY <1>3, <1>4, <3>1, <3>2 DEF Steps
      <3> QED BY <2>2, <3>3 DEF RowStep
    <2> QED BY <2>1, <2>2
  <1> QED BY <1>4, <1>5 DEF Steps

LEMMA RowsTakenStep ==
  ASSUME NEW t
  PROVE  /\ RowsTaken(t)[0] = 0
         /\ \A i \in 1 .. Capacity :
              RowsTaken(t)[i] = IF TakesRow(t, i, RowsTaken(t)[i - 1])
                                  THEN RowsTaken(t)[i - 1] + 1
                                  ELSE RowsTaken(t)[i - 1]
  <1> DEFINE f == RowsTaken(t)
  <1>1. \E g : g = [i \in 0 .. Capacity |-> RowStep(t, i, g)]
    BY RowsExist, CapacityAssumption
  <1>2. f = CHOOSE g : g = [i \in 0 .. Capacity |-> RowStep(t, i, g)]
    BY DEF RowsTaken, RowStep
  <1> HIDE DEF f
  <1>3. f = [i \in 0 .. Capacity |-> RowStep(t, i, f)]
    BY <1>1, <1>2
  <1>4. \A i \in 0 .. Capacity : f[i] = RowStep(t, i, f)
    BY <1>3
  <1>5. f[0] = 0
    BY <1>4, CapacityAssumption DEF RowStep
  <1>6. \A i \in 1 .. Capacity : i # 0 /\ i \in 0 .. Capacity
    BY CapacityAssumption
  <1>7. \A i \in 1 .. Capacity :
          f[i] = IF TakesRow(t, i, f[i - 1]) THEN f[i - 1] + 1 ELSE f[i - 1]
    BY <1>4, <1>6 DEF RowStep
  <1> QED BY <1>5, <1>7 DEF f

(* The rows of a listing nobody changed.                                     *)
Listed(t) ==
  /\ DOMAIN t = Ids /\ Len(t) = Len(Listing)
  /\ \A r \in Ids : t[r].zekyll = Listing[r]

LEMMA ListingShape ==
  /\ Len(Listing) \in Nat /\ Ids = 1 .. Len(Listing)
  /\ \A r \in Ids : Listing[r] \in 1 .. Capacity
  /\ \A r, q \in Ids : Listing[r] = Listing[q] => r = q
  <1>1. /\ Len(Listing) \in Nat /\ Ids = 1 .. Len(Listing)
        /\ \A r \in Ids : Listing[r] \in 1 .. Capacity
    BY ListingAssumption, FcnSeq DEF Ids, Slots
  <1>2. \A r, q \in Ids : r < q \/ q < r \/ r = q
    BY <1>1
  <1>3. \A r, q \in Ids : r < q => Listing[r] < Listing[q]
    BY ListingAssumption
  <1>4. \A r, q \in Ids : Listing[r] = Listing[q] => r = q
    <2> SUFFICES ASSUME NEW r \in Ids, NEW q \in Ids, Listing[r] = Listing[q]
                 PROVE  r = q
      OBVIOUS
    <2>1. Listing[r] \in Int /\ Listing[q] \in Int
      BY <1>1, CapacityAssumption
    <2>2. ~ (r < q) /\ ~ (q < r)
      BY <1>3, <2>1
    <2> QED BY <1>2, <2>2
  <1> QED BY <1>1, <1>4

(* The rows taken by the slots up to i are those of the zekylls up to i.     *)
RowsUpto(n, i) ==
  /\ n \in 0 .. Len(Listing)
  /\ n > 0 => Listing[n] <= i
  /\ n < Len(Listing) => Listing[n + 1] > i

(* A slot takes a row when the next row of the listing is in it.             *)
LEMMA TakesListed ==
  ASSUME NEW t, Listed(t), NEW i \in 1 .. Capacity, NEW n, RowsUpto(n, i - 1)
  PROVE  TakesRow(t, i, n) <=> n + 1 \in Ids /\ Listing[n + 1] = i
  <1>1. TakesRow(t, i, n) <=> \/ \E r \in Ids : Listing[r] = i
                              \/ n + 1 \in Ids /\ Listing[n + 1] = i
    BY DEF TakesRow, Listed
  <1>2. ASSUME NEW r \in Ids, Listing[r] = i PROVE r = n + 1
    <2>1. /\ Len(Listing) \in Nat /\ Ids = 1 .. Len(Listing)
          /\ r \in Nat /\ n \in Nat /\ r >= 1 /\ r <= Len(Listing)
          /\ i \in Nat /\ ~ (i <= i - 1)
      BY ListingShape, CapacityAssumption DEF RowsUpto
    <2>2. ~ (r <= n)
      <3>1. SUFFICES ASSUME r <= n PROVE FALSE
        OBVIOUS
      <3>2. n \in Ids /\ n > 0 /\ Listing[n] <= i - 1
        BY <2>1, <3>1 DEF RowsUpto
      <3>3. r = n \/ Listing[r] < Listing[n]
        BY <2>1, <3>1, <3>2, ListingAssumption
      <3>4. Listing[n] \in Nat
        BY <3>2, ListingShape, CapacityAssumption
      <3> QED BY <1>2, <2>1, <3>2, <3>3, <3>4
    <2>3. ~ (n + 1 < r)
      <3>1. SUFFICES ASSUME n + 1 < r PROVE FALSE
        OBVIOUS
      <3>2. n + 1 \in Ids /\ n < Len(Listing) /\ Listing[n + 1] > i - 1
        BY <2>1, <3>1 DEF RowsUpto
      <3>3. Listing[n + 1] < Listing[r]
        BY <3>1, <3>2, ListingAssumption
      <3>4. Listing[n + 1] \in Nat
        BY <3>2, ListingShape, CapacityAssumption
      <3> QED BY <1>2, <2>1, <3>2, <3>3, <3>4
    <2> QED BY <2>1, <2>2, <2>3
  <1> QED BY <1>1, <1>2

LEMMA RowsOfListing ==
  ASSUME NEW t, Listed(t)
  PROVE  \A i \in 0 .. Capacity : RowsUpto(RowsTaken(t)[i], i)
  <1> DEFINE f == RowsTaken(t)
             T == {i \in Nat : i <= Capacity /\ ~ RowsUpto(f[i], i)}
  <1>1. /\ f[0] = 0
        /\ \A i \in 1 .. Capacity :
             f[i] = IF TakesRow(t, i, f[i - 1]) THEN f[i - 1] + 1 ELSE f[i - 1]
    BY RowsTakenStep
  <1> HIDE DEF f
  <1>2. SUFFICES ASSUME T # {} PROVE FALSE
    <2>1. \A i \in 0 .. Capacity : i \in Nat /\ i <= Capacity
      BY CapacityAssumption
    <2> QED BY <2>1 DEF f
  <1>3. PICK i \in T : \A y \in T : i <= y
    BY <1>2, LeastExists
  <1>4. i \in Nat /\ i <= Capacity /\ ~ RowsUpto(f[i], i)
    OBVIOUS
  <1>5. /\ Len(Listing) \in Nat /\ Ids = 1 .. Len(Listing)
        /\ \A r \in Ids : Listing[r] \in Nat /\ Listing[r] >= 1
    BY ListingShape, CapacityAssumption
  <1>6. i # 0
    <2>1. RowsUpto(0, 0)
      BY <1>5 DEF RowsUpto
    <2> QED BY <1>1, <1>4, <2>1
  <1>7. i \in 1 .. Capacity /\ i - 1 \in Nat /\ i - 1 <= Capacity /\ ~ (i <= i - 1)
    BY <1>4, <1>6, CapacityAssumption
  <1> DEFINE n == f[i - 1]
  <1>8. RowsUpto(n, i - 1)
    BY <1>3, <1>7
  <1>9. f[i] = IF TakesRow(t, i, n) THEN n + 1 ELSE n
    BY <1>1, <1>7
  <1>10. TakesRow(t, i, n) <=> n + 1 \in Ids /\ Listing[n + 1] = i
    BY <1>7, <1>8, TakesListed
  <1> HIDE DEF n, T
  <1>11. n \in Nat /\ n <= Len(Listing)
    BY <1>5, <1>8 DEF RowsUpto
  <1>12. CASE n + 1 \in Ids /\ Listing[n + 1] = i
    <2>1. f[i] = n + 1
      BY <1>9, <1>10, <1>12
    <2>2. n + 1 < Len(Listing) => n + 2 \in Ids /\ Listing[n + 2] > Listing[n + 1]
      BY <1>5, <1>11, <1>12, ListingAssumption
    <2>3. RowsUpto(n + 1, i)
      BY <1>4, <1>5, <1>11, <1>12, <2>2 DEF RowsUpto
    <2> QED BY <1>4, <2>1, <2>3
  <1>13. CASE ~ (n + 1 \in Ids /\ Listing[n + 1] = i)
    <2>1. f[i] = n
      BY <1>9, <1>10, <1>13
    <2>2. n < Len(Listing) => Listing[n + 1] > i
      <3>1. SUFFICES ASSUME n < Len(Listing) PROVE Listing[n + 1] > i
        OBVIOUS
      <3>2. n + 1 \in Ids /\ Listing[n + 1] > i - 1 /\ Listing[n + 1] \in Nat
        BY <1>5, <1>8, <1>11, <3>1 DEF RowsUpto
      <3> QED BY <1>4, <1>13, <3>2
    <2>3. n > 0 => Listing[n] <= i
      <3>1. SUFFICES ASSUME n > 0 PROVE Listing[n] <= i
        OBVIOUS
      <3>2. n \in Ids /\ Listing[n] <= i - 1 /\ Listing[n] \in Nat
        BY <1>5, <1>8, <1>11, <3>1 DEF RowsUpto
      <3> QED BY <1>4, <3>2
    <2>4. RowsUpto(n, i)
      BY <1>5, <1>11, <2>2, <2>3 DEF RowsUpto
    <2> QED BY <1>4, <2>1, <2>4
  <1> QED BY <1>12, <1>13

(* Rows whose zekylls are single are selected by their own boxes.            *)
LEMMA SelectorOfRow ==
  ASSUME NEW t, NEW b, NEW n \in Nat, DOMAIN t = 1 .. n, NEW r \in 1 .. n,
         \A q \in 1 .. n : t[q].zekyll = t[r].zekyll => q = r
  PROVE  Selector(t, b, t[r].zekyll) <=> b[r].checked
  BY DEF Selector

(* Gathering finds the checked rows of a listing, holes of the index         *)
(* notwithstanding.                                                          *)
LEMMA GatherListed ==
  ASSUME NEW t, Listed(t), NEW b
  PROVE  gather(t, b) = {Listing[r] : r \in {q \in Ids : b[q].checked}}
  <1> DEFINE f == RowsTaken(t)
             n(i) == f[i - 1]
             reached(i) == /\ n(i) < Len(t)
                           /\ \A j \in 1 .. i - 1 : \E r \in DOMAIN t : t[r].zekyll > j
  <1>1. /\ Len(Listing) \in Nat /\ Ids = 1 .. Len(Listing)
        /\ DOMAIN t = Ids /\ Len(t) = Len(Listing)
        /\ \A r \in Ids : /\ t[r].zekyll = Listing[r]
                          /\ Listing[r] \in 1 .. Capacity
    BY ListingShape DEF Listed
  <1>2. \A i \in 1 .. Capacity : RowsUpto(n(i), i - 1)
    <2>1. \A i \in 1 .. Capacity : i - 1 \in 0 .. Capacity
      BY CapacityAssumption
    <2> QED BY <2>1, RowsOfListing
  <1>3. gather(t, b) = {i \in 1 .. Capacity : /\ reached(i)
                                              /\ TakesRow(t, i, n(i))
                                              /\ Selector(t, b, t[n(i) + 1].zekyll)}
    BY DEF gather, Slots
  <1> HIDE DEF f
  <1>4. \A r \in Ids : Selector(t, b, t[r].zekyll) <=> b[r].checked
    BY <1>1, ListingShape, SelectorOfRow
  <1>5. ASSUME NEW i \in 1 .. Capacity
        PROVE  TakesRow(t, i, n(i)) <=> n(i) + 1 \in Ids /\ Listing[n(i) + 1] = i
    BY <1>2, TakesListed
  <1>6. ASSUME NEW r \in Ids
        PROVE  Listing[r] \in 1 .. Capacity /\ n(Listing[r]) = r - 1
    <2> DEFINE i == Listing[r]
               m == n(i)
    <2>1. i \in 1 .. Capacity /\ RowsUpto(m, i - 1)
      BY <1>1, <1>2
    <2>2. TakesRow(t, i, m)
      BY <1>1 DEF TakesRow
    <2>3. m + 1 \in Ids /\ Listing[m + 1] = i
      BY <2>1, <2>2, <1>5
    <2>4. m + 1 = r
      BY <2>3, ListingShape
    <2>5. m \in Int
      BY <2>1, <1>1 DEF RowsUpto
    <2> HIDE DEF m
    <2>6. m = r - 1
      BY <1>1, <2>4, <2>5
    <2> QED BY <2>1, <2>6 DEF m
  <1>7. ASSUME NEW r \in Ids PROVE reached(Listing[r])
    <2>1. r - 1 < Len(t)
      BY <1>1
    <2>2. \A j \in 1 .. Listing[r] - 1 : t[r].zekyll > j
      BY <1>1, CapacityAssumption
    <2> QED BY <1>1, <1>6, <2>1, <2>2
  <1> HIDE DEF reached, n
  <1>8. ASSUME NEW i \in gather(t, b)
        PROVE  \E r \in Ids : b[r].checked /\ i = Listing[r]
    <2>1. i \in 1 .. Capacity /\ n(i) + 1 \in Ids /\ Listing[n(i) + 1] = i
      BY <1>3, <1>5
    <2>2. Selector(t, b, t[n(i) + 1].zekyll)
      BY <1>3
    <2> QED BY <1>4, <2>1, <2>2
  <1>9. ASSUME NEW r \in Ids, b[r].checked
        PROVE  Listing[r] \in gather(t, b)
    <2>1. (r - 1) + 1 = r
      BY <1>1
    <2>2. /\ Listing[r] \in 1 .. Capacity
          /\ n(Listing[r]) + 1 = r
      BY <1>6, <2>1
    <2>3. TakesRow(t, Listing[r], n(Listing[r]))
      BY <1>5, <2>2
    <2>4. Selector(t, b, t[n(Listing[r]) + 1].zekyll)
      BY <1>4, <1>9, <2>2
    <2> QED BY <1>3, <1>7, <2>2, <2>3, <2>4
  <1> QED BY <1>8, <1>9

(* A user who only clicks and visits the Zcode leaves the listing shown.     *)
LEMMA ListingShown ==
  ASSUME Ops \subseteq {"click", "zcode"}
  PROVE  Spec => []Listed(table)
  <1>1. Init => Listed(table)
    <2> SUFFICES ASSUME Init PROVE Listed(table)
      OBVIOUS
    <2>1. Len(Listing) \in Nat /\ Ids = 1 .. Len(Listing)
      BY ListingShape
    <2>2. table = [k \in 1 .. Len(Listing) |-> [id |-> k, zekyll |-> Listing[k]]]
      BY <2>1 DEF Init
    <2>3. Len(table) = Len(Listing)
      BY <2>1, <2>2
    <2> QED BY <2>1, <2>2, <2>3 DEF Listed
  <1>2. Listed(table) /\ [Next]_vars => Listed(table)'
    <2> SUFFICES ASSUME Listed(table), [Next]_vars PROVE UNCHANGED table
      BY DEF Listed
    <2>1. "move" \notin Ops /\ "minus" \notin Ops /\ "edit" \notin Ops
      OBVIOUS
    <2>2. CASE UNCHANGED vars
      BY <2>2 DEF vars
    <2> QED
      BY <2>1, <2>2 DEF Next, Move, Minus, EditZekyll, ClickBox, ClickBox2,
                        VisitZcode, EnterZcode, applyCodeSelectors
  <1> QED BY <1>1, <1>2, PTL DEF Spec

(* Gathering does not change entries that match the boxes already.           *)
LEMMA SyncedSame ==
  ASSUME IInv, Matches(list, boxes)
  PROVE  synced(list, table, boxes) = list
  <1>1. /\ list \in Seq(Entry) /\ boxes \in Seq(Box) /\ Len(boxes) = Len(table)
        /\ SameNames(list, list)
    BY SameNamesSelf DEF IInv, TypeOK
  <1> DEFINE new == synced(list, table, boxes)
  <1>2. Matches(new, boxes)
    BY <1>1, SyncedMatches
  <1>3. new \in Seq(Entry) /\ SameNames(new, list)
    BY <1>1, SyncedKeeps DEF IInv, TypeOK
  <1> HIDE DEF new
  <1>4. /\ Len(new) = Len(list) /\ Len(boxes) = Len(list) /\ Len(list) \in Nat
        /\ new \in [1 .. Len(list) -> Entry] /\ list \in [1 .. Len(list) -> Entry]
    BY <1>1, <1>3, Shape, FcnSeq DEF SameNames
  <1>5. ASSUME NEW r \in 1 .. Len(list) PROVE new[r] = list[r]
    <2>1. /\ new[r].id = list[r].id /\ new[r].zekyll = list[r].zekyll
          /\ new[r].checked = list[r].checked
      BY <1>2, <1>3, <1>4 DEF SameNames, Matches
    <2> QED BY <1>4, <2>1 DEF Entry
  <1>6. new = list
    BY <1>4, <1>5
  <1> QED BY <1>6 DEF new

LEMMA ApplyingGathered ==
  ASSUME IInv, Paired, Listed(table),
         applyCodeSelectors(gather(table, boxes), synced(list, table, boxes))
  PROVE  UNCHANGED vars
  <1> DEFINE bits == gather(table, boxes)
             chosen(r) == table[r].zekyll \in bits
  <1>1. /\ Ids = 1 .. Len(table) /\ Len(table) \in Nat /\ Len(boxes) = Len(table)
        /\ DOMAIN boxes = 1 .. Len(table)
        /\ boxes \in [1 .. Len(table) -> Box]
        /\ \A r \in 1 .. Len(table) : boxes[r] \in Box /\ table[r].zekyll = Listing[r]
    BY Shape, FcnSeq, ListingShape DEF IInv, TypeOK, Listed
  <1>2. ASSUME NEW r \in 1 .. Len(table)
        PROVE  chosen(r) = boxes[r].checked
    <2>1. bits = {Listing[q] : q \in {k \in Ids : boxes[k].checked}}
      BY GatherListed
    <2>2. chosen(r) <=> boxes[r].checked
      BY <1>1, <2>1, ListingShape
    <2>3. boxes[r].checked \in BOOLEAN /\ chosen(r) \in BOOLEAN
      BY <1>1 DEF Box
    <2> QED BY <2>2, <2>3
  <1>3. /\ boxes' = [r \in DOMAIN boxes |-> [boxes[r] EXCEPT !.checked = chosen(r)]]
        /\ list' = synced(synced(list, table, boxes), table, boxes')
        /\ boxes2' = [id \in Ids |-> LET r == findIdxOfId(table, id)
                                     IN  IF r = 0 THEN boxes2[id] ELSE chosen(r)]
        /\ UNCHANGED table
    BY DEF applyCodeSelectors
  <1> HIDE DEF chosen, bits
  <1>4. \A r \in 1 .. Len(table) : [boxes[r] EXCEPT !.checked = chosen(r)] = boxes[r]
    BY <1>1, <1>2 DEF Box
  <1>5. boxes' = boxes
    BY <1>1, <1>3, <1>4
  <1>6. Matches(list, boxes)
    BY <1>1 DEF Paired, Matches
  <1>7. list' = list
    BY <1>3, <1>5, <1>6, SyncedSame
  <1>8. ASSUME NEW id \in Ids PROVE boxes2'[id] = boxes2[id]
    <2> DEFINE r == findIdxOfId(table, id)
    <2>1. r = 0 \/ (r \in 1 .. Len(table) /\ table[r].id = id)
      BY Shape, FindRange DEF IInv
    <2>2. boxes2'[id] = IF r = 0 THEN boxes2[id] ELSE chosen(r)
      BY <1>3
    <2> HIDE DEF r
    <2>3. r \in 1 .. Len(table) => boxes2[table[r].id] = boxes[r].checked
      BY DEF Paired
    <2> QED BY <1>2, <2>1, <2>2, <2>3
  <1>9. boxes2' = boxes2
    <2>1. boxes2 \in [Ids -> BOOLEAN]
      BY DEF IInv, TypeOK
    <2>2. boxes2' = [id \in Ids |-> boxes2'[id]]
      BY <1>3
    <2> QED BY <1>8, <2>1, <2>2
  <1> QED BY <1>3, <1>5, <1>7, <1>9 DEF vars

LEMMA VisitingKeeps ==
  ASSUME IInv, Paired, Listed(table), VisitZcode
  PROVE  UNCHANGED vars
  <1>1. CASE applyCodeSelectors(gather(table, boxes), synced(list, table, boxes))
    BY <1>1, ApplyingGathered
  <1>2. CASE list' = synced(list, table, boxes) /\ UNCHANGED <<table, boxes, boxes2>>
    <2>1. Matches(list, boxes)
      BY Shape DEF Paired, Matches
    <2> QED BY <1>2, <2>1, SyncedSame DEF vars
  <1> QED BY <1>1, <1>2 DEF VisitZcode

(* Entering and leaving the field of the Zcode changes nothing in an index   *)
(* nobody reordered or renamed, whatever its holes and the selection:        *)
(* applyCodeSelectors writes back what gatherCodeSelectors read.             *)
THEOREM VisitingIsQuiet ==
  ASSUME Ops \subseteq {"click", "zcode"}
  PROVE  Spec => VisitKeepsSelection
  <1>1. "move" \notin Ops
    OBVIOUS
  <1>2. IInv /\ Paired /\ Listed(table) => [VisitZcode => UNCHANGED vars]_vars
    BY VisitingKeeps
  <1>3. Spec => []Paired
    BY <1>1, PairedInductive
  <1> QED BY <1>2, <1>3, Inductive, ListingShown, PTL DEF VisitKeepsSelection

-----------------------------------------------------------------------------
(* The order Save will write.  In an index without holes every slot up to    *)
(* the last row takes the row of its number, whatever that row shows: its    *)
(* zekyll is in the table, or was listed there.                              *)

WithoutHoles == \A k \in Ids : Listing[k] = k

(* Rows only go.                                                             *)
Fits == Len(table) <= Len(Listing)

LEMMA RowsOnlyGo == Spec => []Fits
  <1>1. Init => Fits
    <2> SUFFICES ASSUME Init PROVE Fits
      OBVIOUS
    <2>1. Len(Listing) \in Nat /\ Ids = 1 .. Len(Listing)
      BY ListingShape
    <2>2. table = [k \in 1 .. Len(Listing) |-> [id |-> k, zekyll |-> Listing[k]]]
      BY <2>1 DEF Init
    <2>3. Len(table) = Len(Listing)
      BY <2>1, <2>2
    <2> QED BY <2>1, <2>3 DEF Fits
  <1>2. IInv /\ Fits /\ [Next]_vars => Fits'
    <2> SUFFICES ASSUME IInv, Fits, [Next]_vars PROVE Fits'
      OBVIOUS
    <2>1. Len(table) \in Nat /\ DOMAIN table = 1 .. Len(table) /\ table \in Seq(Item)
      BY Shape DEF IInv, TypeOK
    <2>2. ASSUME UNCHANGED table PROVE Len(table') <= Len(table)
      BY <2>1, <2>2
    <2>3. ASSUME NEW r \in DOMAIN table, NEW q \in DOMAIN table, Move(r, q)
          PROVE  Len(table') <= Len(table)
      BY <2>1, <2>3, SwappedType DEF Move
    <2>4. ASSUME NEW r \in DOMAIN table, Minus(r)
          PROVE  Len(table') <= Len(table)
      BY <2>1, <2>4, WithoutType DEF Minus
    <2>5. ASSUME NEW r \in DOMAIN table, NEW z \in Texts, EditZekyll(r, z)
          PROVE  Len(table') <= Len(table)
      BY <2>1, <2>5 DEF EditZekyll
    <2>6. Len(table') <= Len(table)
      BY <2>2, <2>3, <2>4, <2>5
         DEF vars, Next, ClickBox, ClickBox2, VisitZcode, EnterZcode, applyCodeSelectors
    <2>7. Len(table') \in Nat
      BY InductiveStep, FcnSeq DEF IInv, TypeOK
    <2>8. Len(Listing) \in Nat
      BY ListingShape
    <2> QED BY <2>1, <2>6, <2>7, <2>8 DEF Fits
  <1> QED BY <1>1, <1>2, Inductive, PTL DEF Spec

(* The first slots take the rows of their numbers.                           *)
LEMMA FirstRows ==
  ASSUME WithoutHoles, NEW t, NEW n \in Nat, n <= Len(Listing)
  PROVE  \A i \in 0 .. Capacity : /\ RowsTaken(t)[i] \in Nat
                                  /\ i <= n => RowsTaken(t)[i] = i
                                  /\ i >= n => RowsTaken(t)[i] >= n
  <1> DEFINE f == RowsTaken(t)
             Q(i) == f[i] \in Nat /\ (i <= n => f[i] = i) /\ (i >= n => f[i] >= n)
             T == {i \in Nat : i <= Capacity /\ ~ Q(i)}
  <1>1. /\ f[0] = 0
        /\ \A i \in 1 .. Capacity :
             f[i] = IF TakesRow(t, i, f[i - 1]) THEN f[i - 1] + 1 ELSE f[i - 1]
    BY RowsTakenStep
  <1> HIDE DEF f
  <1>2. SUFFICES ASSUME T # {} PROVE FALSE
    <2>1. \A i \in 0 .. Capacity : i \in Nat /\ i <= Capacity
      BY CapacityAssumption
    <2>2. \A i \in 0 .. Capacity : Q(i)
      BY <2>1
    <2> QED BY <2>2 DEF f
  <1>3. PICK i \in T : \A y \in T : i <= y
    BY <1>2, LeastExists
  <1>4. i \in Nat /\ i <= Capacity /\ ~ Q(i)
    OBVIOUS
  <1>5. i # 0
    BY <1>1, <1>4
  <1>6. i \in 1 .. Capacity /\ i - 1 \in Nat /\ i - 1 <= Capacity /\ ~ (i <= i - 1)
    BY <1>4, <1>5, CapacityAssumption
  <1>7. Q(i - 1)
    BY <1>3, <1>6
  <1>8. f[i] = IF TakesRow(t, i, f[i - 1]) THEN f[i - 1] + 1 ELSE f[i - 1]
    BY <1>1, <1>6
  <1> HIDE DEF T
  <1>9. CASE i <= n
    <2>1. f[i - 1] = i - 1
      BY <1>4, <1>6, <1>7, <1>9
    <2>2. (i - 1) + 1 = i /\ i \in Ids
      BY <1>4, <1>5, <1>9, ListingShape
    <2>3. TakesRow(t, i, f[i - 1])
      BY <2>1, <2>2 DEF TakesRow, WithoutHoles
    <2>4. f[i] = i
      BY <1>8, <2>1, <2>2, <2>3
    <2> QED BY <1>4, <1>9, <2>4
  <1>10. CASE ~ (i <= n)
    <2>1. i - 1 >= n
      BY <1>4, <1>10
    <2>2. f[i - 1] \in Nat /\ f[i - 1] >= n
      BY <1>7, <2>1
    <2>3. f[i] \in Nat /\ f[i] >= n
      BY <1>8, <2>2
    <2> QED BY <1>4, <1>10, <2>3
  <1> QED BY <1>9, <1>10

(* Among n rows with distinct zekylls one is as large as their number.       *)
LEMMA LargeZekyll ==
  ASSUME NEW n \in Nat, NEW t, NEW j \in Nat, j < n,
         \A r \in 1 .. n : t[r].zekyll \in Nat \ {0},
         \A r, q \in 1 .. n : t[r].zekyll = t[q].zekyll => r = q
  PROVE  \E r \in 1 .. n : t[r].zekyll > j
  <1> SUFFICES ASSUME \A r \in 1 .. n : ~ (t[r].zekyll > j)
               PROVE  FALSE
    OBVIOUS
  <1> DEFINE g == [r \in 1 .. n |-> t[r].zekyll]
  <1>1. \A r \in 1 .. n : t[r].zekyll \in 1 .. j
    OBVIOUS
  <1>2. g \in [1 .. n -> 1 .. j]
    BY <1>1
  <1>3. \A m \in Nat : IsFiniteSet(1 .. m) /\ Cardinality(1 .. m) = m
    BY FS_Interval
  <1>4. Cardinality(1 .. j) < Cardinality(1 .. n)
    BY <1>3
  <1>5. \A r, q \in 1 .. n : g[r] = g[q] => r = q
    OBVIOUS
  <1> HIDE DEF g
  <1>6. \E r, q \in 1 .. n : r # q /\ g[r] = g[q]
    BY <1>2, <1>3, <1>4, FS_PigeonHole
  <1> QED BY <1>5, <1>6

LEMMA GatherByPosition ==
  ASSUME WithoutHoles, NEW t, NEW b, NEW n \in Nat, n <= Len(Listing),
         DOMAIN t = 1 .. n, Len(t) = n,
         \A r \in 1 .. n : t[r].zekyll \in Slots,
         \A r, q \in 1 .. n : t[r].zekyll = t[q].zekyll => r = q
  PROVE  gather(t, b) = {r \in 1 .. n : b[r].checked}
  <1> DEFINE f == RowsTaken(t)
             m(i) == f[i - 1]
             reached(i) == /\ m(i) < Len(t)
                           /\ \A j \in 1 .. i - 1 : \E r \in DOMAIN t : t[r].zekyll > j
  <1>1. gather(t, b) = {i \in 1 .. Capacity : /\ reached(i)
                                              /\ TakesRow(t, i, m(i))
                                              /\ Selector(t, b, t[m(i) + 1].zekyll)}
    BY DEF gather, Slots
  <1>2. \A r \in 1 .. n : Selector(t, b, t[r].zekyll) <=> b[r].checked
    BY SelectorOfRow
  <1>3. n <= Capacity
    <2>1. CASE n = 0
      BY <2>1, CapacityAssumption
    <2>2. CASE n # 0
      <3>1. n \in Ids
        BY <2>2, ListingShape
      <3>2. Listing[n] = n /\ Listing[n] \in 1 .. Capacity
        BY <3>1, ListingShape DEF WithoutHoles
      <3> QED BY <3>2, CapacityAssumption
    <2> QED BY <2>1, <2>2
  <1>4. \A i \in 1 .. Capacity : i - 1 \in 0 .. Capacity
    BY CapacityAssumption
  <1>5. \A i \in 1 .. Capacity : /\ m(i) \in Nat
                                 /\ i - 1 <= n => m(i) = i - 1
                                 /\ i - 1 >= n => m(i) >= n
    BY <1>4, FirstRows
  <1> HIDE DEF f
  <1>6. ASSUME NEW i \in 1 .. Capacity, reached(i)
        PROVE  i \in 1 .. n /\ m(i) + 1 = i
    <2>1. m(i) < n /\ m(i) \in Nat /\ i \in Nat /\ i >= 1
      BY <1>5, <1>6, CapacityAssumption
    <2>2. ~ (i - 1 >= n)
      BY <1>5, <2>1
    <2>3. i - 1 <= n
      BY <2>1, <2>2
    <2>4. m(i) = i - 1
      BY <1>5, <2>3
    <2> QED BY <2>1, <2>2, <2>4
  <1>7. ASSUME NEW i \in 1 .. n
        PROVE  i \in 1 .. Capacity /\ reached(i) /\ m(i) + 1 = i /\ TakesRow(t, i, m(i))
    <2>1. i \in 1 .. Capacity /\ i \in Nat /\ i - 1 <= n
      BY <1>3, CapacityAssumption
    <2>2. m(i) = i - 1 /\ m(i) + 1 = i
      BY <1>5, <2>1
    <2>3. m(i) < Len(t)
      BY <2>1, <2>2
    <2>4. ASSUME NEW j \in 1 .. i - 1
          PROVE  \E r \in DOMAIN t : t[r].zekyll > j
      <3>1. j \in Nat /\ j < n
        BY <2>1
      <3>2. \A r \in 1 .. n : t[r].zekyll \in Nat \ {0}
        BY CapacityAssumption DEF Slots
      <3> QED BY <3>1, <3>2, LargeZekyll
    <2>5. i \in Ids
      BY <2>1, ListingShape
    <2>6. TakesRow(t, i, m(i))
      BY <2>2, <2>5 DEF TakesRow, WithoutHoles
    <2> QED BY <2>1, <2>2, <2>3, <2>4, <2>6
  <1> HIDE DEF reached, m
  <1>8. ASSUME NEW i \in gather(t, b) PROVE i \in 1 .. n /\ b[i].checked
    <2>1. i \in 1 .. Capacity /\ reached(i) /\ Selector(t, b, t[m(i) + 1].zekyll)
      BY <1>1
    <2>2. i \in 1 .. n /\ m(i) + 1 = i
      BY <1>6, <2>1
    <2> QED BY <1>2, <2>1, <2>2
  <1>9. ASSUME NEW i \in 1 .. n, b[i].checked PROVE i \in gather(t, b)
    <2>1. Selector(t, b, t[m(i) + 1].zekyll)
      BY <1>2, <1>7, <1>9
    <2> QED BY <1>1, <1>7, <2>1
  <1> QED BY <1>8, <1>9

(* "We follow any future order": in an index without holes, as Save leaves   *)
(* it, the selectors are those of the rows by position, after any moves,     *)
(* removals, renamings, clicks and Zcodes that leave every name valid and    *)
(* single, in an index of any size (gatherCodeSelectors).                    *)
THEOREM FutureOrderFollowed ==
  ASSUME WithoutHoles
  PROVE  Spec => []FollowsFutureOrder
  <1>1. ASSUME IInv, Fits,
               \A r \in DOMAIN table : table[r].zekyll \in Slots,
               \A r, q \in DOMAIN table : table[r].zekyll = table[q].zekyll => r = q
        PROVE  gather(table, boxes) = {r \in DOMAIN table : boxes[r].checked}
    <2>1. Len(table) \in Nat /\ DOMAIN table = 1 .. Len(table)
      BY Shape
    <2>2. Len(table) <= Len(Listing)
      BY <1>1 DEF Fits
    <2>3. /\ \A r \in 1 .. Len(table) : table[r].zekyll \in Slots
          /\ \A r, q \in 1 .. Len(table) : table[r].zekyll = table[q].zekyll => r = q
      BY <1>1, <2>1
    <2>4. gather(table, boxes) = {r \in 1 .. Len(table) : boxes[r].checked}
      BY <2>1, <2>2, <2>3, GatherByPosition
    <2> QED BY <2>1, <2>4
  <1>2. IInv /\ Fits => FollowsFutureOrder
    BY <1>1 DEF FollowsFutureOrder
  <1> QED BY <1>2, Inductive, RowsOnlyGo, PTL

=============================================================================
