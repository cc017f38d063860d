------------------------ MODULE ZekyllLoader_proofs ------------------------
(***************************************************************************)
(* Proofs about ZekyllLoader, for every set of repositories and indexes,   *)
(* every capacity, every listing and every environment.                    *)
(***************************************************************************)
EXTENDS ZekyllLoader, SequenceTheorems, FiniteSetTheorems, TLAPS

USE CapacityAssumption, IndexesAssumption, NoPathAssumption,
    EnvironmentAssumption

(* A window as the handlers leave it: typed, and with selectors set aside    *)
(* only while it is loading.                                                 *)
SoundWindow(w) ==
  /\ w \in Window
  /\ w.prepared => w.is_loading
  /\ ~w.prepared => w.deferred = {}

(* A process that answered with a listing was started in a repository.       *)
SoundProcess(q) ==
  /\ q \in Process
  /\ q.code \in {Ok, InconsistentList} => q.path \in Paths

(* Slots hold zekylls.                                                       *)
LEMMA ZekyllType ==
  ASSUME NEW i \in Indexes, NEW k \in Slots
  PROVE  Zekyll(i, k) \in Nat
  <1>1. i - 1 \in Nat /\ Capacity \in Nat /\ k \in Nat
    BY DEF Slots
  <1>2. \A a, b \in Nat : a * b \in Nat
    OBVIOUS
  <1>3. (i - 1) * Capacity \in Nat
    BY <1>1, <1>2
  <1> QED BY <1>1, <1>3 DEF Zekyll

(* Applying selectors changes nothing of a row but its check mark.           *)
LEMMA ApplyType ==
  ASSUME NEW rows \in Seq(Row), NEW i, NEW bits
  PROVE  /\ applyCodeSelectors(rows, i, bits) \in Seq(Row)
         /\ Len(applyCodeSelectors(rows, i, bits)) = Len(rows)
         /\ DOMAIN applyCodeSelectors(rows, i, bits) = DOMAIN rows
         /\ \A r \in DOMAIN rows :
              /\ applyCodeSelectors(rows, i, bits)[r].zekyll = rows[r].zekyll
              /\ applyCodeSelectors(rows, i, bits)[r].id = rows[r].id
              /\ applyCodeSelectors(rows, i, bits)[r].checked
                   = \E k \in bits : rows[r].zekyll = Zekyll(i, k)
  <1> DEFINE new == applyCodeSelectors(rows, i, bits)
  <1>1. /\ DOMAIN rows = 1 .. Len(rows) /\ Len(rows) \in Nat
        /\ \A r \in DOMAIN rows : rows[r] \in Row
    BY LenProperties, ElementOfSeq
  <1>2. new = [r \in 1 .. Len(rows) |->
                 [rows[r] EXCEPT !.checked =
                    \E k \in bits : rows[r].zekyll = Zekyll(i, k)]]
    BY <1>1 DEF applyCodeSelectors
  <1>3. \A r \in 1 .. Len(rows) : new[r] \in Row
    <2> SUFFICES ASSUME NEW r \in 1 .. Len(rows) PROVE new[r] \in Row
      OBVIOUS
    <2> DEFINE c == \E k \in bits : rows[r].zekyll = Zekyll(i, k)
    <2>1. c \in BOOLEAN
      OBVIOUS
    <2>2. new[r] = [rows[r] EXCEPT !.checked = c]
      BY <1>2
    <2>3. rows[r] \in Row
      BY <1>1
    <2> HIDE DEF c, new
    <2> QED BY <2>1, <2>2, <2>3 DEF Row
  <1>4. new \in Seq(Row) /\ Len(new) = Len(rows)
    <2>1. new \in [1 .. Len(rows) -> Row]
      BY <1>2, <1>3
    <2> QED BY <1>1, <2>1, LenProperties, SeqDef
  <1>5. DOMAIN new = DOMAIN rows
    BY <1>1, <1>2
  <1>6. ASSUME NEW r \in DOMAIN rows
        PROVE  /\ new[r].zekyll = rows[r].zekyll
               /\ new[r].id = rows[r].id
               /\ new[r].checked = \E k \in bits : rows[r].zekyll = Zekyll(i, k)
    <2>1. new[r] = [rows[r] EXCEPT !.checked =
                      \E k \in bits : rows[r].zekyll = Zekyll(i, k)]
      BY <1>1, <1>2
    <2> QED BY <1>1, <2>1 DEF Row
  <1> HIDE DEF new
  <1> QED BY <1>4, <1>5, <1>6 DEF new

(* Without the check boxes: what applying selectors leaves alone.            *)
LEMMA ApplyKeeps ==
  ASSUME NEW rows \in Seq(Row), NEW i, NEW bits,
         NEW new, new = applyCodeSelectors(rows, i, bits)
  PROVE  /\ new \in Seq(Row)
         /\ Len(new) = Len(rows)
         /\ DOMAIN new = DOMAIN rows
         /\ \A r \in DOMAIN rows : /\ new[r].zekyll = rows[r].zekyll
                                   /\ new[r].id = rows[r].id
         /\ rows = <<>> <=> new = <<>>
  <1>1. /\ new \in Seq(Row)
        /\ Len(new) = Len(rows)
        /\ DOMAIN new = DOMAIN rows
    BY ApplyType
  <1>2. ASSUME NEW r \in DOMAIN rows
        PROVE  new[r].zekyll = rows[r].zekyll /\ new[r].id = rows[r].id
    <2> DEFINE c == \E k \in bits : rows[r].zekyll = Zekyll(i, k)
    <2>1. new[r] = [rows[r] EXCEPT !.checked = c]
      BY <1>2 DEF applyCodeSelectors
    <2>2. rows[r] \in Row
      BY <1>2, LenProperties, ElementOfSeq
    <2> HIDE DEF c
    <2> QED BY <2>1, <2>2 DEF Row
  <1>3. rows = <<>> <=> new = <<>>
    BY <1>1, EmptySeq
  <1> QED BY <1>1, <1>2, <1>3

LEMMA ApplyEmpty ==
  ASSUME NEW i, NEW bits
  PROVE  applyCodeSelectors(<<>>, i, bits) = <<>>
  <1> DEFINE new == applyCodeSelectors(<<>>, i, bits)
  <1>1. \A rows : rows \in Seq(Row) =>
          LET a == applyCodeSelectors(rows, i, bits)
          IN  a \in Seq(Row) /\ Len(a) = Len(rows)
    BY ApplyType
  <1>2. new \in Seq(Row) /\ Len(new) = Len(<<>>)
    <2>1. <<>> \in Seq(Row)
      BY EmptySeq
    <2> QED BY <1>1, <2>1, Zenon
  <1> HIDE DEF new
  <1>3. new = <<>>
    BY <1>2, EmptySeq
  <1> QED BY <1>3 DEF new

(* The rows of a listing have the zekylls it prints and its line numbers.    *)
LEMMA ListedType ==
  ASSUME NEW p \in Paths, NEW i \in Indexes
  PROVE  /\ ListedRows(p, i) \in Seq(Row)
         /\ Len(ListedRows(p, i)) = Len(Listing[p][i])
         /\ DOMAIN ListedRows(p, i) = 1 .. Len(Listing[p][i])
         /\ \A r \in DOMAIN ListedRows(p, i) :
              ListedRows(p, i)[r] =
                [zekyll |-> Listing[p][i][r], id |-> r, checked |-> TRUE]
  <1> DEFINE L == Listing[p][i]
             Z == {Zekyll(i, k) : k \in Slots}
  <1>1. L \in Seq(Z)
    BY ListingAssumption
  <1>2. Z \subseteq Nat
    BY ZekyllType
  <1>3. /\ DOMAIN L = 1 .. Len(L) /\ Len(L) \in Nat
        /\ \A r \in DOMAIN L : L[r] \in Nat
    BY <1>1, <1>2, LenProperties, ElementOfSeq
  <1> HIDE DEF L, Z
  <1>4. ListedRows(p, i) = [r \in 1 .. Len(L) |->
                              [zekyll |-> L[r], id |-> r, checked |-> TRUE]]
    BY <1>3 DEF ListedRows, L
  <1>5. ListedRows(p, i) \in [1 .. Len(L) -> Row]
    BY <1>3, <1>4 DEF Row
  <1>6. ListedRows(p, i) \in Seq(Row) /\ Len(ListedRows(p, i)) = Len(L)
    BY <1>3, <1>5, LenProperties, SeqDef
  <1> QED BY <1>4, <1>6 DEF L

-----------------------------------------------------------------------------
(* Every handler leaves a sound window.                                      *)

(* Ending a loading leaves a sound window that is not loading.               *)
LEMMA EndLoadingSound ==
  ASSUME NEW w \in Window, NEW i
  PROVE  /\ SoundWindow(endLoading(w, i))
         /\ ~endLoading(w, i).is_loading
         /\ endLoading(w, i).issues = w.issues
         /\ endLoading(w, i).rows =
              IF w.prepared THEN applyCodeSelectors(w.rows, i, w.deferred)
                            ELSE w.rows
  <1> DEFINE R == IF w.prepared THEN applyCodeSelectors(w.rows, i, w.deferred)
                                ELSE w.rows
  <1>1. R \in Seq(Row)
    BY ApplyType DEF Window
  <1>2. endLoading(w, i) = [w EXCEPT !.is_loading = FALSE, !.prepared = FALSE,
                                     !.deferred = {}, !.rows = R]
    BY DEF endLoading
  <1> HIDE DEF R
  <1>3. /\ endLoading(w, i) \in Window
        /\ ~endLoading(w, i).is_loading
        /\ ~endLoading(w, i).prepared
        /\ endLoading(w, i).deferred = {}
        /\ endLoading(w, i).issues = w.issues
        /\ endLoading(w, i).rows = R
    BY <1>1, <1>2 DEF Window
  <1> QED BY <1>3 DEF SoundWindow, R

(* The answer of a list process leaves a sound window.                       *)
LEMMA ListResultSound ==
  ASSUME NEW w, SoundWindow(w), NEW i, NEW q, SoundProcess(q)
  PROVE  SoundWindow(handle_zkiresize_list(w, i, q))
  <1> DEFINE rows == w.rows \o ListedRows(q.path, q.index)
             filled == [w EXCEPT !.rows = rows]
  <1>1. w \in Window
    BY DEF SoundWindow
  <1>2. ASSUME q.code \in {Ok, InconsistentList}
        PROVE  SoundWindow(filled)
    <2>1. q.path \in Paths /\ q.index \in Indexes
      BY <1>2 DEF SoundProcess, Process
    <2>2. rows \in Seq(Row)
      BY <1>1, <2>1, ListedType, ConcatProperties DEF Window
    <2> HIDE DEF rows
    <2> QED BY <1>1, <2>2 DEF SoundWindow, Window
  <1>0. handle_zkiresize_list(w, i, q) =
          CASE q.code = Ok               -> endLoading(filled, i)
            [] q.code = InconsistentList -> filled
            [] OTHER                     -> endLoading(w, i)
    BY DEF handle_zkiresize_list
  <1> HIDE DEF filled
  <1> USE DEF Ok, InconsistentList
  <1>3. CASE q.code = Ok
    <2>1. SoundWindow(endLoading(filled, i))
      BY <1>2, <1>3, EndLoadingSound DEF SoundWindow
    <2> QED BY <1>0, <1>3, <2>1
  <1>4. CASE q.code = InconsistentList
    BY <1>0, <1>2, <1>4
  <1>5. CASE q.code \notin {Ok, InconsistentList}
    <2>1. SoundWindow(endLoading(w, i))
      BY <1>1, EndLoadingSound
    <2> QED BY <1>0, <1>5, <2>1
  <1> QED BY <1>3, <1>4, <1>5

(* The answer of a check process leaves a sound window.                      *)
LEMMA CheckResultSound ==
  ASSUME NEW w, SoundWindow(w), NEW i, NEW q \in Process
  PROVE  SoundWindow(handle_zkiresize_consistent(w, i, q))
  <1> DEFINE noted == [w EXCEPT !.issues = Append(@, q.path)]
  <1>1. w \in Window
    BY DEF SoundWindow
  <1>2. noted \in Window
    <2>1. Append(w.issues, q.path) \in Seq(Paths \cup {NoPath})
      BY <1>1, AppendProperties DEF Window, Process
    <2> QED BY <1>1, <2>1 DEF Window
  <1> HIDE DEF noted
  <1>3. CASE q.code = Inconsistent
    BY <1>2, <1>3, EndLoadingSound DEF handle_zkiresize_consistent, noted
  <1>4. CASE q.code # Inconsistent
    BY <1>1, <1>4, EndLoadingSound DEF handle_zkiresize_consistent
  <1> QED BY <1>3, <1>4

(* A new request leaves a process, and the answer it may deliver is that of  *)
(* a process; both are sound if the process of the request before it was.    *)
LEMMA RestartSound ==
  ASSUME NEW q \in Process, NEW p \in Paths \cup {NoPath},
         NEW i \in Indexes, NEW o \in restart(q, p, i)
  PROVE  /\ o.answer \in Process /\ o.proc \in Process
         /\ SoundProcess(q) => SoundProcess(o.answer) /\ SoundProcess(o.proc)
  <1> DEFINE fresh == [st |-> "running", path |-> p, index |-> i, code |-> NoCode]
             failed == [fresh EXCEPT !.st = "idle"]
             answer == CASE q.st = "idle"   -> NoProcess
                         [] q.st = "exited" -> q
                         [] OTHER           -> [q EXCEPT !.code = Killed]
             killed == [q EXCEPT !.st = "killed"]
  <1> USE DEF NoCode, Ok, BadRepository, Killed, Inconsistent, InconsistentList,
              ExitCodes, SoundProcess, Process
  <1>1. SoundProcess(fresh) /\ SoundProcess(failed) /\ SoundProcess(NoProcess)
    BY DEF NoProcess
  <1>2. answer \in Process /\ (SoundProcess(q) => SoundProcess(answer))
    <2>1. SoundProcess([q EXCEPT !.code = Killed])
      OBVIOUS
    <2> QED BY <1>1, <2>1
  <1>3. killed \in Process /\ (SoundProcess(q) => SoundProcess(killed))
    OBVIOUS
  <1>4. \/ o.answer = answer /\ o.proc \in {fresh, failed}
        \/ o.answer = NoProcess /\ o.proc = killed
    <2> HIDE DEF SoundProcess, Process
    <2>1. CASE \E n \in {fresh, failed} : o = [answer |-> answer, proc |-> n]
      BY <2>1
    <2>2. CASE o = [answer |-> NoProcess, proc |-> killed]
      BY <2>2
    <2> QED BY <2>1, <2>2 DEF restart
  <1>5. fresh \in Process /\ failed \in Process /\ NoProcess \in Process
    BY <1>1
  <1> HIDE DEF fresh, failed, answer, killed, SoundProcess, Process
  <1> QED BY <1>1, <1>2, <1>3, <1>4, <1>5

(* Starting a check leaves a sound window and a process.                     *)
LEMMA ConsistentSound ==
  ASSUME NEW w, SoundWindow(w), NEW i, NEW c \in Process,
         NEW p \in Paths \cup {NoPath}, NEW r \in consistent(w, i, c, p)
  PROVE  SoundWindow(r.win) /\ r.check \in Process
  <1>1. PICK o \in restart(c, p, 1) :
          r = [win |-> IF o.answer = NoProcess THEN w
                       ELSE handle_zkiresize_consistent(w, i, o.answer),
               check |-> o.proc]
    BY DEF consistent
  <1>2. o.answer \in Process /\ o.proc \in Process
    BY RestartSound
  <1>3. SoundWindow(handle_zkiresize_consistent(w, i, o.answer))
    BY <1>2, CheckResultSound
  <1> QED BY <1>1, <1>2, <1>3

(* So does handling the answer of a list.                                    *)
LEMMA HandleListSound ==
  ASSUME NEW w, SoundWindow(w), NEW i, NEW c \in Process,
         NEW p \in Paths \cup {NoPath}, NEW q, SoundProcess(q),
         NEW r \in handleZkIResizeList(w, i, c, p, q)
  PROVE  SoundWindow(r.win) /\ r.check \in Process
  <1> DEFINE from == IF q.code = InconsistentList
                       THEN consistent(w, i, c, p)
                       ELSE {[win |-> w, check |-> c]}
  <1>1. PICK o \in from : r = [o EXCEPT !.win = handle_zkiresize_list(@, i, q)]
    BY DEF handleZkIResizeList
  <1>2. SoundWindow(o.win) /\ o.check \in Process
    BY ConsistentSound
  <1>3. DOMAIN o = {"win", "check"}
    BY DEF consistent
  <1>4. r.win = handle_zkiresize_list(o.win, i, q) /\ r.check = o.check
    BY <1>1, <1>3
  <1> QED BY <1>2, <1>4, ListResultSound

-----------------------------------------------------------------------------
(* The inductive invariant of every environment.                             *)

IInv ==
  /\ current_path \in Paths \cup {NoPath}
  /\ current_index \in Indexes
  /\ SoundWindow(win)
  /\ SoundProcess(list)
  /\ check \in Process
  /\ want \in SUBSET Slots

(* A reload asked from a window w that is sound, or to which on_zcode_       *)
(* editingFinished added the selectors it wants, keeps the invariant.        *)
LEMMA ReloadSound ==
  ASSUME IInv, NEW w \in Window, ~w.prepared => w.deferred = {},
         NEW p \in Paths \cup {NoPath}, NEW i \in Indexes,
         reloadRepository(w, p, i)
  PROVE  /\ current_path' = p
         /\ current_index' = i
         /\ SoundWindow(win')
         /\ SoundProcess(list')
         /\ check' \in Process
  <1> DEFINE cleared == clearTables(saveSelectors(w, current_index))
             bits == gatherCodeSelectors(w.rows, current_index)
  <1>1. SoundWindow(cleared)
    <2>1. /\ bits \in SUBSET Slots
          /\ <<>> \in Seq(Row) /\ <<>> \in Seq(Paths \cup {NoPath})
      BY EmptySeq DEF gatherCodeSelectors
    <2> HIDE DEF bits
    <2>2. CASE w.prepared \/ w.rows = <<>>
      <3>1. cleared = [w EXCEPT !.is_loading = TRUE, !.rows = <<>>, !.issues = <<>>]
        BY <2>2 DEF saveSelectors, clearTables
      <3> HIDE DEF cleared
      <3> QED BY <2>1, <3>1 DEF SoundWindow, Window
    <2>3. CASE ~(w.prepared \/ w.rows = <<>>)
      <3>1. cleared = [w EXCEPT !.prepared = TRUE, !.deferred = bits,
                                !.is_loading = TRUE, !.rows = <<>>,
                                !.issues = <<>>]
        <4>1. saveSelectors(w, current_index)
                = [w EXCEPT !.prepared = TRUE, !.deferred = bits]
          BY <2>3 DEF saveSelectors, bits
        <4> QED BY <4>1 DEF clearTables, Window
      <3> HIDE DEF cleared
      <3> QED BY <2>1, <3>1 DEF SoundWindow, Window
    <2> QED BY <2>2, <2>3
  <1>2. PICK o \in restart(list, p, i) :
          /\ list' = o.proc
          /\ \E r \in (IF o.answer = NoProcess
                         THEN {[win |-> cleared, check |-> check]}
                         ELSE handleZkIResizeList(cleared, i, check, p, o.answer)) :
               /\ win' = r.win
               /\ check' = r.check
    BY DEF reloadRepository
  <1>3. SoundProcess(o.answer) /\ SoundProcess(o.proc)
    BY RestartSound DEF IInv, SoundProcess
  <1> HIDE DEF cleared
  <1>4. SoundWindow(win') /\ check' \in Process
    <2>1. CASE o.answer = NoProcess
      BY <1>1, <1>2, <2>1 DEF IInv
    <2>2. CASE o.answer # NoProcess
      <3>1. PICK r \in handleZkIResizeList(cleared, i, check, p, o.answer) :
              win' = r.win /\ check' = r.check
        BY <1>2, <2>2
      <3> QED BY <1>1, <1>3, <3>1, HandleListSound DEF IInv
    <2> QED BY <2>1, <2>2
  <1>5. current_path' = p /\ current_index' = i
    BY DEF reloadRepository
  <1> QED BY <1>2, <1>3, <1>4, <1>5

(* Whatever the environment does, the state is typed and the selectors set   *)
(* aside are pending only while the window loads.                            *)
LEMMA Inductive == Spec => []IInv
  <1>1. Init => IInv
    BY DEF Init, IInv, SoundWindow, SoundProcess, Window, Process, NoProcess,
           NoCode, Ok, InconsistentList, ExitCodes
  <1>2. IInv /\ [Next]_vars => IInv'
    <2> SUFFICES ASSUME IInv, [Next]_vars PROVE IInv'
      OBVIOUS
    <2>1. win \in Window /\ (~win.prepared => win.deferred = {})
      BY DEF IInv, SoundWindow
    <2>2. maintained \in SUBSET Slots
      BY DEF maintained, IInv
    <2>3. ASSUME NEW p \in Paths, OpenRepository(p) PROVE IInv'
      BY <2>1, <2>2, <2>3, ReloadSound DEF OpenRepository, IInv
    <2>4. ASSUME NEW i \in Indexes, GoToIndex(i) PROVE IInv'
      BY <2>1, <2>2, <2>4, ReloadSound DEF GoToIndex, IInv
    <2>5. ASSUME NEW i \in Indexes, NEW bits \in SUBSET Slots, EnterZcode(i, bits)
          PROVE  IInv'
      <3>1. want' \in SUBSET Slots
        BY <2>5 DEF EnterZcode
      <3>2. CASE reloadRepository(
                   [win EXCEPT !.prepared = TRUE, !.deferred = bits],
                   current_path, i)
        <4> DEFINE w == [win EXCEPT !.prepared = TRUE, !.deferred = bits]
        <4>1. w \in Window /\ w.prepared
          BY <2>1 DEF Window
        <4> HIDE DEF w
        <4>2. reloadRepository(w, current_path, i)
          BY <3>2 DEF w
        <4> QED BY <3>1, <4>1, <4>2, ReloadSound DEF IInv
      <3>3. CASE /\ win' = [win EXCEPT !.rows = applyCodeSelectors(@, i, bits)]
                 /\ UNCHANGED <<current_path, current_index, list, check>>
        <4> DEFINE R == applyCodeSelectors(win.rows, i, bits)
        <4>1. R \in Seq(Row)
          BY <2>1, ApplyType DEF Window
        <4>2. win' = [win EXCEPT !.rows = R]
          BY <3>3
        <4> HIDE DEF R
        <4>3. SoundWindow(win')
          BY <4>1, <4>2 DEF SoundWindow, Window, IInv
        <4> QED BY <3>1, <3>3, <4>3 DEF IInv
      <3> QED BY <2>5, <3>2, <3>3 DEF EnterZcode
    <2>6. ASSUME NEW r \in DOMAIN win.rows, ClickCheckBox(r) PROVE IInv'
      <3> DEFINE R == [win.rows EXCEPT ![r].checked = ~@]
      <3>1. R \in Seq(Row)
        <4>1. win.rows \in Seq(Row)
          BY <2>1 DEF Window
        <4>2. r \in 1 .. Len(win.rows) /\ win.rows[r] \in Row
          BY <2>6, <4>1, LenProperties, ElementOfSeq
        <4>3. [win.rows[r] EXCEPT !.checked = ~@] \in Row
          BY <4>2 DEF Row
        <4> QED BY <4>1, <4>2, <4>3, ExceptSeq
      <3>2. win' = [win EXCEPT !.rows = R]
        BY <2>6 DEF ClickCheckBox
      <3> HIDE DEF R
      <3>3. SoundWindow(win')
        BY <3>1, <3>2 DEF SoundWindow, Window, IInv
      <3>4. want' \in SUBSET Slots
        BY <2>6 DEF ClickCheckBox, IInv
      <3> QED BY <2>6, <3>3, <3>4 DEF ClickCheckBox, IInv
    <2>7. CASE ListExits
      <3>1. SoundProcess(list')
        <4>1. PICK c \in ListCodes(list.path) \cup {Killed} :
                list' = [list EXCEPT !.st = "exited", !.code = c]
          BY <2>7 DEF ListExits
        <4>3. /\ c \in ExitCodes
              /\ c \in {Ok, InconsistentList} => list.path \in Paths
          BY <4>1 DEF ListCodes, ExitCodes,
                      Ok, BadRepository, Killed, InconsistentList
        <4>2. list \in Process
          BY DEF IInv, SoundProcess
        <4> QED BY <4>1, <4>2, <4>3 DEF SoundProcess, Process
      <3> QED BY <2>7, <3>1 DEF ListExits, IInv
    <2>8. CASE CheckExits
      <3>1. check' \in Process
        <4>1. PICK c \in ExitCodes :
                check' = [check EXCEPT !.st = "exited", !.code = c]
          BY <2>8 DEF CheckExits, CheckCodes, ExitCodes
        <4> QED BY <4>1 DEF Process, IInv
      <3> QED BY <2>8, <3>1 DEF CheckExits, IInv
    <2>9. CASE ListFinished
      <3>1. SoundWindow(win') /\ check' \in Process
        BY <2>9, HandleListSound DEF ListFinished, IInv
      <3>2. SoundProcess(list')
        BY <2>9 DEF ListFinished, IInv, SoundProcess, Process
      <3> QED BY <2>9, <3>1, <3>2 DEF ListFinished, IInv
    <2>10. CASE CheckFinished
      <3>1. SoundWindow(win')
        BY <2>10, CheckResultSound DEF CheckFinished, IInv
      <3>2. check' \in Process
        BY <2>10 DEF CheckFinished, IInv, Process
      <3> QED BY <2>10, <3>1, <3>2 DEF CheckFinished, IInv
    <2>11. CASE UNCHANGED vars
      BY <2>11 DEF vars, IInv
    <2> QED
      BY <2>3, <2>4, <2>5, <2>6, <2>7, <2>8, <2>9, <2>10, <2>11
      DEF Next, User, Backend
  <1> QED BY <1>1, <1>2, PTL DEF Spec

(* Type correctness, in every environment.                                   *)
THEOREM TypeCorrect == Spec => []TypeOK
  <1>1. IInv => TypeOK
    BY DEF IInv, TypeOK, SoundWindow, SoundProcess
  <1> QED BY <1>1, Inductive, PTL

(* Selectors set aside by a reload are consumed by whatever ends a loading,  *)
(* in every environment: also when answers are stale, kills are slow and     *)
(* processes do not start.                                                   *)
THEOREM DeferredConsumed == Spec => []PreparedOnlyWhileLoading
  <1>1. IInv => PreparedOnlyWhileLoading
    BY DEF IInv, PreparedOnlyWhileLoading, SoundWindow
  <1> QED BY <1>1, Inductive, PTL

-----------------------------------------------------------------------------
(* A user who waits for zkiresize to end before acting.                      *)

(* The rows are those of the listing of repository p and index i.            *)
CurrentRows(rows, p, i) ==
  rows # <<>> =>
    /\ p \in Paths
    /\ Len(rows) = Len(Listing[p][i])
    /\ \A r \in DOMAIN rows : rows[r].zekyll = Listing[p][i][r] /\ rows[r].id = r

(* While the list runs the tables are empty and it is about what the window  *)
(* is at; while the check runs, the list that started it stands.             *)
WaitInv ==
  /\ list.st # "killed" /\ check.st # "killed"
  /\ list.st # "idle" =>
       /\ check.st = "idle"
       /\ win.rows = <<>> /\ win.issues = <<>>
       /\ list.path = current_path /\ list.index = current_index
  /\ check.st # "idle" =>
       /\ win.issues = <<>>
       /\ list.code = InconsistentList
       /\ list.path = current_path
       /\ check.path = current_path
  /\ CurrentRows(win.rows, current_path, current_index)
  /\ IssuesAreCurrent

(* A request that finds its process idle just starts it, or fails to.        *)
LEMMA RestartIdle ==
  ASSUME NEW q, q.st = "idle", NEW p, NEW i, NEW o \in restart(q, p, i)
  PROVE  /\ o.answer = NoProcess
         /\ o.proc.path = p /\ o.proc.index = i
         /\ \/ o.proc.st = "running"
            \/ StartFails /\ o.proc.st = "idle"
  <1> DEFINE fresh == [st |-> "running", path |-> p, index |-> i, code |-> NoCode]
             failed == [fresh EXCEPT !.st = "idle"]
  <1>1. \/ o = [answer |-> NoProcess, proc |-> fresh]
        \/ StartFails /\ o = [answer |-> NoProcess, proc |-> failed]
    BY DEF restart
  <1> QED BY <1>1

(* A reload asked while no zkiresize runs empties the tables and starts the  *)
(* list; the selectors it sets aside are saveSelectors'.                     *)
LEMMA ReloadWaiting ==
  ASSUME Quiet, NEW w \in Window, NEW p, NEW i, reloadRepository(w, p, i)
  PROVE  /\ current_path' = p /\ current_index' = i
         /\ win' = clearTables(saveSelectors(w, current_index))
         /\ win'.rows = <<>> /\ win'.issues = <<>> /\ win'.is_loading
         /\ check' = check
         /\ list'.path = p /\ list'.index = i
         /\ \/ list'.st = "running"
            \/ StartFails /\ list'.st = "idle"
  <1> DEFINE cleared == clearTables(saveSelectors(w, current_index))
  <1>1. PICK o \in restart(list, p, i) :
          /\ list' = o.proc
          /\ \E r \in (IF o.answer = NoProcess
                         THEN {[win |-> cleared, check |-> check]}
                         ELSE handleZkIResizeList(cleared, i, check, p, o.answer)) :
               /\ win' = r.win
               /\ check' = r.check
    BY DEF reloadRepository
  <1>2. /\ o.answer = NoProcess
        /\ o.proc.path = p /\ o.proc.index = i
        /\ o.proc.st = "running" \/ (StartFails /\ o.proc.st = "idle")
    BY RestartIdle DEF Quiet
  <1>3. win' = cleared /\ check' = check
    BY <1>1, <1>2
  <1>4. cleared.rows = <<>> /\ cleared.issues = <<>> /\ cleared.is_loading
    BY DEF clearTables, saveSelectors, Window
  <1> HIDE DEF cleared
  <1>5. current_path' = p /\ current_index' = i
    BY DEF reloadRepository
  <1> QED BY <1>1, <1>2, <1>3, <1>4, <1>5 DEF cleared

(* The answer of the list, when no check runs: the window takes the answer,  *)
(* and a check about its repository is started if the answer says so.        *)
LEMMA ListFinishedWaiting ==
  ASSUME ListFinished, check.st = "idle"
  PROVE  /\ win' = handle_zkiresize_list(win, current_index, list)
         /\ \/ list.code # InconsistentList /\ check' = check
            \/ /\ list.code = InconsistentList
               /\ check'.path = current_path
               /\ check'.st = "running" \/ (StartFails /\ check'.st = "idle")
  <1>1. PICK r \in handleZkIResizeList(win, current_index, check,
                                       current_path, list) :
          win' = r.win /\ check' = r.check
    BY DEF ListFinished
  <1> DEFINE from == IF list.code = InconsistentList
                       THEN consistent(win, current_index, check, current_path)
                       ELSE {[win |-> win, check |-> check]}
  <1>2. PICK o \in from :
          r = [o EXCEPT !.win = handle_zkiresize_list(@, current_index, list)]
    BY DEF handleZkIResizeList
  <1>3. CASE list.code # InconsistentList
    BY <1>1, <1>2, <1>3
  <1>4. CASE list.code = InconsistentList
    <2>1. PICK s \in restart(check, current_path, 1) :
            o = [win |-> IF s.answer = NoProcess THEN win
                         ELSE handle_zkiresize_consistent(win, current_index, s.answer),
                 check |-> s.proc]
      BY <1>2, <1>4 DEF consistent
    <2>2. o = [win |-> win, check |-> s.proc]
      BY <2>1, RestartIdle
    <2>3. win' = handle_zkiresize_list(win, current_index, list) /\ check' = s.proc
      BY <1>1, <1>2, <2>2
    <2> QED BY <1>4, <2>3, RestartIdle
  <1> QED BY <1>3, <1>4

(* The rows the window has after the answer of a list, from empty tables.    *)
LEMMA ListResultRows ==
  ASSUME NEW w \in Window, w.rows = <<>>, NEW i, NEW q, SoundProcess(q),
         NEW v, v = handle_zkiresize_list(w, i, q),
         NEW L, L = ListedRows(q.path, q.index)
  PROVE  /\ v.issues = w.issues
         /\ q.code = Ok =>
              /\ ~v.is_loading
              /\ v.rows = IF w.prepared
                            THEN applyCodeSelectors(L, i, w.deferred) ELSE L
         /\ q.code = InconsistentList => v = [w EXCEPT !.rows = L]
         /\ q.code \notin {Ok, InconsistentList} =>
              ~v.is_loading /\ v.rows = <<>>
  <1> DEFINE filled == [w EXCEPT !.rows = w.rows \o L]
  <1> USE DEF Ok, InconsistentList
  <1>1. v = CASE q.code = Ok               -> endLoading(filled, i)
              [] q.code = InconsistentList -> filled
              [] OTHER                     -> endLoading(w, i)
    BY DEF handle_zkiresize_list
  <1>2. ASSUME q.code \in {Ok, InconsistentList}
        PROVE  filled = [w EXCEPT !.rows = L] /\ filled \in Window
    <2>1. q.path \in Paths /\ q.index \in Indexes
      BY <1>2 DEF SoundProcess, Process
    <2>2. L \in Seq(Row)
      BY <2>1, ListedType
    <2>3. <<>> \o L = L
      BY <2>2, ConcatEmptySeq
    <2> QED BY <2>2, <2>3 DEF Window
  <1>3. applyCodeSelectors(<<>>, i, w.deferred) = <<>>
    BY ApplyEmpty
  <1> HIDE DEF filled
  <1>4. CASE q.code = Ok
    <2>1. v = endLoading(filled, i)
      BY <1>1, <1>4
    <2>2. /\ ~v.is_loading
          /\ v.issues = filled.issues
          /\ v.rows = IF filled.prepared
                        THEN applyCodeSelectors(filled.rows, i, filled.deferred)
                        ELSE filled.rows
      BY <1>2, <1>4, <2>1, EndLoadingSound
    <2>3. /\ filled.rows = L /\ filled.prepared = w.prepared
          /\ filled.deferred = w.deferred /\ filled.issues = w.issues
      BY <1>2, <1>4 DEF Window
    <2> QED BY <1>4, <2>2, <2>3
  <1>5. CASE q.code = InconsistentList
    <2>1. v = [w EXCEPT !.rows = L]
      BY <1>1, <1>2, <1>5
    <2> QED BY <1>5, <2>1 DEF Window
  <1>6. CASE q.code \notin {Ok, InconsistentList}
    <2>1. v = endLoading(w, i)
      BY <1>1, <1>6
    <2>2. ~v.is_loading /\ v.issues = w.issues /\ v.rows = <<>>
      BY <1>3, <2>1, EndLoadingSound
    <2> QED BY <1>6, <2>2
  <1> QED BY <1>4, <1>5, <1>6

(* Applying selectors keeps the rows those of one listing.                   *)
LEMMA CurrentApplied ==
  ASSUME NEW rows \in Seq(Row), NEW p, NEW i, CurrentRows(rows, p, i),
         NEW j, NEW bits
  PROVE  CurrentRows(applyCodeSelectors(rows, j, bits), p, i)
  <1> DEFINE new == applyCodeSelectors(rows, j, bits)
  <1>1. /\ new \in Seq(Row)
        /\ Len(new) = Len(rows)
        /\ DOMAIN new = DOMAIN rows
        /\ \A r \in DOMAIN rows : /\ new[r].zekyll = rows[r].zekyll
                                  /\ new[r].id = rows[r].id
        /\ rows = <<>> <=> new = <<>>
    BY ApplyKeeps
  <1> HIDE DEF new
  <1>2. CurrentRows(new, p, i)
    BY <1>1 DEF CurrentRows
  <1> QED BY <1>2 DEF new

(* A listing gives the rows of its repository and index.                     *)
LEMMA CurrentListedRows ==
  ASSUME NEW p \in Paths, NEW i \in Indexes, NEW j, NEW bits
  PROVE  /\ CurrentRows(ListedRows(p, i), p, i)
         /\ CurrentRows(applyCodeSelectors(ListedRows(p, i), j, bits), p, i)
  <1>1. CurrentRows(ListedRows(p, i), p, i)
    BY ListedType DEF CurrentRows
  <1>2. CurrentRows(applyCodeSelectors(ListedRows(p, i), j, bits), p, i)
    BY <1>1, ListedType, CurrentApplied
  <1> QED BY <1>1, <1>2

(* Every step of a user who waits keeps the tables about one listing.        *)
LEMMA WaitInductive ==
  ASSUME Early = {}, IInv, WaitInv, [Next]_vars
  PROVE  WaitInv'
  <1>1. win \in Window
    BY DEF IInv, SoundWindow
  <1>2. May("reload") => Quiet
    BY DEF May
  <1>3. May("select") => Quiet
    BY DEF May
  <1>4. ASSUME Quiet, NEW w \in Window, NEW p, NEW i, reloadRepository(w, p, i)
        PROVE  WaitInv'
    <2>1. check'.st = "idle" /\ list'.st # "killed"
      BY <1>4, ReloadWaiting DEF Quiet
    <2> QED BY <1>4, <2>1, ReloadWaiting
            DEF WaitInv, CurrentRows, IssuesAreCurrent
  <1>5. ASSUME NEW p \in Paths, OpenRepository(p) PROVE WaitInv'
    BY <1>1, <1>2, <1>4, <1>5 DEF OpenRepository
  <1>6. ASSUME NEW i \in Indexes, GoToIndex(i) PROVE WaitInv'
    BY <1>1, <1>2, <1>4, <1>6 DEF GoToIndex
  <1>7. ASSUME Quiet, NEW rows \in Seq(Row), win' = [win EXCEPT !.rows = rows],
               CurrentRows(rows, current_path, current_index),
               UNCHANGED <<current_path, current_index, list, check>>
        PROVE  WaitInv'
    <2>1. win'.rows = rows /\ win'.issues = win.issues
      BY <1>1, <1>7 DEF Window
    <2> QED BY <1>7, <2>1 DEF WaitInv, Quiet, IssuesAreCurrent
  <1>8. ASSUME NEW i \in Indexes, NEW bits \in SUBSET Slots, EnterZcode(i, bits)
        PROVE  WaitInv'
    <2>1. CASE /\ May("reload")
               /\ reloadRepository(
                    [win EXCEPT !.prepared = TRUE, !.deferred = bits],
                    current_path, i)
      <3>1. [win EXCEPT !.prepared = TRUE, !.deferred = bits] \in Window
        BY <1>1 DEF Window
      <3> QED BY <1>2, <1>4, <2>1, <3>1
    <2>2. CASE /\ May("select")
               /\ win' = [win EXCEPT !.rows = applyCodeSelectors(@, i, bits)]
               /\ UNCHANGED <<current_path, current_index, list, check>>
      <3>1. /\ applyCodeSelectors(win.rows, i, bits) \in Seq(Row)
            /\ CurrentRows(applyCodeSelectors(win.rows, i, bits),
                           current_path, current_index)
        BY <1>1, ApplyType, CurrentApplied DEF Window, WaitInv
      <3> QED BY <1>3, <1>7, <2>2, <3>1
    <2> QED BY <1>8, <2>1, <2>2 DEF EnterZcode
  <1>9. ASSUME NEW r \in DOMAIN win.rows, ClickCheckBox(r) PROVE WaitInv'
    <2> DEFINE R == [win.rows EXCEPT ![r].checked = ~@]
    <2>1. /\ win.rows \in Seq(Row)
          /\ r \in 1 .. Len(win.rows) /\ win.rows[r] \in Row
      BY <1>1, <1>9, LenProperties, ElementOfSeq DEF Window
    <2>2. R \in Seq(Row) /\ Len(R) = Len(win.rows) /\ DOMAIN R = DOMAIN win.rows
      <3>1. [win.rows[r] EXCEPT !.checked = ~@] \in Row
        BY <2>1 DEF Row
      <3> QED BY <2>1, <3>1, ExceptSeq, LenProperties
    <2>3. \A k \in DOMAIN R : R[k].zekyll = win.rows[k].zekyll
                              /\ R[k].id = win.rows[k].id
      BY <2>1, <2>2, ElementOfSeq DEF Row
    <2>4. CurrentRows(R, current_path, current_index)
      <3>1. win.rows # <<>>
        BY <2>1, EmptySeq
      <3> HIDE DEF R
      <3> QED BY <2>2, <2>3, <3>1 DEF WaitInv, CurrentRows
    <2>5. /\ win' = [win EXCEPT !.rows = R]
          /\ Quiet
          /\ UNCHANGED <<current_path, current_index, list, check>>
      BY <1>3, <1>9 DEF ClickCheckBox
    <2> HIDE DEF R
    <2> QED BY <1>7, <2>2, <2>4, <2>5
  <1>10. CASE ListExits
    <2>1. /\ list.st # "idle"
          /\ list'.st = "exited"
          /\ list'.path = list.path /\ list'.index = list.index
      BY <1>10 DEF ListExits, IInv, SoundProcess, Process
    <2> QED BY <1>10, <2>1 DEF ListExits, WaitInv, IssuesAreCurrent
  <1>11. CASE CheckExits
    <2>1. check.st # "idle" /\ check'.st = "exited" /\ check'.path = check.path
      BY <1>11 DEF CheckExits, IInv, Process
    <2> QED BY <1>11, <2>1 DEF CheckExits, WaitInv, IssuesAreCurrent
  <1>12. CASE ListFinished
    <2> DEFINE L == ListedRows(list.path, list.index)
    <2>1. /\ list.st = "exited" /\ check.st = "idle"
          /\ win.rows = <<>> /\ win.issues = <<>>
          /\ list.path = current_path /\ list.index = current_index
          /\ UNCHANGED <<current_path, current_index>>
      BY <1>12 DEF ListFinished, WaitInv
    <2>2. /\ list'.st = "idle" /\ list'.path = list.path
          /\ list'.index = list.index /\ list'.code = list.code
      BY <1>12 DEF ListFinished, IInv, SoundProcess, Process
    <2>3. /\ win' = handle_zkiresize_list(win, current_index, list)
          /\ \/ list.code # InconsistentList /\ check' = check
             \/ /\ list.code = InconsistentList
                /\ check'.path = current_path
                /\ check'.st \in {"running", "idle"}
      BY <1>12, <2>1, ListFinishedWaiting
    <2>4. /\ win'.issues = <<>>
          /\ CurrentRows(win'.rows, current_path, current_index)
      <3>1. SoundProcess(list)
        BY DEF IInv
      <3>2. CASE list.code \in {Ok, InconsistentList}
        <4>1. list.path \in Paths /\ list.index \in Indexes
          BY <3>1, <3>2 DEF SoundProcess, Process
        <4>2. \/ win'.rows = L
              \/ win'.rows = applyCodeSelectors(L, current_index, win.deferred)
          <5>1. CASE list.code = Ok
            BY <1>1, <2>1, <2>3, <3>1, <5>1, ListResultRows
          <5>2. CASE list.code = InconsistentList
            <6>1. win' = [win EXCEPT !.rows = L]
              BY <1>1, <2>1, <2>3, <3>1, <5>2, ListResultRows
            <6> QED BY <1>1, <6>1 DEF Window
          <5> QED BY <3>2, <5>1, <5>2
        <4>3. win'.issues = <<>>
          BY <1>1, <2>1, <2>3, <3>1, ListResultRows
        <4> QED BY <2>1, <4>1, <4>2, <4>3, CurrentListedRows
      <3>3. CASE list.code \notin {Ok, InconsistentList}
        <4>1. win'.issues = <<>> /\ win'.rows = <<>>
          BY <1>1, <2>1, <2>3, <3>1, <3>3, ListResultRows
        <4> QED BY <4>1 DEF CurrentRows
      <3> QED BY <3>2, <3>3
    <2> QED BY <2>1, <2>2, <2>3, <2>4 DEF WaitInv, IssuesAreCurrent
  <1>13. CASE CheckFinished
    <2>1. /\ check.st = "exited" /\ list.st = "idle" /\ win.issues = <<>>
          /\ check.path = current_path
          /\ UNCHANGED <<current_path, current_index, list>>
      BY <1>13 DEF CheckFinished, WaitInv
    <2>2. check'.st = "idle"
      BY <1>13 DEF CheckFinished, IInv, Process
    <2> DEFINE v == IF check.code = Inconsistent
                      THEN [win EXCEPT !.issues = Append(@, check.path)] ELSE win
    <2>3. v \in Window /\ v.rows = win.rows /\ v.issues \in {<<>>, <<current_path>>}
      <3>1. Append(win.issues, check.path) = <<current_path>>
        BY <2>1
      <3>2. <<current_path>> \in Seq(Paths \cup {NoPath})
        BY DEF IInv
      <3> QED BY <1>1, <2>1, <3>1, <3>2 DEF Window
    <2>4. win' = endLoading(v, current_index)
      BY <1>13 DEF CheckFinished, handle_zkiresize_consistent
    <2> HIDE DEF v
    <2>5. /\ win'.issues = v.issues
          /\ \/ win'.rows = win.rows
             \/ win'.rows = applyCodeSelectors(win.rows, current_index, v.deferred)
      BY <2>3, <2>4, EndLoadingSound
    <2>6. CurrentRows(win'.rows, current_path, current_index)
      BY <1>1, <2>5, CurrentApplied DEF WaitInv, Window
    <2> QED BY <2>1, <2>2, <2>3, <2>5, <2>6 DEF WaitInv, IssuesAreCurrent
  <1>14. CASE UNCHANGED vars
    BY <1>14 DEF vars, WaitInv, IssuesAreCurrent
  <1> QED
    BY <1>5, <1>6, <1>8, <1>9, <1>10, <1>11, <1>12, <1>13, <1>14
    DEF Next, User, Backend

LEMMA WaitFromStart ==
  ASSUME IInv, Init
  PROVE  WaitInv
  BY DEF Init, WaitInv, NoProcess, CurrentRows, IssuesAreCurrent

(* A user who waits for zkiresize never sees the rows of two listings mixed, *)
(* a listing of another repository or index, or ids that are not row numbers *)
THEOREM RowsCurrent ==
  ASSUME Early = {}
  PROVE  Spec => []RowsAreCurrentListing
  <1>1. IInv /\ Init => WaitInv
    BY WaitFromStart
  <1>2. IInv /\ WaitInv /\ [Next]_vars => WaitInv'
    BY WaitInductive
  <1>3. WaitInv => RowsAreCurrentListing
    BY DEF WaitInv, CurrentRows, RowsAreCurrentListing
  <1> QED BY <1>1, <1>2, <1>3, Inductive, PTL DEF Spec

(* For such a user the inconsistency table holds the problems of the         *)
(* repository the window is at, each once.                                   *)
THEOREM IssuesCurrent ==
  ASSUME Early = {}
  PROVE  Spec => []IssuesAreCurrent
  <1>1. IInv /\ Init => WaitInv
    BY WaitFromStart
  <1>2. IInv /\ WaitInv /\ [Next]_vars => WaitInv'
    BY WaitInductive
  <1>3. WaitInv => IssuesAreCurrent
    BY DEF WaitInv
  <1> QED BY <1>1, <1>2, <1>3, Inductive, PTL DEF Spec

(* For such a user "list should went well" holds when the check is answered, *)
(* whatever kills and start failures the environment allows.                 *)
THEOREM ListStands ==
  ASSUME Early = {}
  PROVE  Spec => ListWentWell
  <1>1. IInv /\ Init => WaitInv
    BY WaitFromStart
  <1>2. IInv /\ WaitInv /\ [Next]_vars => WaitInv'
    BY WaitInductive
  <1>3. WaitInv => (CheckFinished => /\ list.st = "idle"
                                     /\ list.code = InconsistentList
                                     /\ list.path = current_path
                                     /\ check.path = current_path)
    BY DEF WaitInv, CheckFinished
  <1> QED BY <1>1, <1>2, <1>3, Inductive, PTL DEF Spec, ListWentWell

-----------------------------------------------------------------------------
(* For such a user the loader implements AtomicLoader.                       *)

(* While a process is at work the window is loading: the answer of the list  *)
(* ends the loading or starts the check, and that of the check ends it.      *)
BusyLoads == ~Quiet => win.is_loading

(* The answer of a list ends the loading unless it starts a check.           *)
LEMMA ListResultLoads ==
  ASSUME NEW w \in Window, w.rows = <<>>, w.is_loading, NEW i,
         NEW q, SoundProcess(q)
  PROVE  handle_zkiresize_list(w, i, q).is_loading <=> q.code = InconsistentList
  <1> DEFINE v == handle_zkiresize_list(w, i, q)
  <1>1. CASE q.code = InconsistentList
    <2>1. v = [w EXCEPT !.rows = ListedRows(q.path, q.index)]
      BY <1>1, ListResultRows
    <2> HIDE DEF v
    <2> QED BY <1>1, <2>1 DEF Window, v
  <1>2. CASE q.code # InconsistentList
    <2>1. q.code = Ok \/ q.code \notin {Ok, InconsistentList}
      BY <1>2
    <2>2. ~v.is_loading
      BY <2>1, ListResultRows
    <2> QED BY <1>2, <2>2
  <1> QED BY <1>1, <1>2

LEMMA BusyInductive ==
  ASSUME Early = {}, IInv, WaitInv, BusyLoads, [Next]_vars
  PROVE  BusyLoads'
  <1>1. win \in Window
    BY DEF IInv, SoundWindow
  <1>2. May("reload") => Quiet
    BY DEF May
  <1>3. ASSUME NEW w \in Window, NEW p, NEW i, Quiet, reloadRepository(w, p, i)
        PROVE  BusyLoads'
    BY <1>3, ReloadWaiting DEF BusyLoads
  <1>4. ASSUME NEW p \in Paths, OpenRepository(p) PROVE BusyLoads'
    BY <1>1, <1>2, <1>3, <1>4 DEF OpenRepository
  <1>5. ASSUME NEW i \in Indexes, GoToIndex(i) PROVE BusyLoads'
    BY <1>1, <1>2, <1>3, <1>5 DEF GoToIndex
  <1>6. ASSUME NEW i \in Indexes, NEW bits \in SUBSET Slots, EnterZcode(i, bits)
        PROVE  BusyLoads'
    <2>1. [win EXCEPT !.prepared = TRUE, !.deferred = bits] \in Window
      BY <1>1 DEF Window
    <2>2. CASE Quiet /\ UNCHANGED <<list, check>>
      BY <2>2 DEF BusyLoads, Quiet
    <2>3. May("select") => Quiet
      BY DEF May
    <2> QED BY <1>2, <1>3, <1>6, <2>1, <2>2, <2>3 DEF EnterZcode
  <1>7. ASSUME NEW r \in DOMAIN win.rows, ClickCheckBox(r) PROVE BusyLoads'
    BY <1>7 DEF ClickCheckBox, May, BusyLoads, Quiet
  <1>8. CASE ListExits
    BY <1>8 DEF ListExits, BusyLoads, Quiet
  <1>9. CASE CheckExits
    BY <1>9 DEF CheckExits, BusyLoads, Quiet
  <1>10. CASE ListFinished
    <2>1. /\ check.st = "idle" /\ win.rows = <<>> /\ win.is_loading
          /\ win' = handle_zkiresize_list(win, current_index, list)
          /\ list.code # InconsistentList => check' = check
      BY <1>10, ListFinishedWaiting
      DEF ListFinished, WaitInv, BusyLoads, Quiet
    <2>2. win'.is_loading <=> list.code = InconsistentList
      BY <1>1, <2>1, ListResultLoads DEF IInv
    <2>3. list'.st = "idle"
      BY <1>10 DEF ListFinished, IInv, SoundProcess, Process
    <2> QED BY <2>1, <2>2, <2>3 DEF BusyLoads, Quiet
  <1>11. CASE CheckFinished
    <2>1. check'.st = "idle" /\ list'.st = "idle"
      BY <1>11 DEF CheckFinished, WaitInv, IInv, Process
    <2> QED BY <2>1 DEF BusyLoads, Quiet
  <1>12. CASE UNCHANGED vars
    BY <1>12 DEF vars, BusyLoads, Quiet
  <1> QED
    BY <1>4, <1>5, <1>6, <1>7, <1>8, <1>9, <1>10, <1>11, <1>12
    DEF Next, User, Backend

(* Rows of one listing show that listing, or nothing.                        *)
LEMMA ShownRows ==
  ASSUME NEW rows \in Seq(Row), NEW p, NEW i \in Indexes, CurrentRows(rows, p, i),
         NEW Z, Z = [r \in DOMAIN rows |-> rows[r].zekyll]
  PROVE  Z = <<>> \/ (p \in Paths /\ Z = Listing[p][i])
  <1>1. CASE rows = <<>>
    <2>1. Z \in Seq(Nat) /\ Len(Z) = 0
      <3>1. DOMAIN rows = 1 .. 0
        BY <1>1, LenProperties
      <3>2. Z \in [1 .. 0 -> Nat]
        BY <3>1
      <3> QED BY <3>2, SeqDef, LenProperties
    <2> QED BY <2>1, EmptySeq
  <1>2. CASE rows # <<>>
    <2> DEFINE L == Listing[p][i]
    <2>1. /\ p \in Paths
          /\ Len(rows) = Len(L)
          /\ \A r \in DOMAIN rows : rows[r].zekyll = L[r]
      BY <1>2 DEF CurrentRows
    <2>2. L \in Seq({Zekyll(i, k) : k \in Slots})
      BY <2>1, ListingAssumption
    <2> HIDE DEF L
    <2>3. DOMAIN rows = 1 .. Len(L) /\ L = [r \in 1 .. Len(L) |-> L[r]]
      BY <2>1, <2>2, LenProperties
    <2>4. Z = L
      BY <2>1, <2>3
    <2> QED BY <2>1, <2>4 DEF L
  <1> QED BY <1>1, <1>2

(* Every step of the loader is a step of the atomic one, or changes nothing  *)
(* of it.                                                                    *)
LEMMA AtomicStep ==
  ASSUME Early = {}, IInv, IInv', WaitInv, WaitInv', BusyLoads, [Next]_vars
  PROVE  [Atomic!Next]_(Atomic!vars)
  <1>1. /\ win \in Window /\ win' \in Window
        /\ current_path' \in Paths \cup {NoPath} /\ current_index' \in Indexes
    BY DEF IInv, SoundWindow
  <1>2. May("reload") => Quiet
    BY DEF May
  <1>3. ASSUME NEW w \in Window, NEW p, NEW i, Quiet, reloadRepository(w, p, i)
        PROVE  Atomic!Next
    <2>1. current_path' = p /\ current_index' = i /\ win'.is_loading
      BY <1>3, ReloadWaiting
    <2>2. Shown' = <<>> /\ win'.is_loading = TRUE
      BY <1>1, <2>1 DEF Shown, Window
    <2> QED BY <1>1, <2>1, <2>2 DEF Atomic!Next, Atomic!Ask
  <1>4. ASSUME UNCHANGED <<current_path, current_index>>,
               win.is_loading, ~win'.is_loading
        PROVE  Atomic!Next
    <2> DEFINE Z == [r \in DOMAIN win'.rows |-> win'.rows[r].zekyll]
    <2>1. Shown' = Z
      BY <1>4 DEF Shown
    <2>2. /\ win'.rows \in Seq(Row)
          /\ CurrentRows(win'.rows, current_path, current_index)
          /\ current_index \in Indexes
      BY <1>1, <1>4 DEF WaitInv, Window
    <2>3. Z = <<>> \/ (current_path \in Paths /\ Z = Listing[current_path][current_index])
      BY <2>2, ShownRows
    <2>4. win'.is_loading = FALSE
      BY <1>1, <1>4 DEF Window
    <2> HIDE DEF Z
    <2> QED BY <1>4, <2>1, <2>3, <2>4 DEF Atomic!Next, Atomic!Answer
  <1>5. ASSUME UNCHANGED <<current_path, current_index>>,
               win'.is_loading = win.is_loading, Shown' = Shown
        PROVE  UNCHANGED Atomic!vars
    BY <1>5 DEF Atomic!vars
  <1>6. ASSUME UNCHANGED <<current_path, current_index>>, NEW rows,
               win' = [win EXCEPT !.rows = rows],
               DOMAIN rows = DOMAIN win.rows,
               \A r \in DOMAIN rows : rows[r].zekyll = win.rows[r].zekyll
        PROVE  UNCHANGED Atomic!vars
    <2>1. win'.is_loading = win.is_loading /\ win'.rows = rows
      BY <1>1, <1>6 DEF Window
    <2>2. Shown' = Shown
      BY <1>6, <2>1 DEF Shown
    <2> QED BY <1>5, <1>6, <2>1, <2>2
  <1>7. ASSUME NEW p \in Paths, OpenRepository(p) PROVE Atomic!Next
    BY <1>1, <1>2, <1>3, <1>7 DEF OpenRepository
  <1>8. ASSUME NEW i \in Indexes, GoToIndex(i) PROVE Atomic!Next
    BY <1>1, <1>2, <1>3, <1>8 DEF GoToIndex
  <1>9. ASSUME NEW i \in Indexes, NEW bits \in SUBSET Slots, EnterZcode(i, bits)
        PROVE  Atomic!Next \/ UNCHANGED Atomic!vars
    <2>1. [win EXCEPT !.prepared = TRUE, !.deferred = bits] \in Window
      BY <1>1 DEF Window
    <2>2. CASE /\ win' = [win EXCEPT !.rows = applyCodeSelectors(@, i, bits)]
               /\ UNCHANGED <<current_path, current_index, list, check>>
      <3> DEFINE R == applyCodeSelectors(win.rows, i, bits)
      <3>1. /\ DOMAIN R = DOMAIN win.rows
            /\ \A r \in DOMAIN win.rows : R[r].zekyll = win.rows[r].zekyll
        <4>1. win.rows \in Seq(Row)
          BY <1>1 DEF Window
        <4> HIDE DEF R
        <4>2. R = applyCodeSelectors(win.rows, i, bits)
          BY DEF R
        <4> QED BY <4>1, <4>2, ApplyKeeps
      <3>2. win' = [win EXCEPT !.rows = R]
        BY <2>2
      <3> HIDE DEF R
      <3> QED BY <1>6, <2>2, <3>1, <3>2
    <2> QED BY <1>2, <1>3, <1>9, <2>1, <2>2 DEF EnterZcode
  <1>10. ASSUME NEW r \in DOMAIN win.rows, ClickCheckBox(r)
         PROVE  UNCHANGED Atomic!vars
    <2> DEFINE R == [win.rows EXCEPT ![r].checked = ~@]
    <2>1. win.rows \in Seq(Row) /\ \A k \in DOMAIN win.rows : win.rows[k] \in Row
      BY <1>1, LenProperties, ElementOfSeq DEF Window
    <2>2. DOMAIN R = DOMAIN win.rows
      OBVIOUS
    <2>3. \A k \in DOMAIN R : R[k].zekyll = win.rows[k].zekyll
      BY <2>1, <2>2 DEF Row
    <2>4. win' = [win EXCEPT !.rows = R] /\ UNCHANGED <<current_path, current_index>>
      BY <1>10 DEF ClickCheckBox
    <2> HIDE DEF R
    <2> QED BY <1>6, <2>2, <2>3, <2>4
  <1>11. CASE ListExits \/ CheckExits \/ UNCHANGED vars
    <2>1. UNCHANGED <<current_path, current_index, win>>
      BY <1>11 DEF ListExits, CheckExits, vars
    <2> QED BY <1>5, <2>1 DEF Shown
  <1>12. CASE ListFinished
    <2>1. /\ check.st = "idle" /\ win.rows = <<>> /\ win.is_loading
          /\ win' = handle_zkiresize_list(win, current_index, list)
          /\ UNCHANGED <<current_path, current_index>>
      BY <1>12, ListFinishedWaiting
      DEF ListFinished, WaitInv, BusyLoads, Quiet
    <2>2. win'.is_loading <=> list.code = InconsistentList
      BY <1>1, <2>1, ListResultLoads DEF IInv
    <2>3. CASE win'.is_loading
      <3>1. win'.is_loading = win.is_loading /\ Shown' = Shown
        BY <1>1, <2>1, <2>3 DEF Shown, Window
      <3> QED BY <1>5, <2>1, <3>1
    <2>4. CASE ~win'.is_loading
      BY <1>4, <2>1, <2>4
    <2> QED BY <2>3, <2>4
  <1>13. CASE CheckFinished
    <2>1. win.is_loading /\ UNCHANGED <<current_path, current_index>>
      BY <1>13 DEF CheckFinished, BusyLoads, Quiet
    <2> DEFINE w == IF check.code = Inconsistent
                      THEN [win EXCEPT !.issues = Append(@, check.path)] ELSE win
    <2>2. w \in Window
      <3>1. Append(win.issues, check.path) \in Seq(Paths \cup {NoPath})
        BY <1>1, AppendProperties DEF Window, IInv, Process
      <3> QED BY <1>1, <3>1 DEF Window
    <2>3. win' = endLoading(w, current_index)
      BY <1>13 DEF CheckFinished, handle_zkiresize_consistent
    <2> HIDE DEF w
    <2>4. ~win'.is_loading
      BY <2>2, <2>3, EndLoadingSound
    <2> QED BY <1>4, <2>1, <2>4
  <1> QED
    BY <1>7, <1>8, <1>9, <1>10, <1>11, <1>12, <1>13 DEF Next, User, Backend

(* Requests, two processes, their answers and the selectors set aside are,   *)
(* to a user who waits, one request and one answer: the listing of what was  *)
(* asked for last, or nothing, whatever fails.                               *)
THEOREM LoadingIsAtomic ==
  ASSUME Early = {}
  PROVE  Spec => ImplementsAtomicLoader
  <1>1. IInv /\ Init => WaitInv
    BY WaitFromStart
  <1>2. IInv /\ WaitInv /\ [Next]_vars => WaitInv'
    BY WaitInductive
  <1>3. Init => BusyLoads
    BY DEF Init, BusyLoads, Quiet, NoProcess
  <1>4. IInv /\ WaitInv /\ BusyLoads /\ [Next]_vars => BusyLoads'
    BY BusyInductive
  <1>5. Init => Atomic!Init
    <2> SUFFICES ASSUME Init PROVE Atomic!Init
      OBVIOUS
    <2>1. win.is_loading = FALSE /\ win.rows = <<>> /\ win.rows \in Seq(Row)
      BY EmptySeq DEF Init
    <2>2. Shown = [r \in DOMAIN win.rows |-> win.rows[r].zekyll]
      BY <2>1 DEF Shown
    <2>3. current_index \in Indexes /\ CurrentRows(win.rows, current_path, current_index)
      BY <2>1 DEF Init, CurrentRows
    <2>4. Shown = <<>> \/ current_path \in Paths
      BY <2>1, <2>2, <2>3, ShownRows
    <2> QED BY <2>1, <2>4 DEF Init, Atomic!Init
  <1>6. IInv /\ IInv' /\ WaitInv /\ WaitInv' /\ BusyLoads /\ [Next]_vars
          => [Atomic!Next]_(Atomic!vars)
    BY AtomicStep
  <1> QED
    BY <1>1, <1>2, <1>3, <1>4, <1>5, <1>6, Inductive, PTL
    DEF Spec, ImplementsAtomicLoader, Atomic!Spec

-----------------------------------------------------------------------------
(* A user who does not wait, when processes start and die when told to.      *)

(* The rows end with the listing of repository p and index i.                *)
EndWith(rows, p, i) ==
  LET n == Len(Listing[p][i])
      m == Len(rows) - n
  IN  m >= 0 /\ \A k \in 1 .. n : rows[m + k].zekyll = Listing[p][i][k]

(* The list process is about the place the window is at, a window that loads *)
(* has a process at work, and a list that answered has its rows at the end.  *)
ArriveInv ==
  /\ list.path = current_path /\ list.index = current_index
  /\ win.is_loading => ~Quiet
  /\ (list.st = "idle" /\ list.code \in {Ok, InconsistentList}) =>
       EndWith(win.rows, current_path, current_index)

(* Whatever became of the process before it, a request has its own.          *)
LEMMA RestartSure ==
  ASSUME ~SlowKill, ~StartFails, NEW q, NEW p, NEW i, NEW o \in restart(q, p, i)
  PROVE  o.proc.st = "running" /\ o.proc.path = p /\ o.proc.index = i
  <1> DEFINE fresh == [st |-> "running", path |-> p, index |-> i, code |-> NoCode]
  <1>1. o.proc = fresh
    BY DEF restart
  <1> QED BY <1>1

(* Marking rows leaves them at the end of the table.                         *)
LEMMA EndKept ==
  ASSUME NEW rows \in Seq(Row), NEW new \in Seq(Row), Len(new) = Len(rows),
         \A r \in DOMAIN rows : new[r].zekyll = rows[r].zekyll,
         NEW p \in Paths, NEW i \in Indexes, EndWith(rows, p, i)
  PROVE  EndWith(new, p, i)
  <1> DEFINE L == Listing[p][i]
             m == Len(rows) - Len(L)
  <1>1. L \in Seq({Zekyll(i, k) : k \in Slots})
    BY ListingAssumption
  <1> HIDE DEF L
  <1>2. Len(L) \in Nat /\ Len(rows) \in Nat /\ DOMAIN rows = 1 .. Len(rows)
    BY <1>1, LenProperties
  <1>3. m >= 0 /\ \A k \in 1 .. Len(L) : rows[m + k].zekyll = L[k]
    BY DEF EndWith, L
  <1>4. \A k \in 1 .. Len(L) : m + k \in 1 .. Len(rows)
    BY <1>2, <1>3
  <1>5. \A k \in 1 .. Len(L) : new[m + k].zekyll = L[k]
    BY <1>2, <1>3, <1>4
  <1> QED BY <1>3, <1>5 DEF EndWith, L

(* Appended rows are at the end of the table.                                *)
LEMMA EndAppended ==
  ASSUME NEW rows \in Seq(Row), NEW p \in Paths, NEW i \in Indexes
  PROVE  /\ rows \o ListedRows(p, i) \in Seq(Row)
         /\ EndWith(rows \o ListedRows(p, i), p, i)
  <1> DEFINE L == Listing[p][i]
             T == ListedRows(p, i)
  <1>1. /\ T \in Seq(Row) /\ Len(T) = Len(L)
        /\ \A k \in 1 .. Len(L) : T[k].zekyll = L[k]
    BY ListedType
  <1> HIDE DEF T, L
  <1>2. Len(rows) \in Nat /\ Len(T) \in Nat
    BY <1>1, LenProperties
  <1>3. /\ rows \o T \in Seq(Row)
        /\ Len(rows \o T) = Len(rows) + Len(T)
        /\ \A k \in 1 .. Len(T) : (rows \o T)[Len(rows) + k] = T[k]
    <2>1. rows \o T \in Seq(Row) /\ Len(rows \o T) = Len(rows) + Len(T)
      BY <1>1, ConcatProperties
    <2>2. ASSUME NEW k \in 1 .. Len(T) PROVE (rows \o T)[Len(rows) + k] = T[k]
      <3>1. /\ Len(rows) + k \in 1 .. Len(rows) + Len(T)
            /\ ~(Len(rows) + k <= Len(rows)) /\ Len(rows) + k - Len(rows) = k
        BY <1>2
      <3> QED BY <1>1, <3>1, ConcatProperties
    <2> QED BY <2>1, <2>2
  <1>4. Len(rows \o T) - Len(L) = Len(rows)
    BY <1>1, <1>2, <1>3
  <1> QED BY <1>1, <1>2, <1>3, <1>4 DEF EndWith, T, L

(* The answer of a list ends the loading or starts a check, and leaves its   *)
(* rows at the end of the table, behind whatever is there.                   *)
LEMMA ListResultEnds ==
  ASSUME NEW w \in Window, NEW i, NEW q, SoundProcess(q),
         NEW v, v = handle_zkiresize_list(w, i, q)
  PROVE  /\ q.code # InconsistentList => ~v.is_loading
         /\ q.code \in {Ok, InconsistentList} => EndWith(v.rows, q.path, q.index)
  <1> USE DEF Ok, InconsistentList
  <1> DEFINE R == w.rows \o ListedRows(q.path, q.index)
             filled == [w EXCEPT !.rows = R]
  <1>1. v = CASE q.code = Ok               -> endLoading(filled, i)
              [] q.code = InconsistentList -> filled
              [] OTHER                     -> endLoading(w, i)
    BY DEF handle_zkiresize_list
  <1>2. ASSUME q.code \in {Ok, InconsistentList}
        PROVE  /\ q.path \in Paths /\ q.index \in Indexes
               /\ R \in Seq(Row) /\ EndWith(R, q.path, q.index)
    <2>1. q.path \in Paths /\ q.index \in Indexes
      BY <1>2 DEF SoundProcess, Process
    <2> QED BY <2>1, EndAppended DEF Window
  <1> HIDE DEF R
  <1>3. R \in Seq(Row) => filled \in Window /\ filled.rows = R
    BY DEF Window
  <1> HIDE DEF filled
  <1>4. CASE q.code = Ok
    <2>1. v = endLoading(filled, i)
      BY <1>1, <1>4
    <2>2. /\ ~v.is_loading
          /\ v.rows = R \/ v.rows = applyCodeSelectors(R, i, filled.deferred)
      BY <1>2, <1>3, <1>4, <2>1, EndLoadingSound
    <2>3. EndWith(applyCodeSelectors(R, i, filled.deferred), q.path, q.index)
      <3> DEFINE A == applyCodeSelectors(R, i, filled.deferred)
      <3>1. /\ R \in Seq(Row) /\ A \in Seq(Row) /\ Len(A) = Len(R)
            /\ \A r \in DOMAIN R : A[r].zekyll = R[r].zekyll
        BY <1>2, <1>4, ApplyKeeps
      <3> HIDE DEF A
      <3>2. EndWith(A, q.path, q.index)
        BY <1>2, <1>4, <3>1, EndKept
      <3> QED BY <3>2 DEF A
    <2> QED BY <1>2, <1>4, <2>2, <2>3
  <1>5. CASE q.code = InconsistentList
    <2>1. v = filled
      BY <1>1, <1>5
    <2> QED BY <1>2, <1>3, <1>5, <2>1
  <1>6. CASE q.code \notin {Ok, InconsistentList}
    <2>1. v = endLoading(w, i)
      BY <1>1, <1>6
    <2> QED BY <1>6, <2>1, EndLoadingSound
  <1> QED BY <1>4, <1>5, <1>6

LEMMA ArriveInductive ==
  ASSUME ~SlowKill, ~StartFails, IInv, IInv', ArriveInv, [Next]_vars
  PROVE  ArriveInv'
  <1>1. win \in Window /\ SoundProcess(list) /\ list \in Process
    BY DEF IInv, SoundWindow, SoundProcess
  <1>2. ASSUME NEW w, NEW p, NEW i, reloadRepository(w, p, i)
        PROVE  ArriveInv'
    <2>1. list'.st = "running" /\ list'.path = p /\ list'.index = i
      <3>1. \E o \in restart(list, p, i) : list' = o.proc
        BY <1>2 DEF reloadRepository
      <3> QED BY <3>1, RestartSure
    <2>2. current_path' = p /\ current_index' = i
      BY <1>2 DEF reloadRepository
    <2> QED BY <2>1, <2>2 DEF ArriveInv, Quiet
  <1>3. ASSUME UNCHANGED <<current_path, current_index, list>>,
               NEW rows \in Seq(Row), rows = win'.rows, Len(rows) = Len(win.rows),
               \A r \in DOMAIN win.rows : rows[r].zekyll = win.rows[r].zekyll,
               win'.is_loading => ~Quiet'
        PROVE  ArriveInv'
    <2>1. CASE list.st = "idle" /\ list.code \in {Ok, InconsistentList}
      <3>1. current_path \in Paths /\ current_index \in Indexes
        BY <1>1, <2>1 DEF SoundProcess, ArriveInv, IInv
      <3>2. EndWith(rows, current_path, current_index)
        BY <1>1, <1>3, <2>1, <3>1, EndKept DEF ArriveInv, Window
      <3> QED BY <1>3, <3>2 DEF ArriveInv
    <2>2. CASE ~(list.st = "idle" /\ list.code \in {Ok, InconsistentList})
      BY <1>3, <2>2 DEF ArriveInv
    <2> QED BY <2>1, <2>2
  <1>4. ASSUME NEW p \in Paths, OpenRepository(p) PROVE ArriveInv'
    BY <1>2, <1>4 DEF OpenRepository
  <1>5. ASSUME NEW i \in Indexes, GoToIndex(i) PROVE ArriveInv'
    BY <1>2, <1>5 DEF GoToIndex
  <1>6. ASSUME NEW i \in Indexes, NEW bits \in SUBSET Slots, EnterZcode(i, bits)
        PROVE  ArriveInv'
    <2>1. CASE /\ win' = [win EXCEPT !.rows = applyCodeSelectors(@, i, bits)]
               /\ UNCHANGED <<current_path, current_index, list, check>>
      <3> DEFINE R == applyCodeSelectors(win.rows, i, bits)
      <3>1. /\ R \in Seq(Row) /\ Len(R) = Len(win.rows)
            /\ \A r \in DOMAIN win.rows : R[r].zekyll = win.rows[r].zekyll
        <4>1. win.rows \in Seq(Row)
          BY <1>1 DEF Window
        <4> HIDE DEF R
        <4>2. R = applyCodeSelectors(win.rows, i, bits)
          BY DEF R
        <4> QED BY <4>1, <4>2, ApplyKeeps
      <3>2. win' = [win EXCEPT !.rows = R]
        BY <2>1
      <3> HIDE DEF R
      <3>3. win'.rows = R /\ (win'.is_loading => ~Quiet')
        BY <1>1, <2>1, <3>2 DEF Window, Quiet, ArriveInv
      <3> QED BY <1>3, <2>1, <3>1, <3>3
    <2> QED BY <1>2, <1>6, <2>1 DEF EnterZcode
  <1>7. ASSUME NEW r \in DOMAIN win.rows, ClickCheckBox(r) PROVE ArriveInv'
    <2> DEFINE R == [win.rows EXCEPT ![r].checked = ~@]
    <2>1. /\ win.rows \in Seq(Row) /\ DOMAIN win.rows = 1 .. Len(win.rows)
          /\ \A k \in DOMAIN win.rows : win.rows[k] \in Row
      BY <1>1, LenProperties, ElementOfSeq DEF Window
    <2>2. /\ R \in Seq(Row) /\ Len(R) = Len(win.rows)
      <3>1. [win.rows[r] EXCEPT !.checked = ~@] \in Row
        BY <2>1 DEF Row
      <3> QED BY <2>1, <3>1, ExceptSeq, LenProperties
    <2>3. \A k \in DOMAIN win.rows : R[k].zekyll = win.rows[k].zekyll
      BY <2>1 DEF Row
    <2>4. /\ win' = [win EXCEPT !.rows = R]
          /\ UNCHANGED <<current_path, current_index, list, check>>
      BY <1>7 DEF ClickCheckBox
    <2> HIDE DEF R
    <2>5. win'.rows = R /\ (win'.is_loading => ~Quiet')
      BY <1>1, <2>4 DEF Window, Quiet, ArriveInv
    <2> QED BY <1>3, <2>2, <2>3, <2>4, <2>5
  <1>8. CASE ListExits
    <2>1. /\ list'.st = "exited"
          /\ list'.path = list.path /\ list'.index = list.index
      BY <1>1, <1>8 DEF ListExits, Process
    <2> QED BY <1>8, <2>1 DEF ListExits, ArriveInv, Quiet
  <1>9. CASE CheckExits
    <2>1. check'.st = "exited"
      BY <1>9 DEF CheckExits, IInv, Process
    <2> QED BY <1>9, <2>1 DEF CheckExits, ArriveInv, Quiet
  <1>10. CASE ListFinished
    <2>1. PICK r \in handleZkIResizeList(win, current_index, check,
                                         current_path, list) :
            win' = r.win /\ check' = r.check
      BY <1>10 DEF ListFinished
    <2> DEFINE from == IF list.code = InconsistentList
                         THEN consistent(win, current_index, check, current_path)
                         ELSE {[win |-> win, check |-> check]}
    <2>2. PICK o \in from :
            r = [o EXCEPT !.win = handle_zkiresize_list(@, current_index, list)]
      BY DEF handleZkIResizeList
    <2>3. o.win \in Window
      <3>1. CASE list.code = InconsistentList
        <4>1. o \in consistent(win, current_index, check, current_path)
          BY <3>1
        <4> QED BY <4>1, ConsistentSound DEF IInv, SoundWindow
      <3>2. CASE list.code # InconsistentList
        BY <1>1, <3>2
      <3> QED BY <3>1, <3>2
    <2>4. /\ win' = handle_zkiresize_list(o.win, current_index, list)
          /\ check' = o.check
      <3>1. DOMAIN o = {"win", "check"}
        BY DEF consistent
      <3> QED BY <2>1, <2>2, <3>1
    <2>5. list.code = InconsistentList => check'.st = "running"
      <3> SUFFICES ASSUME list.code = InconsistentList PROVE check'.st = "running"
        OBVIOUS
      <3>1. \E s \in restart(check, current_path, 1) : o.check = s.proc
        BY DEF consistent
      <3> QED BY <2>4, <3>1, RestartSure
    <2> HIDE DEF from
    <2>6. /\ list.code # InconsistentList => ~win'.is_loading
          /\ list.code \in {Ok, InconsistentList}
               => EndWith(win'.rows, list.path, list.index)
      BY <1>1, <2>3, <2>4, ListResultEnds
    <2>7. /\ list'.path = list.path /\ list'.index = list.index
          /\ list'.code = list.code
          /\ UNCHANGED <<current_path, current_index>>
      BY <1>1, <1>10 DEF ListFinished, Process
    <2> QED BY <2>5, <2>6, <2>7 DEF ArriveInv, Quiet
  <1>11. CASE CheckFinished
    <2> DEFINE w == IF check.code = Inconsistent
                      THEN [win EXCEPT !.issues = Append(@, check.path)] ELSE win
    <2>1. w \in Window /\ w.rows = win.rows
      <3>1. Append(win.issues, check.path) \in Seq(Paths \cup {NoPath})
        BY <1>1, AppendProperties DEF Window, IInv, Process
      <3> QED BY <1>1, <3>1 DEF Window
    <2>2. win' = endLoading(w, current_index)
      BY <1>11 DEF CheckFinished, handle_zkiresize_consistent
    <2> HIDE DEF w
    <2>3. /\ ~win'.is_loading
          /\ \/ win'.rows = win.rows
             \/ win'.rows = applyCodeSelectors(win.rows, current_index, w.deferred)
      BY <2>1, <2>2, EndLoadingSound
    <2>4. /\ win'.rows \in Seq(Row) /\ Len(win'.rows) = Len(win.rows)
          /\ \A r \in DOMAIN win.rows : win'.rows[r].zekyll = win.rows[r].zekyll
      <3>1. win.rows \in Seq(Row)
        BY <1>1 DEF Window
      <3> QED BY <2>3, <3>1, ApplyKeeps
    <2>5. UNCHANGED <<current_path, current_index, list>>
      BY <1>11 DEF CheckFinished
    <2> QED BY <1>3, <2>3, <2>4, <2>5
  <1>12. CASE UNCHANGED vars
    BY <1>12 DEF vars, ArriveInv, Quiet
  <1> QED
    BY <1>4, <1>5, <1>6, <1>7, <1>8, <1>9, <1>10, <1>11, <1>12
    DEF Next, User, Backend

(* However requests, kills, answers and checks overlap, a window with no     *)
(* process at work has taken the answer about the place it is at last, and   *)
(* is not loading, when processes start and die as they are told.            *)
THEOREM LastRequestAnswered == Spec => []ListingArrives
  <1>1. CASE SlowKill \/ StartFails
    <2>1. ListingArrives
      BY <1>1 DEF ListingArrives
    <2> QED BY <2>1, PTL
  <1>2. CASE ~SlowKill /\ ~StartFails
    <2>1. Init => ArriveInv
      BY DEF Init, ArriveInv, NoProcess, NoCode, Ok, InconsistentList
    <2>2. IInv /\ IInv' /\ ArriveInv /\ [Next]_vars => ArriveInv'
      BY <1>2, ArriveInductive
    <2>3. ArriveInv => ListingArrives
      <3> SUFFICES ASSUME ArriveInv, Quiet PROVE ListingArrives
        BY DEF ListingArrives
      <3>1. (list.code \in {Ok, InconsistentList}) =>
              EndWith(win.rows, current_path, current_index)
        BY DEF ArriveInv, Quiet
      <3>2. /\ ~win.is_loading
            /\ list.path = current_path /\ list.index = current_index
        BY DEF ArriveInv
      <3> QED BY <3>1, <3>2, Zenon DEF ListingArrives, EndWith
    <2> QED BY <2>1, <2>2, <2>3, Inductive, PTL DEF Spec
  <1> QED BY <1>1, <1>2

-----------------------------------------------------------------------------
(* A user who waits keeps the selection, when processes start as they are    *)
(* told.                                                                     *)

(* Zekylls of one index are in the order of their slots.                     *)
LEMMA ZekyllOrder ==
  ASSUME NEW i \in Indexes, NEW j \in Slots, NEW k \in Slots
  PROVE  /\ Zekyll(i, j) = Zekyll(i, k) <=> j = k
         /\ Zekyll(i, j) < Zekyll(i, k) <=> j < k
  <1> DEFINE base == (i - 1) * Capacity
  <1>1. j \in Nat /\ k \in Nat
    BY DEF Slots
  <1>2. base \in Int
    <2>1. i - 1 \in Int /\ Capacity \in Int
      BY CapacityAssumption, IndexesAssumption
    <2>2. \A a, b \in Int : a * b \in Int
      OBVIOUS
    <2> QED BY <2>1, <2>2
  <1>3. Zekyll(i, j) = base + j /\ Zekyll(i, k) = base + k
    BY DEF Zekyll
  <1> HIDE DEF base
  <1> QED BY <1>1, <1>2, <1>3

(* The slot each row of a listing is in; slots grow with the rows.           *)
SlotOf(rows, i, f) ==
  /\ f \in [DOMAIN rows -> Slots]
  /\ \A r \in DOMAIN rows : rows[r].zekyll = Zekyll(i, f[r])
  /\ \A r, q \in DOMAIN rows : r < q => f[r] < f[q]

LEMMA SlotsExist ==
  ASSUME NEW rows \in Seq(Row), NEW p, NEW i \in Indexes,
         CurrentRows(rows, p, i), rows # <<>>
  PROVE  \E f : SlotOf(rows, i, f)
  <1> DEFINE L == Listing[p][i]
             f == [r \in DOMAIN rows |->
                     CHOOSE k \in Slots : rows[r].zekyll = Zekyll(i, k)]
  <1>1. /\ p \in Paths /\ Len(rows) = Len(L)
        /\ \A r \in DOMAIN rows : rows[r].zekyll = L[r]
    BY DEF CurrentRows
  <1>2. L \in Seq({Zekyll(i, k) : k \in Slots}) /\ Increasing(L)
    BY <1>1, ListingAssumption
  <1> HIDE DEF L
  <1>3. DOMAIN rows = 1 .. Len(L) /\ DOMAIN L = 1 .. Len(L) /\ Len(L) \in Nat
    BY <1>1, <1>2, LenProperties
  <1>4. \A r \in DOMAIN rows : \E k \in Slots : rows[r].zekyll = Zekyll(i, k)
    BY <1>1, <1>2, <1>3, ElementOfSeq
  <1>5. \A r \in DOMAIN rows : f[r] \in Slots /\ rows[r].zekyll = Zekyll(i, f[r])
    BY <1>4
  <1> HIDE DEF f
  <1>6. \A r, q \in DOMAIN rows : r < q => f[r] < f[q]
    <2> SUFFICES ASSUME NEW r \in DOMAIN rows, NEW q \in DOMAIN rows, r < q
                 PROVE  f[r] < f[q]
      OBVIOUS
    <2>1. rows[r].zekyll < rows[q].zekyll
      BY <1>1, <1>2, <1>3 DEF Increasing
    <2>2. Zekyll(i, f[r]) < Zekyll(i, f[q])
      BY <1>5, <2>1
    <2> QED BY <1>5, <2>2, ZekyllOrder
  <1>7. f \in [DOMAIN rows -> Slots]
    BY <1>5 DEF f
  <1> QED BY <1>5, <1>6, <1>7 DEF SlotOf

(* The slots of the zekylls that are in the table, and how many of them      *)
(* there are up to slot k.                                                   *)
Present(rows, i) == {k \in Slots : Zekyll(i, k) \in Zekylls(rows)}
CountTo(rows, i, k) == Cardinality({j \in Present(rows, i) : j <= k})

(* Counting the zekylls of an index that are in the table, up to the one in  *)
(* row r, gives r: that is how gatherCodeSelectors finds the row.            *)
LEMMA RowByCounting ==
  ASSUME NEW rows \in Seq(Row), NEW i \in Indexes, NEW f, SlotOf(rows, i, f),
         NEW r \in DOMAIN rows
  PROVE  CountTo(rows, i, f[r]) = r
  <1> DEFINE present == Present(rows, i)
  <1>1. DOMAIN rows = 1 .. Len(rows) /\ Len(rows) \in Nat
    BY LenProperties
  <1>2. \A q \in DOMAIN rows : f[q] \in Slots /\ f[q] \in Nat
    BY DEF SlotOf, Slots
  <1>3. \A j \in present : \E q \in DOMAIN rows : j = f[q]
    <2> SUFFICES ASSUME NEW j \in present PROVE \E q \in DOMAIN rows : j = f[q]
      OBVIOUS
    <2>1. PICK q \in DOMAIN rows : rows[q].zekyll = Zekyll(i, j)
      BY DEF Present, Zekylls
    <2>2. Zekyll(i, f[q]) = Zekyll(i, j)
      BY <2>1 DEF SlotOf
    <2>3. j \in Slots
      BY DEF Present
    <2> QED BY <1>2, <2>2, <2>3, ZekyllOrder
  <1>4. \A q \in DOMAIN rows : f[q] \in present
    BY <1>2 DEF SlotOf, Present, Zekylls
  <1> DEFINE S == {j \in present : j <= f[r]}
             g == [q \in 1 .. r |-> f[q]]
  <1>5. r \in Nat /\ 1 .. r \subseteq DOMAIN rows
    BY <1>1
  <1>6. \A q, s \in DOMAIN rows : f[q] <= f[s] <=> q <= s
    <2> SUFFICES ASSUME NEW q \in DOMAIN rows, NEW s \in DOMAIN rows
                 PROVE  f[q] <= f[s] <=> q <= s
      OBVIOUS
    <2>1. q \in Nat /\ s \in Nat
      BY <1>1
    <2>2. q < s => f[q] < f[s]
      BY DEF SlotOf
    <2>3. s < q => f[s] < f[q]
      BY DEF SlotOf
    <2> QED BY <1>2, <2>1, <2>2, <2>3
  <1>7. g \in Bijection(1 .. r, S)
    <2>1. \A q \in 1 .. r : g[q] \in S
      BY <1>1, <1>4, <1>5, <1>6
    <2>2. \A q, s \in 1 .. r : g[q] = g[s] => q = s
      <3> SUFFICES ASSUME NEW q \in 1 .. r, NEW s \in 1 .. r, g[q] = g[s]
                   PROVE  q = s
        OBVIOUS
      <3>1. f[q] <= f[s] /\ f[s] <= f[q]
        BY <1>2, <1>5
      <3>2. q <= s /\ s <= q
        BY <1>5, <1>6, <3>1
      <3> QED BY <3>2
    <2>3. \A j \in S : \E q \in 1 .. r : g[q] = j
      <3> SUFFICES ASSUME NEW j \in S PROVE \E q \in 1 .. r : g[q] = j
        OBVIOUS
      <3>1. PICK q \in DOMAIN rows : j = f[q]
        BY <1>3
      <3>2. q <= r
        BY <1>6, <3>1
      <3>3. q \in 1 .. r
        BY <1>1, <3>2
      <3> QED BY <3>1, <3>3
    <2> HIDE DEF S
    <2>4. g \in [1 .. r -> S]
      BY <2>1
    <2> QED
      BY <2>2, <2>3, <2>4 DEF Bijection, Injection, Surjection, IsInjective
  <1> HIDE DEF S, g
  <1>8. ExistsBijection(1 .. r, S)
    BY <1>7 DEF ExistsBijection
  <1>9. Cardinality(S) = r
    BY <1>5, <1>8, FS_CountingElements
  <1> QED BY <1>9 DEF S, CountTo

(* The zekylls that are checked, as slots.                                   *)
CheckedSlots(rows, i) ==
  {k \in Slots : \E r \in DOMAIN rows :
                   rows[r].zekyll = Zekyll(i, k) /\ rows[r].checked}

(* Gathering from the rows of a listing gives what is checked.               *)
LEMMA GatherIsChecked ==
  ASSUME NEW rows \in Seq(Row), NEW p, NEW i \in Indexes,
         CurrentRows(rows, p, i), rows # <<>>
  PROVE  gatherCodeSelectors(rows, i) = CheckedSlots(rows, i)
  <1> DEFINE present == Present(rows, i)
             row(k) == CountTo(rows, i, k)
  <1>1. PICK f : SlotOf(rows, i, f)
    BY SlotsExist
  <1>2. \A r \in DOMAIN rows : row(f[r]) = r
    BY <1>1, RowByCounting
  <1>3. gatherCodeSelectors(rows, i)
          = {k \in present : Selector(rows, rows[row(k)].zekyll)}
    BY DEF gatherCodeSelectors, Present, CountTo
  <1> HIDE DEF row
  <1>4. \A k \in present : \E r \in DOMAIN rows :
          k = f[r] /\ rows[r].zekyll = Zekyll(i, k)
    <2> SUFFICES ASSUME NEW k \in present
                 PROVE  \E r \in DOMAIN rows :
                          k = f[r] /\ rows[r].zekyll = Zekyll(i, k)
      OBVIOUS
    <2>1. PICK r \in DOMAIN rows : rows[r].zekyll = Zekyll(i, k)
      BY DEF Present, Zekylls
    <2>2. Zekyll(i, f[r]) = Zekyll(i, k) /\ f[r] \in Slots
      BY <1>1, <2>1 DEF SlotOf
    <2>3. k \in Slots
      BY DEF Present
    <2> QED BY <2>1, <2>2, <2>3, ZekyllOrder
  <1>5. DOMAIN rows = 1 .. Len(rows) /\ Len(rows) \in Nat
    BY LenProperties
  <1>6. \A r, q \in DOMAIN rows : rows[r].zekyll = rows[q].zekyll => r = q
    <2> SUFFICES ASSUME NEW r \in DOMAIN rows, NEW q \in DOMAIN rows,
                        rows[r].zekyll = rows[q].zekyll
                 PROVE  r = q
      OBVIOUS
    <2>1. f[r] \in Slots /\ f[q] \in Slots /\ Zekyll(i, f[r]) = Zekyll(i, f[q])
      BY <1>1 DEF SlotOf
    <2>2. f[r] = f[q]
      BY <2>1, ZekyllOrder
    <2> QED BY <1>2, <2>2
  <1>7. \A r \in DOMAIN rows : Selector(rows, rows[r].zekyll) <=> rows[r].checked
    <2> SUFFICES ASSUME NEW r \in DOMAIN rows
                 PROVE  Selector(rows, rows[r].zekyll) <=> rows[r].checked
      OBVIOUS
    <2>1. \A q \in DOMAIN rows : q > r => rows[q].zekyll # rows[r].zekyll
      BY <1>5, <1>6
    <2> QED BY <1>6, <2>1 DEF Selector
  <1>8. \A k \in present :
          Selector(rows, rows[row(k)].zekyll)
            <=> \E r \in DOMAIN rows :
                  rows[r].zekyll = Zekyll(i, k) /\ rows[r].checked
    <2> SUFFICES ASSUME NEW k \in present
                 PROVE  Selector(rows, rows[row(k)].zekyll)
                          <=> \E r \in DOMAIN rows :
                                rows[r].zekyll = Zekyll(i, k) /\ rows[r].checked
      OBVIOUS
    <2>1. PICK r \in DOMAIN rows : k = f[r] /\ rows[r].zekyll = Zekyll(i, k)
      BY <1>4
    <2>2. row(k) = r
      BY <1>2, <2>1
    <2> HIDE DEF present
    <2>3. Selector(rows, rows[row(k)].zekyll) <=> rows[r].checked
      BY <1>7, <2>2
    <2>4. \A q \in DOMAIN rows : rows[q].zekyll = Zekyll(i, k) => q = r
      BY <1>6, <2>1
    <2> QED BY <2>1, <2>3, <2>4
  <1>9. CheckedSlots(rows, i) \subseteq present
    BY DEF CheckedSlots, Present, Zekylls
  <1>10. \A k \in present : k \in Slots
    BY DEF Present
  <1> HIDE DEF present
  <1> QED BY <1>3, <1>8, <1>9, <1>10 DEF CheckedSlots

-----------------------------------------------------------------------------
(* The invariant of a user who waits.                                        *)

(* The rows of index i are checked as selectors bits say.                    *)
Selected(rows, i, bits) ==
  \A r \in DOMAIN rows, k \in Slots :
    rows[r].zekyll = Zekyll(i, k) => (rows[r].checked <=> k \in bits)

AllChecked(rows) == \A r \in DOMAIN rows : rows[r].checked

(* While the window is loading, the selection is what was set aside, or all  *)
(* if nothing was; the rows of a list that is being checked are as listed.   *)
KeepInv ==
  /\ win.is_loading => ~Quiet /\ AllChecked(win.rows)
  /\ win.is_loading => want = IF win.prepared THEN win.deferred ELSE Slots
  /\ ~win.is_loading => Selected(win.rows, current_index, want)

(* Applying selectors selects as they say.                                   *)
LEMMA AppliedSelected ==
  ASSUME NEW rows \in Seq(Row), NEW i \in Indexes, NEW bits \in SUBSET Slots
  PROVE  Selected(applyCodeSelectors(rows, i, bits), i, bits)
  <1> DEFINE new == applyCodeSelectors(rows, i, bits)
  <1>1. /\ DOMAIN new = DOMAIN rows
        /\ \A r \in DOMAIN rows : new[r].zekyll = rows[r].zekyll
    BY ApplyKeeps
  <1>2. \A r \in DOMAIN rows :
          new[r].checked <=> \E k \in bits : rows[r].zekyll = Zekyll(i, k)
    <2> SUFFICES ASSUME NEW r \in DOMAIN rows
                 PROVE  new[r].checked
                          <=> \E k \in bits : rows[r].zekyll = Zekyll(i, k)
      OBVIOUS
    <2> DEFINE c == \E k \in bits : rows[r].zekyll = Zekyll(i, k)
    <2>1. new[r] = [rows[r] EXCEPT !.checked = c]
      BY DEF applyCodeSelectors
    <2>2. rows[r] \in Row
      BY LenProperties, ElementOfSeq
    <2> HIDE DEF c, new
    <2>3. new[r].checked = c
      BY <2>1, <2>2 DEF Row
    <2> QED BY <2>3 DEF c
  <1> HIDE DEF new
  <1>3. \A j, k \in Slots : Zekyll(i, j) = Zekyll(i, k) => j = k
    BY ZekyllOrder
  <1>4. Selected(new, i, bits)
    <2> SUFFICES ASSUME NEW r \in DOMAIN rows, NEW k \in Slots,
                        rows[r].zekyll = Zekyll(i, k)
                 PROVE  new[r].checked <=> k \in bits
      BY <1>1 DEF Selected
    <2>1. (\E j \in bits : rows[r].zekyll = Zekyll(i, j)) <=> k \in bits
      BY <1>3
    <2> QED BY <1>2, <2>1
  <1> QED BY <1>4 DEF new

(* What ends a loading selects what was set aside.                           *)
LEMMA EndLoadingSelects ==
  ASSUME NEW w \in Window, NEW i \in Indexes, AllChecked(w.rows),
         NEW bits, bits = IF w.prepared THEN w.deferred ELSE Slots
  PROVE  /\ ~endLoading(w, i).is_loading
         /\ Selected(endLoading(w, i).rows, i, bits)
  <1>1. /\ ~endLoading(w, i).is_loading
        /\ endLoading(w, i).rows =
             IF w.prepared THEN applyCodeSelectors(w.rows, i, w.deferred)
                           ELSE w.rows
    BY EndLoadingSound
  <1>2. CASE w.prepared
    <2>1. w.rows \in Seq(Row) /\ w.deferred \in SUBSET Slots
      BY DEF Window
    <2>2. Selected(applyCodeSelectors(w.rows, i, w.deferred), i, w.deferred)
      BY <2>1, AppliedSelected
    <2> QED BY <1>1, <1>2, <2>2
  <1>3. CASE ~w.prepared
    <2>1. Selected(w.rows, i, Slots)
      BY DEF Selected, AllChecked
    <2> QED BY <1>1, <1>3, <2>1
  <1> QED BY <1>2, <1>3

(* A reload sets aside what is selected and still there.                     *)
LEMMA ReloadKeeps ==
  ASSUME ~StartFails, IInv, WaitInv, KeepInv, Quiet, NEW p, NEW i,
         reloadRepository(win, p, i), want' = maintained
  PROVE  KeepInv'
  <1>1. /\ win \in Window /\ win.rows \in Seq(Row)
        /\ ~win.is_loading /\ ~win.prepared
        /\ current_index \in Indexes /\ want \in SUBSET Slots
    BY DEF IInv, SoundWindow, Window, KeepInv
  <1>2. /\ win' = clearTables(saveSelectors(win, current_index))
        /\ win'.rows = <<>> /\ win'.is_loading
        /\ list'.st = "running"
    BY <1>1, ReloadWaiting
  <1>3. AllChecked(win'.rows)
    BY <1>2 DEF AllChecked
  <1>4. want' = IF win'.prepared THEN win'.deferred ELSE Slots
    <2>1. CASE win.rows = <<>>
      <3>1. maintained = Slots
        BY <1>1, <2>1 DEF maintained
      <3>2. ~win'.prepared
        BY <1>1, <1>2, <2>1 DEF saveSelectors, clearTables, Window
      <3> QED BY <3>1, <3>2
    <2>2. CASE win.rows # <<>>
      <3> DEFINE bits == gatherCodeSelectors(win.rows, current_index)
      <3>1. saveSelectors(win, current_index)
              = [win EXCEPT !.prepared = TRUE, !.deferred = bits]
        BY <1>1, <2>2 DEF saveSelectors
      <3>2. bits = CheckedSlots(win.rows, current_index)
        BY <1>1, <2>2, GatherIsChecked DEF WaitInv
      <3> HIDE DEF bits
      <3>3. win'.prepared = TRUE /\ win'.deferred = bits
        BY <1>1, <1>2, <3>1 DEF clearTables, Window
      <3>4. maintained = {k \in want : Zekyll(current_index, k) \in Zekylls(win.rows)}
        BY <1>1, <2>2 DEF maintained
      <3>5. Selected(win.rows, current_index, want)
        BY <1>1 DEF KeepInv
      <3>6. CheckedSlots(win.rows, current_index)
              = {k \in want : Zekyll(current_index, k) \in Zekylls(win.rows)}
        BY <1>1, <3>5 DEF CheckedSlots, Selected, Zekylls
      <3> QED BY <3>2, <3>3, <3>4, <3>6
    <2> QED BY <2>1, <2>2
  <1> QED BY <1>2, <1>3, <1>4 DEF KeepInv, Quiet

LEMMA KeepInductive ==
  ASSUME Early = {}, ~StartFails, IInv, WaitInv, BusyLoads, KeepInv, [Next]_vars
  PROVE  KeepInv'
  <1>1. /\ win \in Window /\ win.rows \in Seq(Row) /\ SoundProcess(list)
        /\ current_index \in Indexes /\ want \in SUBSET Slots
    BY DEF IInv, SoundWindow, Window
  <1>2. (May("reload") => Quiet) /\ (May("select") => Quiet)
    BY DEF May
  <1>3. Quiet => ~win.is_loading
    BY DEF KeepInv
  <1>4. ASSUME NEW p \in Paths, OpenRepository(p) PROVE KeepInv'
    BY <1>2, <1>4, ReloadKeeps DEF OpenRepository
  <1>5. ASSUME NEW i \in Indexes, GoToIndex(i) PROVE KeepInv'
    BY <1>2, <1>5, ReloadKeeps DEF GoToIndex
  <1>6. ASSUME NEW i \in Indexes, NEW bits \in SUBSET Slots, EnterZcode(i, bits)
        PROVE  KeepInv'
    <2>1. want' = bits
      BY <1>6 DEF EnterZcode
    <2>2. CASE /\ May("reload")
               /\ reloadRepository(
                    [win EXCEPT !.prepared = TRUE, !.deferred = bits],
                    current_path, i)
      <3> DEFINE w == [win EXCEPT !.prepared = TRUE, !.deferred = bits]
      <3>1. w \in Window /\ w.prepared = TRUE /\ w.deferred = bits
        BY <1>1 DEF Window
      <3> HIDE DEF w
      <3>2. reloadRepository(w, current_path, i)
        BY <2>2 DEF w
      <3>3. /\ win' = clearTables(saveSelectors(w, current_index))
            /\ win'.rows = <<>> /\ win'.is_loading
            /\ list'.st = "running"
        BY <1>2, <2>2, <3>1, <3>2, ReloadWaiting
      <3>4. win'.prepared = TRUE /\ win'.deferred = bits
        BY <3>1, <3>3 DEF saveSelectors, clearTables, Window
      <3> QED BY <2>1, <3>3, <3>4 DEF KeepInv, AllChecked, Quiet
    <2>3. CASE /\ i = current_index /\ May("select")
               /\ win' = [win EXCEPT !.rows = applyCodeSelectors(@, i, bits)]
               /\ UNCHANGED <<current_path, current_index, list, check>>
      <3> DEFINE R == applyCodeSelectors(win.rows, i, bits)
      <3>1. Selected(R, current_index, bits)
        BY <1>1, <2>3, AppliedSelected
      <3> HIDE DEF R
      <3>2. win' = [win EXCEPT !.rows = R]
        BY <2>3 DEF R
      <3>3. win'.rows = R /\ ~win'.is_loading
        BY <1>1, <1>2, <1>3, <2>3, <3>2 DEF Window
      <3> QED BY <2>1, <2>3, <3>1, <3>3 DEF KeepInv
    <2> QED BY <1>6, <2>2, <2>3 DEF EnterZcode
  <1>7. ASSUME NEW r \in DOMAIN win.rows, ClickCheckBox(r) PROVE KeepInv'
    <2> DEFINE R == [win.rows EXCEPT ![r].checked = ~@]
               slots == {k \in Slots : Zekyll(current_index, k) = win.rows[r].zekyll}
    <2>1. \A k \in DOMAIN win.rows : win.rows[k] \in Row
      BY <1>1, LenProperties, ElementOfSeq
    <2>2. /\ DOMAIN R = DOMAIN win.rows
          /\ \A q \in DOMAIN R : /\ R[q].zekyll = win.rows[q].zekyll
                                 /\ q # r => R[q].checked = win.rows[q].checked
          /\ R[r].checked = ~win.rows[r].checked
      BY <2>1 DEF Row
    <2>3. /\ win' = [win EXCEPT !.rows = R]
          /\ want' = IF win.rows[r].checked THEN want \ slots ELSE want \cup slots
          /\ Quiet
          /\ UNCHANGED <<current_path, current_index, list, check>>
      BY <1>2, <1>7 DEF ClickCheckBox
    <2> HIDE DEF R
    <2>4. win'.rows = R /\ ~win'.is_loading
      BY <1>1, <1>3, <2>3 DEF Window
    <2>5. Selected(win.rows, current_index, want)
      BY <1>3, <2>3 DEF KeepInv
    <2>6. \A q \in DOMAIN win.rows : win.rows[q].zekyll = win.rows[r].zekyll => q = r
      <3>1. win.rows # <<>>
        BY <1>1, EmptySeq, LenProperties
      <3>2. PICK f : SlotOf(win.rows, current_index, f)
        BY <1>1, <3>1, SlotsExist DEF WaitInv
      <3> SUFFICES ASSUME NEW q \in DOMAIN win.rows,
                          win.rows[q].zekyll = win.rows[r].zekyll
                   PROVE  q = r
        OBVIOUS
      <3>3. /\ f[q] \in Slots /\ f[r] \in Slots
            /\ Zekyll(current_index, f[q]) = Zekyll(current_index, f[r])
        BY <3>2 DEF SlotOf
      <3>4. f[q] = f[r]
        BY <1>1, <3>3, ZekyllOrder
      <3>5. CountTo(win.rows, current_index, f[q]) = q
        BY <1>1, <3>2, RowByCounting
      <3>6. CountTo(win.rows, current_index, f[r]) = r
        BY <1>1, <3>2, RowByCounting
      <3> QED BY <3>4, <3>5, <3>6
    <2>7. Selected(R, current_index, want')
      <3> SUFFICES ASSUME NEW q \in DOMAIN win.rows, NEW k \in Slots,
                          win.rows[q].zekyll = Zekyll(current_index, k)
                   PROVE  R[q].checked <=> k \in want'
        BY <2>2 DEF Selected
      <3>1. win.rows[q].checked <=> k \in want
        BY <2>5 DEF Selected
      <3>2. k \in slots <=> q = r
        BY <2>6
      <3>3. CASE q = r
        BY <2>2, <2>3, <3>1, <3>2, <3>3
      <3>4. CASE q # r
        BY <2>2, <2>3, <3>1, <3>2, <3>4
      <3> QED BY <3>3, <3>4
    <2> QED BY <2>3, <2>4, <2>7 DEF KeepInv
  <1>8. CASE ListExits
    <2>1. list'.st = "exited"
      BY <1>1, <1>8 DEF ListExits, SoundProcess, Process
    <2> QED BY <1>8, <2>1 DEF ListExits, KeepInv, Quiet
  <1>9. CASE CheckExits
    <2>1. check'.st = "exited"
      BY <1>9 DEF CheckExits, IInv, Process
    <2> QED BY <1>9, <2>1 DEF CheckExits, KeepInv, Quiet
  <1>10. CASE ListFinished
    <2> DEFINE L == ListedRows(list.path, list.index)
    <2>1. /\ check.st = "idle" /\ win.rows = <<>> /\ win.is_loading
          /\ win' = handle_zkiresize_list(win, current_index, list)
          /\ UNCHANGED <<current_path, current_index, want>>
          /\ list.code = InconsistentList => check'.st = "running"
      BY <1>10, ListFinishedWaiting
      DEF ListFinished, WaitInv, BusyLoads, Quiet
    <2>2. want = IF win.prepared THEN win.deferred ELSE Slots
      BY <2>1 DEF KeepInv
    <2>3. ASSUME list.code \in {Ok, InconsistentList}
          PROVE  L \in Seq(Row) /\ AllChecked(L)
      <3>1. list.path \in Paths /\ list.index \in Indexes
        BY <1>1, <2>3 DEF SoundProcess, Process
      <3>2. L \in Seq(Row)
        BY <3>1, ListedType
      <3>3. \A r \in DOMAIN L :
              L[r] = [zekyll |-> Listing[list.path][list.index][r], id |-> r, checked |-> TRUE]
        BY <3>1, ListedType
      <3> HIDE DEF L
      <3>4. \A r \in DOMAIN L : L[r].checked
        BY <3>3
      <3> QED BY <3>2, <3>4 DEF AllChecked
    <2> HIDE DEF L
    <2>4. CASE list.code = InconsistentList
      <3>1. win' = [win EXCEPT !.rows = L]
        BY <1>1, <2>1, <2>4, ListResultRows DEF L
      <3>2. /\ win'.rows = L /\ win'.is_loading
            /\ win'.prepared = win.prepared /\ win'.deferred = win.deferred
        BY <1>1, <2>1, <3>1 DEF Window
      <3> QED BY <2>1, <2>2, <2>3, <2>4, <3>2 DEF KeepInv, Quiet
    <2>5. CASE list.code = Ok
      <3>1. /\ ~win'.is_loading
            /\ win'.rows = IF win.prepared
                             THEN applyCodeSelectors(L, current_index, win.deferred)
                             ELSE L
        BY <1>1, <2>1, <2>5, ListResultRows DEF L
      <3>2. Selected(win'.rows, current_index, want)
        <4>1. CASE win.prepared
          <5>1. win.deferred \in SUBSET Slots
            BY <1>1 DEF Window
          <5>2. Selected(applyCodeSelectors(L, current_index, win.deferred),
                         current_index, win.deferred)
            BY <1>1, <2>3, <2>5, <5>1, AppliedSelected
          <5> QED BY <2>2, <3>1, <4>1, <5>2
        <4>2. CASE ~win.prepared
          BY <2>2, <2>3, <2>5, <3>1, <4>2 DEF Selected, AllChecked
        <4> QED BY <4>1, <4>2
      <3> QED BY <2>1, <3>1, <3>2 DEF KeepInv
    <2>6. CASE list.code \notin {Ok, InconsistentList}
      <3>1. ~win'.is_loading /\ win'.rows = <<>>
        BY <1>1, <2>1, <2>6, ListResultRows
      <3>2. Selected(win'.rows, current_index, want)
        BY <3>1 DEF Selected
      <3> QED BY <2>1, <3>1, <3>2 DEF KeepInv
    <2> QED BY <2>4, <2>5, <2>6
  <1>11. CASE CheckFinished
    <2> DEFINE w == IF check.code = Inconsistent
                      THEN [win EXCEPT !.issues = Append(@, check.path)] ELSE win
    <2>1. w \in Window /\ w = [win EXCEPT !.issues = w.issues]
      <3>1. Append(win.issues, check.path) \in Seq(Paths \cup {NoPath})
        BY <1>1, AppendProperties DEF Window, IInv, Process
      <3> QED BY <1>1, <3>1 DEF Window
    <2>2. win' = endLoading(w, current_index)
      BY <1>11 DEF CheckFinished, handle_zkiresize_consistent
    <2> HIDE DEF w
    <2>3. /\ w.rows = win.rows /\ w.prepared = win.prepared
          /\ w.deferred = win.deferred
      BY <1>1, <2>1 DEF Window
    <2>4. win.is_loading
      BY <1>11 DEF CheckFinished, BusyLoads, Quiet
    <2>5. /\ AllChecked(w.rows)
          /\ want = IF w.prepared THEN w.deferred ELSE Slots
      BY <2>3, <2>4 DEF KeepInv
    <2>6. ~win'.is_loading /\ Selected(win'.rows, current_index, want)
      BY <1>1, <2>1, <2>2, <2>5, EndLoadingSelects
    <2> QED BY <1>11, <2>6 DEF CheckFinished, KeepInv
  <1>12. CASE UNCHANGED vars
    BY <1>12 DEF vars, KeepInv, Quiet
  <1> QED
    BY <1>4, <1>5, <1>6, <1>7, <1>8, <1>9, <1>10, <1>11, <1>12
    DEF Next, User, Backend

(* "Maintain current code selectors": a user who waits finds every zekyll as *)
(* selected as before, through every change of repository and index, also    *)
(* when an index has holes and the selectors pass through slots and rows.    *)
THEOREM SelectionSurvives ==
  ASSUME Early = {}, ~StartFails
  PROVE  Spec => []SelectionKept
  <1>1. IInv /\ Init => WaitInv
    BY WaitFromStart
  <1>2. IInv /\ WaitInv /\ [Next]_vars => WaitInv'
    BY WaitInductive
  <1>3. Init => BusyLoads
    BY DEF Init, BusyLoads, Quiet, NoProcess
  <1>4. IInv /\ WaitInv /\ BusyLoads /\ [Next]_vars => BusyLoads'
    BY BusyInductive
  <1>5. Init => KeepInv
    <2> SUFFICES ASSUME Init PROVE KeepInv
      OBVIOUS
    <2>1. win.is_loading = FALSE /\ win.rows = <<>>
      BY DEF Init
    <2> QED BY <2>1 DEF KeepInv, Selected
  <1>6. IInv /\ WaitInv /\ BusyLoads /\ KeepInv /\ [Next]_vars => KeepInv'
    BY KeepInductive
  <1>7. KeepInv => SelectionKept
    BY DEF KeepInv, SelectionKept, Selected
  <1> QED
    BY <1>1, <1>2, <1>3, <1>4, <1>5, <1>6, <1>7, Inductive, PTL DEF Spec

=============================================================================
