---------------------------- MODULE ZekyllLoader ----------------------------
(***************************************************************************)
(* How the main window loads the listing of an index.                      *)
(*                                                                         *)
(* reloadRepository() saves the code selectors (which zekylls are checked) *)
(* for later, empties the tables and starts "zkiresize --list" in a        *)
(* QProcess.  Its answer fills the tables; exit code 12 starts a second    *)
(* process, "zkiresize --consistent", and the loading ends only with the   *)
(* answer of that one.  Whatever ends the loading applies the saved        *)
(* selectors.  Every request first kills the process of the previous one   *)
(* and waits 50 ms for it: QProcess then emits finished() from inside the  *)
(* wait, so the handler of the OLD request runs in the middle of the new   *)
(* one.  Nothing in an answer says which request it belongs to.            *)
(*                                                                         *)
(* A zekyll is the number its three base-36 characters stand for, plus 1;  *)
(* index i holds the Capacity zekylls from (i-1)*Capacity + 1 on.          *)
(***************************************************************************)
EXTENDS Integers, Sequences, FiniteSets

CONSTANTS
  Paths,        \* directories that hold a repository
  NoPath,       \* current_path_ before a repository is opened
  Indexes,      \* the indexes the user goes to
  Capacity,     \* zekylls in an index (150 in the code)
  Listing,      \* Listing[p][i]: the zekylls "zkiresize --list" prints
  Early,        \* what the user does without waiting for zkiresize to end:
                \* "reload", "select", both or nothing
  SlowKill,     \* TRUE: a killed process may outlive the 50 ms wait
  StartFails    \* TRUE: zkiresize may fail to start

Slots == 1 .. Capacity

(* The zekyll in slot k of index i: ZKL_INDEX_ZEKYLLS_[k-1] of setIndex(i). *)
Zekyll(i, k) == (i - 1) * Capacity + k

Increasing(s) == \A j, k \in DOMAIN s : j < k => s[j] < s[k]

ASSUME CapacityAssumption == Capacity \in Nat \ {0}
(* The window starts at index 1. *)
ASSUME IndexesAssumption == Indexes \subseteq Nat \ {0} /\ 1 \in Indexes
ASSUME NoPathAssumption == NoPath \notin Paths
ASSUME EnvironmentAssumption ==
  /\ Early \subseteq {"reload", "select"}
  /\ {SlowKill, StartFails} \subseteq BOOLEAN
(* zkiresize lists the files of one index in the order of their names. *)
ASSUME ListingAssumption ==
  \A p \in Paths, i \in Indexes :
    /\ Listing[p][i] \in Seq({Zekyll(i, k) : k \in Slots})
    /\ Increasing(Listing[p][i])

VARIABLES
  current_path,   \* current_path_
  current_index,  \* current_index_; ZKL_INDEX_ZEKYLLS_ is always its zekylls
  win,            \* what the window holds: see Window
  list,           \* ZkIResize::process_list_
  check,          \* ZkIResize::process_consistent_
  want            \* history: the slots the user last selected

vars == <<current_path, current_index, win, list, check, want>>

-----------------------------------------------------------------------------
(* Exit codes of zkiresize, as handle_zkiresize_list and _consistent tell    *)
(* them apart.  QProcess reports the signal number, 9, for a killed process. *)

Ok == 0
BadRepository == 4
Killed == 9
Inconsistent == 11
InconsistentList == 12
NoCode == -1

ListCodes(p) == IF p \in Paths THEN {Ok, BadRepository, InconsistentList}
                               ELSE {BadRepository}
CheckCodes == {Ok, BadRepository, Inconsistent}
ExitCodes == {NoCode, Ok, BadRepository, Killed, Inconsistent, InconsistentList}

(* "running": started; "killed": sent SIGKILL but alive; "exited": gone, but *)
(* finished() is not delivered yet.  path, index and code are kept when the  *)
(* process becomes idle, as those of the last request.                       *)
Process == [st : {"idle", "running", "killed", "exited"},
            path : Paths \cup {NoPath}, index : Indexes,
            code : ExitCodes]

NoProcess == [st |-> "idle", path |-> NoPath, index |-> 1, code |-> NoCode]

(* A row of tableWidget, and the entry of lzcsde_list_ with the same id.  *)
Row == [zekyll : Nat, id : Nat, checked : BOOLEAN]

Window == [is_loading : BOOLEAN,        \* is_loading_
           prepared : BOOLEAN,          \* isDeferredApplyPrepared_
           deferred : SUBSET Slots,     \* deferredCodeSelectors_: the 1 bits
           rows : Seq(Row),             \* tableWidget, lzcsde_list_
           issues : Seq(Paths \cup {NoPath})] \* tableWidget_3: whose problems

-----------------------------------------------------------------------------
(* The code selectors.                                                      *)

Zekylls(rows) == {rows[r].zekyll : r \in DOMAIN rows}

(* SelectorsMap: the last of the rows with one zekyll wins. *)
Selector(rows, z) ==
  \E r \in DOMAIN rows :
    /\ rows[r].zekyll = z
    /\ rows[r].checked
    /\ \A q \in DOMAIN rows : q > r => rows[q].zekyll # z

(* Mutant of gatherCodeSelectors: it ignores the holes of the index.         *)
gather_ignores_holes(rows, i) ==
  {k \in Slots : k \in DOMAIN rows /\ Selector(rows, rows[k].zekyll)}

(* Mutant of gatherCodeSelectors: zekylls instead of their slots.            *)
gather_absolute(rows, i) ==
  {z \in Zekylls(rows) : Selector(rows, z)}

(* gatherCodeSelectors: the bits of index i.  The k-th zekyll of the index   *)
(* that is in the table takes the selector of the k-th ROW; a zekyll that is *)
(* not in the table is a hole, and its bit is 0.  (Rows are neither edited,  *)
(* moved nor removed in this module, so the branch of the code for removed   *)
(* zekylls is not reached.)                                                  *)
gatherCodeSelectors(rows, i) ==
  LET present == {k \in Slots : Zekyll(i, k) \in Zekylls(rows)}
      row(k)  == Cardinality({j \in present : j <= k})
  IN  {k \in present : Selector(rows, rows[row(k)].zekyll)}

(* applyCodeSelectors: a row of another index finds no selector and is       *)
(* unchecked.                                                                *)
applyCodeSelectors(rows, i, bits) ==
  [r \in DOMAIN rows |->
     [rows[r] EXCEPT !.checked = \E k \in bits : rows[r].zekyll = Zekyll(i, k)]]

(* Mutant of endLoading: resetDeferredOfCodeSelectors() is forgotten.        *)
endLoading_keeps_prepared(w, i) ==
  [w EXCEPT !.is_loading = FALSE,
            !.rows = IF w.prepared THEN applyCodeSelectors(@, i, w.deferred)
                                   ELSE @]

(* applyDeferredCodeSelectors, with the is_loading_ = false before it.       *)
endLoading(w, i) ==
  [w EXCEPT !.is_loading = FALSE,
            !.prepared = FALSE,
            !.deferred = {},
            !.rows = IF w.prepared THEN applyCodeSelectors(@, i, w.deferred)
                                   ELSE @]

-----------------------------------------------------------------------------
(* The answers of zkiresize, applied to the window w showing index i.       *)

(* The rows of a listing; ids restart at 1, every check box starts checked.  *)
ListedRows(p, i) ==
  [k \in DOMAIN Listing[p][i] |->
     [zekyll |-> Listing[p][i][k], id |-> k, checked |-> TRUE]]

(* Mutant of handle_zkiresize_list: its error exit leaves is_loading_ set.   *)
list_error_keeps_loading(w, i, q) ==
  LET filled == [w EXCEPT !.rows = @ \o ListedRows(q.path, q.index)]
  IN  CASE q.code = Ok               -> endLoading(filled, i)
        [] q.code = InconsistentList -> filled
        [] OTHER                     -> w

(* handle_zkiresize_list: the answer of process q.  The rows are appended to *)
(* whatever the tables hold.                                                 *)
handle_zkiresize_list(w, i, q) ==
  LET filled == [w EXCEPT !.rows = @ \o ListedRows(q.path, q.index)]
  IN  CASE q.code = Ok               -> endLoading(filled, i)
        [] q.code = InconsistentList -> filled
        [] OTHER                     -> endLoading(w, i)

(* handle_zkiresize_consistent *)
handle_zkiresize_consistent(w, i, q) ==
  endLoading(IF q.code = Inconsistent
               THEN [w EXCEPT !.issues = Append(@, q.path)] ELSE w, i)

-----------------------------------------------------------------------------
(* The requests.                                                             *)

(* Mutant of restart: nobody waits for the killed process to be gone.        *)
restart_without_wait(q, p, i) ==
  LET fresh  == [st |-> "running", path |-> p, index |-> i, code |-> NoCode]
  IN  IF q.st \in {"running", "killed"}
        THEN {[answer |-> NoProcess, proc |-> [q EXCEPT !.st = "killed"]]}
        ELSE {[answer |-> IF q.st = "exited" THEN q ELSE NoProcess, proc |-> fresh]}

(* kill(); waitForFinished(50); start(): the ways a request for path p and   *)
(* index i can treat the process q of the request before it.  "answer" is q  *)
(* as its finished() signal finds it when that is delivered inside the wait, *)
(* NoProcess if it is not; "proc" is the process left when start() returns.  *)
restart(q, p, i) ==
  LET fresh  == [st |-> "running", path |-> p, index |-> i, code |-> NoCode]
      failed == [fresh EXCEPT !.st = "idle"]
      new    == {fresh} \cup (IF StartFails THEN {failed} ELSE {})
      alive  == q.st \in {"running", "killed"}
      answer == CASE q.st = "idle"   -> NoProcess
                  [] q.st = "exited" -> q
                  [] OTHER           -> [q EXCEPT !.code = Killed]
  IN  {[answer |-> answer, proc |-> n] : n \in new}
      \* still alive: start() refuses, and reports nothing
      \cup (IF alive /\ SlowKill
              THEN {[answer |-> NoProcess, proc |-> [q EXCEPT !.st = "killed"]]}
              ELSE {})

(* ZkIResize::consistent(), called with the window w and the process c: the  *)
(* windows and processes it may leave.  It asks about index 1 whatever       *)
(* index is shown.                                                           *)
consistent(w, i, c, p) ==
  {[win   |-> IF o.answer = NoProcess THEN w
                ELSE handle_zkiresize_consistent(w, i, o.answer),
    check |-> o.proc] : o \in restart(c, p, 1)}

(* Mutant of handleZkIResizeList: a consistent list is checked as well.      *)
always_check(w, i, c, p, q) ==
  LET checked == IF q.code \in {Ok, InconsistentList}
                   THEN consistent(w, i, c, p)
                   ELSE {[win |-> w, check |-> c]}
  IN  {[o EXCEPT !.win = handle_zkiresize_list(@, i, q)] : o \in checked}

(* handleZkIResizeList: exit code 12 starts the check before the window is   *)
(* told of the list.                                                         *)
handleZkIResizeList(w, i, c, p, q) ==
  LET checked == IF q.code = InconsistentList
                   THEN consistent(w, i, c, p)
                   ELSE {[win |-> w, check |-> c]}
  IN  {[o EXCEPT !.win = handle_zkiresize_list(@, i, q)] : o \in checked}

-----------------------------------------------------------------------------
(* reloadRepository(), after the caller set current_path_ and current_index_ *)
(* to p and i and may have prepared selectors in w itself.                   *)

(* The selectors to come back to: those prepared, or those of the rows shown *)
saveSelectors(w, i) ==
  IF w.prepared \/ w.rows = <<>> THEN w
  ELSE [w EXCEPT !.prepared = TRUE, !.deferred = gatherCodeSelectors(w.rows, i)]

(* Mutant of clearTables: the index table keeps its rows.                    *)
clear_keeps_rows(w) ==
  [w EXCEPT !.is_loading = TRUE, !.issues = <<>>]

(* Mutant of clearTables: the inconsistency table keeps its rows.            *)
clear_keeps_issues(w) ==
  [w EXCEPT !.is_loading = TRUE, !.rows = <<>>]

clearTables(w) ==
  [w EXCEPT !.is_loading = TRUE, !.rows = <<>>, !.issues = <<>>]

reloadRepository(w, p, i) ==
  LET cleared == clearTables(saveSelectors(w, current_index))
  IN  /\ current_path' = p
      /\ current_index' = i
      /\ \E o \in restart(list, p, i) :
           /\ list' = o.proc
           /\ \E r \in (IF o.answer = NoProcess
                          THEN {[win |-> cleared, check |-> check]}
                          ELSE handleZkIResizeList(cleared, i, check, p, o.answer)) :
                /\ win' = r.win
                /\ check' = r.check

-----------------------------------------------------------------------------
(* The user.                                                                 *)

Quiet == list.st = "idle" /\ check.st = "idle"
May(what) == Quiet \/ what \in Early

(* What a reload is to maintain: the selectors of the zekylls there are.     *)
(* With no zekylls there is nothing to maintain, and all are selected.       *)
maintained ==
  IF win.is_loading \/ ~Quiet THEN want
  ELSE IF win.rows = <<>> THEN Slots
  ELSE {k \in want : Zekyll(current_index, k) \in Zekylls(win.rows)}

(* browse, on_curRepoCombo_activated, loadDefaultRepository *)
OpenRepository(p) ==
  /\ May("reload")
  /\ reloadRepository(win, p, current_index)
  /\ want' = maintained

(* on_currentIndex_editingFinished, on_indexLeft_clicked, _indexRight_       *)
GoToIndex(i) ==
  /\ May("reload")
  /\ reloadRepository(win, current_path, i)
  /\ want' = maintained

(* on_zcode_editingFinished: the Zcode names index i and selects bits.       *)
EnterZcode(i, bits) ==
  /\ want' = bits
  /\ \/ /\ i # current_index
        /\ May("reload")
        /\ reloadRepository([win EXCEPT !.prepared = TRUE, !.deferred = bits],
                            current_path, i)
     \/ /\ i = current_index
        /\ May("select")
        /\ win' = [win EXCEPT !.rows = applyCodeSelectors(@, i, bits)]
        /\ UNCHANGED <<current_path, current_index, list, check>>

(* checkBoxClicked on the box of row r *)
ClickCheckBox(r) ==
  LET slots == {k \in Slots : Zekyll(current_index, k) = win.rows[r].zekyll}
  IN  /\ May("select")
      /\ win' = [win EXCEPT !.rows[r].checked = ~@]
      /\ want' = IF win.rows[r].checked THEN want \ slots ELSE want \cup slots
      /\ UNCHANGED <<current_path, current_index, list, check>>

(* The backend: a process ends, and the event loop delivers finished().      *)

ListExits ==
  /\ \/ /\ list.st = "running"
        /\ \E c \in ListCodes(list.path) :
             list' = [list EXCEPT !.st = "exited", !.code = c]
     \/ /\ list.st = "killed"
        /\ list' = [list EXCEPT !.st = "exited", !.code = Killed]
  /\ UNCHANGED <<current_path, current_index, win, check, want>>

CheckExits ==
  /\ \/ /\ check.st = "running"
        /\ \E c \in CheckCodes :
             check' = [check EXCEPT !.st = "exited", !.code = c]
     \/ /\ check.st = "killed"
        /\ check' = [check EXCEPT !.st = "exited", !.code = Killed]
  /\ UNCHANGED <<current_path, current_index, win, list, want>>

ListFinished ==
  /\ list.st = "exited"
  /\ list' = [list EXCEPT !.st = "idle"]
  /\ \E r \in handleZkIResizeList(win, current_index, check, current_path, list) :
       /\ win' = r.win
       /\ check' = r.check
  /\ UNCHANGED <<current_path, current_index, want>>

CheckFinished ==
  /\ check.st = "exited"
  /\ check' = [check EXCEPT !.st = "idle"]
  /\ win' = handle_zkiresize_consistent(win, current_index, check)
  /\ UNCHANGED <<current_path, current_index, list, want>>

-----------------------------------------------------------------------------

Init ==
  /\ current_path = NoPath
  /\ current_index = 1
  /\ win = [is_loading |-> FALSE, prepared |-> FALSE, deferred |-> {},
            rows |-> <<>>, issues |-> <<>>]
  /\ list = NoProcess
  /\ check = NoProcess
  /\ want = Slots

User ==
  \/ \E p \in Paths : OpenRepository(p)
  \/ \E i \in Indexes : GoToIndex(i)
  \/ \E i \in Indexes, bits \in SUBSET Slots : EnterZcode(i, bits)
  \/ \E r \in DOMAIN win.rows : ClickCheckBox(r)

Backend == ListExits \/ CheckExits \/ ListFinished \/ CheckFinished

Next == User \/ Backend

Spec == Init /\ [][Next]_vars

(* Processes end by themselves or because they were killed, and the Qt event *)
(* loop delivers every pending signal; the user owes nothing.                *)
Fairness == /\ WF_vars(ListExits) /\ WF_vars(ListFinished)
            /\ WF_vars(CheckExits) /\ WF_vars(CheckFinished)

FairSpec == Spec /\ Fairness

-----------------------------------------------------------------------------
(* Properties.                                                               *)

TypeOK ==
  /\ current_path \in Paths \cup {NoPath}
  /\ current_index \in Indexes
  /\ win \in Window
  /\ list \in Process
  /\ check \in Process
  /\ want \in SUBSET Slots

(* Selectors are set aside only while a loading is under way: whichever      *)
(* answer ends the loading, a stale one included, consumes them, so a later  *)
(* loading never applies the selectors of an older one                       *)
(* (applyDeferredCodeSelectors, mainwindow.cpp:416).                         *)
PreparedOnlyWhileLoading ==
  /\ win.prepared => win.is_loading
  /\ ~win.prepared => win.deferred = {}

(* When no zkiresize runs the window is not loading any more, and the last   *)
(* answer it took was the answer about the repository and index it is at,    *)
(* with all the rows of that answer at the end of the table: no sequence of  *)
(* requests, kills and early or late answers leaves the window waiting for   *)
(* an answer that nobody will give, or with only an older listing.  It needs *)
(* that processes start and die when they are told to.                       *)
ListingArrives ==
  (Quiet /\ current_path # NoPath /\ list.path # NoPath
         /\ ~SlowKill /\ ~StartFails) =>
    /\ ~win.is_loading
    /\ list.path = current_path
    /\ list.index = current_index
    /\ list.code \in {Ok, InconsistentList} =>
         LET n == Len(Listing[current_path][current_index])
             m == Len(win.rows) - n
         IN  /\ m >= 0
             /\ \A k \in 1 .. n : win.rows[m + k].zekyll =
                                    Listing[current_path][current_index][k]

(* The table is empty or holds the listing of the repository and index the   *)
(* window is at, each zekyll once and in order: rows of two listings are     *)
(* never mixed (handle_zkiresize_list appends and never clears).             *)
RowsAreCurrentListing ==
  win.rows # <<>> =>
    /\ current_path \in Paths
    /\ Len(win.rows) = Len(Listing[current_path][current_index])
    /\ \A r \in DOMAIN win.rows :
         /\ win.rows[r].zekyll = Listing[current_path][current_index][r]
         /\ win.rows[r].id = r

(* "Maintain current code selectors" (mainwindow.cpp:820): once the loading  *)
(* is over, the rows are checked as the user last had them, slot by slot,    *)
(* through every change of repository and index.                             *)
SelectionKept ==
  (Quiet /\ ~win.is_loading) =>
    \A r \in DOMAIN win.rows, k \in Slots :
      win.rows[r].zekyll = Zekyll(current_index, k) =>
        (win.rows[r].checked <=> k \in want)

(* The inconsistency table lists problems of the repository the window is    *)
(* at, each once (handle_zkiresize_consistent, "Index %1 is inconsistent").  *)
IssuesAreCurrent ==
  win.issues \in {<<>>, <<current_path>>}

(* "Expecting correct behavior (list should went well)" (mainwindow.cpp:282, *)
(* handle_zkiresize_consistent): the answer of the check is handled when the *)
(* list that started it is the last one asked for, was about the repository  *)
(* the window is at, and was itself inconsistent.                            *)
ListWentWell ==
  [][CheckFinished => /\ list.st = "idle"
                      /\ list.code = InconsistentList
                      /\ list.path = current_path
                      /\ check.path = current_path]_vars

(* is_loading_ makes on_tableWidget_itemChanged drop the user's edits, so a  *)
(* loading has to end: once the user stops acting, is_loading_ becomes FALSE *)
(* and stays so.                                                             *)
LoadingEnds == <>[][~User]_vars => <>[](~win.is_loading)

(* What the user can see and use: no rows while the window is loading.       *)
Shown ==
  IF win.is_loading THEN <<>> ELSE [r \in DOMAIN win.rows |-> win.rows[r].zekyll]

Atomic == INSTANCE AtomicLoader WITH pending <- win.is_loading, shown <- Shown

(* For a user who waits, requests, processes and answers come to one step    *)
(* that shows the listing of the index asked for last, or nothing, also when *)
(* a second process checks what the first one listed, and when one of them   *)
(* fails (reloadRepository, handle_zkiresize_list, _consistent).             *)
ImplementsAtomicLoader == Atomic!Spec

(* And that step comes, however often the user asks again afterwards, when   *)
(* processes start and die when they are told to.                            *)
EveryRequestAnswered == Atomic!Answered

=============================================================================
