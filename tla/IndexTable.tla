----------------------------- MODULE IndexTable -----------------------------
(***************************************************************************)
(* The table of an index between two loads: what the user does to its rows *)
(* and to the check boxes that select zekylls.                             *)
(*                                                                         *)
(* The window keeps the same rows several times: the items of tableWidget, *)
(* the entries of lzcsde_list_ and the rows of tableWidget_2, which shows  *)
(* them by section.  Both tables have a check box in every row.  It is a   *)
(* cell widget made with the id of the row it was made for; moving a row   *)
(* exchanges the items of two rows and leaves the widgets where they are.  *)
(*                                                                         *)
(* A zekyll is its slot in the index, 1 .. Capacity, or any larger number  *)
(* when the user typed a name that belongs to another index.               *)
(* sel_zekylls_current_ is not modelled: nothing reads it before           *)
(* applyCodeSelectors builds it anew.                                      *)
(***************************************************************************)
EXTENDS LZCSDE, FiniteSets

CONSTANTS
  Capacity,   \* zekylls in an index (150 in the code)
  Listing,    \* the zekylls of the index that exist, as zkiresize lists them
  Texts,      \* what the user types into a zekyll cell
  Ops         \* the operations of the user: see Next

Slots == 1 .. Capacity
Ids == DOMAIN Listing

ASSUME CapacityAssumption == Capacity \in Nat \ {0}
(* zkiresize lists each file of the index once, in the order of their names. *)
ASSUME ListingAssumption ==
  /\ Listing \in Seq(Slots)
  /\ \A j, k \in Ids : j < k => Listing[j] < Listing[k]
ASSUME TextsAssumption == Texts \subseteq Nat
ASSUME OpsAssumption == Ops \subseteq {"click", "zcode", "move", "minus", "edit"}

VARIABLES
  table,    \* the items of tableWidget: id and zekyll of each row
  boxes,    \* the check box in each row of tableWidget, with its "id" property
  list,     \* lzcsde_list_
  boxes2    \* the check boxes of tableWidget_2, by the id of their row

vars == <<table, boxes, list, boxes2>>

Item == [id : Ids, zekyll : Nat]
Box == [id : Ids, checked : BOOLEAN]
Entry == [id : Ids, zekyll : Nat, checked : BOOLEAN]

TypeOK ==
  /\ table \in Seq(Item)
  /\ boxes \in Seq(Box) /\ Len(boxes) = Len(table)
  /\ list \in Seq(Entry)
  /\ boxes2 \in [Ids -> BOOLEAN]

-----------------------------------------------------------------------------
(* The checked flag of entry id, if there is one (setChecked).               *)
setChecked(s, id, value) ==
  LET k == findIdxOfId(s, id)
  IN  IF k = 0 THEN s ELSE [s EXCEPT ![k].checked = value]

-----------------------------------------------------------------------------
(* gatherCodeSelectors()                                                    *)

(* SelectorsMap: the box of the last row with that zekyll.                   *)
Selector(t, b, z) ==
  \E r \in DOMAIN t : /\ t[r].zekyll = z
                      /\ b[r].checked
                      /\ \A q \in DOMAIN t : q > r => t[q].zekyll # z

(* Mutant of TakesRow: a removed zekyll is a hole as well.                   *)
removed_is_hole(t, i, n) == \E r \in DOMAIN t : t[r].zekyll = i

(* Slot i is taken by the row after the first n: its zekyll is in the table, *)
(* or was listed as row n + 1 and is gone (removed, or given another name).  *)
(* Otherwise the slot is a hole of the index.                                *)
TakesRow(t, i, n) ==
  \/ \E r \in DOMAIN t : t[r].zekyll = i
  \/ n + 1 \in Ids /\ Listing[n + 1] = i

(* How many rows the slots up to i take.                                     *)
RowsTaken(t) ==
  LET taken[i \in 0 .. Capacity] ==
        IF i = 0 THEN 0
        ELSE IF TakesRow(t, i, taken[i - 1]) THEN taken[i - 1] + 1
        ELSE taken[i - 1]
  IN  taken

(* Mutant of gather: slot i is read from row i.                              *)
gather_ignores_holes(t, b) ==
  {i \in Slots : i \in DOMAIN t /\ Selector(t, b, t[i].zekyll)}

(* The slots the Zcode of the table selects.  The loop ends with the rows,   *)
(* or at the slot of the largest zekyll.                                     *)
gather(t, b) ==
  LET taken == RowsTaken(t)
      reached(i) == /\ taken[i - 1] < Len(t)
                    /\ \A j \in 1 .. i - 1 : \E r \in DOMAIN t : t[r].zekyll > j
  IN  {i \in Slots : /\ reached(i)
                     /\ TakesRow(t, i, taken[i - 1])
                     /\ Selector(t, b, t[taken[i - 1] + 1].zekyll)}

(* What gathering does to the entries: each takes the state of the box in    *)
(* the row that shows its id ("Problems with data (4)" when it differs).     *)
synced(s, t, b) ==
  [k \in DOMAIN s |->
     LET r == findIdxOfId(t, s[k].id)
     IN  IF r = 0 THEN s[k] ELSE [s[k] EXCEPT !.checked = b[r].checked]]

-----------------------------------------------------------------------------
(* The user.                                                                *)

(* on_up_clicked and on_down_clicked on row r, towards row q.  The ids are   *)
(* set before the other columns, so the itemChanged of the items set back    *)
(* writes every entry what it holds already.                                 *)
Move(r, q) ==
  /\ "move" \in Ops
  /\ q \in {r - 1, r + 1} \cap DOMAIN table
  /\ table' = Swapped(table, r, q)
  /\ list' = LZCSDE_move(list, table[r].id, table[q].id)
  /\ UNCHANGED <<boxes, boxes2>>

(* Mutant of Minus: the items go, the check box stays.                       *)
minus_keeps_box(r) ==
  /\ "minus" \in Ops
  /\ list' = removeId(list, table[r].id)
  /\ table' = Without(table, r)
  /\ UNCHANGED <<boxes, boxes2>>

(* on_minus_clicked: the row goes with its check box; tableWidget_2 stays.   *)
Minus(r) ==
  /\ "minus" \in Ops
  /\ list' = removeId(list, table[r].id)
  /\ table' = Without(table, r)
  /\ boxes' = Without(boxes, r)
  /\ UNCHANGED boxes2

(* on_tableWidget_itemChanged in the zekyll column; sections and             *)
(* descriptions, changed the same way, select nothing and are left out.      *)
EditZekyll(r, z) ==
  /\ "edit" \in Ops
  /\ table' = [table EXCEPT ![r].zekyll = z]
  /\ LET k == findIdxOfId(list, table[r].id)
     IN  list' = IF k = 0 THEN list ELSE [list EXCEPT ![k].zekyll = z]
  /\ UNCHANGED <<boxes, boxes2>>

(* checkBoxClicked, sent by the box in row r of tableWidget.  Entry and      *)
(* accompanying box are found by the id of the BOX.                          *)
ClickBox(r) ==
  LET id == boxes[r].id
      value == ~boxes[r].checked
  IN  /\ "click" \in Ops
      /\ boxes' = [boxes EXCEPT ![r].checked = value]
      /\ IF findIdxOfId(list, id) = 0
           THEN UNCHANGED <<list, boxes2>>
           ELSE /\ boxes2' = [boxes2 EXCEPT ![id] = value]
                /\ list' = synced(setChecked(list, id, value), table, boxes')
      /\ UNCHANGED table

(* Mutant of ClickBox2: the accompanying box keeps its state.                *)
click2_forgets_table(id) ==
  LET value == ~boxes2[id]
  IN  /\ "click" \in Ops
      /\ boxes2' = [boxes2 EXCEPT ![id] = value]
      /\ list' = setChecked(list, id, value)
      /\ UNCHANGED <<table, boxes>>

(* checkBoxClicked, sent by the box of id in tableWidget_2.  The             *)
(* accompanying box is the one in the row whose ITEMS have that id.          *)
ClickBox2(id) ==
  LET value == ~boxes2[id]
      r == findIdxOfId(table, id)
  IN  /\ "click" \in Ops
      /\ boxes2' = [boxes2 EXCEPT ![id] = value]
      /\ IF findIdxOfId(list, id) = 0
           THEN UNCHANGED <<list, boxes>>
           ELSE /\ boxes' = IF r = 0 THEN boxes
                            ELSE [boxes EXCEPT ![r].checked = value]
                /\ list' = synced(setChecked(list, id, value), table, boxes')
      /\ UNCHANGED table

(* applyCodeSelectors: every row takes the bit of the zekyll it shows.       *)
applyCodeSelectors(bits, l) ==
  LET chosen(r) == table[r].zekyll \in bits
  IN  /\ boxes' = [r \in DOMAIN boxes |-> [boxes[r] EXCEPT !.checked = chosen(r)]]
      /\ list' = synced(l, table, boxes')
      /\ boxes2' = [id \in Ids |->
                      LET r == findIdxOfId(table, id)
                      IN  IF r = 0 THEN boxes2[id] ELSE chosen(r)]
      /\ UNCHANGED table

(* The field of the Zcode gets the focus (MyQLineEdit::focusInEvent), which  *)
(* gathers, and loses it, which applies what the field holds: the gathered   *)
(* selectors, unless the user typed others.  A Zcode without selectors is    *)
(* "1/", which is not applied.                                               *)
VisitZcode ==
  LET bits == gather(table, boxes)
      l == synced(list, table, boxes)
  IN  /\ "zcode" \in Ops
      /\ \/ bits # {} /\ applyCodeSelectors(bits, l)
         \/ bits = {} /\ list' = l /\ UNCHANGED <<table, boxes, boxes2>>

EnterZcode(bits) ==
  /\ "zcode" \in Ops
  /\ applyCodeSelectors(bits, synced(list, table, boxes))

-----------------------------------------------------------------------------

(* After handle_zkiresize_list: ids are row numbers, all boxes are checked.  *)
Init ==
  /\ table = [k \in Ids |-> [id |-> k, zekyll |-> Listing[k]]]
  /\ boxes = [k \in Ids |-> [id |-> k, checked |-> TRUE]]
  /\ list = [k \in Ids |-> [id |-> k, zekyll |-> Listing[k], checked |-> TRUE]]
  /\ boxes2 = [k \in Ids |-> TRUE]

Next ==
  \/ \E r \in DOMAIN table, q \in DOMAIN table : Move(r, q)
  \/ \E r \in DOMAIN table : Minus(r)
  \/ \E r \in DOMAIN table, z \in Texts : EditZekyll(r, z)
  \/ \E r \in DOMAIN boxes : ClickBox(r)
  \/ \E id \in Ids : ClickBox2(id)
  \/ VisitZcode
  \/ \E bits \in SUBSET Slots : EnterZcode(bits)

Spec == Init /\ [][Next]_vars

-----------------------------------------------------------------------------
(* Properties.                                                              *)

(* lzcsde_list_ and the items of tableWidget hold the same zekylls under the *)
(* same ids in the same order, however rows were moved, removed and renamed: *)
(* Save takes the names from the one and the order the user sees from the    *)
(* other (LZCSDE::move, removeId and updateZekyllOfId find entries by id,    *)
(* MyQTableWidget::move and removeRow rows by position).                     *)
ListMirrorsTable ==
  /\ Len(list) = Len(table)
  /\ \A r \in DOMAIN table :
       list[r].id = table[r].id /\ list[r].zekyll = table[r].zekyll

(* "Problems with data (4)" (mainwindow.cpp:633, gatherCodeSelectors): the   *)
(* box in the row of an entry and the entry agree on the selection.          *)
EntriesMatchBoxes ==
  \A r \in DOMAIN table :
    LET k == findIdxOfId(list, table[r].id)
    IN  k # 0 => list[k].checked = boxes[r].checked

(* The selection shown in tableWidget, the one in tableWidget_2 and the one  *)
(* in the entries are the same, whichever table is clicked and whatever      *)
(* Zcode is entered (checkBoxClicked, applyCodeSelectors).                   *)
SelectionCopiesAgree ==
  /\ EntriesMatchBoxes
  /\ \A r \in DOMAIN table : boxes2[table[r].id] = boxes[r].checked

(* Entering and leaving the field of the Zcode selects nothing new: what     *)
(* gatherCodeSelectors reads, holes of the index included, is what           *)
(* applyCodeSelectors would write.                                           *)
VisitKeepsSelection ==
  [][VisitZcode => UNCHANGED vars]_vars

(* "we follow any future order (i.e. zekyll assignment to entries) of index, *)
(* behave like if rewrite was already performed" (mainwindow.cpp:700,        *)
(* gatherCodeSelectors).  Save gives the first slots to the rows in the      *)
(* order shown, so the selectors are those of the rows by position, after    *)
(* any moves, removals and renamings that leave every name valid and single. *)
FollowsFutureOrder ==
  (/\ \A r \in DOMAIN table : table[r].zekyll \in Slots
   /\ \A r, q \in DOMAIN table : table[r].zekyll = table[q].zekyll => r = q) =>
     gather(table, boxes) = {r \in DOMAIN table : boxes[r].checked}

=============================================================================
