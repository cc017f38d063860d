---------------------------- MODULE SavePipeline ----------------------------
(***************************************************************************)
(* Save: how the files of a repository become what the table shows.        *)
(*                                                                         *)
(* on_save_clicked compares lzcsde_list_ with lzcsde_initial_, the listing *)
(* it started from, and runs one program after another: zkiresize --resize *)
(* when the size was changed, "git mv" for every entry that was given      *)
(* another name, "git rm" for every entry that was removed, and zkrewrite, *)
(* which gives the first names of the index to the rows in their order.    *)
(* It waits for each, 30 s at most, and looks at the outcome of none: exit *)
(* codes become messages, and a git or a zkrewrite that does not start is  *)
(* passed over without one.  Then the index is loaded again.               *)
(*                                                                         *)
(* A file is a text, which stands for its content, and a name: a zekyll    *)
(* (its slot in the index, or a larger number for a zekyll of another      *)
(* index) and a label (section and description).                           *)
(***************************************************************************)
EXTENDS LZCSDE, Sublists

CONSTANTS
  Capacity,   \* zekylls in an index (150 in the code)
  Disks,      \* the repositories there may be at first: sequences of names
  Zekylls,    \* what the user types into the column of zekylls
  Labels,     \* sections and descriptions: those of Disks, and those typed
  Sizes,      \* what the user types into the field of the index size
  MaxSaves,   \* bound: how often the user saves
  Slow,       \* the programs that may take longer than Save waits
  ToolFails,  \* TRUE: programs may not start, and git and zkrewrite may fail
              \* for reasons of their own
  Early       \* TRUE: the user does not wait for the listing to save again

Slots == 1 .. Capacity
Name == [zekyll : Nat, label : Labels]

(* The programs on_save_clicked starts.                                      *)
Tools == {"resize", "mv", "rm", "rewrite"}

NewLabel == 0       \* --section Z --desc "New Zekyll"
NotANumber == -1    \* a size that toInt() refuses

ASSUME CapacityAssumption == Capacity \in Nat \ {0}
ASSUME DisksAssumption ==
  \A disk \in Disks :
    /\ disk \in Seq(Name)
    /\ \A j, k \in DOMAIN disk : disk[j] = disk[k] => j = k
    /\ Cardinality({k \in DOMAIN disk : disk[k].zekyll \in Slots}) <= Capacity
ASSUME InputsAssumption ==
  /\ Zekylls \subseteq Nat /\ Labels \subseteq Nat /\ NewLabel \in Labels
  /\ Sizes \subseteq 0 .. Capacity \cup {NotANumber}
  /\ MaxSaves \in Nat /\ Slow \subseteq Tools /\ {ToolFails, Early} \subseteq BOOLEAN

VARIABLES
  files,     \* the repository: the name of each text
  initial,   \* lzcsde_initial_
  list,      \* lzcsde_list_, which mirrors the table (IndexTable)
  size,      \* current_size_of_index_
  field,     \* the field of the index size
  phase,     \* "idle", "saving" in on_save_clicked, "loading" the index again
  todo,      \* the programs on_save_clicked has still to start
  waits,     \* the program it waits for
  running,   \* the programs at work, by name
  outcome,   \* history: what a program first complained of in this Save
  unstarted, \* history: what did not start in this Save, without a complaint
  shown,     \* history: the text of each id of the last listing
  dropped,   \* history: the texts the user asked to have removed
  saves      \* how often the user has saved

vars == <<files, initial, list, size, field, phase, todo, waits, running,
          outcome, unstarted, shown, dropped, saves>>

(* What on_save_clicked starts the programs for.                             *)
Idle == [tool |-> "none"]
Run == [tool : {"resize"}, size : Nat]
       \cup [tool : {"mv"}, from : Name, to : Name]
       \cup [tool : {"rm"}, name : Name]
       \cup [tool : {"rewrite"}, in : Seq(Nat), out : Seq(Nat)]

Entry == [id : Nat \ {0}, name : Name]
Texts == Nat \X Nat   \* the Save that created the text, and a number

TypeOK ==
  /\ DOMAIN files \subseteq Texts /\ \A t \in DOMAIN files : files[t] \in Name
  /\ initial \in Seq(Entry) /\ list \in Seq(Entry)
  /\ size \in Nat /\ field \in Nat \cup {NotANumber}
  /\ phase \in {"idle", "saving", "loading"}
  /\ todo \in Seq(Run)
  /\ waits \in Tools \cup {"none"}
  /\ running \in [Tools -> Run \cup {Idle}]
  /\ outcome \in {"ok", "refused", "broke"} /\ unstarted \subseteq Run
  /\ shown \in Seq(Texts) /\ dropped \subseteq Texts
  /\ saves \in 0 .. MaxSaves

-----------------------------------------------------------------------------
(* The programs.  Each maps the files to its possible outcomes.              *)

Named(f, n) == {t \in DOMAIN f : f[t] = n}
Owners(f, z) == {t \in DOMAIN f : f[t].zekyll = z}
Done(f) == [files |-> f, outcome |-> "ok"]
Refused(f) == [files |-> f, outcome |-> "refused"]   \* for what it was asked
Broke(f) == [files |-> f, outcome |-> "broke"]       \* for reasons of its own
Unique(f) == \A s, t \in DOMAIN f : f[s] = f[t] => s = t
Less(f, gone) == [t \in DOMAIN f \ gone |-> f[t]]

(* zkiresize --resize: an index with holes or duplicates is refused; a       *)
(* smaller one loses its last zekylls.                                       *)
resize(f, o) ==
  LET index == {t \in DOMAIN f : f[t].zekyll \in Slots}
      n == Cardinality(index)
      fresh == {<<saves, k>> : k \in n + 1 .. o.size}
      gone == {t \in index : f[t].zekyll > o.size}
  IN  IF o.size = n \/ {f[t].zekyll : t \in index} # 1 .. n
        THEN {Refused(f)}
        ELSE {Done([t \in (DOMAIN f \ gone) \cup fresh |->
                      IF t \in fresh THEN [zekyll |-> t[2], label |-> NewLabel]
                                     ELSE f[t]])}

(* Mutant of mv: git mv -f.                                                  *)
mv_force(f, o) ==
  IF Named(f, o.from) = {} THEN {Refused(f)}
  ELSE {Done([t \in DOMAIN f \ Named(f, o.to) |->
                IF f[t] = o.from THEN o.to ELSE f[t]])}

(* git mv                                                                    *)
mv(f, o) ==
  IF Named(f, o.from) = {} \/ Named(f, o.to) # {} THEN {Refused(f)}
  ELSE {Done([t \in DOMAIN f |-> IF f[t] = o.from THEN o.to ELSE f[t]])}
       \cup (IF ToolFails THEN {Broke(f)} ELSE {})

(* git rm -f                                                                 *)
rm(f, o) ==
  IF Named(f, o.name) = {} THEN {Refused(f)}
  ELSE {Done(Less(f, Named(f, o.name)))}
       \cup (IF ToolFails THEN {Broke(f)} ELSE {})

(* The files when the zekylls in[k], k in ks, have become out[k].            *)
rewritten(f, o, ks) ==
  [t \in DOMAIN f |->
     IF \E k \in ks : o.in[k] = f[t].zekyll
       THEN [f[t] EXCEPT !.zekyll =
               o.out[CHOOSE k \in ks : o.in[k] = f[t].zekyll]]
       ELSE f[t]]

(* zkrewrite refuses duplicates, given or in the repository, new names that  *)
(* belong to others, and an empty list.  It skips a zekyll it does not find, *)
(* or refuses it; when it fails on the way some files have their new names.  *)
rewrite(f, o) ==
  LET ks == DOMAIN o.in
      given == {o.in[k] : k \in ks}
      refused == \/ ks = {} \/ Cardinality(given) # Cardinality(ks)
                 \/ \E z \in given : Cardinality(Owners(f, z)) > 1
                 \/ \E k \in ks : o.out[k] \notin given /\ Owners(f, o.out[k]) # {}
      missing == \E z \in given : Owners(f, z) = {}
      partly == {rewritten(f, o, some) : some \in SUBSET ks}
  IN  IF refused THEN {Refused(f)}
      ELSE {Done(rewritten(f, o, ks))}
           \cup (IF missing THEN {Refused(f)} ELSE {})
           \cup (IF ToolFails THEN {Broke(g) : g \in {h \in partly : Unique(h)}}
                              ELSE {})

Outcomes(f, o) ==
  CASE o.tool = "resize" -> resize(f, o)
    [] o.tool = "mv" -> mv(f, o)
    [] o.tool = "rm" -> rm(f, o)
    [] o.tool = "rewrite" -> rewrite(f, o)

-----------------------------------------------------------------------------
(* What Save is to do.                                                       *)

EntryOf(id) == list[findIdxOfId(list, id)]
IsShown(e) == findIdxOfId(list, e.id) # 0

(* Mutant of renames: entries that are as they were listed are not skipped.  *)
renames_all ==
  LET from == Sublist(initial, {k \in DOMAIN initial : IsShown(initial[k])})
  IN  [k \in DOMAIN from |->
         [tool |-> "mv", from |-> from[k].name, to |-> EntryOf(from[k].id).name]]

(* lzcsde_renamed_from_to_, in the order of the listing                      *)
renames ==
  LET changed(e) == IsShown(e) /\ EntryOf(e.id).name # e.name
      from == Sublist(initial, {k \in DOMAIN initial : changed(initial[k])})
  IN  [k \in DOMAIN from |->
         [tool |-> "mv", from |-> from[k].name, to |-> EntryOf(from[k].id).name]]

(* Mutant of deletions: the entries after the last row, not those without    *)
(* a row.                                                                    *)
deletions_by_row ==
  LET from == SubSeq(initial, Len(list) + 1, Len(initial))
  IN  [k \in DOMAIN from |-> [tool |-> "rm", name |-> from[k].name]]

(* lzcsde_deleted_                                                           *)
deletions ==
  LET from == Sublist(initial, {k \in DOMAIN initial : ~IsShown(initial[k])})
  IN  [k \in DOMAIN from |-> [tool |-> "rm", name |-> from[k].name]]

(* Mutant of resizing: a size that is not a number is used.                  *)
resizing_unchecked ==
  IF field = size THEN <<>> ELSE << [tool |-> "resize", size |-> field] >>

(* ZkIResize::resize does nothing when the sizes agree.                      *)
resizing ==
  IF field \in {NotANumber, size} THEN <<>>
  ELSE << [tool |-> "resize", size |-> field] >>

(* Mutant of rewriting: the zekylls of the listing, not those of the rows.   *)
rewriting_listed ==
  << [tool |-> "rewrite", in |-> [k \in DOMAIN list |-> initial[k].name.zekyll],
      out |-> [k \in DOMAIN list |-> k]] >>

(* current_zekylls and newer_zekylls, which are ZKL_INDEX_ZEKYLLS_[i] for    *)
(* row i                                                                     *)
rewriting ==
  << [tool |-> "rewrite", in |-> [k \in DOMAIN list |-> list[k].name.zekyll],
      out |-> [k \in DOMAIN list |-> k]] >>

(* The names of the index, in the order zkiresize lists them.                *)
Before(m, n) == \/ m.zekyll < n.zekyll
                \/ m.zekyll = n.zekyll /\ m.label < n.label
Listing(f) ==
  LET names == {f[t] : t \in {t \in DOMAIN f : f[t].zekyll \in Slots}}
  IN  CHOOSE s \in [1 .. Cardinality(names) -> names] :
        \A j, k \in DOMAIN s : j < k => Before(s[j], s[k])

Entries(f) == [k \in DOMAIN Listing(f) |-> [id |-> k, name |-> Listing(f)[k]]]
TextsOf(f) ==
  [k \in DOMAIN Listing(f) |-> CHOOSE t \in DOMAIN f : f[t] = Listing(f)[k]]

-----------------------------------------------------------------------------
(* The user edits the table and the field of the size.                       *)

Edit(l) ==
  /\ phase = "idle"
  /\ saves < MaxSaves
  /\ list' = l
  /\ UNCHANGED <<files, initial, size, field, phase, todo, waits, running,
                 outcome, unstarted, shown, dropped, saves>>

Move(r) == Edit(LZCSDE_move(list, list[r].id, list[r + 1].id))
Minus(r) == Edit(removeId(list, list[r].id))
EditZekyll(r, z) == Edit([list EXCEPT ![r].name.zekyll = z])
EditLabel(r, l) == Edit([list EXCEPT ![r].name.label = l])

TypeSize(m) ==
  /\ phase # "saving"
  /\ saves < MaxSaves
  /\ field' = m
  /\ UNCHANGED <<files, initial, list, size, phase, todo, waits, running,
                 outcome, unstarted, shown, dropped, saves>>

(* on_save_clicked up to the first program.  A smaller size asks to have the *)
(* last zekylls of the listing removed, wherever the user moved them.        *)
on_save_clicked ==
  /\ phase = "idle" \/ (Early /\ phase = "loading")
  /\ saves < MaxSaves
  /\ phase' = "saving"
  /\ todo' = resizing \o renames \o deletions \o rewriting
  /\ waits' = "none"
  /\ outcome' = "ok" /\ unstarted' = {}
  /\ saves' = saves + 1
  /\ dropped' = dropped
       \cup {shown[k] : k \in {k \in DOMAIN initial : ~IsShown(initial[k])}}
       \cup (IF field \in {NotANumber, size} THEN {}
             ELSE {shown[k] : k \in {k \in DOMAIN shown : k > field}})
  /\ UNCHANGED <<files, initial, list, size, field, running, shown>>

Worse(what) == IF outcome = "ok" THEN what ELSE outcome

Waited == \A tool \in Tools \ Slow : tool = waits => running[tool] = Idle

(* The next program: one of the same name that is still at work is killed.   *)
StartTool ==
  /\ phase = "saving" /\ todo # <<>> /\ Waited
  /\ waits' = Head(todo).tool
  /\ running' = [running EXCEPT ![waits'] = Head(todo)]
  /\ outcome' = IF running[waits'] = Idle THEN outcome ELSE Worse("broke")
  /\ todo' = Tail(todo)
  /\ UNCHANGED <<files, initial, list, size, field, phase, unstarted, shown,
                 dropped, saves>>

(* The next program does not start.  waitForStarted() is asked for zkiresize *)
(* only; of git and zkrewrite nothing is heard, and Save goes on.            *)
StartFails ==
  /\ ToolFails
  /\ phase = "saving" /\ todo # <<>> /\ Waited
  /\ waits' = Head(todo).tool
  /\ running' = [running EXCEPT ![waits'] = Idle]
  /\ outcome' = IF running[waits'] = Idle /\ waits' # "resize"
                  THEN outcome ELSE Worse("broke")
  /\ unstarted' = IF waits' = "resize" THEN unstarted
                    ELSE unstarted \cup {Head(todo)}
  /\ todo' = Tail(todo)
  /\ UNCHANGED <<files, initial, list, size, field, phase, shown, dropped, saves>>

(* reloadRepository, which on_save_clicked ends with                         *)
reloadRepository ==
  /\ phase = "saving" /\ todo = <<>> /\ Waited
  /\ phase' = "loading"
  /\ initial' = <<>> /\ list' = <<>>
  /\ UNCHANGED <<files, size, field, todo, waits, running, outcome, unstarted,
                 shown, dropped, saves>>

(* handle_zkiresize_list, with the listing of this moment                    *)
handle_zkiresize_list ==
  /\ phase = "loading"
  /\ phase' = "idle"
  /\ initial' = Entries(files) /\ list' = Entries(files)
  /\ size' = Len(Listing(files)) /\ field' = Len(Listing(files))
  /\ shown' = TextsOf(files)
  /\ UNCHANGED <<files, todo, waits, running, outcome, unstarted, dropped,
                 saves>>

ToolEnds(tool) ==
  /\ running[tool] # Idle
  /\ \E o \in Outcomes(files, running[tool]) :
       /\ files' = o.files
       /\ outcome' = Worse(o.outcome)
  /\ running' = [running EXCEPT ![tool] = Idle]
  /\ UNCHANGED <<initial, list, size, field, phase, todo, waits, unstarted,
                 shown, dropped, saves>>

-----------------------------------------------------------------------------

Init ==
  /\ \E disk \in Disks :
       files = [t \in {<<0, k>> : k \in DOMAIN disk} |-> disk[t[2]]]
  /\ initial = Entries(files) /\ list = Entries(files)
  /\ size = Len(initial) /\ field = size
  /\ phase = "idle" /\ todo = <<>> /\ waits = "none"
  /\ running = [tool \in Tools |-> Idle]
  /\ outcome = "ok" /\ unstarted = {}
  /\ shown = TextsOf(files) /\ dropped = {}
  /\ saves = 0

User ==
  \/ \E r \in 1 .. Len(list) - 1 : Move(r)
  \/ \E r \in DOMAIN list : Minus(r)
  \/ \E r \in DOMAIN list, z \in Zekylls : EditZekyll(r, z)
  \/ \E r \in DOMAIN list, l \in Labels : EditLabel(r, l)
  \/ \E m \in Sizes : TypeSize(m)
  \/ on_save_clicked

Save == StartTool \/ StartFails \/ reloadRepository \/ handle_zkiresize_list

Next == User \/ Save \/ \E tool \in Tools : ToolEnds(tool)

Spec == Init /\ [][Next]_vars

-----------------------------------------------------------------------------
(* Properties.                                                               *)

(* A Save has ended and every program it started has.                        *)
Saved == /\ phase = "saving" /\ todo = <<>>
         /\ \A tool \in Tools : running[tool] = Idle

(* "Gather deletions" (mainwindow.cpp:1063, on_save_clicked): nothing        *)
(* vanishes but the entries that were removed from the list, and the last    *)
(* ones of the listing when the size was made smaller.  No row that is shown *)
(* is lost, nor a file in whose place another one is put, though each        *)
(* program runs whatever the ones before it did to the names.                *)
NothingElseVanishes ==
  [][\A t \in DOMAIN files : t \in DOMAIN files' \/ t \in dropped]_vars

(* When no program complained, nothing but a program that did not start is   *)
(* missing: each row whose own renaming was not passed over has its section  *)
(* and description, and the name of its place when zkrewrite started, its    *)
(* zekyll of the table when it did not (on_save_clicked shows exit codes as  *)
(* messages, so silence has to mean that what ran succeeded; Git and         *)
(* ZkRewrite drop the answer of waitForStarted()).                           *)
Started(tool) == \A o \in unstarted : o.tool # tool
OnlyUnstartedIsSilent ==
  (Saved /\ outcome = "ok") =>
    \A r \in DOMAIN list :
      LET t == shown[list[r].id]
          name == IF Started("rewrite") THEN [zekyll |-> r, label |-> list[r].name.label]
                                        ELSE list[r].name
      IN  \/ t \in dropped
          \/ t \in DOMAIN files /\ files[t] = name
          \/ \E o \in unstarted : o.tool = "mv" /\ o.from = initial[list[r].id].name

(* A table without duplicates can be saved, from a listing with duplicates   *)
(* too ("A special case, needed for duplicate resolution",                   *)
(* mainwindow.cpp:1041, on_save_clicked): no program refuses what it is      *)
(* asked for, unless one broke before or did not start, when no row takes    *)
(* the listed name of another.                                               *)
CleanTable ==
  LET z(r) == list[r].name.zekyll
  IN  /\ list # <<>> /\ field \in {NotANumber, size}
      /\ \A j, k \in DOMAIN list : z(j) = z(k) => j = k
      /\ \A r \in DOMAIN list : z(r) \in Slots
      /\ \A r \in DOMAIN list, k \in DOMAIN initial :
           list[r].name = initial[k].name => list[r].id = initial[k].id
CleanTableIsSaved ==
  (Saved /\ CleanTable /\ Slow = {} /\ unstarted = {}) => outcome # "refused"

=============================================================================
