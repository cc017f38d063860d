# Verification of the Zekyll manager

TLA+ models, TLC runs and TLAPS proofs for the program in `src/manager`: a Qt
application that shows and edits a *Zekyll repository*, a git repository whose
files are short named code fragments.  All paths below are under `src/manager`
unless they say otherwise.

A *zekyll* is a file `xyz.S--description`: three base-36 characters, a section
letter, a text.  *Index* `i` is the 150 consecutive zekylls from
`(i-1)*150` on.  A *Zcode*, `index/base36`, says which zekylls of an index are
selected, with some metadata.

## 1. Inventory

### How the parts interact

The program has one thread and the Qt event loop.  Everything slow is another
process: `zkiresize` lists, checks and resizes an index, `zkrewrite` renames
its files, `git` renames and removes.  They are `QProcess` members that are
reused: a request kills the process of the previous one, waits 50 ms for it and
starts it again.  A wait runs no user events but delivers the process's own
`finished()` signal, so handlers of old requests run inside new requests.  That,
and the number of copies the window keeps of the same data, is what makes the
program hard.  The git dialogs call libgit2 in-process; its progress callbacks
come back through the operation tracker into the dialogs.

| Component | State | Operations | Hard behaviour | What makes it correct |
|---|---|---|---|---|
| Index loader (`mainwindow.cpp`, `zkiresize.cpp`) | current path and index, `is_loading_`, deferred selectors, tables, two processes | reload (open a repository, go to an index, enter a Zcode), click, two answers | answers of old requests handled in new ones; lost requests | one listing is shown, the last one asked for; the selection survives; loading ends |
| Index table (`lzcsde.*`, `myqtablewidget.cpp`, `mainwindow.cpp`) | `lzcsde_list_`, `lzcsde_initial_`, two tables, their check boxes | move, remove, edit, click in either table, gather and apply selectors | five copies of one list; check boxes do not move with rows | the copies agree; selectors anticipate the order after Save |
| Save (`mainwindow.cpp`, `git.cpp`, `zkrewrite.cpp`) | renames, deletions, sizes, files of the repository | resize, `git mv`, `git rm`, rewrite, reload | four steps, failures ignored, name collisions, timeouts | the files become what the table shows |
| Zcode entry (`mainwindow.cpp`, `myqlineedit.cpp`) | zcode, rev, file, repo and site fields | focus, edit, recompute | handlers triggered by the handler itself | what is entered is what is selected |
| Zcode codec (`coding_functions.cpp`, `math_functions.cpp`) | none | encode, decode, metadata | base conversion, marks that also occur in data | decoding inverts encoding |
| Names (`script_functions.cpp`) | none | repository name to path and back | prefixes, ambiguous names | round trips |
| libgit2 front end (`lgit*.cpp`) | repository handle, branch, tag and remote lists, merge analysis | reset, commit, fetch, merge, checkout, branches | open/close pairing on every path, error codes, merge state | a reported success happened; a merge is concluded once |
| Pull dialog (`pulldialog.cpp`) | selected branch, commits, analysis | fetch, merge, commit | analysis older than the repository | merges what was shown |
| Checkout, commit, branch and tag dialogs | lists at opening time | accept | repository changed meanwhile | acts on what was shown or refuses |
| Operation tracker (`gitoperationtracker.cpp`) | raw pointers and flags | callbacks | dialogs deleted | only live dialogs are called |
| Messages (`messages.cpp`, `external_functions.cpp`) | message list | append, compress, edit distance | compression | nothing is lost |
| Singleton, `qCallOnce` (`singleton.h`, `call_once.h`) | an atomic flag | call once | memory order, waiting threads | called once, and everyone waits |
| Zekyll editor (`zmeditor.cpp`) | path, text | open, save, close | path of a renamed file | saves the zekyll it shows |

Left out: the tab marker, window settings and layout have no behaviour of their
own; `src/libgit2` and `src/qscintilla2` are third-party and appear as the
environment only.

`PROJECT.json` lists the hazards with their lines.

## 2. Modules

| Modules | Part | Section |
|---|---|---|
| `ZekyllLoader`, `AtomicLoader`, `ZekyllLoader_proofs` | loading an index, and what it promises | 3 |
| `LZCSDE`, `IndexTable`, `IndexTable_proofs` | the list of entries, the tables, their copies and the selectors, for the edits between two loads | 4 |
| `LZCSDE`, `Sublists`, `SavePipeline`, `Sublists_proofs`, `SavePipeline_proofs` | the four programs of Save on a set of files | 5 |
| `Zcode`, `ZcodeEntry`, `Sublists_proofs`, `ZcodeEntry_proofs`, `ZcodeRoundTrip_proofs` | the codec, and the handlers of the fields that trigger each other | 6 |
| `GitRepository`, `LGit`, `GitDialogs`, `GitDialogs_proofs`, `GitTrees_proofs` | libgit2 as it is used, the front end, and the dialogs that share both | 7 |

`MC...` modules hold the instances for TLC.  Where one module needs what another
is about, it takes it in one step: `ZcodeEntry` and `SavePipeline` reload at once
(`ZekyllLoader` says when that is justified: for a user who waits, by
`ImplementsAtomicLoader`), and `SavePipeline` keeps the table as its list
(`ListMirrorsTable`).

## 3. The index loader (`ZekyllLoader`, `MCZekyllLoader`)

### State and actions

| Specification | Code |
|---|---|
| `current_path`, `current_index` | `current_path_`, `current_index_`; the names of the current index are computed (`Zekyll`), as `setIndex` does |
| `win.is_loading`, `.prepared`, `.deferred` | `is_loading_`, `isDeferredApplyPrepared_`, `deferredCodeSelectors_` (the set of slots whose bit is 1) |
| `win.rows` | `tableWidget`, and `lzcsde_list_`, which is filled and cleared with it |
| `win.issues` | `tableWidget_3`: which repository each shown problem is about |
| `list`, `check` | `process_list_`, `process_consistent_`: idle, running, killed but alive, exited with `finished()` not delivered yet |
| `want` | history: the slots the user selected last. No code has it; it says what "maintain the selection" means |
| `OpenRepository`, `GoToIndex`, `EnterZcode` | the handlers that end in `reloadRepository` |
| `ClickCheckBox` | `checkBoxClicked` |
| `ListExits`, `CheckExits` | the processes (external): any exit code that `zkiresize` returns for that request |
| `ListFinished`, `CheckFinished` | `finished()` delivered by the event loop |
| `restart` | `ZkIResize::list`: kill, the 50 ms wait with the answer it may deliver, start |
| `Shown` | what the user sees and can use: the rows once the loading has ended |

An action is a whole handler.  The handlers that run *inside* another are part of
its action: `reloadRepository` saves the selectors, empties the tables, then
takes the answer of the process it killed, if the wait delivers one, before it
starts its own.  `handle_zkiresize_list` on exit code 12 starts the check and the
loading goes on.

Three constants say what the environment does.  `Early` lists what the user does
while a process is at work: nothing (a user who waits), reloads, clicks.
`SlowKill` lets a killed process outlive the 50 ms; then `start()` is refused and
the killed process's answer comes later.  `StartFails` lets `zkiresize` fail to
start, which the code only reports.

### The abstract loader (`AtomicLoader`)

`AtomicLoader` is the promise: the window is asked for an index and shows nothing;
then, in one step, it shows the listing of that very index, or nothing because
there is none to be had.  It has no processes, no check, no answers of two
kinds.  `Atomic` in `ZekyllLoader` instantiates it with `pending` as `is_loading_` and
`shown` as `Shown`; `ImplementsAtomicLoader` is its specification and
`EveryRequestAnswered` its liveness.  A reload is `Ask`; the answer that ends the
loading is `Answer`; the exits of processes and an answer that only starts the
check are stutters, and so are clicks and a Zcode for the index shown, since which
rows are checked is not part of the promise (`SelectionKept` is).

### Runs

| Run | Environment | What it shows |
|---|---|---|
| `loader_waiting` | `Early = {}`; two repositories, one with a hole in index 1, one with an empty index 2; three slots | `RowsAreCurrentListing`, `SelectionKept`, `IssuesAreCurrent`, `ListWentWell`, `TypeOK`; the loader implements the abstract one (`ImplementsAtomicLoader`) and, under fairness, answers every request (`EveryRequestAnswered`) |
| `loader_overlap` | reloads and clicks at any time; processes start and die when told to | `ListingArrives`: the last request is the one answered last.  `LoadingEnds`, under fairness |
| `loader_failures` | the same, with `SlowKill` and `StartFails` | `PreparedOnlyWhileLoading` |
| `loader_lost_selection` | one reload while another runs | `SelectionKept` is violated |

Two defects have one cause, that an answer does not say which request it answers.
The first is the violation; the second is why `RowsAreCurrentListing` and
`ImplementsAtomicLoader` are stated for a user who waits:

* *Lost selection.*  `list()` kills the running process; its error answer,
  delivered in the wait, applies the saved selectors to the emptied table and
  drops them.  The new listing comes with every box checked.
* *Stale rows.*  If the old process has exited but its `finished()` is still
  pending, the wait delivers a good answer after the tables were emptied; the
  next answer is appended behind its rows and ids repeat.

A check of an earlier load can end a later loading in the same way (`list()` kills
only the list process); `ListWentWell` therefore holds for a user who waits, and
not for one who does not.

Bounds: three slots are the least with a hole that has a zekyll on each side; two
indexes and two repositories give every change between a full, a short, a holed
and an empty listing.  No counter is bounded: the state space is finite and is
explored completely (1756, 71672 and 176372 states).

Fairness (`Fairness`): a process ends by itself or because it was killed, and the
Qt event loop delivers each pending signal.  The user owes nothing: `LoadingEnds`
is about behaviours in which the user eventually stops, and a user who waits
(`EveryRequestAnswered`) cannot ask again before the answer.

### Proofs (`ZekyllLoader_proofs`)

For every number of repositories, indexes and slots and every listing:

* `TypeCorrect`, `DeferredConsumed` (`PreparedOnlyWhileLoading`) in *every*
  environment.  The inductive invariant `IInv` is the types together with: saved
  selectors exist only while loading, and a process that was never given a
  repository has never been started.  Every helper gets a lemma (what it does to
  a sound window), and every handler composes them.
* `RowsCurrent`, `IssuesCurrent`, `ListStands` for a user who waits
  (`Early = {}`), whatever kills and failed starts do.  They need `WaitInv`: while
  the list runs the tables are empty and it is about the place the window is at;
  while the check runs the list that started it stands.  None of the three is
  inductive alone: that an answer may fill the table follows from what was true
  when it was asked for.

* `LoadingIsAtomic` (`ImplementsAtomicLoader`) for a user who waits: every step of
  the loader is a step of `AtomicLoader` or a stutter.  Beside `WaitInv` it needs
  `BusyInductive`: while a process is at work the window is loading, so no answer
  comes when none is pending.
* `LastRequestAnswered` (`ListingArrives`): the listing that arrives is that of
  the last request, in *every* environment in which the property says anything.
  `ArriveInv` says of a process that is at work or has an answer to deliver whose
  request it was started for.

`SelectionSurvives` (`SelectionKept`) is for a user who waits and processes that
start.  `gatherCodeSelectors` walks the slots of the index
and the rows of the table together, and a bit is read from the row whose number is
the count of the zekylls so far.  So the proof is about counting: `RowByCounting`
shows that in a listing in the order of the names (`ZekyllOrder`) the number of
zekylls listed up to a slot is the row of that slot, and `GatherIsChecked` that
the gathered selectors are the checked boxes.  `KeepInv` then follows the
selectors from the boxes through `deferred` back to the boxes.

The assumptions are those named in `ZekyllLoader` (an index has at least one
slot, the window starts at index 1, `zkiresize` lists an index in the order of the
names, each once).  Only model-checked: `LoadingEnds` and `EveryRequestAnswered`,
which are liveness.

## 4. The index table (`LZCSDE`, `IndexTable`, `MCIndexTable`)

### State and actions

| Specification | Code |
|---|---|
| `table` | the items of `tableWidget`: id and zekyll of each row |
| `boxes` | the check box widget in each row, with its `id` property |
| `list` | `lzcsde_list_` |
| `boxes2` | the check boxes of `tableWidget_2`, by id; its rows never change between loads |
| `Listing` (constant) | `lzcsde_initial_` and `zekyllIDs_`, which are set by a load and only read after it |
| `Move` | `on_up_clicked`, `on_down_clicked`: `MyQTableWidget::move`, then `LZCSDE::move` |
| `Minus` | `on_minus_clicked` |
| `EditZekyll` | `on_tableWidget_itemChanged`, zekyll column |
| `ClickBox`, `ClickBox2` | `checkBoxClicked` from either table |
| `VisitZcode`, `EnterZcode` | focus in and out of the field of the Zcode; `gatherCodeSelectors`, `applyCodeSelectors` |

A check box is a cell widget.  Moving a row exchanges items; the widgets stay, and
keep the id they were made with.  That is why `boxes` is a sequence of its own.

`gatherCodeSelectors` walks the names of the index and the rows of the table
together.  `RowsTaken` is that walk: how many rows the first `i` names have taken;
`TakesRow` tells a name that takes a row (it is shown, or was listed at this row
and is gone) from a hole.

`Ops` is what the user does in a run.  `Capacity` replaces the 150 names.  A name
the user types that is not of this index is a number above `Capacity`.

### Runs

| Run | Instance | What it shows |
|---|---|---|
| `table_reorder` | three rows without holes, four names, five texts, every operation (174398 states) | `ListMirrorsTable`: entries found by id and rows found by position stay the same list.  `FollowsFutureOrder`: the gathered Zcode is the one of the order after Save |
| `table_selection` | seven rows among ten names, holes before and between; clicks and all 1024 Zcodes (128 states, every selection) | `SelectionCopiesAgree`, `VisitKeepsSelection` |

The instances are not larger because the properties end there.  Boxes do not
move with their rows: after a move, a click toggles another zekyll's box in the
section table, and the entry and the box in its row differ until the next
gathering overwrites the entry; so `SelectionCopiesAgree` is checked without
moves.  And selectors keep the holes of the index while Save gives the first names
to the rows, so in an index with a hole the Zcode shown before and after Save
differ; so `FollowsFutureOrder` is checked without holes.  A removed row stays in
the section table; `ClickBox2` models a click on its box, which finds no entry.

Bounds: the operations relate two neighbours, so three rows show a pair and a
bystander; four names leave one free at the end, five texts name each of them and
one of another index.  Ten names hold a hole before, between and after the rows.

### Proofs (`IndexTable_proofs`)

Everything the two runs check is proved, for every capacity, every listing, every
set of names the user types and every number of operations.

`TypeCorrect` and `MirrorKept` (`ListMirrorsTable`) hold for every set of
operations.  The mirror is not inductive alone: `LZCSDE::move` and `removeId` look
entries up by id and the table works by position, so the two find the same place
only because ids stay unique; `IInv` adds that.  It also shows that
`gatherCodeSelectors` never indexes `entries()` with -1 (`mainwindow.cpp:630`).

`CopiesAgree` (`SelectionCopiesAgree`) needs that no row is moved, removals and
renamings included, which the run leaves out.  Its invariant is `Paired`: the box in
a row was made for the row's id, and the three copies of the selection agree.  A
click starts from the id of the box, gathering from the id of the entry, applying
from the position; `Paired` is what makes the three meet.

What `gather` returns is the value of a recursive function, `RowsTaken`.  The
library's induction takes an operator, so `Sublists_proofs` has its own, over sets:
`SetInduction`, and `RecursionExists` and `StepsExist`, which say that a definition by
recursion with a measure that falls has a function that obeys it.  From there:

- `GatherListed`: in a table nobody reordered or renamed the walk finds the row of
  every listed name, whatever the holes (`RowsUpto`: up to a slot, it has taken the
  rows of the names up to it).  With `Paired` this gives `VisitingIsQuiet`
  (`VisitKeepsSelection`) for users who click and enter Zcodes; after a removal or a
  move the selectors are those of the order after Save, and visiting the field does
  change the selection.
- `GatherByPosition`: in an index without holes the first slots take the rows of
  their numbers whatever the rows show, because a name that is not in the table was
  listed at its own number; and the walk does not end early, because among `n` rows
  with valid single names one is at least `n`.  This gives `FutureOrderFollowed`
  (`FollowsFutureOrder`) for every operation, under `WithoutHoles`.

The three hypotheses on the constants are those of the runs' instances, and each is
needed: TLC finds a counterexample without it.  Nothing of the table is only
model-checked.

## 5. Save (`SavePipeline`, `MCSavePipeline`)

### State and actions

| Specification | Code |
|---|---|
| `files` | the repository: the name of each text |
| `initial`, `list` | `lzcsde_initial_`, `lzcsde_list_`; the table mirrors the list (`ListMirrorsTable`), so it is not kept twice here |
| `size`, `field` | `current_size_of_index_`, the text of `indexSize` |
| `todo`, `waits`, `running` | where `on_save_clicked` is: the programs it has still to start, the one it waits for, the processes at work |
| `outcome`, `unstarted`, `shown`, `dropped` | history: whether a program complained, what `git` or `zkrewrite` was asked for and did not start, which text each row of the last listing is, what the user asked to have removed |
| `Move`, `Minus`, `EditZekyll`, `EditLabel`, `TypeSize` | the user's edits |
| `on_save_clicked` | its first half, which gathers renames, deletions and the new order |
| `StartTool`, `StartFails`, `ToolEnds` | one program started; one that does not start; one program done |
| `reloadRepository`, `handle_zkiresize_list` | the reload Save ends with, and the listing (in one step: its own interleavings are `ZekyllLoader`'s) |

`LZCSDE` holds what the list of entries does; `IndexTable` and `SavePipeline`
both extend it.

The four programs are not part of the repository.  They are modelled from how
they are called and from the exit codes the code decodes: `git mv` refuses a name
that is taken, `git rm` removes the file of that name, `zkrewrite` refuses
duplicates and collisions (codes 42, 45, 47), may fail on the way (48, 128) and may
skip or refuse a zekyll it does not find; `zkiresize` refuses an inconsistent
index, adds zekylls behind the last one or removes the last ones, all or nothing:
the only way in which a resize fails otherwise is that it does not start.  A killed
program is taken to have done nothing.  `ToolFails` lets programs fail and not
start.

A program that fails has a `finished()` and becomes a message.  One that does not
start has none: `ZkIResize::resize` asks `waitForStarted()` and says so, `Git` and
`ZkRewrite` drop its answer (`git.cpp:59`, `git.cpp:81`, `zkrewrite.cpp:44`), and Save
goes on with the next program without a word.  `StartFails` is that, at every
program of every Save.

`waitForFinished` gives up after 30 s.  `Slow` is the set of programs that may take
longer; Save then goes on beside them.

### Runs

| Run | Instance | What it shows |
|---|---|---|
| `save_edits` | three rows and a file of another index, or a listing with duplicates; every order, removal, name of five and label of two; a larger size; every program may not start, `git` and `zkrewrite` may fail (5484612 states) | `NothingElseVanishes`; `OnlyUnstartedIsSilent`: without a complaint, only what did not start is missing; `CleanTableIsSaved`: a table without duplicates is not refused; `TypeOK` |
| `save_late` | two Saves, the second before or after the listing of the first; a larger size whose resize ends at any time (7040149 states) | `NothingElseVanishes`, `OnlyUnstartedIsSilent` |
| `save_vanished` | a smaller size, names typed | `NothingElseVanishes` is violated |

Save ignores the outcome of its steps, and the first two runs say how far that is
harmless.  Nothing is lost: every program acts on names and refuses one that is
taken, so a failure leaves a row under its old name.  And a program that ran and
failed complains.  But a Save can be silent and the files not be the rows: without
`git` no row is renamed and nothing is removed, without `zkrewrite` no row gets the
name of its place.  `OnlyUnstartedIsSilent` says that this is the only silent way, and
what is left of the table then: a row whose own `git mv` was passed over is
excepted, every other one has its section and description, and its zekyll of the
table if `zkrewrite` did not start.

The violation is a row lost: the last row is removed, another row is given its full
name, and the index is made smaller by one.  The resize removes the file, `git mv`
takes its name, and `git rm` removes that name.

Two limits show in the constants.  `save_late` lets only the resize be late: when
`git` or `zkrewrite` outlives its wait, the next program changes names under it
and neither property holds.  And a smaller size removes the last zekylls *of the
listing*, wherever the user has moved them and whatever else was removed;
`dropped` counts them as asked for.

Bounds: `MaxSaves` is one where the edits are many and two where Saves overlap;
`Capacity` four gives every row a free name behind it.  The user may stop at any
time and stops for good after `MaxSaves`, so deadlock is not checked.

### Proofs (`SavePipeline_proofs`)

For every capacity, every repository and whatever the user types:

* `TypeCorrect` (`TypeOK`) in *every* environment.  `SoundState` adds to the types
  that no two files have the same name and that every program at work was given
  something it can be given.  Each program gets a lemma (`ResizeSound`, `MvSound`,
  `RmSound`, `RewriteSound`): whatever it does, fails or refuses, the names stay
  different.
* `NothingVanishes` (`NothingElseVanishes`) and `OnlyUnstartedSilent`
  (`OnlyUnstartedIsSilent`), when Save waits until its programs end (`Slow = {}`), the
  user until the listing is there (`Early = FALSE`), and no size smaller than the
  listed one is saved (`NeverSmaller`).  The first two conditions are the
  constants of `save_edits`, the third is what its sizes say; `save_vanished`
  shows that it cannot be left out.

`NothingElseVanishes` is about one step, and what makes it true was decided several
programs earlier.  `Orderly` says it of everything that has not ended (`Pending`):
programs run one at a time and in the order of the code (`OneAtATime`); what a
`git rm` is going to remove was dropped, and as long as a resize or a `git mv` may come
before it, its name is taken by a file that no `git mv` renames (`RemovalsAgreed`),
so that nothing else can get the name; a resize only adds (`ResizesGrow`).
`Silent` follows the rows: while no program has complained, a row either has the
name the table gives it, or its own `git mv` is still to come or did not start, and
after the rewrite every row has the name of its place (`OnTheWay`).  It depends on rows
being entries of the listing, each at most once (`Listed`), which is what
`MoveRows`, `RemoveRows` and `EditRows` show of the list.

`CleanIsSaved` (`CleanTableIsSaved`) needs no conditions: neither
`NeverSmaller` nor the patience of the user is needed.  Its invariant is `Calm`.  What a
program refuses depends on the names that those before it took or left, so that while
nothing has complained and everything has started `Runnable` says of every program that is still to come
that it could run *now*: what `git mv` renames has its listed name and nothing has the new
one (`MayMove`), what `git rm` removes is there and is no row (`MayRemove`).  And what
zkrewrite refuses has to be seen coming: `Underway` says that until then every file of the
index is a row or will be removed, so that zkrewrite finds the rows' files and no others,
each with a zekyll of its own.  A second click during the load does no harm because the
list is empty then, which is not a clean table.  TLC agrees with `Calm` where the user
does not wait and sizes get smaller, with two Saves.

Two things that look like induction over data were put otherwise.  The listing is the
ordered sequence of a set of names; `OrderingExists` gives it by the number of names
before each.  And `Sublists` defines what is left of a list by the ranks of the
places that are kept, instead of by `SelectSeq`, which is recursive;
`Sublists_proofs` shows that it picks those places in their order.

Everything `save_edits` checks is proved.  Only model-checked: Saves that overlap with
programs or with each other.

## 6. The Zcode (`Zcode`, `ZcodeEntry`, `MCZcode`)

### State and actions

| Specification | Code |
|---|---|
| `encode_zcode_arr01`, `arr_01_to_24_bit_pack_numbers`, `decode_zcode`, `LongDivision` | the functions of those names; `div2` and `div_24_bit_pack_numbers_36` are one long division with two bases |
| `codes`, `FirstWord` | the code table; 50 words of six bits and 28 of seven |
| `BitsWithPreamble`, `BitsRemoveIfStartStop`, `process_meta_data` | the metadata, a sequence of words between two marks |
| `BitsForString`, `trimmed` | the codes of what is left of a field without blanks at its ends; characters without a code are skipped |
| `win.text`, `.index`, `.selected`, `.meta`, `.site` | the field of the Zcode, `current_index_`, the check boxes, the fields rev, file and repo, the combo box of the site |
| `recomputeZcode` | `recomputeZcode` |
| `setSite` | `ui->site->setCurrentIndex`, with the handler that a change runs inside of it |
| `applyCodeSelectors` | the function, which drops selectors beyond the rows and then computes the text again |
| `on_zcode_editingFinished` | the handler: input, index, decoding, fields, site, and the selectors at once or set aside for a reload |
| `VisitZcode` | the focus comes to the field and leaves it again |
| `EnterZcode` | a Zcode that another window of this program made for some selection and metadata |
| `EnterText` | any other text: undecodable letters, no index, an index that is no number, too many slashes |

A letter of a text is its value, a character of the metadata the word it is.
The number is not abstracted: the model encodes and decodes as the code does,
over three packs of 24 bits.  `last` is what the user did last and does not
influence anything; `VIEW` leaves it out.

### Run

`zcode`: an index of 26 zekylls, whose bits are longer than a pack, and one of 3;
clicks on a first row and on one beyond the first pack; metadata with a character
that has no code, with blanks at its end or next to such a character, and a word that
ends in `W`; five Zcodes made elsewhere (shorter, longer, with and without metadata and
selection) and six texts (15845 states).

* `TextIsTheNumber`: the text and the bits are the same number.  The reference
  needs no division: both are evaluated modulo two primes.
* `VisitKeepsAll`: what the focus computes on the way in is what is decoded on the
  way out; only characters that are not coded go.
* `EntryObeyed`: a Zcode selects what it was made for, whatever index, site and
  metadata the window had, at once or through a reload.
* `EnteredTextStands`: the text that stays is the one the window would compute.

Their provisos are limits of the code, found while checking:

* *Nothing selected, metadata present.*  The bits in front of the closing mark's
  last 1 are zeros and get lost with the conversion to a number; the mark is then
  not found and the metadata is read as selectors (error 121).  A visit to the
  field is enough.
* *Metadata that ends in `W`.*  The code of `W` and the mark have the same six last
  bits; `BitsRemoveIfStartStop` finds two marks and cuts the metadata.
* *A blank kept inside by a character that has no code*, as in `é 2`.  It is coded,
  and the character in front of it is not, so the decoded field starts with the blank:
  the next computation trims it and gives another text.
* *A Zcode that changes the site at the index shown.*  Setting the combo box computes
  the text from the old boxes, before the selectors are applied.
* *A text that cannot be decoded* is reported and goes on as no bits: every box is
  unchecked and the metadata cleared.  *An index that is no number* is index -1.

### Proofs (`ZcodeEntry_proofs`, `ZcodeRoundTrip_proofs`)

`ZcodeEntry_proofs` is about numbers.  The codec is recursive everywhere: long division over the digits, dividing until
nothing is left, reading words, folding them.  Each of these is a recursive function
of the module, that is a `CHOOSE`; a lemma of the proofs says that the function the
module means exists (`RecursionExists`: what is left gets shorter, or smaller as a
number) and that the chosen one obeys its own definition.  The base theorems are
about `Number(digits, base)`, what digits are worth:

- `LongDivisionExact`: after each digit, divisor times the quotient plus what is left
  over is the number up to that digit.
- `RemaindersKeepTheNumber`: converting to another base keeps the number, by the least
  number for which it would not; dividing something that is not zero makes it smaller.
- `PacksKeepTheNumber`: the 24-bit packs, counted from the right, are the number of the
  bits, whatever is left for the first pack.  With it, `EncodingKeepsTheNumber`: the
  text is the number of the bits, for bits of every length.
- `ZcodeTypeCorrect` (`TypeOK`) is inductive.  It needs that decoding ends and gives
  words (`ReadStep`, `DecodeSteps`, `MetaDataType`), and that what is encoded is bits
  (`ZcodeBitsType`), for every text that may be entered.
- `TextKept` (`TextIsTheNumber`) follows from both: `Residue` is the number modulo a
  prime (`ResidueOfNumber`).
- `DecodingInvertsEncoding`: the digits of a number in a base, without zeros in front,
  are the only ones, so what is decoded from the text of some bits is these bits up to
  the last 1.  Bits are reversed before they become a number, so that what gets lost is
  zeros behind the last selected zekyll, which mean nothing.

`ZcodeRoundTrip_proofs` is about words.  `ZcodeReadAsWritten` says that what is decoded
from the text of a Zcode, the marks found and the words read, is what the text was
computed from:

- No code is the beginning of another (`PrefixFree`), so that `FirstWord` finds each
  word where it was written, and the words of a sequence are read one after the other,
  a field at a time (`ReadWritten`, `SaidMeta`), in the order of the fields.
- The mark is found where it was written (`MarkAtEnd`): `BitsRemoveIfStartStop` compares
  the last bits with a mark, and of all words only `W` ends like one.  That is where the
  proviso about `W` comes from.
- The decoder cuts the metadata off at the second mark (`MetaBitsWritten`,
  `MetaDataRead`), and what follows is the version and the selectors
  (`ZcodeCut`).  The proviso about an empty selection is what makes the last 1 of the
  bits one behind that mark.

The action properties follow, each from `TypeOK` alone (in these models a handler runs
to its end, and what it needs to know about the window is that the fields hold
characters and the boxes are rows): `VisitingKeepsAll` (`VisitKeepsAll`),
`EnteredZcodeObeyed` (`EntryObeyed`) and `EnteredTextIsComputed` (`EnteredTextStands`).
The last also says that the text depends on nothing behind the last selected zekyll
(`SameTextOf`), so that a Zcode made for a longer or shorter index has the same text here.

The proofs corrected the model once: `BitsForString` trims what it encodes, which the
model had left out and the run could not show, as none of its values began or ended with
a blank.  Now two do.

They hold for all sizes of indexes, all metadata and all texts the user may enter.  The
assumptions on the constants (`SizesAssumption`, ...) say what type they have, and that a
typed character is none of the words of the code table that are no characters (`Controls`:
the names of the fields and the mark), which one character cannot be.  Everything `zcode`
checks is proved.

## 7. The git dialogs (`GitRepository`, `LGit`, `GitDialogs`, `MCGitDialogs`)

### State and actions

`GitRepository` is libgit2 (external): each function that `lgit` calls as what it
does to references, index and state files, read in `src/libgit2`.  A commit is a
number; what it changes has the same number, so that a tree is a set of numbers.
`past` is what a commit says it is made of, `tree` what it contains; a program that
merges right keeps the two equal.  A merge checks out with `GIT_CHECKOUT_FORCE`:
changes to files that are merged refuse it, those to other files are overwritten.
Files git does not track are in no index and no commit; all that the model has of
them is that the tracker is told of them (`strays` in `NewBranch`).  `LGit` is `lgit.cpp` and the lists it keeps;
`GitDialogs` the menus and dialogs.

| Specification | Code |
|---|---|
| `repo` | the repository: commits, heads, a tag, HEAD, index with work dir, MERGE_HEAD, FETCH_HEAD |
| `upstream` | the branches of the remote |
| `lgit.branches`, `.current`, `.analysis` | `git_branches_`, `git_current_`, `analysisResult_` |
| `handle` | whether `repo_` is open while a fetch uses it |
| `dialog`, `pending` | the modal dialogs: which is open, and for the commit dialog of a merge its parents and what it returns to |
| `chosen` | the entry of `fetchHeadCombo`: its place in the list of branches, and the commit whose log is shown |
| `offers` | the tips the checkout dialog remembers |
| `tracker`, `halted` | `GitOperationTracker` holds the address of a dialog; undefined behaviour was reached |
| `GitReset`, `GitCommit`, `NewBranch`, `DeleteBranch`, `DeleteTag` | the menu handlers of the main window |
| `OpenCheckout`, `CheckoutBranch`, `CheckoutTag`, `CloseCheckout` | the checkout dialog |
| `OpenPull` ... `ResetAfterFetch` | the pull dialog; a fetch is three steps, because its progress callback processes events |
| `ClickMerge`, `CommitMerge`, `StopCommit` | `on_merge_clicked`, and the commit dialog it opens |
| `EditFiles`, `ResolveConflicts`, `CommitOutside`, `MoveOutside` | files and git outside of the program |

### Liberties

Most promises of this part hold for a user who does one thing after another, and
fail in one of a few ways that the code does not guard against.  Each way is a
*liberty*; `met` records the ones taken, and every property names the ones under
which it does not hold:

| Liberty | What it is | What it breaks |
|---|---|---|
| `outside` | references change outside while a dialog remembers them | merges and fast-forwards act on an old analysis |
| `nested` | a click inside of a fetch | `halted`: the click closes the repository the fetch uses, or finds the list shorter than its entry |
| `switched` | a checkout before MERGE_HEAD is gone | a commit names a parent whose changes it does not contain |
| `again` | a merge before the one before is committed | libgit2 refuses and its error path removes MERGE_HEAD, so the first merge is committed as an ordinary commit |
| `covered` | a fast-forward over uncommitted changes | changed files keep their content silently: the next commit undoes what was pulled |
| `elsewhere` | after a dialog was closed, a new branch checked out that is not at HEAD, or with changed, untracked or ignored files in the work dir | the tracker calls the deleted dialog |

### Runs

| Run | Instance | What it shows |
|---|---|---|
| `git_dialogs` | two branches, one that others commit to; at most 4 commits and one liberty of the six; a new branch at any commit there is (3390841 states) | the properties below |
| `git_concluded` | no liberty | `ConcludedOnce` is violated |

* `NothingMergedAway`, `NothingSmuggledIn`: a commit contains what it says it
  descends from, and nothing else, whichever dialog commits and whatever was
  reset, merged, checked out or left uncommitted before.
* `ConflictsBelongToAMerge`: conflicts come with a MERGE_HEAD.
* `HaltsOnlyWhenNested`, `BranchesOnlyAdvance`, `CommitsAreOnTop`,
  `MergesWhatIsShown`: what dialogs remember (an entry by its place, an analysis,
  the parents of a commit, the tip whose log is shown) is still true when it is
  used.

The violation: `lgit::commit` takes every MERGE_HEAD as a parent, and nothing removes
MERGE_HEAD once the merge was committed.  Every later commit is a merge of the same
commit again, until a hard reset.

Bounds: four commits are a first one, one on each side and a merge; with one more
`ConcludedOnce` fails.  `Shared` is the branch others commit to: the other branch
comes with whatever the fetch brings.  `MaxLiberties` is one because the properties
exclude liberties singly; with none taken the run is the careful user.  `VIEW` leaves
out the lists of `lgit` while no dialog is open, because every handler reads them
again before it uses them; the analysis of the merge is kept, which is not.
Deadlock is not checked: a halted program has stopped.

### Proofs (`GitDialogs_proofs`, `GitTrees_proofs`)

For every set of branches, every number of commits and every set of liberties:

* `TypeCorrect` (`TypeOK`),
* `NullOnlyWhenNested` (`HaltsOnlyWhenNested`) and `ConflictsAreOfAMerge`
  (`ConflictsBelongToAMerge`),
* `CommitsOnTop` (`CommitsAreOnTop`), `NoBranchGoesBack` (`BranchesOnlyAdvance`) and
  `ShownIsMerged` (`MergesWhatIsShown`), which are about steps.

The inductive invariant has two parts.  `SoundState` is the types with the bounds they
do not say: every number that a reference, a list, a dialog or a parent holds is a
commit there is, and a commit descends from itself, from the first one, and from none
that is later.  `Ready` is what the dialogs rely on: in the pull dialog the chosen place
points at the chosen entry (`Pointed`), and an analysis that found a fast-forward is
about the branch HEAD is on, whose tip the chosen commit still descends from
(`Analysed`);
while a commit dialog is open there is something to commit on and the analysis is
"normal".  None of the properties about steps follows without `Ready`: that the entry
merged is the one shown is `Pointed`, that a fast-forward loses nothing is `Analysed`.

Each function of libgit2 gets a lemma that says what it leaves alone (`MergeSound`,
`CheckoutSafeSound`, `CommitCreateSound`, ...), each action one that says it is a
`GoodStep`.  The assumptions are the named ones: `NoBranch` is not a branch, `Master` is
one, the list of names has every branch, the bounds are numbers.

`GitTrees_proofs` adds the trees, for the same values:

* `NothingIsMergedAway` (`NothingMergedAway`): a commit contains the changes of every
  commit in its history;
* `NothingIsSmuggledIn` (`NothingSmuggledIn`): and no others.

Neither is inductive: a commit is made of the index, and the index was made many steps
earlier by a merge of trees that knows nothing of parents.  `Trees` says what holds in
between.  Trees grow along histories (`Monotone`), so that the three-way merge, which
drops what only the base has, is the union of both sides (`MergedAll`); the index has
everything of HEAD and of MERGE_HEAD (`Carried`), and under the narrower liberties nothing
else (`Accounted`); and an open commit dialog has remembered exactly HEAD and MERGE_HEAD
as the parents (`Recorded`), so that the commit contains what its parents do.
`TreesKept` proves it of every step, each action by a lemma of its own.

Everything `git_dialogs` checks is proved.

## 8. Not modelled

* `src/libgit2` and `src/qscintilla2`, third-party libraries, are nearly all of the
  repository's lines.  Of libgit2 the functions that `lgit` calls are modelled by their
  effect; QScintilla is the text widget of an editor window.
* Remotes, the log and the status, and the dialogs that show them: read and shown.
* `Singleton`, `qCallOnce`: the program has one thread, so that there is nothing to
  interleave.
* `Messages`: the list only grows and is only shown; `levenshtein` marks the
  differences of two messages.
* The editor window (`ZMEditor`) reads a file once and writes it under the path it was
  opened with.  When Save has renamed the file meanwhile it writes a file of the old
  name, or over the zekyll that has the name now; Save is modelled without edits
  of a text.
* Repository names (`getRepoFromPath`, `getPathFromRepo`): regular expressions; a
  repository is its path.  A revision with a dot, a slash or a tilde is shown under
  a name that is not mapped back.
* The order of the section table, scroll positions, the tab marker, settings, and the
  wording of messages.
