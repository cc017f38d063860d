----------------------------- MODULE ZcodeEntry -----------------------------
(***************************************************************************)
(* The fields that are a Zcode and what it stands for: the text, the       *)
(* metadata (revision, file, repository, site), the index, and the check   *)
(* boxes of its zekylls.  Whatever changes, the text is computed anew; and *)
(* a text that is entered changes all the others, which may compute the    *)
(* text anew while it is still being entered (mainwindow.cpp).             *)
(*                                                                         *)
(* The rows are the zekylls of the index in order, and no row is moved or  *)
(* removed (IndexTable is about those).  A reload is one step              *)
(* (ZekyllLoader is about its processes).                                  *)
(***************************************************************************)
EXTENDS Zcode

CONSTANTS
  Sizes,      \* the number of zekylls of each index of the repository
  Boxes,      \* the rows whose box the user clicks
  Values,     \* what the user types into each field of the metadata
  Sites,      \* the sites the user picks
  Known,      \* Zcodes made elsewhere: selected rows and metadata
  Texts       \* other texts the user enters

Fields == {"rev", "file", "repo"}
Forms == {"number", "none", "word", "slashes"}

ASSUME SizesAssumption ==
  /\ DOMAIN Sizes \subseteq Int /\ 1 \in DOMAIN Sizes
  /\ \A i \in DOMAIN Sizes : Sizes[i] \in Nat
ASSUME ValuesAssumption ==
  \A f \in Fields : \A v \in Values[f] :
    v \in Seq(STRING) /\ ToSet(v) \cap Controls = {}
ASSUME SitesAssumption == Sites \subseteq 1 .. 3

VARIABLES
  win,      \* the window
  last      \* history: what the user did last, and the Zcode that was entered

vars == <<win, last>>

(* How many zekylls zkiresize lists; none for an index that does not exist.  *)
SizeOf(i) == IF i \in DOMAIN Sizes THEN Sizes[i] ELSE 0

(* A text is an index, a slash and letters.  The index may be left out       *)
(* ("none"), be no number ("word"), or be followed by too many slashes.      *)
Text == [form : Forms, index : Int, letters : Seq(0 .. Radix)]
NumberText(i, letters) == [form |-> "number", index |-> i, letters |-> letters]

ASSUME KnownAssumption ==
  \A z \in Known :
    /\ z \in [selected : SUBSET Nat, size : Nat,
             meta : [Fields -> Seq(STRING)], site : 1 .. 3]
    /\ z.selected \subseteq 1 .. z.size
    /\ \A f \in Fields : ToSet(z.meta[f]) \cap Controls = {}
ASSUME TextsAssumption == Texts \subseteq Text

(* What the metadata is made of: typed and decoded characters.               *)
Characters ==
  (DOMAIN codes \ Controls)
    \cup UNION {ToSet(v) : v \in UNION {Values[f] : f \in Fields}}

Window == [text : Text, index : Int, selected : SUBSET Nat,
           meta : [Fields -> Seq(Characters)], site : 1 .. 3]

(* Only rows are selected, and nothing else gets into the metadata.          *)
TypeOK ==
  /\ win \in Window
  /\ win.selected \subseteq 1 .. SizeOf(win.index)

-----------------------------------------------------------------------------
(* Computing the text.                                                      *)

SiteDigits == <<"1", "2", "3">>

(* The metadata between its marks, both of which go when there is none.      *)
MetaBits(meta, site) ==
  BitsRemoveIfStartStop(
    codes.ss \o BitsWithPreamble("rev", meta["rev"])
             \o BitsWithPreamble("file", meta["file"])
             \o BitsWithPreamble("repo", meta["repo"])
             \o (IF site = 1 THEN <<>>
                 ELSE BitsWithPreamble("site", <<SiteDigits[site]>>))
             \o codes.ss)

Version == <<0, 0>>

(* The bits from the first on.  Data that starts like metadata gets another  *)
(* mark; with this version none does.                                        *)
ZcodeBits(selected, size, meta, site) ==
  LET data == Version \o [r \in 1 .. size |-> IF r \in selected THEN 1 ELSE 0]
      appendix == MetaBits(meta, site)
  IN  IF appendix = <<>> /\ IsPrefix(codes.ss, data) THEN codes.ss \o data
      ELSE appendix \o data

WindowBits(w) == ZcodeBits(w.selected, SizeOf(w.index), w.meta, w.site)

recomputeZcode(w) ==
  [w EXCEPT !.text = NumberText(w.index,
                                encode_zcode_arr01(Reverse(WindowBits(w))))]

(* ui->site->setCurrentIndex: a change is a signal whose handler,            *)
(* on_site_currentIndexChanged, computes the text.                           *)
setSite(w, site) ==
  IF site = w.site THEN w ELSE recomputeZcode([w EXCEPT !.site = site])

-----------------------------------------------------------------------------
(* Applying selectors.                                                      *)

(* Mutant of applyCodeSelectors: a truncated Zcode stays.                    *)
apply_truncated_stays(w, selectors) ==
  [w EXCEPT !.selected = {r \in 1 .. SizeOf(w.index) :
                            r <= Len(selectors) /\ selectors[r] = 1}]

(* Mutant of applyCodeSelectors: rows that are not listed get selected too.  *)
apply_beyond_rows(w, selectors) ==
  [w EXCEPT !.selected = {r \in DOMAIN selectors : selectors[r] = 1}]

(* Selectors beyond the zekylls of the index are dropped, and the text then  *)
(* is computed without them.                                                 *)
applyCodeSelectors(w, selectors) ==
  LET applied == [w EXCEPT !.selected = {r \in 1 .. SizeOf(w.index) :
                                           r <= Len(selectors) /\ selectors[r] = 1}]
  IN  IF Len(selectors) > SizeOf(w.index) THEN recomputeZcode(applied) ELSE applied

(* Mutant of reloadRepository: the selectors set aside are forgotten.        *)
reload_forgets(i, w, selectors) ==
  recomputeZcode([w EXCEPT !.index = i, !.selected = 1 .. SizeOf(i)])

(* reloadRepository at index i up to its listing, with the selectors that    *)
(* were set aside: the text is computed once they are applied.               *)
reloadRepository(i, w, selectors) ==
  recomputeZcode(applyCodeSelectors([w EXCEPT !.index = i], selectors))

-----------------------------------------------------------------------------
(* A text is entered.                                                       *)

(* getProcessedZcodeInput: an index left out is the current one; one that is *)
(* no number is -1.                                                          *)
InputText(w) ==
  IF w.text.form = "none" THEN NumberText(w.index, w.text.letters) ELSE w.text
InputIndex(t) == IF t.form = "number" THEN t.index ELSE -1
HasCorrectData(t) == t.form # "slashes" /\ t.letters # <<>>

(* getSites of what was decoded, Github by default.                          *)
DecodedSite(names) == CASE names = <<"bb">> -> 2
                        [] names = <<"gl">> -> 3
                        [] OTHER -> 1

(* Mutant of WithoutVersion: one bit is taken for the version.               *)
version_of_one_bit(bits) == IF Len(bits) < 2 THEN bits ELSE SubSeq(bits, 2, Len(bits))

(* Two bits of version, if there are that many.                              *)
WithoutVersion(bits) == IF Len(bits) < 2 THEN bits ELSE SubSeq(bits, 3, Len(bits))

(* The bits of a text as they are decoded, and what their metadata says.     *)
Obey(w, i, bits, data) ==
  LET sited == setSite([w EXCEPT !.meta = [f \in Fields |-> data.decoded[f]]],
                       DecodedSite(data.decoded["site"]))
      selectors == WithoutVersion(SubSeq(bits, data.skip + 1, Len(bits)))
  IN  IF i # w.index THEN reloadRepository(i, sited, selectors)
      ELSE applyCodeSelectors(sited, selectors)

ObeyBits(w, i, bits) == Obey(w, i, bits, process_meta_data(bits))

(* What cannot be decoded (errors 102, 103) is no bits, and goes on.         *)
ObeyText(w, t) ==
  IF ~ HasCorrectData(t) THEN [w EXCEPT !.text = t]
  ELSE ObeyBits([w EXCEPT !.text = t], InputIndex(t),
                IF t.form = "number" THEN Reverse(decode_zcode(t.letters)) ELSE <<>>)

on_zcode_editingFinished(w) == ObeyText(w, InputText(w))

-----------------------------------------------------------------------------
(* The user.                                                                *)

Other == [op |-> "other"]

ClickBox(r) ==
  /\ r \in 1 .. SizeOf(win.index)
  /\ win' = recomputeZcode([win EXCEPT !.selected =
                              IF r \in @ THEN @ \ {r} ELSE @ \cup {r}])
  /\ last' = Other

(* on_rev_editingFinished, on_file_editingFinished, on_userRepo_...          *)
EditField(f, v) ==
  /\ win' = recomputeZcode([win EXCEPT !.meta[f] = v])
  /\ last' = Other

ChooseSite(site) ==
  /\ site # win.site
  /\ win' = setSite(win, site)
  /\ last' = Other

(* on_currentIndex_editingFinished.  Without rows there are no selectors to  *)
(* keep, and every box of the listing is checked.                            *)
GoToIndex(i) ==
  LET gathered == [r \in 1 .. SizeOf(win.index) |->
                     IF r \in win.selected THEN 1 ELSE 0]
      kept == IF gathered = <<>> THEN [r \in 1 .. SizeOf(i) |-> 1]
              ELSE gathered
  IN  /\ win' = reloadRepository(i, win, kept)
      /\ last' = Other

(* The field of the Zcode gets the focus, which computes it, and loses it.   *)
VisitZcode ==
  /\ win' = on_zcode_editingFinished(recomputeZcode(win))
  /\ last' = [op |-> "visit"]

(* The user enters, at index i, a Zcode that was made elsewhere for z, by a  *)
(* program of the same kind.                                                 *)
EnterZcode(i, z) ==
  LET letters == encode_zcode_arr01(
                   Reverse(ZcodeBits(z.selected, z.size, z.meta, z.site)))
  IN  /\ win' = on_zcode_editingFinished([win EXCEPT !.text = NumberText(i, letters)])
      /\ last' = [op |-> "enter", index |-> i, zcode |-> z]

(* The user enters anything else.                                            *)
EnterText(t) ==
  /\ win' = on_zcode_editingFinished([win EXCEPT !.text = t])
  /\ last' = Other

Init ==
  /\ win = recomputeZcode([text |-> NumberText(1, <<>>), index |-> 1,
                           selected |-> 1 .. SizeOf(1),
                           meta |-> [f \in Fields |-> <<>>], site |-> 1])
  /\ last = Other

Next ==
  \/ \E r \in Boxes : ClickBox(r)
  \/ \E f \in Fields : \E v \in Values[f] : EditField(f, v)
  \/ \E site \in Sites : ChooseSite(site)
  \/ \E i \in DOMAIN Sizes : GoToIndex(i)
  \/ VisitZcode
  \/ \E i \in DOMAIN Sizes, z \in Known : EnterZcode(i, z)
  \/ \E t \in Texts : EnterText(t)

Spec == Init /\ [][Next]_vars

-----------------------------------------------------------------------------
(* Properties                                                               *)

(* The bits of the first digits of a number, modulo a prime, by its value:   *)
(* a reference for the two base conversions that needs no division.          *)
Residue(digits, base, prime) ==
  LET value[k \in 0 .. Len(digits)] ==
        IF k = 0 THEN 0 ELSE (base * value[k - 1] + digits[k]) % prime
  IN  value[Len(digits)]

Primes == {9999991, 49999991}

(* The text and the bits it was computed from are the same number, for       *)
(* numbers of several packs and with any number of zeros in front            *)
(* (encode_zcode_24_bit_pack_numbers, div_24_bit_pack_numbers_36).           *)
TextIsTheNumber ==
  \A prime \in Primes :
    Residue(recomputeZcode(win).text.letters, Radix, prime) =
      Residue(Reverse(WindowBits(win)), 2, prime)

(* The characters of a string that are coded.                                *)
CodedString(data) ==
  LET list == trimmed(data)
  IN  FlattenSeq([k \in DOMAIN list |->
                    IF list[k] \in DOMAIN codes THEN <<list[k]>> ELSE <<>>])

(* Metadata without the characters that are not coded.                       *)
Coded(meta) == [f \in Fields |-> CodedString(meta[f])]

(* Where the metadata ends in the mark by itself, because its last character *)
(* is a W, BitsRemoveIfStartStop takes it for empty.                         *)
LastData(meta, site) ==
  LET coded == Coded(meta)
      all == coded["rev"] \o coded["file"] \o coded["repo"]
  IN  IF site # 1 THEN SiteDigits[site]
      ELSE IF all = <<>> THEN "" ELSE Last(all)
Telling(selected, meta, site) == selected # {} /\ LastData(meta, site) # "W"

(* Entering the field of the Zcode and leaving it again changes nothing but  *)
(* the characters that are not coded: the text is computed on the way in     *)
(* and decoded on the way out (MyQLineEdit::focusInEvent,                    *)
(* on_zcode_editingFinished), and what comes out is what went in.            *)
VisitKeepsAll ==
  [][last'.op = "visit" /\ Telling(win.selected, win.meta, win.site) =>
       win' = [recomputeZcode(win) EXCEPT !.meta = Coded(@)]]_vars

(* A Zcode that is entered is obeyed: index, metadata and selection become   *)
(* the ones it was made for, as far as the index has such zekylls, whether   *)
(* the selectors are applied at once or set aside for a listing.             *)
EntryObeyed ==
  [][last'.op = "enter" =>
       LET z == last'.zcode
       IN  Telling(z.selected, z.meta, z.site) =>
             /\ win'.index = last'.index
             /\ win'.meta = Coded(z.meta) /\ win'.site = z.site
             /\ win'.selected = z.selected \cap 1 .. SizeOf(win'.index)]_vars

(* The text that stands after a Zcode was entered is the one the window      *)
(* would compute: a Zcode has one text, and one that was truncated is        *)
(* computed anew.  Not so at the index shown already when the Zcode changes  *)
(* the site, as the text is then computed before the selectors are applied,  *)
(* or when a blank was kept inside by a character that has no code: the next *)
(* text is computed without it.                                              *)
EnteredTextStands ==
  [][last'.op = "enter" =>
       LET z == last'.zcode
       IN  (win'.index = win.index =>
              /\ Telling(z.selected, z.meta, z.site) /\ z.site = win.site
              /\ Coded(Coded(z.meta)) = Coded(z.meta)) =>
             win'.text = recomputeZcode(win').text]_vars

=============================================================================
