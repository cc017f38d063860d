------------------------------- MODULE LZCSDE -------------------------------
(***************************************************************************)
(* The list of zekylls, checks, sections, descriptions and errors: entries *)
(* that are looked up by their id and kept in the order of the table.      *)
(* What an entry holds beside its id is up to the module that uses them.   *)
(***************************************************************************)
EXTENDS Integers, Sequences

(* LZCSDE::findIdxOfId: the first entry with that id, 0 if there is none.    *)
findIdxOfId(s, id) ==
  IF \E k \in DOMAIN s : s[k].id = id
    THEN CHOOSE k \in DOMAIN s :
           s[k].id = id /\ \A j \in DOMAIN s : j < k => s[j].id # id
    ELSE 0

Without(s, k) ==
  [j \in 1 .. Len(s) - 1 |-> IF j < k THEN s[j] ELSE s[j + 1]]

Swapped(s, j, k) == [s EXCEPT ![j] = s[k], ![k] = s[j]]

(* Mutant of LZCSDE_move: the id is taken for the index.                     *)
move_by_id(s, source, dest) ==
  IF source \in DOMAIN s /\ dest \in DOMAIN s THEN Swapped(s, source, dest) ELSE s

(* LZCSDE::move *)
LZCSDE_move(s, source, dest) ==
  LET j == findIdxOfId(s, source)
      k == findIdxOfId(s, dest)
  IN  IF j = 0 \/ k = 0 THEN s ELSE Swapped(s, j, k)

(* LZCSDE::removeId *)
removeId(s, id) ==
  LET k == findIdxOfId(s, id) IN IF k = 0 THEN s ELSE Without(s, k)

=============================================================================
