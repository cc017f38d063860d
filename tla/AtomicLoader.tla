---------------------------- MODULE AtomicLoader ----------------------------
(***************************************************************************)
(* What the loading of an index promises to a user who waits: the window   *)
(* is asked for an index of a repository and shows nothing; then, in one   *)
(* step, it shows the listing of that very index, or nothing because there *)
(* is none to be had.  No process, no second answer, no rows of anything   *)
(* else.  ZekyllLoader implements this (reloadRepository up to the answer  *)
(* that ends the loading, mainwindow.cpp).                                 *)
(***************************************************************************)
EXTENDS Sequences

CONSTANTS Paths, NoPath, Indexes, Listing

VARIABLES
  current_path,   \* the repository
  current_index,  \* and its index that the user asked for last
  pending,        \* the answer has not come yet
  shown           \* the zekylls that can be seen and used

vars == <<current_path, current_index, pending, shown>>

Init ==
  /\ current_path = NoPath /\ current_index = 1
  /\ pending = FALSE /\ shown = <<>>

Ask(p, i) ==
  /\ current_path' = p /\ current_index' = i
  /\ pending' = TRUE /\ shown' = <<>>

Answer ==
  /\ pending /\ pending' = FALSE
  /\ \/ shown' = <<>>
     \/ current_path \in Paths /\ shown' = Listing[current_path][current_index]
  /\ UNCHANGED <<current_path, current_index>>

Next ==
  \/ \E p \in Paths \cup {NoPath}, i \in Indexes : Ask(p, i)
  \/ Answer

Spec == Init /\ [][Next]_vars

Answered == pending ~> ~pending

=============================================================================
