--------------------------- MODULE MCZekyllLoader ---------------------------
(* Instances of ZekyllLoader for TLC.                                        *)
EXTENDS ZekyllLoader

CONSTANTS p1, p2

(* Two repositories: p1 has a hole in index 1 and a full index 2; p2 has a   *)
(* short index 1 and an empty index 2.                                       *)
MCListing ==
  [p \in Paths |->
     [i \in Indexes |->
        CASE p = p1 /\ i = 1 -> <<Zekyll(1, 1), Zekyll(1, 3)>>
          [] p = p1 /\ i = 2 -> <<Zekyll(2, 1), Zekyll(2, 2), Zekyll(2, 3)>>
          [] p = p2 /\ i = 1 -> <<Zekyll(1, 2)>>
          [] OTHER           -> <<>>]]

=============================================================================
