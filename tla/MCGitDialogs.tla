---------------------------- MODULE MCGitDialogs ----------------------------
(* Instances of GitDialogs for TLC.                                          *)
EXTENDS GitDialogs

MCBranches == {"dev", "master"}
MCOrder == <<"dev", "master">>

(* The lists of lgit are read again before they are used: while no dialog is *)
(* open they tell no two states apart, but for the analysis of the merge.    *)
MCView ==
  << repo, upstream, IF dialog = "none" THEN lgit.analysis ELSE lgit, handle, dialog,
     chosen, pending, offers, tracker, halted, met >>

=============================================================================
