---------------------------- MODULE MCIndexTable ----------------------------
(* Instances of IndexTable for TLC.                                          *)
EXTENDS IndexTable

(* Without holes, as Save leaves an index.                                   *)
MCFull == <<1, 2, 3>>

(* With holes before, between and after its zekylls.                         *)
MCHoles == <<2, 3, 5, 6, 7, 8, 9>>

(* Two zekylls with a hole between.                                          *)
MCShort == <<1, 3>>

=============================================================================
