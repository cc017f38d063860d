--------------------------- MODULE MCSavePipeline ---------------------------
(* Instances of SavePipeline for TLC.                                        *)
EXTENDS SavePipeline

N(z, l) == [zekyll |-> z, label |-> l]

(* Three zekylls of the index and one of another index.                      *)
MCThree == <<N(1, 1), N(2, 1), N(3, 0), N(6, 1)>>

(* Two files with one zekyll, as zkiresize reports an inconsistent index.    *)
MCDuplicates == <<N(1, 1), N(1, 0), N(3, 1)>>

(* Two zekylls of the index and one of another index.                        *)
MCTwo == <<N(1, 1), N(2, 1), N(6, 1)>>

MCEdited == {MCThree, MCDuplicates}
MCLate == {MCTwo}

(* A larger size, or something that is no size.                              *)
MCGrow == {NotANumber, 4}

=============================================================================
