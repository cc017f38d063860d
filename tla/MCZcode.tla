------------------------------- MODULE MCZcode -------------------------------
(* ZcodeEntry with an index longer than a pack and a short one.              *)
EXTENDS ZcodeEntry

Meta(rev, file, repo) == [rev |-> rev, file |-> file, repo |-> repo]

MCSizes == 1 :> 26 @@ 2 :> 3
MCValues == [rev |-> {<<>>, <<"b", "W">>},
             file |-> {<<"é", " ", "2">>},
             repo |-> {<<>>}]
MCKnown ==
  {[selected |-> {1, 3}, size |-> 3, meta |-> Meta(<<>>, <<>>, <<>>), site |-> 1],
   [selected |-> {2, 25}, size |-> 26, meta |-> Meta(<<>>, <<>>, <<"b", "/", "Z">>), site |-> 3],
   [selected |-> {3, 30}, size |-> 40, meta |-> Meta(<<"b", "W">>, <<"é", " ", "2", " ">>, <<>>), site |-> 1],
   [selected |-> {}, size |-> 3, meta |-> Meta(<<>>, <<"2">>, <<>>), site |-> 1],
   [selected |-> {1}, size |-> 3, meta |-> Meta(<<"b", "W">>, <<>>, <<>>), site |-> 1]}
MCTexts ==
  {NumberText(1, <<>>), NumberText(2, <<1>>), NumberText(1, <<10, 36>>),
   [form |-> "none", index |-> 0, letters |-> <<0, 20>>],
   [form |-> "word", index |-> 0, letters |-> <<20>>],
   [form |-> "slashes", index |-> 1, letters |-> <<20>>]}

(* What was done last is a history variable: nothing depends on it.                   *)
MCView == win
=============================================================================
