---------------------------- MODULE MCComponents ----------------------------
(* Instances of Components for TLC: constants that a cfg cannot write.     *)
EXTENDS Components

McLevels == 0 .. 2
McScores == 0 .. 2
McPlugins == <<"memory", "skill", "todo">>
McToolNames ==
  [memory |-> {<<"memory", "store">>, <<"memory", "recall">>},
   skill  |-> {<<"skill", "skill">>},
   todo   |-> {<<"todo", "todo">>, <<"memory", "recall">>}]
McHookList == [memory |-> <<70, 80>>, skill |-> <<60>>, todo |-> <<60>>]
McToolLists == {{}, {<<"*">>}, {<<"memory", "*">>, <<"todo", "todo">>}}
McSkillPaths == <<"first", "second">>

=============================================================================
