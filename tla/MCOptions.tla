----------------------------- MODULE MCOptions -----------------------------
(* The command lines and the commands that TLC tries.                      *)
EXTENDS OptionsProps

MarkSpecs == {<<"1">>, <<"3", ":", "a">>, <<"2", ":", "a", ":", "b">>,
              <<"1", ":", "a", ":", "b", ":">>, <<"2", ":", ":", "b">>,
              <<"2", "/", ":", "/", ":">>, <<"1", ":", "a">>, << >>}
Names == {<<"red">>, <<"bright-", "red">>, <<"bright-", "bright-", "red">>, <<"pink">>}

Given == [opt : {"mark"}, arg : MarkSpecs] \cup [opt : {"color"}, arg : Names]
           \cup [opt : {"h", "V", "v", "d", "unknown"}, arg : {<< >>}]
           \cup [opt : {"copy"}, arg : {<<"f">>, <<"g">>}]

(* All sequences of up to 3 options. *)
UpToThree == SeqOf(Given, 3)

UpToOne   == SeqOf(Given, 1)

(* No command at all, and paths with a slash in every place; one has an    *)
(* argument.                                                               *)
Paths == {<<"a">>, <<"/", "a">>, <<"a", "/", "/", "b">>, <<"a", "/">>, <<"/">>, << >>}
SomeCommands == {<< >>} \cup {<<path>> : path \in Paths} \cup {<< <<"a">>, <<"control">> >>}
WideCommands == {<< <<"a">>, <<"high">> >>}
=============================================================================
