------------------------------ MODULE MCShell ------------------------------
(* Instances of Shell for TLC: each built-in command by what it prints, the
   programs by whether they are found, every way a redirection can go. *)
EXTENDS Shell

MCOpens == {<<>>, <<"<", "i">>, <<">", "o">>, <<"<", "i", ">", "o">>}
MCFails == {<<"<", "none">>, <<"<", "i", ">", "dir">>, <<">">>}
MCLines == {<<"echo", "x">> \o w : w \in MCOpens \cup MCFails}
           \cup {<<"echo", "-n", "x">> \o w : w \in MCOpens}
           \cup {<<"nosuch">> \o w : w \in {<<>>, <<">", "o">>, <<"<", "none">>}}
           \cup {<<"ls">>, <<"ls", ">", "o">>}
           \cup {<<"ls", "|", "ls">>, <<"ls", "|", "nosuch">>, <<"nosuch", "|", "ls">>}
           \cup {<<"record">>, <<"record", ">", "o">>, <<"exit">>, <<"exit", ">", "o">>}
           \cup {Blank, <<">", "o">>, <<"cd", "x">>, <<"echo", "x", "x", "x">>}
=============================================================================
