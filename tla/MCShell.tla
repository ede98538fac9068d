------------------------------ MODULE MCShell -------------------------------
(***************************************************************************)
(* Lines for Shell: what a user may type by mistake.                        *)
(***************************************************************************)
EXTENDS Shell

(* Every text of up to four of these characters, ... *)
Short == UNION {[1..n -> {"mem", "free", " ", NUL}] : n \in 0..4}
(* ... and lines as long as the buffer, of the shortest words there are. *)
Full == {[k \in 1..(MaxLineLen - 1) |-> IF k % 2 = r THEN "x" ELSE " "] : r \in {0, 1}}

(* Commands that are given too little, or something else. *)
Wrong == {<<"x">>, <<"x", " ", "/">>, <<"x", " ", "/", " ", "1">>, <<"x", " ", "/", "a", " ", "1">>,
          <<"int">>, <<"sched", " ", "x">>, <<"mem", " ", "alloc", " ", "0">>,
          <<"mem", " ", "free", " ", "1">>, <<"log_level">>, <<"log_level", " ", "9">>,
          <<"x", " ", "0", "x", "A", "1">>, <<"x", " ", "0", "1", "7">>}

MCScribbles == Full \cup {text \o <<"\n">> : text \in Short \cup Wrong}
MCLeads == {<<>>, <<" ", " ">>}
=============================================================================
