----------------------------- MODULE MCConsole ------------------------------
(***************************************************************************)
(* A small keyboard and a small screen for Console.                         *)
(***************************************************************************)
EXTENDS Console

MCKbdus ==
    [zero |-> NUL, ctrl |-> NUL, shift |-> NUL, l |-> "l", back |-> BS, enter |-> "\n", tab |-> "\t"]
MCKeys == DOMAIN MCKbdus
MCZero == <<"zero", TRUE>>
MCUppercase == [l |-> "L"]
=============================================================================
