-------------------------------- MODULE MCMenu --------------------------------
(***************************************************************************)
(* A small instance of Menu for TLC: two players who look at their menus   *)
(* at the same time.                                                       *)
(***************************************************************************)
EXTENDS Menu

CONSTANTS p1, p2

MCMakeItems == <<"i1", "i2">>
===============================================================================
