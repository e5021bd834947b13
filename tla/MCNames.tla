------------------------------- MODULE MCNames -------------------------------
(***************************************************************************)
(* A small instance of ServerInfo for TLC: two clients who ask for the     *)
(* same name, and maps that are loaded.                                    *)
(***************************************************************************)
EXTENDS ServerInfo

MCSizeOf(n) == 1
===============================================================================
