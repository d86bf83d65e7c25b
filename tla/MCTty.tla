------------------------------- MODULE MCTty -------------------------------
(***************************************************************************)
(* Values of the constants of Tty for TLC.                                 *)
(***************************************************************************)
EXTENDS Tty

OneSign == <<">">>
=============================================================================
