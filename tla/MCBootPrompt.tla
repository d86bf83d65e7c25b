---------------------------- MODULE MCBootPrompt ----------------------------
(***************************************************************************)
(* Values of the constants of BootPrompt for TLC.                          *)
(***************************************************************************)
EXTENDS BootPrompt

OneSign == <<">">>
=============================================================================
