---------------------------- MODULE MCInterrupts ----------------------------
(***************************************************************************)
(* Values of the constants of Interrupts for TLC.                          *)
(***************************************************************************)
EXTENDS Interrupts

(* What SnakeOS requests; a driver on the slave chip; the same driver once *)
(* the cascade input is requested too, after a request that is refused.    *)
NoOthers   == <<>>
OnSlave    == <<12>>
ViaCascade == <<16, 2, 12>>
=============================================================================
