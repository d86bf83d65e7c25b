------------------------------- MODULE MCBoot -------------------------------
(***************************************************************************)
(* Values of the constants of Boot for TLC.                                *)
(***************************************************************************)
EXTENDS Boot

(* Memory holds zeros, or what looks like a page or like a table.          *)
AnyJunk == {Zero, Page(1), Table(2 * page_table_size)}
=============================================================================
