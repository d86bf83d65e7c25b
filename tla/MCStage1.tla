------------------------------ MODULE MCStage1 ------------------------------
(***************************************************************************)
(* Values of the constants of Stage1 for TLC.                              *)
(***************************************************************************)
EXTENDS Stage1

(* Memory holds zeros, or what looks like a page or like a table.          *)
AnyJunk == {Zero, Page(1), Table(2 * page_table_size)}
=============================================================================
