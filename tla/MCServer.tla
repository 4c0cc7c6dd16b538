------------------------------- MODULE MCServer -------------------------------
(***************************************************************************)
(* A small instance of Server for TLC.                                     *)
(***************************************************************************)
EXTENDS Server

\* One statement (a listing); a write and its change record; a statement, the
\* transaction of the nodes and a statement.
SomeScripts == {<<1>>, <<1, 1>>, <<1, 3, 1>>}
=============================================================================
