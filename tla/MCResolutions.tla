---------------------------- MODULE MCResolutions ----------------------------
(***************************************************************************)
(* A small instance of Resolutions for TLC.                                *)
(***************************************************************************)
EXTENDS Resolutions

\* A failed run keeps the first of its diagnostics.
TwoDiags == {<<"MISSING", "CONFLICT">>}
=============================================================================
