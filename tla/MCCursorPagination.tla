------------------------- MODULE MCCursorPagination -------------------------
(* Four rows in two milliseconds, pages of two.                            *)
EXTENDS CursorPagination
=============================================================================
