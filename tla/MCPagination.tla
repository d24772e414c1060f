---------------------------- MODULE MCPagination ----------------------------
(* Four rows, pages of nothing to two.                                      *)
EXTENDS Pagination

FourIds == 1 .. 4
UpToTwo == 0 .. 2
=============================================================================
